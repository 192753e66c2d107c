----------------------------- MODULE WireFormat -----------------------------
(***************************************************************************)
(* The two codecs of the client as operators: the engine.io framing of     *)
(* engine.io/v4/parser, and the default socket.io parser and serialiser of *)
(* socket.io/v5/parser/default.                                            *)
(*                                                                         *)
(* A text is a sequence of bytes.  What is inside JSON does not matter to  *)
(* these codecs beyond its brackets, so each JSON string or value (an      *)
(* array or object nested in another one included) is one symbol above the *)
(* bytes, and the commas between array elements are left out.  An optional *)
(* field is a sequence of length 0 or 1.                                   *)
(***************************************************************************)
EXTENDS Naturals, Sequences

CONSTANTS
  MaxAckDigits,      \* digits an acknowledgement id may have (18)
  MaxSerializeSize   \* outbound limit of the engine.io framing

ASSUME WireAssumption == MaxAckDigits \in Nat \ {0} /\ MaxSerializeSize \in Nat

Comma == 44
Slash == 47
Zero == 48
OpenBracket == 91
CloseBracket == 93
OpenBrace == 123
CloseBrace == 125
RecordSeparator == 30    \* between the packets of one polling payload

(* Symbols for JSON: strings, among them the event names, and other values.*)
Name == [empty |-> 256, connect |-> 257, disconnect |-> 258, error |-> 259, news |-> 260]
Json == [null |-> 300, number |-> 301, object |-> 302, wrong |-> 303]
JsonStrings == {Name[n] : n \in DOMAIN Name}
JsonSymbols == JsonStrings \cup {Json[v] : v \in DOMAIN Json}

(* Packet types.                                                           *)
Connect == 0
Disconnect == 1
Event == 2
Ack == 3
ConnectError == 4
Binary == {5, 6}

Root == <<Slash>>

Failed == [ok |-> FALSE]
Done(x) == [ok |-> TRUE, value |-> x]

(* byte(type) + '0' and back, in the arithmetic of bytes.                  *)
TypeByte(type) == (type + Zero) % 256
TypeOf(byte) == (byte + 256 - Zero) % 256

IsDigit(b) == b \in Zero..(Zero + 9)

(* The first index of text where P holds; 0 when there is none.            *)
FirstIndex(text, P(_)) ==
  LET hits == {i \in 1..Len(text) : P(text[i])}
  IN IF hits = {} THEN 0 ELSE CHOOSE i \in hits : \A j \in hits : i <= j

From(text, i) == SubSeq(text, i, Len(text))

-----------------------------------------------------------------------------
(* engine.io: one type byte in front of the data, 0 for open to 6 for noop.*)

EngineMessage == 4
Noop == 6

EngineSerialize(type, data) ==
  IF Len(data) > MaxSerializeSize THEN Failed ELSE Done(<<TypeByte(type)>> \o data)

(* The subtraction wraps around, so one comparison rejects every byte that *)
(* is not a type.                                                          *)
EngineParse(text) ==
  IF text = <<>> THEN Failed
  ELSE IF TypeOf(text[1]) > Noop THEN Failed
  ELSE Done([type |-> TypeOf(text[1]), data |-> Tail(text)])

-----------------------------------------------------------------------------
(* socket.io messages.                                                     *)

Message(type, ns) ==
  [type |-> type, ns |-> ns, ack |-> <<>>, event |-> <<>>, payload |-> <<>>, error |-> <<>>]

-----------------------------------------------------------------------------
(* Serialize.                                                              *)

(* An id in decimal: dividing it by ten until nothing is left gives its    *)
(* digits from the last to the first.                                      *)
Quotients(n) ==
  LET q[k \in 0..(MaxAckDigits + 1)] == IF k = 0 THEN n ELSE q[k-1] \div 10 IN q
Digits(n) ==
  LET q == Quotients(n)
      widths == {w \in 1..(MaxAckDigits + 1) : q[w] = 0}
      width == CHOOSE w \in widths : \A v \in widths : w <= v
  IN [i \in 1..width |-> Zero + (q[width - i] % 10)]

validateMessage(m) ==
  /\ m.type \notin Binary
  /\ m.type = Event => m.event # <<>> /\ m.event[1].name # Name.empty

(* Mutant: the separator behind the namespace is forgotten.                *)
NamespacePrefixBare(ns) == IF ns \in {Root, <<>>} THEN <<>> ELSE ns

NamespacePrefix(ns) == IF ns \in {Root, <<>>} THEN <<>> ELSE Append(ns, Comma)

(* An event is an array of its name and its arguments; a payload takes its *)
(* place, and is left out when it is null, "" or {}.                       *)
EventText(e) ==
  <<OpenBracket>> \o (IF e.name = Name.empty THEN <<>> ELSE <<e.name>>) \o e.args
    \o <<CloseBracket>>
BlankPayloads == {<<Json.null>>, <<Name.empty>>, <<OpenBrace, CloseBrace>>}
JsonText(m) ==
  CASE m.payload # <<>> -> IF m.payload[1] \in BlankPayloads THEN <<>> ELSE m.payload[1]
    [] m.payload = <<>> /\ m.event # <<>> -> EventText(m.event[1])
    [] OTHER -> <<>>

Serialize(m) ==
  IF ~validateMessage(m) THEN Failed
  ELSE Done(<<TypeByte(m.type)>> \o NamespacePrefix(m.ns)
              \o (IF m.ack = <<>> THEN <<>> ELSE Digits(m.ack[1])) \o JsonText(m))

-----------------------------------------------------------------------------
(* Parse.                                                                  *)

(* extractNamespace: a text that starts with / has a namespace up to the   *)
(* first comma, unless a bracket comes before it.                          *)
NamespaceEnd(text) ==
  LET stop == FirstIndex(text, LAMBDA b : b \in {Comma, OpenBracket, OpenBrace})
  IN IF text[1] = Slash /\ stop > 0 /\ text[stop] = Comma THEN stop ELSE 0

(* extractAckId: the digits in front.                                      *)
AckWidth(text) ==
  LET stop == FirstIndex(text, LAMBDA b : ~IsDigit(b))
  IN IF stop = 0 THEN Len(text) ELSE stop - 1
Number(digits) ==
  LET value[i \in 0..Len(digits)] ==
        IF i = 0 THEN 0 ELSE 10 * value[i-1] + (digits[i] - Zero)
  IN value[Len(digits)]

(* ParseEvent: an array; the first element of an event must be a string.   *)
(* Whatever follows the array is not looked at.                            *)
ParseEvent(text, isAck) ==
  LET close == FirstIndex(text, LAMBDA b : b = CloseBracket)
      items == SubSeq(text, 2, close - 1)
      nameOk == items # <<>> /\ items[1] \in JsonStrings \cup {Json.null}
      name == IF items[1] = Json.null THEN Name.empty ELSE items[1]
  IN CASE \/ text[1] # OpenBracket \/ close = 0
          \/ \E i \in 1..Len(items) : items[i] \notin JsonSymbols -> Failed
       [] ~isAck /\ ~nameOk -> Failed
       [] isAck -> Done([name |-> Name.empty, args |-> items])
       [] OTHER -> Done([name |-> name, args |-> Tail(items)])

(* Mutant: a message without a body is accepted whatever its type.         *)
EmptyBodyAccepted(m) == Done(m)

(* Nothing follows the namespace or the id.                                *)
EmptyBody(m) == IF m.type \in {Event, Ack, ConnectError} THEN Failed ELSE Done(m)

(* Payload is never set.                                                   *)
ParseBody(m, text) ==
  CASE m.type \in {Event, Ack} ->
         LET event == ParseEvent(text, m.type = Ack)
         IN IF event.ok THEN Done([m EXCEPT !.event = <<event.value>>]) ELSE Failed
    [] m.type = ConnectError -> Done([m EXCEPT !.error = <<text>>])
    [] OTHER -> Done(m)

ParseAck(m, text) ==
  LET width == AckWidth(text)
      acked == IF width = 0 THEN m
               ELSE [m EXCEPT !.ack = <<Number(SubSeq(text, 1, width))>>]
      after == From(text, width + 1)
  IN CASE width > MaxAckDigits -> Failed
       [] width <= MaxAckDigits /\ after = <<>> -> EmptyBody(acked)
       [] OTHER -> ParseBody(acked, after)

Parse(text) ==
  IF text = <<>> \/ TypeOf(text[1]) \in Binary THEN Failed
  ELSE LET plain == Message(TypeOf(text[1]), Root)
           rest == Tail(text)
           comma == NamespaceEnd(rest)
           m == IF comma = 0 THEN plain ELSE [plain EXCEPT !.ns = SubSeq(rest, 1, comma - 1)]
           after == From(rest, comma + 1)
       IN CASE rest = <<>> -> Done(plain)
            [] rest # <<>> /\ after = <<>> -> EmptyBody(m)
            [] OTHER -> ParseAck(m, after)

-----------------------------------------------------------------------------
(* What the two directions promise each other.                             *)

(* The messages the client makes.  A namespace has none of the bytes that  *)
(* end it, an acknowledgement id has its width, an acknowledgement carries *)
(* an array without a name, and only a connect or disconnect packet may    *)
(* have a payload, which is an object.                                     *)
Symbols == (0..255) \cup JsonSymbols
IsNamespace(ns) ==
  /\ ns # <<>> /\ ns[1] = Slash
  /\ \A i \in 1..Len(ns) : ns[i] \notin {Comma, OpenBracket, OpenBrace}
IsObject(text) == text \in BlankPayloads \/ (text # <<>> /\ text[1] = OpenBrace)
Messages ==
  [type : {Connect, Disconnect, Event, Ack}, ns : Seq(0..255), ack : Seq(Nat),
   event : Seq([name : JsonStrings, args : Seq(JsonSymbols)]), payload : Seq(Seq(Symbols)),
   error : {<<>>}]
Sendable(m) ==
  /\ m \in Messages /\ IsNamespace(m.ns)
  /\ Len(m.ack) <= 1 /\ Len(m.event) <= 1 /\ Len(m.payload) <= 1
  /\ m.ack # <<>> => Quotients(m.ack[1])[MaxAckDigits] = 0
  /\ m.type = Ack => m.event # <<>> /\ m.event[1].name = Name.empty
  /\ m.type \in {Event, Ack} => m.payload = <<>>
  /\ m.type \in {Connect, Disconnect} => m.event = <<>>
  /\ m.payload # <<>> => IsObject(m.payload[1])

ReadBack(m) ==
  LET text == Serialize(m)
      another == <<RecordSeparator, TypeByte(EngineMessage)>> \o text.value
  IN text.ok => /\ Parse(text.value) = Done([m EXCEPT !.payload = <<>>])
                /\ m.type = Event => Parse(text.value \o another) = Parse(text.value)

HasBody(m) ==
  /\ m.type \in {Event, Ack} => m.event # <<>>
  /\ m.type = ConnectError => m.error # <<>>

=============================================================================
