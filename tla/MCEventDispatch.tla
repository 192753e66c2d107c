--------------------------- MODULE MCEventDispatch --------------------------
(***************************************************************************)
(* Handlers, texts and messages for the runs of EventDispatch.             *)
(***************************************************************************)
EXTENDS EventDispatch

(* A handler for connect, one with a parameter for an event, and something *)
(* that is no function registered for the same event.                      *)
MCEventOf == [h \in Handlers |-> IF h = "onConnect" THEN Name.connect ELSE Name.news]
MCParams == [h \in Handlers |-> CASE h = "onConnect" -> "none"
                                  [] h = "onNews" -> "one"
                                  [] OTHER -> "notFunc"]
CallbackParams == [h \in Handlers |-> "one"]

Admin == <<Slash, 97>>
MCRoot == Root
MCNamespaces == {Root, Admin}

Packet(data) == <<TypeByte(EngineMessage)>> \o data
News(ns, value) ==
  [Message(Event, ns) EXCEPT !.event = <<[name |-> Name.news, args |-> <<value>>]>>]
Text(m) == Packet(Serialize(m).value)

(* Packets of the default namespace and of one the client does not know; a *)
(* single byte for an event and for an error; an event without an array;   *)
(* an acknowledgement; two packets in one polling payload; a noop.         *)
AllTexts ==
  {Text(Message(Connect, ns)) : ns \in MCNamespaces}
    \cup {Text(News(ns, Json.number)) : ns \in MCNamespaces}
    \cup {Text(News(Root, Json.wrong)), Packet(<<TypeByte(Event)>>),
          Packet(<<TypeByte(ConnectError)>>),
          Packet(<<TypeByte(ConnectError), OpenBrace, CloseBrace>>),
          Text(Message(Disconnect, Root)), Packet(<<TypeByte(Event), Name.news>>),
          Packet(<<TypeByte(Ack), 49, OpenBracket, CloseBracket>>),
          Text(News(Root, Json.number)) \o <<RecordSeparator>>
            \o Text(Message(Disconnect, Root)),
          <<TypeByte(Noop)>>}
ConnectOnly == {Text(Message(Connect, Root))}

(* Every combination of a namespace (with digits, and with a bracket's     *)
(* neighbour in it), an id at the edges of its width, and a body.          *)
MCMessages ==
  LET names == {Root, Admin, <<Slash, 97, 49>>, <<Slash, 49, Slash>>}
      acks == {<<>>, <<0>>, <<7>>, <<10>>, <<99>>}
      args == {<<>>, <<Json.number>>, <<Name.news, Json.null>>}
      events == {[name |-> n, args |-> a] : n \in {Name.empty, Name.news}, a \in args}
      payloads == {<<OpenBrace, CloseBrace>>, <<OpenBrace, Json.object, CloseBrace>>}
  IN {[Message(Event, ns) EXCEPT !.ack = k, !.event = <<e>>] :
        ns \in names, k \in acks, e \in events}
       \cup {[Message(Ack, ns) EXCEPT !.ack = k, !.event = <<e>>] :
               ns \in names, k \in acks \ {<<>>},
               e \in {x \in events : x.name = Name.empty}}
       \cup {[Message(Connect, ns) EXCEPT !.payload = <<p>>] :
               ns \in names, p \in payloads}
       \cup {Message(Disconnect, ns) : ns \in names}

(* All texts of up to five bytes over one member of each class of byte.    *)
MCTexts ==
  LET alphabet == {49, 50, 51, 52, Slash, Comma, OpenBracket, CloseBracket, Name.news}
  IN UNION {[1..n -> alphabet] : n \in 0..5}
=============================================================================
