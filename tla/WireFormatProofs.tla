-------------------------- MODULE WireFormatProofs --------------------------
(***************************************************************************)
(* Proofs about the two codecs, for texts and messages of any length and   *)
(* any limits: a message the parser accepts has its body, and a message    *)
(* the client can send is read back as it was sent.                        *)
(*                                                                         *)
(* The second rests on three boundaries that the parser finds again in     *)
(* what the serialiser writes: the comma behind the namespace (CommaAt),   *)
(* the end of the digits of the id (WidthIs) and the bracket that closes   *)
(* the array (EventRead).  The id itself is written by repeated division   *)
(* and read by repeated multiplication: the values the reader passes are   *)
(* the quotients the writer passed, backwards (NumberIs).                  *)
(***************************************************************************)
EXTENDS WireFormat, SequenceTheorems, WellFoundedInduction, TLAPS

USE WireAssumption

-----------------------------------------------------------------------------
(* A message the parser accepts has its body.                              *)

(* What the parser knows of a message in the making.                       *)
IsMessage(m) == DOMAIN m = {"type", "ns", "ack", "event", "payload", "error"}

(* What follows the id gives the message its body.                         *)
LEMMA BodyRead ==
  ASSUME NEW m, IsMessage(m), NEW text, ParseBody(m, text).ok
  PROVE  HasBody(ParseBody(m, text).value)
<1> USE DEF ParseBody, Done, Failed, HasBody, Event, Ack, ConnectError, IsMessage
<1>1. CASE m.type \in {Event, Ack}
  BY <1>1
<1>2. CASE m.type = ConnectError
  <2>1. ParseBody(m, text).value = [m EXCEPT !.error = <<text>>]
    BY <1>2
  <2>2. /\ [m EXCEPT !.error = <<text>>].error = <<text>>
        /\ [m EXCEPT !.error = <<text>>].type = m.type
    OBVIOUS
  <2> QED BY <1>2, <2>1, <2>2
<1>3. CASE m.type \notin {Event, Ack, ConnectError}
  BY <1>3
<1> QED BY <1>1, <1>2, <1>3

(* Only a message without a body may end with its header.                  *)
LEMMA NothingRead ==
  ASSUME NEW m, EmptyBody(m).ok PROVE HasBody(EmptyBody(m).value)
BY DEF EmptyBody, Done, Failed, HasBody

(* The id does not matter to the body.                                     *)
LEMMA AckRead ==
  ASSUME NEW m, IsMessage(m), NEW text, ParseAck(m, text).ok
  PROVE  HasBody(ParseAck(m, text).value)
<1> DEFINE width == AckWidth(text)
           acked == IF width = 0 THEN m
                    ELSE [m EXCEPT !.ack = <<Number(SubSeq(text, 1, width))>>]
           after == From(text, width + 1)
<1>1. IsMessage(acked)
  BY DEF IsMessage
<1>2. ParseAck(m, text) \in {Failed, EmptyBody(acked), ParseBody(acked, after)}
  BY DEF ParseAck
<1> HIDE DEF acked, after
<1> QED BY <1>1, <1>2, BodyRead, NothingRead DEF Failed

(* An event, acknowledgement or error that Parse accepts has the body that *)
(* onMessage goes on to use, whatever text the server sends, unless the    *)
(* packet is a single byte.                                                *)
THEOREM ParsedHasBody ==
  ASSUME NEW text \in Seq(Symbols), Len(text) > 1, Parse(text).ok
  PROVE  HasBody(Parse(text).value)
<1> DEFINE plain == Message(TypeOf(text[1]), Root)
           rest == Tail(text)
           comma == NamespaceEnd(rest)
           m == IF comma = 0 THEN plain ELSE [plain EXCEPT !.ns = SubSeq(rest, 1, comma - 1)]
           after == From(rest, comma + 1)
<1>1. IsMessage(m)
  BY DEF IsMessage, Message
<1>2. rest # <<>>
  <2>1. text # <<>>
    BY EmptySeq
  <2>2. rest \in Seq(Symbols) /\ Len(rest) = Len(text) - 1
    BY <2>1, HeadTailProperties
  <2>3. Len(text) \in Nat
    BY LenProperties
  <2>4. Len(rest) # 0
    <3> HIDE DEF rest
    <3> QED BY <2>2, <2>3
  <2> HIDE DEF rest
  <2> QED BY <2>4, EmptySeq
<1>3. Parse(text) \in {Failed, EmptyBody(m), ParseAck(m, after)}
  BY <1>2 DEF Parse
<1> HIDE DEF m, after
<1> QED BY <1>1, <1>3, AckRead, NothingRead DEF Failed

-----------------------------------------------------------------------------
(* Where the parts of a packet end.                                        *)

(* The first index that FirstIndex chooses is the least one.               *)
LEMMA LeastIs ==
  ASSUME NEW hits, hits \subseteq Nat, NEW i \in hits, \A j \in hits : i <= j
  PROVE  (CHOOSE k \in hits : \A j \in hits : k <= j) = i
<1>1. \A k \in hits : (\A j \in hits : k <= j) => k = i
  OBVIOUS
<1> QED BY <1>1

(* A namespace ends at the first comma, as no bracket is in front of it.   *)
LEMMA CommaAt ==
  ASSUME NEW text \in Seq(Symbols), NEW n \in 1..Len(text), text[1] = Slash, text[n] = Comma,
         \A i \in 1..(n-1) : text[i] \notin {Comma, OpenBracket, OpenBrace}
  PROVE  NamespaceEnd(text) = n
<1> DEFINE hits == {i \in 1..Len(text) : text[i] \in {Comma, OpenBracket, OpenBrace}}
<1>1. n \in hits /\ \A j \in hits : n <= j
  OBVIOUS
<1>2. FirstIndex(text, LAMBDA b : b \in {Comma, OpenBracket, OpenBrace}) =
        IF hits = {} THEN 0 ELSE CHOOSE i \in hits : \A j \in hits : i <= j
  BY DEF FirstIndex
<1>3. FirstIndex(text, LAMBDA b : b \in {Comma, OpenBracket, OpenBrace}) = n
  BY <1>1, <1>2, LeastIs
<1> QED BY <1>3 DEF NamespaceEnd

(* No slash in front: no namespace.                                        *)
LEMMA NoNamespace == ASSUME NEW text, text[1] # Slash PROVE NamespaceEnd(text) = 0
BY DEF NamespaceEnd

(* Two texts behind each other come apart again.                           *)
LEMMA Apart ==
  ASSUME NEW S, NEW a \in Seq(S), NEW b \in Seq(S)
  PROVE  /\ SubSeq(a \o b, 1, Len(a)) = a
         /\ From(a \o b, Len(a) + 1) = b
<1> DEFINE ab == a \o b
<1>1. /\ ab \in Seq(S) /\ Len(ab) = Len(a) + Len(b) /\ Len(a) \in Nat /\ Len(b) \in Nat
      /\ \A i \in 1..Len(a) + Len(b) : ab[i] = IF i <= Len(a) THEN a[i] ELSE b[i - Len(a)]
  BY ConcatProperties, LenProperties
<1>2. \A i \in 1..Len(ab) : ab[i] \in S
  BY <1>1, ElementOfSeq
<1> HIDE DEF ab
<1>3. SubSeq(ab, 1, Len(a)) = a
  <2>1. \A i \in 1..Len(a) : ab[i] \in S
    BY <1>1, <1>2
  <2>2. /\ SubSeq(ab, 1, Len(a)) \in Seq(S)
        /\ Len(SubSeq(ab, 1, Len(a))) = IF 1 <= Len(a) THEN Len(a) - 1 + 1 ELSE 0
        /\ \A i \in 1..(Len(a) - 1 + 1) : SubSeq(ab, 1, Len(a))[i] = ab[1 + i - 1]
    BY <1>1, <2>1, SubSeqProperties
  <2> QED BY <1>1, <2>2, SeqEqual
<1>4. SubSeq(ab, Len(a) + 1, Len(ab)) = b
  <2>1. \A i \in (Len(a) + 1)..Len(ab) : ab[i] \in S
    BY <1>1, <1>2
  <2> DEFINE sub == SubSeq(ab, Len(a) + 1, Len(ab))
  <2>2. /\ sub \in Seq(S)
        /\ Len(sub) = IF Len(a) + 1 <= Len(ab) THEN Len(ab) - (Len(a) + 1) + 1 ELSE 0
        /\ \A i \in 1..(Len(ab) - (Len(a) + 1) + 1) : sub[i] = ab[Len(a) + 1 + i - 1]
    BY <1>1, <2>1, SubSeqProperties
  <2> HIDE DEF sub
  <2>3. Len(sub) = Len(b)
    BY <1>1, <2>2
  <2>4. ASSUME NEW i \in 1..Len(b) PROVE sub[i] = b[i]
    <3>1. sub[i] = ab[Len(a) + i]
      BY <1>1, <2>2
    <3>2. ab[Len(a) + i] = b[i]
      <4>1. /\ Len(a) + i \in 1..Len(a) + Len(b) /\ ~(Len(a) + i <= Len(a))
            /\ Len(a) + i - Len(a) = i
        BY <1>1
      <4> QED BY <1>1, <4>1
    <3> QED BY <3>1, <3>2
  <2>5. Len(sub) = Len(b) /\ \A i \in 1..Len(sub) : sub[i] = b[i]
    BY <2>3, <2>4
  <2>6. sub = b
    BY <2>2, <2>5, SeqEqual
  <2> QED BY <2>6 DEF sub
<1> QED BY <1>3, <1>4 DEF From, ab

(* The digits in front of something else.                                  *)
LEMMA WidthIs ==
  ASSUME NEW S, NEW a \in Seq(S), NEW b \in Seq(S), \A i \in 1..Len(a) : IsDigit(a[i]),
         b # <<>> => ~IsDigit(b[1])
  PROVE  AckWidth(a \o b) = Len(a)
<1> DEFINE ab == a \o b
           hits == {i \in 1..Len(ab) : ~IsDigit(ab[i])}
<1>1. /\ ab \in Seq(S) /\ Len(ab) = Len(a) + Len(b) /\ Len(a) \in Nat /\ Len(b) \in Nat
      /\ \A i \in 1..Len(a) + Len(b) : ab[i] = IF i <= Len(a) THEN a[i] ELSE b[i - Len(a)]
  BY ConcatProperties, LenProperties
<1>2. FirstIndex(ab, LAMBDA c : ~IsDigit(c)) =
        IF hits = {} THEN 0 ELSE CHOOSE i \in hits : \A j \in hits : i <= j
  BY DEF FirstIndex
<1> HIDE DEF ab
<1>3. hits \subseteq Nat /\ \A j \in hits : j > Len(a)
  BY <1>1
<1>4. CASE b = <<>>
  <2>1. Len(b) = 0 /\ hits = {}
    BY <1>1, <1>3, <1>4
  <2> QED BY <1>1, <1>2, <2>1 DEF AckWidth, ab
<1>5. CASE b # <<>>
  <2>1. Len(b) > 0
    BY <1>5, EmptySeq
  <2>2. /\ Len(a) + 1 \in 1..Len(a) + Len(b) /\ ~(Len(a) + 1 <= Len(a))
        /\ Len(a) + 1 - Len(a) = 1
    BY <1>1, <2>1
  <2>3. ab[Len(a) + 1] = b[1]
    BY <1>1, <2>2
  <2>4. Len(a) + 1 \in hits /\ \A j \in hits : Len(a) + 1 <= j
    BY <1>1, <1>3, <1>5, <2>2, <2>3
  <2>5. FirstIndex(ab, LAMBDA c : ~IsDigit(c)) = Len(a) + 1
    <3> HIDE DEF hits
    <3> QED BY <1>2, <1>3, <2>4, LeastIs
  <2> QED BY <1>1, <2>5 DEF AckWidth, ab
<1> QED BY <1>4, <1>5

-----------------------------------------------------------------------------
(* Numbers.                                                                *)

(* A set of numbers has a least one.                                       *)
LEMMA LeastExists ==
  ASSUME NEW hits, hits \subseteq Nat, hits # {}
  PROVE  \E i \in hits : \A j \in hits : i <= j
<1>1. \E i \in hits : \A j \in hits : ~(<<j, i>> \in OpToRel(<, Nat))
  BY NatLessThanWellFounded, WFMin
<1>2. \A j, i \in Nat : j < i => <<j, i>> \in OpToRel(<, Nat)
  BY Zenon DEF OpToRel
<1>3. \E i \in hits : \A j \in hits : ~(j < i)
  BY <1>1, <1>2, Zenon
<1> QED BY <1>3

(* Induction up to a bound, on a set of numbers instead of a predicate.    *)
LEMMA UpTo ==
  ASSUME NEW N \in Nat, NEW good, 0 \in good, \A k \in 1..N : k - 1 \in good => k \in good
  PROVE  0..N \subseteq good
<1> DEFINE bad == (0..N) \ good
<1> SUFFICES ASSUME bad # {} PROVE FALSE
  OBVIOUS
<1>1. bad \subseteq Nat
  OBVIOUS
<1>2. PICK i \in bad : \A j \in bad : i <= j
  <2> HIDE DEF bad
  <2> QED BY <1>1, LeastExists
<1>3. i - 1 \in (0..N) \ bad
  BY <1>2
<1> QED BY <1>2, <1>3

(* Each value of f is computed from the one before.                        *)
Follows(f, N, base, step) == f[0] = base /\ \A k \in 1..N : f[k] = step[k][f[k-1]]

(* A function may be defined by recursion.                                 *)
LEMMA Recursion ==
  ASSUME NEW N \in Nat, NEW base \in Nat, NEW step \in [1..N -> [Nat -> Nat]]
  PROVE  \E f \in [0..N -> Nat] : Follows(f, N, base, step)
<1> DEFINE Upto(f, k) == Follows(f, k, base, step)
           good == {k \in 0..N : \E f \in [0..N -> Nat] : Upto(f, k)}
<1>1. 0 \in good
  <2> DEFINE g == [j \in 0..N |-> base]
  <2>1. g \in [0..N -> Nat] /\ Upto(g, 0) /\ 0 \in 0..N
    BY DEF Follows
  <2> HIDE DEF g, Upto
  <2> QED BY <2>1
<1>2. ASSUME NEW k \in 1..N, k - 1 \in good PROVE k \in good
  <2>1. PICK f \in [0..N -> Nat] : Upto(f, k - 1)
    BY <1>2
  <2> DEFINE g == [f EXCEPT ![k] = step[k][f[k-1]]]
  <2>2. step[k][f[k-1]] \in Nat
    <3>1. k - 1 \in 0..N
      OBVIOUS
    <3>2. f[k-1] \in Nat /\ step[k] \in [Nat -> Nat]
      BY <3>1
    <3> QED BY <3>2
  <2>3. g \in [0..N -> Nat] /\ g[k] = step[k][f[k-1]] /\ \A j \in (0..N) \ {k} : g[j] = f[j]
    <3>1. k \in 0..N
      OBVIOUS
    <3> QED BY <2>2, <3>1, Zenon
  <2> HIDE DEF g
  <2>4. g[0] = base
    BY <2>1, <2>3 DEF Follows
  <2>5. ASSUME NEW j \in 1..k PROVE g[j] = step[j][g[j-1]]
    <3>1. g[j-1] = f[j-1]
      <4>1. j - 1 \in (0..N) \ {k}
        OBVIOUS
      <4> QED BY <2>3, <4>1
    <3>2. CASE j = k
      BY <2>3, <3>1, <3>2
    <3>3. CASE j # k
      BY <2>1, <2>3, <3>1, <3>3 DEF Follows
    <3> QED BY <3>2, <3>3
  <2>6. Upto(g, k) /\ k \in 0..N
    BY <2>4, <2>5 DEF Follows
  <2> HIDE DEF Upto
  <2> QED BY <2>3, <2>6
<1>3. N \in good
  <2> HIDE DEF good
  <2>1. 0..N \subseteq good
    BY <1>1, <1>2, UpTo
  <2> QED BY <2>1
<1> QED BY <1>3

(* Division by ten and its rest.                                           *)
LEMMA ByTen ==
  ASSUME NEW a \in Nat
  PROVE  a \div 10 \in Nat /\ a % 10 \in 0..9 /\ a = 10 * (a \div 10) + (a % 10)
OBVIOUS

(* Dividing a number by ten again and again is such a function.            *)
LEMMA RepeatedDivision ==
  ASSUME NEW N \in Nat, NEW n \in Nat
  PROVE  \E f \in [0..N -> Nat] : f[0] = n /\ \A k \in 1..N : f[k] = f[k-1] \div 10
<1> DEFINE step == [k \in 1..N |-> [v \in Nat |-> v \div 10]]
<1>1. step \in [1..N -> [Nat -> Nat]]
  OBVIOUS
<1>2. \A k \in 1..N, v \in Nat : step[k][v] = v \div 10
  OBVIOUS
<1> HIDE DEF step
<1>3. PICK f \in [0..N -> Nat] : Follows(f, N, n, step)
  BY <1>1, Recursion
<1>4. ASSUME NEW k \in 1..N PROVE f[k] = f[k-1] \div 10
  <2>1. f[k-1] \in Nat
    OBVIOUS
  <2> QED BY <1>2, <1>3, <2>1 DEF Follows
<1> QED BY <1>3, <1>4 DEF Follows

(* And it is the one Quotients defines.                                    *)
LEMMA QuotientsAre ==
  ASSUME NEW n \in Nat
  PROVE  /\ Quotients(n) \in [0..(MaxAckDigits + 1) -> Nat]
         /\ Quotients(n)[0] = n
         /\ \A k \in 1..(MaxAckDigits + 1) : Quotients(n)[k] = Quotients(n)[k-1] \div 10
<1> DEFINE N == MaxAckDigits + 1
           Def(f) == f = [k \in 0..N |-> IF k = 0 THEN n ELSE f[k-1] \div 10]
           q == CHOOSE f : Def(f)
<1>1. N \in Nat
  OBVIOUS
<1>2. Quotients(n) = q
  BY DEF Quotients
<1> HIDE DEF N
<1>3. PICK f \in [0..N -> Nat] : f[0] = n /\ \A k \in 1..N : f[k] = f[k-1] \div 10
  BY <1>1, RepeatedDivision
<1>4. Def(f)
  <2>1. f = [k \in 0..N |-> f[k]]
    OBVIOUS
  <2>2. \A k \in 0..N : f[k] = IF k = 0 THEN n ELSE f[k-1] \div 10
    BY <1>1, <1>3
  <2> QED BY <2>1, <2>2
<1>5. Def(q)
  <2> HIDE DEF Def
  <2> QED BY <1>4
<1> HIDE DEF q
<1>6. /\ q[0] = n /\ \A k \in 1..N : q[k] = q[k-1] \div 10
      /\ q = [k \in 0..N |-> q[k]]
  <2>1. q = [k \in 0..N |-> IF k = 0 THEN n ELSE q[k-1] \div 10]
    BY <1>5
  <2>2. \A k \in 0..N : q[k] = IF k = 0 THEN n ELSE q[k-1] \div 10
    BY <2>1
  <2>3. q = [k \in 0..N |-> q[k]]
    BY <2>1
  <2>4. ASSUME NEW k \in 1..N PROVE q[k] = q[k-1] \div 10
    <3>1. k \in 0..N /\ k # 0
      BY <1>1
    <3> QED BY <2>2, <3>1
  <2>5. q[0] = n
    BY <1>1, <2>2
  <2> QED BY <2>3, <2>4, <2>5
<1> HIDE DEF Def
<1>7. \A k \in 0..N : q[k] = f[k]
  <2> DEFINE good == {k \in 0..N : q[k] = f[k]}
  <2>1. 0 \in good
    BY <1>1, <1>3, <1>6
  <2>2. ASSUME NEW k \in 1..N, k - 1 \in good PROVE k \in good
    <3>1. q[k] = q[k-1] \div 10 /\ f[k] = f[k-1] \div 10
      BY <1>3, <1>6
    <3>2. k \in 0..N /\ q[k-1] = f[k-1]
      BY <1>1, <2>2
    <3> QED BY <3>1, <3>2
  <2>3. 0..N \subseteq good
    <3> HIDE DEF good
    <3> QED BY <1>1, <2>1, <2>2, UpTo
  <2> QED BY <2>3
<1>8. q \in [0..N -> Nat]
  BY <1>6, <1>7
<1> QED BY <1>2, <1>6, <1>8 DEF N

(* Number passes the quotients backwards, from nothing to the number.      *)
LEMMA NumberIs ==
  ASSUME NEW w \in Nat, NEW digits, Len(digits) = w,
         NEW q \in [0..w -> Nat], q[w] = 0,
         \A i \in 1..w : q[w - i + 1] = q[w - i] \div 10 /\ digits[i] = Zero + (q[w - i] % 10)
  PROVE  Number(digits) = q[0]
<1> DEFINE Def(f) == f = [i \in 0..w |-> IF i = 0 THEN 0 ELSE 10 * f[i-1] + (digits[i] - Zero)]
           value == CHOOSE f : Def(f)
           back == [i \in 0..w |-> q[w - i]]
<1>1. Number(digits) = value[w]
  BY DEF Number
<1>2. back[0] = 0 /\ \A i \in 1..w : back[i] = 10 * back[i-1] + (digits[i] - Zero)
  <2>1. ASSUME NEW i \in 1..w PROVE back[i] = 10 * back[i-1] + (digits[i] - Zero)
    <3>1. /\ w - i \in 0..w /\ w - i + 1 \in 0..w
          /\ i \in 0..w /\ i - 1 \in 0..w /\ w - (i - 1) = w - i + 1
      OBVIOUS
    <3>2. back[i] = q[w - i] /\ back[i-1] = q[w - i + 1]
      BY <3>1
    <3>3. q[w - i] \in Nat
      BY <3>1
    <3>4. digits[i] - Zero = q[w - i] % 10
      <4>1. q[w - i] % 10 \in 0..9
        BY <3>3, ByTen
      <4> QED BY <4>1 DEF Zero
    <3>5. q[w - i] = 10 * (q[w - i] \div 10) + (q[w - i] % 10)
      BY <3>3, ByTen
    <3> HIDE DEF back
    <3> QED BY <3>2, <3>4, <3>5
  <2>2. back[0] = 0
    <3>1. 0 \in 0..w /\ w - 0 = w
      OBVIOUS
    <3> QED BY <3>1
  <2> QED BY <2>1, <2>2
<1>3. Def(back)
  <2>1. back = [i \in 0..w |-> back[i]]
    OBVIOUS
  <2> HIDE DEF back
  <2>2. \A i \in 0..w : back[i] = IF i = 0 THEN 0 ELSE 10 * back[i-1] + (digits[i] - Zero)
    BY <1>2
  <2> QED BY <2>1, <2>2, Zenon
<1>4. Def(value)
  <2> HIDE DEF Def, back
  <2> QED BY <1>3
<1> HIDE DEF value
<1>5. value[0] = 0 /\ \A i \in 1..w : value[i] = 10 * value[i-1] + (digits[i] - Zero)
  <2>1. value = [i \in 0..w |-> IF i = 0 THEN 0 ELSE 10 * value[i-1] + (digits[i] - Zero)]
    BY <1>4
  <2>2. \A i \in 0..w : value[i] = IF i = 0 THEN 0 ELSE 10 * value[i-1] + (digits[i] - Zero)
    BY <2>1, Zenon
  <2> QED BY <2>2
<1> HIDE DEF Def
<1>6. value[w] = back[w]
  <2> DEFINE good == {k \in 0..w : value[k] = back[k]}
  <2> HIDE DEF back
  <2>1. 0 \in good
    BY <1>5, <1>2
  <2>2. ASSUME NEW k \in 1..w, k - 1 \in good PROVE k \in good
    <3>1. value[k-1] = back[k-1] /\ k \in 0..w
      BY <2>2
    <3>2. value[k] = 10 * back[k-1] + (digits[k] - Zero)
      BY <1>5, <3>1
    <3>3. value[k] = back[k]
      BY <1>2, <3>2
    <3> QED BY <3>1, <3>3
  <2>3. 0..w \subseteq good
    <3> HIDE DEF good
    <3> QED BY <2>1, <2>2, UpTo
  <2> QED BY <2>3
<1>7. back[w] = q[0]
  <2>1. w \in 0..w /\ w - w = 0
    OBVIOUS
  <2> QED BY <2>1
<1> QED BY <1>1, <1>6, <1>7

(* An acknowledgement id is written with its digits and read back.         *)
LEMMA DigitsRead ==
  ASSUME NEW n \in Nat, Quotients(n)[MaxAckDigits] = 0
  PROVE  /\ Digits(n) \in Seq(Zero..(Zero + 9))
         /\ Len(Digits(n)) \in 1..MaxAckDigits
         /\ Number(Digits(n)) = n
<1> DEFINE q == Quotients(n)
           widths == {w \in 1..(MaxAckDigits + 1) : q[w] = 0}
           width == CHOOSE w \in widths : \A v \in widths : w <= v
<1>1. MaxAckDigits \in widths /\ widths \subseteq Nat
  OBVIOUS
<1>2. width \in widths /\ \A v \in widths : width <= v
  <2>1. \E w \in widths : \A v \in widths : w <= v
    <3> HIDE DEF widths
    <3> QED BY <1>1, LeastExists
  <2> HIDE DEF widths
  <2> QED BY <2>1
<1>3. width \in 1..MaxAckDigits /\ q[width] = 0
  <2>1. width <= MaxAckDigits /\ width \in 1..(MaxAckDigits + 1) /\ q[width] = 0
    <3> HIDE DEF width, q
    <3> QED BY <1>1, <1>2
  <2> HIDE DEF width, q
  <2> QED BY <2>1
<1>4. Digits(n) = [i \in 1..width |-> Zero + (q[width - i] % 10)]
  BY DEF Digits
<1> HIDE DEF width, widths
<1>5. /\ q \in [0..(MaxAckDigits + 1) -> Nat] /\ q[0] = n
      /\ \A k \in 1..(MaxAckDigits + 1) : q[k] = q[k-1] \div 10
  BY QuotientsAre
<1> HIDE DEF q
<1>6. Digits(n) \in [1..width -> Zero..(Zero + 9)]
  <2>1. ASSUME NEW i \in 1..width PROVE Zero + (q[width - i] % 10) \in Zero..(Zero + 9)
    <3>1. width - i \in 0..(MaxAckDigits + 1)
      BY <1>3
    <3>2. q[width - i] \in Nat
      BY <1>5, <3>1
    <3> QED BY <3>2 DEF Zero
  <2> QED BY <1>4, <2>1
<1>7. Digits(n) \in Seq(Zero..(Zero + 9)) /\ Len(Digits(n)) = width
  <2>1. ASSUME NEW T, NEW t \in [1..width -> T] PROVE t \in Seq(T) /\ Len(t) = width
    BY <1>3
  <2> QED BY <1>6, <2>1
<1>8. Number(Digits(n)) = n
  <2> DEFINE r == [k \in 0..width |-> q[k]]
  <2>1. r \in [0..width -> Nat] /\ r[width] = 0 /\ r[0] = n
    BY <1>3, <1>5
  <2>2. ASSUME NEW i \in 1..width
        PROVE  r[width - i + 1] = r[width - i] \div 10 /\ Digits(n)[i] = Zero + (r[width - i] % 10)
    <3>1. /\ width - i \in 0..width /\ width - i + 1 \in 0..width
          /\ width - i + 1 \in 1..(MaxAckDigits + 1) /\ (width - i + 1) - 1 = width - i
      BY <1>3
    <3>2. r[width - i + 1] = q[width - i + 1] /\ r[width - i] = q[width - i]
      BY <3>1
    <3>3. q[width - i + 1] = q[width - i] \div 10
      BY <1>5, <3>1
    <3>4. Digits(n)[i] = Zero + (q[width - i] % 10)
      BY <1>4
    <3> QED BY <3>2, <3>3, <3>4
  <2>3. width \in Nat
    BY <1>3
  <2> HIDE DEF r
  <2> QED BY <1>7, <2>1, <2>2, <2>3, NumberIs
<1> QED BY <1>3, <1>7, <1>8

-----------------------------------------------------------------------------
(* The parts of a packet.                                                  *)

(* What stands between the first element and another one.                  *)
LEMMA Between ==
  ASSUME NEW S, NEW s, NEW k \in Nat, \A i \in 2..(k + 1) : s[i] \in S
  PROVE  /\ SubSeq(s, 2, k + 1) \in Seq(S) /\ Len(SubSeq(s, 2, k + 1)) = k
         /\ \A i \in 1..k : SubSeq(s, 2, k + 1)[i] = s[i+1]
<1> DEFINE n == k + 1
           sub == SubSeq(s, 2, n)
<1>1. n \in Int /\ 2 \in Int /\ \A i \in 2..n : s[i] \in S
  OBVIOUS
<1> HIDE DEF n
<1>2. /\ sub \in Seq(S) /\ Len(sub) = IF 2 <= n THEN n - 2 + 1 ELSE 0
      /\ \A i \in 1..(n - 2 + 1) : sub[i] = s[2 + i - 1]
  BY <1>1, SubSeqProperties
<1> HIDE DEF sub
<1>3. Len(sub) = k
  BY <1>2 DEF n
<1>4. ASSUME NEW i \in 1..k PROVE sub[i] = s[i+1]
  <2>1. i \in 1..(n - 2 + 1) /\ 2 + i - 1 = i + 1
    BY DEF n
  <2> QED BY <1>2, <2>1
<1> QED BY <1>2, <1>3, <1>4 DEF sub, n

(* An array in front of anything else is read to its bracket.              *)
LEMMA EventRead ==
  ASSUME NEW items \in Seq(JsonSymbols), NEW X \in Seq(Symbols), NEW isAck \in BOOLEAN,
         ~isAck => items # <<>> /\ items[1] \in JsonStrings
  PROVE  ParseEvent((<<OpenBracket>> \o items \o <<CloseBracket>>) \o X, isAck) =
           IF isAck THEN Done([name |-> Name.empty, args |-> items])
           ELSE Done([name |-> items[1], args |-> Tail(items)])
<1> DEFINE n == Len(items) + 2
           text == (<<OpenBracket>> \o items \o <<CloseBracket>>) \o X
           hits == {i \in 1..Len(text) : text[i] = CloseBracket}
           close == FirstIndex(text, LAMBDA b : b = CloseBracket)
<1> HIDE DEF text
<1>1. Len(items) \in Nat /\ \A i \in 1..Len(items) : items[i] \in JsonSymbols
  BY LenProperties, ElementOfSeq
<1>2. JsonSymbols \subseteq Symbols
  BY DEF Symbols
<1>3. items \in Seq(Symbols)
  BY <1>2, SeqMonotonic
<1>4. <<OpenBracket>> \in Seq(Symbols) /\ <<CloseBracket>> \in Seq(Symbols)
  BY DEF Symbols, OpenBracket, CloseBracket
<1>5. CloseBracket \notin JsonSymbols /\ OpenBracket # CloseBracket
  BY DEF JsonSymbols, JsonStrings, Name, Json, CloseBracket, OpenBracket
<1> DEFINE front == <<OpenBracket>> \o items
           array == front \o <<CloseBracket>>
<1>6. /\ front \in Seq(Symbols) /\ Len(front) = Len(items) + 1
      /\ front[1] = OpenBracket /\ \A i \in 2..(Len(items) + 1) : front[i] = items[i-1]
  <2>1. /\ front \in Seq(Symbols) /\ Len(front) = 1 + Len(items)
        /\ \A i \in 1..1 + Len(items) :
             front[i] = IF i <= 1 THEN <<OpenBracket>>[i] ELSE items[i - 1]
    BY <1>3, <1>4, ConcatProperties
  <2> HIDE DEF front
  <2> QED BY <1>1, <2>1
<1>7. /\ array \in Seq(Symbols) /\ Len(array) = n /\ array[1] = OpenBracket
      /\ array[n] = CloseBracket /\ \A i \in 2..(n - 1) : array[i] = items[i-1]
  <2>1. /\ array \in Seq(Symbols) /\ Len(array) = Len(front) + 1
        /\ \A i \in 1..Len(front) + 1 :
             array[i] = IF i <= Len(front) THEN front[i] ELSE <<CloseBracket>>[i - Len(front)]
    <3> HIDE DEF front
    <3> QED BY <1>4, <1>6, ConcatProperties
  <2> HIDE DEF front, array
  <2>2. array[1] = front[1] /\ \A i \in 2..(n - 1) : array[i] = front[i]
    BY <1>1, <1>6, <2>1
  <2>3. array[n] = CloseBracket
    <3>1. /\ n \in 1..Len(front) + 1 /\ ~(n <= Len(front)) /\ n - Len(front) = 1
      BY <1>1, <1>6
    <3> QED BY <2>1, <3>1
  <2> QED BY <1>1, <1>6, <2>1, <2>2, <2>3
<1> HIDE DEF front
<1>8. /\ text \in Seq(Symbols) /\ Len(text) \in Nat /\ Len(text) >= n
      /\ \A i \in 1..n : text[i] = array[i]
  <2> HIDE DEF array
  <2>1. text = array \o X
    BY DEF array, front, text
  <2>2. /\ text \in Seq(Symbols) /\ Len(text) = Len(array) + Len(X)
        /\ \A i \in 1..Len(array) + Len(X) :
             text[i] = IF i <= Len(array) THEN array[i] ELSE X[i - Len(array)]
    BY <1>7, <2>1, ConcatProperties
  <2>3. n \in Nat /\ Len(X) \in Nat
    BY <1>1, LenProperties
  <2> HIDE DEF n
  <2>4. ASSUME NEW i \in 1..n PROVE text[i] = array[i]
    <3>1. i \in 1..Len(array) + Len(X) /\ i <= Len(array)
      BY <1>7, <2>3
    <3> QED BY <2>2, <3>1
  <2> QED BY <1>7, <2>2, <2>3, <2>4
<1> HIDE DEF array
<1>9. /\ text[1] = OpenBracket /\ text[n] = CloseBracket
      /\ \A i \in 2..(n - 1) : text[i] = items[i-1]
  BY <1>1, <1>7, <1>8
<1>10. n \in hits /\ hits \subseteq Nat /\ \A j \in hits : n <= j
  <2>1. n \in hits
    BY <1>1, <1>8, <1>9
  <2>2. ASSUME NEW j \in hits, j < n PROVE FALSE
    <3>1. j \in 1..Len(text) /\ text[j] = CloseBracket
      OBVIOUS
    <3>2. j # 1
      BY <1>5, <1>9, <3>1
    <3>3. text[j] = items[j-1] /\ j - 1 \in 1..Len(items)
      BY <1>1, <1>9, <2>2, <3>1, <3>2
    <3> QED BY <1>1, <1>5, <3>1, <3>3
  <2>3. hits \subseteq Nat
    OBVIOUS
  <2> HIDE DEF hits
  <2>4. n \in Nat
    BY <1>1
  <2> QED BY <2>1, <2>2, <2>3, <2>4
<1>11. close = n
  <2>1. close = IF hits = {} THEN 0 ELSE CHOOSE i \in hits : \A j \in hits : i <= j
    BY DEF FirstIndex
  <2> HIDE DEF hits, close, n
  <2> QED BY <1>10, <2>1, LeastIs
<1>12. SubSeq(text, 2, n - 1) = items
  <2>1. \A i \in 2..(n - 1) : text[i] \in JsonSymbols
    BY <1>1, <1>9
  <2> DEFINE sub == SubSeq(text, 2, Len(items) + 1)
  <2>2. Len(items) + 1 = n - 1
    BY <1>1
  <2>3. /\ sub \in Seq(JsonSymbols) /\ Len(sub) = Len(items)
        /\ \A i \in 1..Len(items) : sub[i] = text[i + 1]
    BY <1>1, <2>1, <2>2, Between
  <2> HIDE DEF sub
  <2>4. ASSUME NEW i \in 1..Len(items) PROVE sub[i] = items[i]
    <3>1. i + 1 \in 2..(n - 1) /\ i + 1 - 1 = i
      BY <1>1
    <3>2. text[i + 1] = items[i]
      BY <1>9, <3>1
    <3>3. sub[i] = text[i + 1]
      BY <2>3
    <3> QED BY <3>2, <3>3
  <2>5. sub = items
    BY <2>3, <2>4, SeqEqual
  <2> QED BY <2>2, <2>5 DEF sub
<1>13. Json.null \notin JsonStrings
  BY DEF JsonStrings, Json, Name
<1> DEFINE nameOk == items # <<>> /\ items[1] \in JsonStrings \cup {Json.null}
           name == IF items[1] = Json.null THEN Name.empty ELSE items[1]
<1>14. ParseEvent(text, isAck) =
         CASE \/ text[1] # OpenBracket \/ n = 0
              \/ \E i \in 1..Len(items) : items[i] \notin JsonSymbols -> Failed
           [] ~isAck /\ ~nameOk -> Failed
           [] isAck -> Done([name |-> Name.empty, args |-> items])
           [] OTHER -> Done([name |-> name, args |-> Tail(items)])
  <2> HIDE DEF n
  <2> QED BY <1>11, <1>12 DEF ParseEvent
<1>15. text[1] = OpenBracket /\ n # 0 /\ ~\E i \in 1..Len(items) : items[i] \notin JsonSymbols
  BY <1>1, <1>9
<1>16. ~isAck => nameOk /\ name = items[1]
  BY <1>13
<1> HIDE DEF n, nameOk, name
<1> QED BY <1>14, <1>15, <1>16 DEF text

-----------------------------------------------------------------------------
(* The id of a packet, and what is behind it: nothing, or a bracket.       *)
AckText(ack) == IF ack = <<>> THEN <<>> ELSE Digits(ack[1])
IsId(ack) ==
  /\ ack \in Seq(Nat) /\ Len(ack) <= 1
  /\ ack # <<>> => Quotients(ack[1])[MaxAckDigits] = 0
Headed(type, ns, ack) == [Message(type, ns) EXCEPT !.ack = ack]
AfterId(m, B) == IF B = <<>> THEN EmptyBody(m) ELSE ParseBody(m, B)
IsBody(B) == B \in Seq(Symbols) /\ (B # <<>> => B[1] \in {OpenBracket, OpenBrace})

(* An id is written with its digits, and no id without any.                *)
LEMMA IdText ==
  ASSUME NEW ack, IsId(ack)
  PROVE  /\ AckText(ack) \in Seq(Zero..(Zero + 9)) /\ AckText(ack) \in Seq(Symbols)
         /\ Len(AckText(ack)) \in 0..MaxAckDigits
         /\ ack = <<>> => AckText(ack) = <<>> /\ Len(AckText(ack)) = 0
         /\ ack # <<>> => Len(AckText(ack)) > 0 /\ <<Number(AckText(ack))>> = ack
<1>1. CASE ack = <<>>
  BY <1>1 DEF AckText
<1>2. CASE ack # <<>>
  <2>1. Len(ack) = 1 /\ ack[1] \in Nat /\ ack = <<ack[1]>>
    <3>1. Len(ack) \in Nat \ {0}
      BY <1>2, EmptySeq DEF IsId
    <3>2. Len(ack) = 1
      <4>1. Len(ack) <= 1
        BY DEF IsId
      <4>2. \A l \in Nat \ {0} : l <= 1 => l = 1
        OBVIOUS
      <4> QED BY <3>1, <4>1, <4>2, Zenon
    <3>3. ack[1] \in Nat
      BY <3>2, ElementOfSeq DEF IsId
    <3>4. ack = <<ack[1]>>
      <4>1. <<ack[1]>> \in Seq(Nat) /\ Len(<<ack[1]>>) = 1 /\ <<ack[1]>>[1] = ack[1]
        BY <3>3
      <4>2. \A i \in 1..Len(ack) : ack[i] = <<ack[1]>>[i]
        BY <3>2, <4>1
      <4> QED BY <3>2, <4>1, <4>2, SeqEqual DEF IsId
    <3> QED BY <3>2, <3>3, <3>4
  <2> DEFINE d == Digits(ack[1])
  <2>2. d \in Seq(Zero..(Zero + 9)) /\ Len(d) \in 1..MaxAckDigits /\ Number(d) = ack[1]
    BY <1>2, <2>1, DigitsRead DEF IsId
  <2>3. AckText(ack) = d
    BY <1>2 DEF AckText
  <2>4. Zero..(Zero + 9) \subseteq Symbols
    BY DEF Zero, Symbols
  <2> HIDE DEF d
  <2>5. d \in Seq(Symbols)
    BY <2>2, <2>4, SeqMonotonic
  <2> QED BY <1>2, <2>1, <2>2, <2>3, <2>5
<1> QED BY <1>1, <1>2

(* The id and the body are taken apart.                                    *)
LEMMA IdRead ==
  ASSUME NEW type, NEW ns, NEW ack, IsId(ack), NEW B, IsBody(B)
  PROVE  ParseAck(Message(type, ns), AckText(ack) \o B) = AfterId(Headed(type, ns, ack), B)
<1> DEFINE m == Message(type, ns)
           A == AckText(ack)
           C == A \o B
           width == AckWidth(C)
           acked == IF width = 0 THEN m ELSE [m EXCEPT !.ack = <<Number(SubSeq(C, 1, width))>>]
           after == From(C, width + 1)
<1>1. /\ A \in Seq(Zero..(Zero + 9)) /\ A \in Seq(Symbols) /\ Len(A) \in 0..MaxAckDigits
      /\ ack = <<>> => A = <<>> /\ Len(A) = 0
      /\ ack # <<>> => Len(A) > 0 /\ <<Number(A)>> = ack
  BY IdText
<1>2. ParseAck(m, C) = CASE width > MaxAckDigits -> Failed
                         [] width <= MaxAckDigits /\ after = <<>> -> EmptyBody(acked)
                         [] OTHER -> ParseBody(acked, after)
  BY DEF ParseAck
<1> HIDE DEF A
<1>3. \A i \in 1..Len(A) : IsDigit(A[i])
  BY <1>1, ElementOfSeq DEF IsDigit
<1>4. B \in Seq(Symbols) /\ (B # <<>> => ~IsDigit(B[1]))
  BY DEF IsBody, IsDigit, Zero, OpenBracket, OpenBrace
<1>5. width = Len(A)
  BY <1>1, <1>3, <1>4, WidthIs
<1>6. SubSeq(C, 1, Len(A)) = A /\ From(C, Len(A) + 1) = B
  BY <1>1, <1>4, Apart
<1> HIDE DEF C, width
<1>7. acked = [m EXCEPT !.ack = ack]
  <2>1. CASE ack = <<>>
    <3>1. m = [m EXCEPT !.ack = <<>>]
      BY DEF Message
    <3> QED BY <1>1, <1>5, <2>1, <3>1
  <2>2. CASE ack # <<>>
    <3>1. width # 0
      <4>1. \A l : l > 0 => l # 0
        OBVIOUS
      <4> QED BY <1>1, <1>5, <2>2, <4>1, Zenon
    <3>2. <<Number(SubSeq(C, 1, width))>> = ack
      BY <1>1, <1>5, <1>6, <2>2, Zenon
    <3> HIDE DEF m
    <3> QED BY <3>1, <3>2, Zenon
  <2> QED BY <2>1, <2>2
<1>8. after = B /\ width <= MaxAckDigits /\ ~(width > MaxAckDigits)
  BY <1>1, <1>5, <1>6
<1> HIDE DEF acked, after
<1>9. ParseAck(m, C) = IF B = <<>> THEN EmptyBody(acked) ELSE ParseBody(acked, B)
  BY <1>2, <1>8
<1> QED BY <1>7, <1>9 DEF C, A, AfterId, Headed

(* The byte of a type gives the type back.                                 *)
LEMMA TypeBytes ==
  ASSUME NEW type \in 0..Noop
  PROVE  TypeByte(type) = type + 48 /\ TypeOf(TypeByte(type)) = type
BY DEF TypeByte, TypeOf, Zero, Noop

(* The namespace comes off, whatever stands behind it.                     *)
LEMMA NamespaceRead ==
  ASSUME NEW type \in 0..4, NEW ns \in Seq(0..255), IsNamespace(ns),
         NEW C \in Seq(Symbols), C # <<>> => C[1] # Slash
  PROVE  Parse(<<TypeByte(type)>> \o (NamespacePrefix(ns) \o C)) =
           IF C = <<>> THEN IF ns = Root THEN Done(Message(type, ns))
                            ELSE EmptyBody(Message(type, ns))
           ELSE ParseAck(Message(type, ns), C)
<1> DEFINE P == NamespacePrefix(ns)
           rest == P \o C
           text == <<TypeByte(type)>> \o rest
           comma == NamespaceEnd(rest)
           plain == Message(type, Root)
           m == IF comma = 0 THEN plain ELSE [plain EXCEPT !.ns = SubSeq(rest, 1, comma - 1)]
           after == From(rest, comma + 1)
<1>1. TypeByte(type) \in Symbols /\ TypeOf(TypeByte(type)) = type /\ type \notin Binary
  <2>1. TypeByte(type) = type + 48 /\ TypeOf(TypeByte(type)) = type
    BY TypeBytes DEF Noop
  <2> QED BY <2>1 DEF Symbols, Binary
<1>2. ns \in Seq(Symbols) /\ Len(ns) \in Nat /\ Len(ns) > 0 /\ Comma \in Symbols
  <2>1. 0..255 \subseteq Symbols /\ Comma \in Symbols
    BY DEF Symbols, Comma
  <2>2. ns \in Seq(Symbols)
    BY <2>1, SeqMonotonic
  <2>3. Len(ns) \in Nat \ {0}
    BY EmptySeq DEF IsNamespace
  <2> QED BY <2>1, <2>2, <2>3
<1>3. P \in Seq(Symbols)
  <2>1. Append(ns, Comma) \in Seq(Symbols)
    BY <1>2
  <2> QED BY <2>1, EmptySeq DEF NamespacePrefix
<1> HIDE DEF P
<1>4. rest \in Seq(Symbols)
  BY <1>3, ConcatProperties
<1>5. /\ text # <<>> /\ text[1] = TypeByte(type) /\ Tail(text) = rest
  <2> HIDE DEF rest
  <2>1. <<TypeByte(type)>> \in Seq(Symbols)
    BY <1>1
  <2> QED BY <1>1, <1>4, <2>1
<1>6. Parse(text) = CASE rest = <<>> -> Done(plain)
                      [] rest # <<>> /\ after = <<>> -> EmptyBody(m)
                      [] OTHER -> ParseAck(m, after)
  <2> HIDE DEF rest, text
  <2> QED BY <1>1, <1>5 DEF Parse
<1>7. CASE ns = Root
  <2>1. P = <<>>
    BY <1>7 DEF P, NamespacePrefix
  <2>2. rest = C
    BY <2>1, ConcatEmptySeq
  <2>3. CASE C = <<>>
    BY <1>6, <1>7, <2>2, <2>3 DEF P
  <2>4. CASE C # <<>>
    <3>1. comma = 0
      BY <2>2, <2>4, NoNamespace
    <3>2. m = Message(type, ns)
      BY <1>7, <3>1
    <3>3. after = C
      <4>1. From(C, 1) = C
        BY SubSeqFull DEF From
      <4> HIDE DEF comma
      <4> QED BY <2>2, <3>1, <4>1
    <3> HIDE DEF rest, comma, m, after
    <3> QED BY <1>6, <2>2, <2>4, <3>2, <3>3 DEF P, rest
  <2> QED BY <2>3, <2>4
<1>8. CASE ns # Root
  <2> DEFINE n == Len(ns) + 1
  <2>1. P = Append(ns, Comma)
    BY <1>8 DEF P, NamespacePrefix, IsNamespace
  <2>2. /\ Len(P) = n /\ P[n] = Comma /\ \A i \in 1..Len(ns) : P[i] = ns[i]
    BY <1>2, <2>1
  <2>3. /\ Len(rest) = Len(P) + Len(C) /\ Len(C) \in Nat
        /\ \A i \in 1..Len(P) + Len(C) : rest[i] = IF i <= Len(P) THEN P[i] ELSE C[i - Len(P)]
    BY <1>3, ConcatProperties, LenProperties
  <2> HIDE DEF rest
  <2>4. \A i \in 1..n : rest[i] = P[i]
    <3>1. ASSUME NEW i \in 1..n PROVE rest[i] = P[i]
      <4>1. i \in 1..Len(P) + Len(C) /\ i <= Len(P)
        BY <1>2, <2>2, <2>3
      <4> QED BY <2>3, <4>1
    <3> QED BY <3>1
  <2>5. comma = n
    <3>1. n \in 1..Len(rest) /\ rest[n] = Comma
      BY <1>2, <2>2, <2>3, <2>4
    <3>2. \A i \in 1..(n - 1) : rest[i] = ns[i]
      BY <1>2, <2>2, <2>4
    <3>3. rest[1] = Slash
      BY <1>2, <3>2 DEF IsNamespace
    <3>4. \A i \in 1..(n - 1) : rest[i] \notin {Comma, OpenBracket, OpenBrace}
      BY <1>2, <3>2 DEF IsNamespace
    <3> HIDE DEF n
    <3> QED BY <1>4, <3>1, <3>3, <3>4, CommaAt
  <2>6. SubSeq(rest, 1, Len(ns)) = ns
    <3>1. P = ns \o <<Comma>> /\ <<Comma>> \in Seq(Symbols)
      BY <1>2, <2>1
    <3>2. rest = ns \o (<<Comma>> \o C)
      BY <1>2, <3>1, ConcatAssociative DEF rest
    <3>3. <<Comma>> \o C \in Seq(Symbols)
      BY <3>1, ConcatProperties
    <3> DEFINE X == <<Comma>> \o C
    <3> HIDE DEF X
    <3>4. SubSeq(ns \o X, 1, Len(ns)) = ns
      BY <1>2, <3>3, Apart DEF X
    <3> QED BY <3>2, <3>4 DEF X
  <2>7. m = Message(type, ns)
    <3>1. comma # 0 /\ comma - 1 = Len(ns)
      BY <1>2, <2>5
    <3> HIDE DEF comma
    <3>2. m = [plain EXCEPT !.ns = ns]
      BY <2>6, <3>1
    <3> QED BY <3>2 DEF Message
  <2>8. after = C
    <3>1. From(rest, Len(P) + 1) = C
      BY <1>3, Apart DEF rest
    <3> QED BY <2>2, <2>5, <3>1
  <2>9. rest # <<>>
    BY <1>2, <2>2, <2>3
  <2> HIDE DEF n, m, after, comma
  <2> QED BY <1>6, <1>8, <2>7, <2>8, <2>9 DEF rest, P
<1> QED BY <1>7, <1>8

-----------------------------------------------------------------------------
(* A packet is read as its parts.                                          *)

(* Texts behind each other, from either end.                               *)
Three(a, b, c) == (a \o b) \o c
Forwards(a, b, c, d) == ((a \o b) \o c) \o d
Backwards(a, b, c, d) == a \o (b \o (c \o d))

(* It does not matter from which end texts are put together.               *)
LEMMA FourParts ==
  ASSUME NEW S, NEW a \in Seq(S), NEW b \in Seq(S), NEW c \in Seq(S), NEW d \in Seq(S)
  PROVE  Three(a, b, c) \in Seq(S) /\ Forwards(a, b, c, d) = Backwards(a, b, c, d)
<1> DEFINE ab == a \o b
           cd == c \o d
<1>1. ab \in Seq(S) /\ cd \in Seq(S)
  OBVIOUS
<1>2. ab \o c \in Seq(S)
  BY <1>1
<1>3. (ab \o c) \o d = ab \o cd
  <2> HIDE DEF ab
  <2> QED BY <1>1
<1>4. ab \o cd = a \o (b \o cd)
  <2> HIDE DEF cd
  <2> QED BY <1>1
<1> QED BY <1>2, <1>3, <1>4 DEF Three, Forwards, Backwards

(* Everything in front of the body, and what reading it leaves to do.      *)
Header(type, ns, ack) == <<TypeByte(type)>> \o NamespacePrefix(ns) \o AckText(ack)
Finished(m, B) == IF B = <<>> THEN Done(m) ELSE ParseBody(m, B)

(* A packet is read as the header it was given, and its body.              *)
LEMMA PacketRead ==
  ASSUME NEW type \in 0..4, NEW ns \in Seq(0..255), IsNamespace(ns), NEW ack, IsId(ack),
         NEW B, IsBody(B), B = <<>> => type \in {Connect, Disconnect}
  PROVE  /\ Header(type, ns, ack) \in Seq(Symbols)
         /\ Parse(Header(type, ns, ack) \o B) = Finished(Headed(type, ns, ack), B)
<1> DEFINE T == <<TypeByte(type)>>
           P == NamespacePrefix(ns)
           A == AckText(ack)
           C == A \o B
           m == [Message(type, ns) EXCEPT !.ack = ack]
<1>1. T \in Seq(Symbols)
  <2>1. TypeByte(type) \in Symbols
    <3>1. TypeByte(type) = type + 48
      BY TypeBytes DEF Noop
    <3> QED BY <3>1 DEF Symbols
  <2> QED BY <2>1
<1>2. P \in Seq(Symbols)
  <2>1. 0..255 \subseteq Symbols /\ Comma \in Symbols
    BY DEF Symbols, Comma
  <2>2. ns \in Seq(Symbols)
    BY <2>1, SeqMonotonic
  <2>3. Append(ns, Comma) \in Seq(Symbols)
    BY <2>1, <2>2
  <2> QED BY <2>3, EmptySeq DEF NamespacePrefix
<1>3. /\ A \in Seq(Zero..(Zero + 9)) /\ A \in Seq(Symbols) /\ Len(A) \in 0..MaxAckDigits
      /\ ack # <<>> => Len(A) > 0
      /\ ack = <<>> => A = <<>>
  BY IdText
<1>4. B \in Seq(Symbols)
  BY DEF IsBody
<1>5. ParseAck(Message(type, ns), C) = IF B = <<>> THEN EmptyBody(m) ELSE ParseBody(m, B)
  <2>1. ParseAck(Message(type, ns), C) = AfterId(Headed(type, ns, ack), B)
    BY IdRead
  <2> QED BY <2>1 DEF AfterId, Headed
<1>6. B = <<>> => EmptyBody(m) = Done(m)
  BY DEF EmptyBody, Message, Connect, Disconnect, Event, Ack, ConnectError
<1> HIDE DEF T, P, A, m
<1>7. /\ C \in Seq(Symbols) /\ Len(C) = Len(A) + Len(B) /\ Len(B) \in Nat
      /\ \A i \in 1..Len(A) + Len(B) : C[i] = IF i <= Len(A) THEN A[i] ELSE B[i - Len(A)]
  BY <1>3, <1>4, ConcatProperties, LenProperties
<1>8. A = <<>> => C = B
  BY <1>3, <1>4, ConcatEmptySeq
<1>9. C # <<>> => C[1] # Slash
  <2>1. CASE A = <<>>
    BY <1>8, <2>1 DEF IsBody, OpenBracket, OpenBrace, Slash
  <2>2. CASE A # <<>>
    <3>1. Len(A) \in Nat \ {0}
      BY <1>3, <2>2, EmptySeq
    <3>2. 1 \in 1..Len(A) /\ 1 \in 1..Len(A) + Len(B) /\ 1 <= Len(A)
      BY <1>7, <3>1
    <3>3. C[1] = A[1] /\ A[1] \in Zero..(Zero + 9)
      BY <1>3, <1>7, <3>2, ElementOfSeq
    <3> HIDE DEF C
    <3> QED BY <3>3 DEF Zero, Slash
  <2> QED BY <2>1, <2>2
<1>10. C = <<>> <=> ack = <<>> /\ B = <<>>
  <2>1. C = <<>> <=> A = <<>> /\ B = <<>>
    BY <1>3, <1>4, ConcatEqualIffEmpty
  <2>2. A = <<>> <=> ack = <<>>
    <3>1. Len(<<>>) = 0
      BY EmptySeq
    <3>2. \A l : l > 0 => l # 0
      OBVIOUS
    <3> QED BY <1>3, <3>1, <3>2, Zenon
  <2> QED BY <2>1, <2>2
<1>11. (T \o P) \o A \in Seq(Symbols) /\ ((T \o P) \o A) \o B = T \o (P \o C)
  <2>1. A \in Seq(Symbols)
    BY <1>3
  <2>2. Three(T, P, A) \in Seq(Symbols) /\ Forwards(T, P, A, B) = Backwards(T, P, A, B)
    BY <1>1, <1>2, <1>4, <2>1, FourParts
  <2> QED BY <2>2 DEF Three, Forwards, Backwards
<1>12. ack = <<>> => m = Message(type, ns)
  BY DEF m, Message
<1> HIDE DEF C
<1>13. Parse(T \o (P \o C)) =
         IF C = <<>> THEN IF ns = Root THEN Done(Message(type, ns))
                          ELSE EmptyBody(Message(type, ns))
         ELSE ParseAck(Message(type, ns), C)
  BY <1>7, <1>9, NamespaceRead DEF T, P
<1>14. Parse(T \o (P \o C)) = IF B = <<>> THEN Done(m) ELSE ParseBody(m, B)
  <2>1. CASE C = <<>>
    BY <1>6, <1>10, <1>12, <1>13, <2>1
  <2>2. CASE C # <<>>
    BY <1>5, <1>6, <1>13, <2>2
  <2> QED BY <2>1, <2>2
<1>15. Header(type, ns, ack) = (T \o P) \o A
  BY DEF Header, T, P, A
<1>16. Headed(type, ns, ack) = m
  BY DEF Headed, m
<1> QED BY <1>11, <1>14, <1>15, <1>16 DEF Finished

(* An event is read back from its array, whatever stands behind it.        *)
LEMMA ArrayRead ==
  ASSUME NEW e \in [name : JsonStrings, args : Seq(JsonSymbols)], NEW X \in Seq(Symbols),
         NEW isAck \in BOOLEAN, isAck <=> e.name = Name.empty
  PROVE  /\ EventText(e) \in Seq(Symbols)
         /\ EventText(e) \o X \in Seq(Symbols) /\ EventText(e) \o X # <<>>
         /\ (EventText(e) \o X)[1] = OpenBracket
         /\ ParseEvent(EventText(e) \o X, isAck) = Done(e)
<1> DEFINE front == IF e.name = Name.empty THEN <<>> ELSE <<e.name>>
           items == front \o e.args
           body == items \o <<CloseBracket>>
<1>1. /\ e.name \in JsonStrings /\ e.args \in Seq(JsonSymbols)
      /\ e = [name |-> e.name, args |-> e.args]
  OBVIOUS
<1>2. JsonStrings \subseteq JsonSymbols /\ JsonSymbols \subseteq Symbols
  BY DEF JsonSymbols, Symbols
<1>3. <<OpenBracket>> \in Seq(Symbols) /\ <<CloseBracket>> \in Seq(Symbols)
  BY DEF Symbols, OpenBracket, CloseBracket
<1>4. front \in Seq(JsonSymbols)
  <2>1. <<e.name>> \in Seq(JsonSymbols)
    BY <1>1, <1>2
  <2> QED BY <2>1, EmptySeq
<1>5. items \in Seq(JsonSymbols)
  <2> HIDE DEF front
  <2> QED BY <1>1, <1>4, ConcatProperties
<1>6. /\ isAck => items = e.args
      /\ ~isAck => items # <<>> /\ items[1] = e.name /\ Tail(items) = e.args
  <2>1. CASE isAck
    BY <1>1, <2>1, ConcatEmptySeq
  <2>2. CASE ~isAck
    <3>1. items = <<e.name>> \o e.args
      BY <2>2
    <3>2. <<e.name>> \in Seq(JsonSymbols)
      BY <1>1, <1>2
    <3> HIDE DEF items
    <3> QED BY <1>1, <2>2, <3>1, <3>2
  <2> QED BY <2>1, <2>2
<1>7. EventText(e) = (<<OpenBracket>> \o front \o e.args) \o <<CloseBracket>>
  BY DEF EventText
<1>8. front \in Seq(Symbols) /\ e.args \in Seq(Symbols)
  <2> HIDE DEF front
  <2> QED BY <1>1, <1>2, <1>4, SeqMonotonic
<1> HIDE DEF front
<1>9. EventText(e) = (<<OpenBracket>> \o items) \o <<CloseBracket>>
  <2>1. <<OpenBracket>> \o front \o e.args = <<OpenBracket>> \o items
    BY <1>3, <1>8, ConcatAssociative
  <2> HIDE DEF items
  <2> QED BY <1>7, <2>1
<1>10. items \in Seq(Symbols)
  <2> HIDE DEF items
  <2> QED BY <1>2, <1>5, SeqMonotonic
<1> HIDE DEF items
<1>11. EventText(e) \in Seq(Symbols) /\ EventText(e)[1] = OpenBracket /\ EventText(e) # <<>>
  <2> DEFINE U == <<OpenBracket>> \o items
  <2>1. U \in Seq(Symbols) /\ U # <<>> /\ U[1] = OpenBracket
    BY <1>3, <1>10
  <2> HIDE DEF U
  <2>2. U \o <<CloseBracket>> \in Seq(Symbols) /\ U \o <<CloseBracket>> # <<>>
        /\ (U \o <<CloseBracket>>)[1] = OpenBracket
    BY <1>3, <2>1
  <2> QED BY <1>9, <2>2 DEF U
<1>12. /\ EventText(e) \o X \in Seq(Symbols) /\ EventText(e) \o X # <<>>
       /\ (EventText(e) \o X)[1] = OpenBracket
  <2> DEFINE U == EventText(e)
  <2> HIDE DEF U
  <2>1. U \in Seq(Symbols) /\ U # <<>> /\ U[1] = OpenBracket
    BY <1>11 DEF U
  <2>2. U \o X \in Seq(Symbols) /\ U \o X # <<>> /\ (U \o X)[1] = OpenBracket
    BY <2>1
  <2> QED BY <2>2 DEF U
<1>13. ParseEvent(EventText(e) \o X, isAck) =
         IF isAck THEN Done([name |-> Name.empty, args |-> items])
         ELSE Done([name |-> items[1], args |-> Tail(items)])
  BY <1>1, <1>5, <1>6, <1>9, EventRead
<1>14. ParseEvent(EventText(e) \o X, isAck) = Done(e)
  <2>1. CASE isAck
    BY <1>1, <1>6, <1>13, <2>1
  <2>2. CASE ~isAck
    BY <1>1, <1>6, <1>13, <2>2
  <2> QED BY <2>1, <2>2
<1> QED BY <1>11, <1>12, <1>14

-----------------------------------------------------------------------------
(* What is sent is read back.                                              *)

(* Three texts behind each other.                                          *)
LEMMA ThreeParts ==
  ASSUME NEW S, NEW a \in Seq(S), NEW b \in Seq(S), NEW c \in Seq(S)
  PROVE  (a \o b) \o c = a \o (b \o c)
OBVIOUS

(* What Serialize puts together for a message the client makes.            *)
LEMMA SentParts ==
  ASSUME NEW m, Sendable(m), Serialize(m).ok
  PROVE  /\ m.type \in {Connect, Disconnect, Event, Ack} /\ m.type \in 0..4
         /\ m.ns \in Seq(0..255) /\ IsNamespace(m.ns) /\ IsId(m.ack)
         /\ validateMessage(m)
         /\ Serialize(m) = Done(Header(m.type, m.ns, m.ack) \o JsonText(m))
         /\ m = [type |-> m.type, ns |-> m.ns, ack |-> m.ack, event |-> m.event,
                 payload |-> m.payload, error |-> <<>>]
<1>1. m \in Messages
  BY DEF Sendable
<1>2. /\ m.type \in {Connect, Disconnect, Event, Ack} /\ m.ns \in Seq(0..255)
      /\ m.ack \in Seq(Nat) /\ m.error = <<>>
  BY <1>1 DEF Messages
<1>3. m = [type |-> m.type, ns |-> m.ns, ack |-> m.ack, event |-> m.event,
           payload |-> m.payload, error |-> <<>>]
  BY <1>1 DEF Messages
<1>4. m.type \in 0..4
  BY <1>2 DEF Connect, Disconnect, Event, Ack
<1>5. IsNamespace(m.ns) /\ IsId(m.ack)
  BY <1>2 DEF Sendable, IsId
<1>6. validateMessage(m)
  BY DEF Serialize, Failed
<1>7. Serialize(m) = Done(Header(m.type, m.ns, m.ack) \o JsonText(m))
  BY <1>6 DEF Serialize, Header, AckText
<1> QED BY <1>2, <1>3, <1>4, <1>5, <1>6, <1>7

(* A connect or disconnect packet and its payload.                         *)
LEMMA ConnectSent ==
  ASSUME NEW m, Sendable(m), Serialize(m).ok, m.type \in {Connect, Disconnect}
  PROVE  /\ IsBody(JsonText(m))
         /\ Finished(Headed(m.type, m.ns, m.ack), JsonText(m)) = Done([m EXCEPT !.payload = <<>>])
<1> DEFINE h == Headed(m.type, m.ns, m.ack)
           B == JsonText(m)
<1>1. m.event = <<>> /\ m.payload \in Seq(Seq(Symbols))
  BY DEF Sendable, Messages
<1>2. m = [type |-> m.type, ns |-> m.ns, ack |-> m.ack, event |-> m.event,
           payload |-> m.payload, error |-> <<>>]
  BY SentParts
<1>3. h = [m EXCEPT !.payload = <<>>] /\ h.type = m.type
  BY <1>1, <1>2 DEF Headed, Message
<1>4. IsBody(B)
  <2>1. CASE m.payload = <<>>
    BY <1>1, <2>1, EmptySeq DEF JsonText, IsBody
  <2>2. CASE m.payload # <<>>
    <3>1. m.payload[1] \in Seq(Symbols)
      <4>1. Len(m.payload) \in Nat \ {0}
        BY <1>1, <2>2, EmptySeq
      <4>2. 1 \in 1..Len(m.payload)
        BY <4>1
      <4> QED BY <1>1, <4>2, ElementOfSeq
    <3>2. IsObject(m.payload[1])
      BY <2>2 DEF Sendable
    <3>3. B = IF m.payload[1] \in BlankPayloads THEN <<>> ELSE m.payload[1]
      BY <2>2 DEF JsonText
    <3> QED BY <3>1, <3>2, <3>3, EmptySeq DEF IsObject, IsBody
  <2> QED BY <2>1, <2>2
<1>5. ParseBody(h, B) = Done(h)
  <2> HIDE DEF h, B
  <2> QED BY <1>3 DEF ParseBody, Connect, Disconnect, Event, Ack, ConnectError
<1> HIDE DEF h, B
<1> QED BY <1>3, <1>4, <1>5 DEF Finished, h, B

(* An event or an acknowledgement, whatever stands behind it.              *)
LEMMA EventSent ==
  ASSUME NEW m, Sendable(m), Serialize(m).ok, m.type \in {Event, Ack}, NEW X \in Seq(Symbols)
  PROVE  /\ JsonText(m) \in Seq(Symbols)
         /\ IsBody(JsonText(m) \o X) /\ JsonText(m) \o X # <<>>
         /\ Finished(Headed(m.type, m.ns, m.ack), JsonText(m) \o X) =
              Done([m EXCEPT !.payload = <<>>])
<1> DEFINE h == Headed(m.type, m.ns, m.ack)
           isAck == m.type = Ack
           e == m.event[1]
           body == JsonText(m) \o X
<1>1. /\ m.payload = <<>> /\ m.event \in Seq([name : JsonStrings, args : Seq(JsonSymbols)])
      /\ Len(m.event) <= 1
  BY DEF Sendable, Messages
<1>2. validateMessage(m)
  BY SentParts
<1>3. m.event # <<>> /\ (isAck <=> e.name = Name.empty)
  BY <1>2 DEF validateMessage, Sendable, Event, Ack
<1>4. e \in [name : JsonStrings, args : Seq(JsonSymbols)] /\ m.event = <<e>>
  <2> DEFINE E == [name : JsonStrings, args : Seq(JsonSymbols)]
  <2>1. m.event \in Seq(E)
    BY <1>1
  <2> HIDE DEF E
  <2>2. Len(m.event) \in Nat \ {0}
    BY <1>3, <2>1, EmptySeq
  <2>3. Len(m.event) = 1
    <3>1. \A l \in Nat \ {0} : l <= 1 => l = 1
      OBVIOUS
    <3> QED BY <1>1, <2>2, <3>1, Zenon
  <2>4. e \in E
    BY <2>1, <2>3, ElementOfSeq
  <2>5. m.event = <<e>>
    <3>1. <<e>> \in Seq(E) /\ Len(<<e>>) = 1 /\ <<e>>[1] = e
      BY <2>4
    <3>2. \A i \in 1..Len(m.event) : m.event[i] = <<e>>[i]
      BY <2>3, <3>1
    <3> QED BY <2>1, <2>3, <3>1, <3>2, SeqEqual
  <2> QED BY <2>4, <2>5 DEF E
<1>5. JsonText(m) = EventText(e)
  BY <1>1, <1>3 DEF JsonText
<1>6. isAck \in BOOLEAN
  OBVIOUS
<1>7. /\ JsonText(m) \in Seq(Symbols) /\ body \in Seq(Symbols) /\ body # <<>>
      /\ body[1] = OpenBracket /\ ParseEvent(body, isAck) = Done(e)
  <2> HIDE DEF e, isAck
  <2> QED BY <1>3, <1>4, <1>5, <1>6, ArrayRead
<1>8. m = [type |-> m.type, ns |-> m.ns, ack |-> m.ack, event |-> m.event,
           payload |-> m.payload, error |-> <<>>]
  BY SentParts
<1>9. h.type = m.type /\ [h EXCEPT !.event = m.event] = [m EXCEPT !.payload = <<>>]
  <2> DEFINE whole == [type |-> m.type, ns |-> m.ns, ack |-> m.ack, event |-> m.event,
                       payload |-> <<>>, error |-> <<>>]
  <2>1. h = [type |-> m.type, ns |-> m.ns, ack |-> m.ack, event |-> <<>>,
             payload |-> <<>>, error |-> <<>>]
    BY DEF Headed, Message
  <2>2. [m EXCEPT !.payload = <<>>] = whole
    BY <1>8
  <2> HIDE DEF h
  <2>3. h.type = m.type /\ [h EXCEPT !.event = m.event] = whole
    BY <2>1
  <2> QED BY <2>2, <2>3
<1> HIDE DEF h, e, body
<1>10. ParseBody(h, body) = Done([h EXCEPT !.event = <<e>>])
  <2> DEFINE event == ParseEvent(body, h.type = Ack)
  <2>1. event = Done(e)
    BY <1>7, <1>9
  <2>2. h.type \in {Event, Ack}
    BY <1>9
  <2> HIDE DEF event
  <2>3. event.ok /\ event.value = e
    BY <2>1 DEF Done
  <2>4. ParseBody(h, body) =
          IF event.ok THEN Done([h EXCEPT !.event = <<event.value>>]) ELSE Failed
    BY <2>2 DEF ParseBody, event, ConnectError, Event, Ack
  <2> QED BY <2>3, <2>4
<1>11. ParseBody(h, body) = Done([m EXCEPT !.payload = <<>>])
  BY <1>4, <1>9, <1>10
<1> QED BY <1>7, <1>11 DEF Finished, IsBody, h, body

(* Every message the client can send is read back as it was sent, alone    *)
(* and, an event, in front of another packet of the same polling payload.  *)
THEOREM SentIsReadBack ==
  ASSUME NEW m, Sendable(m) PROVE ReadBack(m)
<1> DEFINE H == Header(m.type, m.ns, m.ack)
           B == JsonText(m)
           text == H \o B
           another == <<RecordSeparator, TypeByte(EngineMessage)>> \o text
           sent == Done([m EXCEPT !.payload = <<>>])
<1> SUFFICES ASSUME Serialize(m).ok
             PROVE  Parse(text) = sent /\ (m.type = Event => Parse(text \o another) = sent)
  <2>1. Serialize(m).ok => Serialize(m).value = text
    <3>1. Serialize(m).ok => Serialize(m) = Done(text)
      BY SentParts
    <3> HIDE DEF text
    <3> QED BY <3>1 DEF Done
  <2> HIDE DEF text, sent
  <2>2. ASSUME Serialize(m).ok PROVE Serialize(m).value = text
    BY <2>1, <2>2
  <2> QED BY <2>1 DEF ReadBack, another, sent
<1>1. /\ m.type \in {Connect, Disconnect, Event, Ack} /\ m.type \in 0..4
      /\ m.ns \in Seq(0..255) /\ IsNamespace(m.ns) /\ IsId(m.ack)
  BY SentParts
<1>2. ASSUME NEW Y, IsBody(Y), Y = <<>> => m.type \in {Connect, Disconnect}
      PROVE  H \in Seq(Symbols) /\ Parse(H \o Y) = Finished(Headed(m.type, m.ns, m.ack), Y)
  BY <1>1, <1>2, PacketRead
<1>3. CASE m.type \in {Connect, Disconnect}
  <2>1. IsBody(B) /\ Finished(Headed(m.type, m.ns, m.ack), B) = sent
    BY <1>3, ConnectSent
  <2>2. m.type # Event
    BY <1>3 DEF Connect, Disconnect, Event
  <2> HIDE DEF H, B, sent
  <2> QED BY <1>2, <1>3, <2>1, <2>2
<1>4. CASE m.type \in {Event, Ack}
  <2>1. ASSUME NEW X \in Seq(Symbols)
        PROVE  /\ B \in Seq(Symbols) /\ IsBody(B \o X) /\ B \o X # <<>>
               /\ Finished(Headed(m.type, m.ns, m.ack), B \o X) = sent
    BY <1>4, EventSent
  <2> HIDE DEF H, B, sent
  <2>2. ASSUME NEW X \in Seq(Symbols) PROVE H \in Seq(Symbols) /\ Parse(H \o (B \o X)) = sent
    <3> DEFINE Y == B \o X
    <3>1. IsBody(Y) /\ Y # <<>> /\ Finished(Headed(m.type, m.ns, m.ack), Y) = sent
      BY <2>1
    <3> HIDE DEF Y
    <3>2. H \in Seq(Symbols) /\ Parse(H \o Y) = sent
      BY <1>2, <3>1
    <3> QED BY <3>2 DEF Y
  <2>3. <<>> \in Seq(Symbols)
    BY EmptySeq
  <2>4. B \in Seq(Symbols) /\ H \in Seq(Symbols)
    BY <2>1, <2>2, <2>3
  <2>5. Parse(text) = sent
    <3>1. B \o <<>> = B
      BY <2>4, ConcatEmptySeq
    <3> QED BY <2>2, <2>3, <3>1
  <2>6. another \in Seq(Symbols)
    <3>1. text \in Seq(Symbols)
      BY <2>4, ConcatProperties
    <3>2. TypeByte(EngineMessage) = EngineMessage + 48
      BY TypeBytes DEF EngineMessage, Noop
    <3>3. <<RecordSeparator, TypeByte(EngineMessage)>> \in Seq(Symbols)
      <4>1. RecordSeparator \in Symbols /\ TypeByte(EngineMessage) \in Symbols
        BY <3>2 DEF RecordSeparator, EngineMessage, Symbols
      <4> QED BY <4>1
    <3> HIDE DEF text
    <3> QED BY <3>1, <3>3, ConcatProperties
  <2> HIDE DEF another
  <2>7. text \o another = H \o (B \o another)
    BY <2>4, <2>6, ThreeParts
  <2>8. Parse(text \o another) = sent
    BY <2>2, <2>6, <2>7
  <2> QED BY <2>5, <2>8
<1> QED BY <1>1, <1>3, <1>4

-----------------------------------------------------------------------------
(* The engine.io framing.                                                  *)

(* A packet of engine.io that fits the outbound limit is parsed as what it *)
(* was made from, its type byte taken off and nothing else, and no packet  *)
(* above the limit is made.                                                *)
THEOREM FramedIsUnframed ==
  ASSUME NEW type \in 0..Noop, NEW data \in Seq(Symbols)
  PROVE  LET framed == EngineSerialize(type, data)
         IN /\ framed.ok <=> Len(data) <= MaxSerializeSize
            /\ framed.ok => EngineParse(framed.value) = Done([type |-> type, data |-> data])
<1> DEFINE text == <<TypeByte(type)>> \o data
<1>1. TypeByte(type) = type + 48 /\ TypeOf(TypeByte(type)) = type
  BY TypeBytes
<1>2. TypeByte(type) \in Symbols
  BY <1>1 DEF Symbols, Noop
<1>3. text # <<>> /\ text[1] = TypeByte(type) /\ Tail(text) = data
  BY <1>2
<1>4. Len(data) \in Nat
  BY LenProperties
<1>5. EngineSerialize(type, data) = IF Len(data) > MaxSerializeSize THEN Failed ELSE Done(text)
  BY DEF EngineSerialize
<1> HIDE DEF text
<1>6. ~(type > Noop)
  BY DEF Noop
<1>7. EngineParse(text) = Done([type |-> type, data |-> data])
  BY <1>1, <1>3, <1>6 DEF EngineParse
<1> QED BY <1>4, <1>5, <1>7 DEF Done, Failed

=============================================================================
