------------------------- MODULE EventDispatchProofs ------------------------
(***************************************************************************)
(* Proofs about the dispatch of packets to handlers, for any handlers,     *)
(* namespaces, texts of the server and capacity of the read loop: every    *)
(* variable keeps its type, a handler that was there in time gets a packet *)
(* exactly once, and a connect handler finds its namespace connected.      *)
(* What the codecs promise is WireFormatProofs.                            *)
(***************************************************************************)
EXTENDS EventDispatch, WireFormatProofs

USE HandlerAssumption, PacketAssumption, NamespaceAssumption
USE DEF onMessage

Packets == {Meaning[text] : text \in ServerSends}
Goroutines == AllHandlers \X (1..MaxPackets)

(* While onMessage is busy there is a packet it is busy with, and none     *)
(* after a panic.  A connect packet passes the gate first.                 *)
Busy ==
  /\ loop # "idle" => Len(log) > 0 /\ ~crashed
  /\ loop = "gate" => Current.type = Connect /\ Current.ns \in namespaces
  /\ loop = "spawn" /\ Current.type = Connect => Current.ns \in connected

(* No handler is registered ahead of the log.                              *)
InTime == \A h \in AllHandlers : registeredAt[h] <= Len(log)

(* What has been started for handler h and packet number k.                *)
Account(h, k) ==
  /\ started[<<h, k>>] \in 0..1
  /\ h \notin handlers \/ k > Len(log) \/ (k = Len(log) /\ loop # "idle") =>
       started[<<h, k>>] = 0
  /\ h \in handlers /\ k < registeredAt[h] => started[<<h, k>>] = 0
  /\ h \in handlers /\ k \in 1..Len(log) /\ k > registeredAt[h] /\ Dispatched(k) =>
       started[<<h, k>>] = IF For(h, log[k]) THEN 1 ELSE 0
  /\ k \in 1..Len(log) /\ started[<<h, k>>] > 0 /\ log[k].type = Connect =>
       log[k].ns \in connected
Accounts == \A h \in AllHandlers, k \in 1..MaxPackets : Account(h, k)

IInv == TypeOK /\ Busy /\ InTime /\ Accounts

-----------------------------------------------------------------------------
(* Nothing has arrived.                                                    *)
LEMMA InitIInv == Init => IInv
<1> SUFFICES ASSUME Init PROVE IInv
  OBVIOUS
<1>1. inbox \in Seq(ServerSends) /\ log \in Seq(Packets) /\ Len(log) = 0 /\ Len(inbox) = 0
  BY DEF Init
<1>2. TypeOK
  <2>1. /\ handlers \subseteq AllHandlers /\ registeredAt \in [AllHandlers -> 0..MaxPackets]
        /\ DefaultNs \in namespaces /\ namespaces \subseteq Namespaces
        /\ connected \subseteq namespaces
    BY DEF Init
  <2>2. started \in [AllHandlers \X (1..MaxPackets) -> Nat]
    BY DEF Init
  <2>3. called \subseteq finished /\ finished \subseteq DOMAIN started /\ crashed \in BOOLEAN
    BY Zenon DEF Init
  <2>4. Len(inbox) <= MessageCap /\ arrived = 0 /\ loop = "idle"
    BY <1>1 DEF Init
  <2> QED BY <1>1, <2>1, <2>2, <2>3, <2>4 DEF TypeOK, Packets
<1>3. Busy /\ InTime
  BY <1>1 DEF Init, Busy, InTime
<1>4. Accounts
  BY <1>1 DEF Init, Accounts, Account
<1> QED BY <1>2, <1>3, <1>4 DEF IInv

(* A handler is registered, and has missed what has been taken so far.     *)
LEMMA OnPreserves == ASSUME IInv, NEW h \in AllHandlers, On(h) PROVE IInv'
<1>1. TypeOK'
  BY DEF IInv, TypeOK, On
<1>2. Busy' /\ InTime'
  BY DEF IInv, TypeOK, On, Busy, InTime, Current
<1>3. ASSUME NEW g \in AllHandlers, NEW k \in 1..MaxPackets PROVE Account(g, k)'
  <2>1. Account(g, k) /\ Len(log) \in Nat /\ registeredAt \in [AllHandlers -> 0..MaxPackets]
    BY DEF IInv, Accounts, TypeOK
  <2>2. UNCHANGED <<connected, log, loop, started, crashed>> /\ h \notin handlers
    BY DEF On
  <2>3. CASE g = h
    <3>1. started[<<g, k>>] = 0
      BY <2>1, <2>2, <2>3 DEF Account
    <3>2. registeredAt'[g] = Len(log) /\ g \in handlers'
      BY <2>1, <2>3 DEF On
    <3>3. k > registeredAt'[g] => ~(k \in 1..Len(log))
      BY <2>1, <3>2
    <3> QED BY <2>1, <2>2, <3>1, <3>3 DEF Account
  <2>4. CASE g # h
    <3>1. registeredAt'[g] = registeredAt[g] /\ (g \in handlers' <=> g \in handlers)
      BY <2>1, <2>4 DEF On
    <3> QED BY <2>1, <2>2, <3>1 DEF Account, Dispatched
  <2> QED BY <2>3, <2>4
<1> QED BY <1>1, <1>2, <1>3 DEF IInv, Accounts

(* A packet is buffered.                                                   *)
LEMMA ArrivePreserves == ASSUME IInv, NEW p \in ServerSends, Arrive(p) PROVE IInv'
<1>1. TypeOK'
  BY DEF IInv, TypeOK, Arrive
<1>2. Busy' /\ InTime'
  BY DEF IInv, Arrive, Busy, InTime, Current
<1>3. Accounts'
  <2>1. UNCHANGED <<handlers, registeredAt, connected, log, loop, started, crashed>>
    BY DEF Arrive
  <2>2. ASSUME NEW h \in AllHandlers, NEW k \in 1..MaxPackets PROVE Account(h, k)'
    <3>1. Account(h, k)
      BY DEF IInv, Accounts
    <3> QED BY <2>1, <3>1 DEF Account, Dispatched, For
  <2> QED BY <2>2 DEF Accounts
<1> QED BY <1>1, <1>2, <1>3 DEF IInv

(* onMessage takes a packet: one that handlers can be for is not passed    *)
(* over.                                                                   *)
LEMMA TakePreserves == ASSUME IInv, TakePacket PROVE IInv'
<1> DEFINE p == Meaning[Head(inbox)]
           n == Len(log)
<1>1. /\ inbox \in Seq(ServerSends) /\ inbox # <<>> /\ log \in Seq(Packets)
      /\ Head(inbox) \in ServerSends /\ p \in Packets
  BY DEF IInv, TypeOK, TakePacket, Packets
<1>2. /\ n \in Nat /\ Len(log') = n + 1 /\ log' \in Seq(Packets)
      /\ log'[n + 1] = p /\ \A k \in 1..n : log'[k] = log[k]
  BY <1>1 DEF TakePacket
<1>3. /\ inbox' \in Seq(ServerSends) /\ Len(inbox') = Len(inbox) - 1
      /\ Len(inbox) \in Nat /\ Len(inbox) > 0
  BY <1>1 DEF TakePacket
<1>4. n + 1 \in 1..MaxPackets
  BY <1>2, <1>3 DEF IInv, TypeOK
<1>5. p.type = Connect => p.ns \in Namespaces
  BY <1>1
<1>6. TypeOK'
  <2>1. /\ DefaultNs \in namespaces' /\ namespaces' \subseteq Namespaces
        /\ namespaces \subseteq namespaces'
    BY <1>5 DEF IInv, TypeOK, TakePacket
  <2>2. loop' \in {"idle", "gate", "spawn"}
    BY DEF IInv, TypeOK, TakePacket
  <2>3. Len(log') + Len(inbox') = arrived /\ Len(inbox') <= MessageCap
    <3>1. n + Len(inbox) = arrived /\ Len(inbox) <= MessageCap /\ MessageCap \in Nat
      BY PacketAssumption DEF IInv, TypeOK
    <3>2. Len(log') = n + 1 /\ Len(inbox') = Len(inbox) - 1 /\ n \in Nat /\ Len(inbox) \in Nat
      BY <1>2, <1>3
    <3> HIDE DEF n
    <3> QED BY <3>1, <3>2
  <2>4. UNCHANGED <<handlers, registeredAt, connected, arrived, started, finished, called,
                    crashed>>
    BY DEF TakePacket
  <2> QED BY <1>2, <1>3, <2>1, <2>2, <2>3, <2>4 DEF IInv, TypeOK, Packets
<1>7. Busy' /\ InTime'
  <2>1. Current' = p /\ Len(log') > 0
    BY <1>2 DEF Current
  <2>2. Busy'
    BY <2>1 DEF TakePacket, Busy, ForHandlers, Connect, Disconnect, Event, ConnectError
  <2>3. InTime'
    BY <1>2 DEF IInv, TypeOK, TakePacket, InTime
  <2> QED BY <2>2, <2>3
<1>8. ASSUME NEW h \in AllHandlers, NEW k \in 1..MaxPackets PROVE Account(h, k)'
  <2>1. Account(h, k)
    BY DEF IInv, Accounts
  <2>2. CASE k # n + 1
    BY <1>2, <2>1, <2>2 DEF Account, TakePacket, Dispatched
  <2>3. CASE k = n + 1
    <3>1. started[<<h, k>>] = 0
      BY <1>2, <2>1, <2>3 DEF Account
    <3>2. loop' = "idle" => ~For(h, p)
      BY DEF TakePacket, For, IInv, TypeOK
    <3> QED BY <1>2, <2>3, <3>1, <3>2 DEF Account, TakePacket, Dispatched
  <2> QED BY <2>2, <2>3
<1> QED BY <1>6, <1>7, <1>8 DEF IInv, Accounts

(* The gate opens.                                                         *)
LEMMA GatePreserves == ASSUME IInv, OpenGate PROVE IInv'
<1>1. Current.type = Connect /\ Current.ns \in namespaces
  BY DEF IInv, Busy, OpenGate
<1>2. TypeOK'
  BY <1>1 DEF IInv, TypeOK, OpenGate
<1>3. Busy' /\ InTime'
  BY <1>1 DEF IInv, OpenGate, Busy, InTime, Current
<1>4. Accounts'
  BY DEF IInv, OpenGate, Accounts, Account, Dispatched
<1> QED BY <1>2, <1>3, <1>4 DEF IInv

(* One goroutine is started for each handler that is registered and for    *)
(* this packet.                                                            *)
LEMMA DispatchPreserves == ASSUME IInv, Dispatch PROVE IInv'
<1>1. /\ Len(log) \in 1..MaxPackets /\ DOMAIN started = Goroutines
      /\ Current = log[Len(log)]
  BY DEF IInv, TypeOK, Busy, Dispatch, Current, Goroutines
<1>2. \A h \in AllHandlers, k \in 1..MaxPackets :
        started'[<<h, k>>] = IF h \in handlers /\ For(h, Current) /\ k = Len(log)
                             THEN started[<<h, k>>] + 1 ELSE started[<<h, k>>]
  BY <1>1 DEF Dispatch, Listening, Goroutines
<1>3. TypeOK'
  BY DEF IInv, TypeOK, Dispatch
<1>4. Busy' /\ InTime'
  BY DEF IInv, Dispatch, Busy, InTime
<1>5. ASSUME NEW h \in AllHandlers, NEW k \in 1..MaxPackets PROVE Account(h, k)'
  <2>1. Account(h, k)
    BY DEF IInv, Accounts
  <2>2. CASE k # Len(log)
    BY <1>1, <1>2, <2>1, <2>2 DEF Account, Dispatch, Dispatched
  <2>3. CASE k = Len(log)
    <3>1. /\ started[<<h, k>>] = 0 /\ registeredAt[h] \in Nat /\ registeredAt[h] <= k
          /\ Current.type = Connect => Current.ns \in connected
      BY <2>1, <2>3 DEF Account, Dispatch, IInv, TypeOK, Busy, InTime
    <3>2. UNCHANGED <<handlers, registeredAt, log, connected>> /\ loop' = "idle"
      BY DEF Dispatch
    <3>3. started'[<<h, k>>] = IF h \in handlers /\ For(h, log[k]) THEN 1 ELSE 0
      BY <1>1, <1>2, <2>3, <3>1
    <3> QED BY <1>1, <2>3, <3>1, <3>2, <3>3 DEF Account, Dispatched
  <2> QED BY <2>2, <2>3
<1> QED BY <1>3, <1>4, <1>5 DEF IInv, Accounts

(* A handler's goroutine ends.                                             *)
LEMMA RunPreserves ==
  ASSUME IInv, NEW h \in AllHandlers, NEW k \in 1..MaxPackets, Run(h, k) PROVE IInv'
<1>1. TypeOK'
  BY DEF IInv, TypeOK, Run
<1>2. Busy' /\ InTime' /\ Accounts'
  BY DEF IInv, Run, Busy, InTime, Current, Accounts, Account, Dispatched
<1> QED BY <1>1, <1>2 DEF IInv

(* Every step preserves the invariant.                                     *)
LEMMA StepPreserves == IInv /\ [Next]_vars => IInv'
<1>1. ASSUME IInv, UNCHANGED vars PROVE IInv'
  BY <1>1 DEF vars, IInv, TypeOK, Busy, InTime, Current, Accounts, Account, Dispatched
<1> QED BY <1>1, OnPreserves, ArrivePreserves, TakePreserves, GatePreserves,
           DispatchPreserves, RunPreserves DEF Next

(* Every packet is accounted for with every handler.                       *)
THEOREM InvariantHolds == Spec => []IInv
BY InitIInv, StepPreserves, PTL DEF Spec

(* Every variable keeps its type: the buffer of the read loop never        *)
(* outgrows its capacity, and no packet is read that has not arrived.      *)
THEOREM TypeCorrect == Spec => []TypeOK
<1>1. IInv => TypeOK
  BY DEF IInv
<1> QED BY <1>1, InvariantHolds, PTL

(* A handler registered before the read loop takes a packet gets it in     *)
(* exactly one goroutine, and one registered after the packet was          *)
(* dispatched does not get it.                                             *)
THEOREM HandlersGetPackets == Spec => []DispatchedOnce
<1>1. IInv => DispatchedOnce
  <2> SUFFICES ASSUME IInv, NEW h \in handlers, NEW k \in 1..Len(log)
               PROVE  /\ Dispatched(k) /\ k > registeredAt[h] =>
                           started[<<h, k>>] = IF For(h, log[k]) THEN 1 ELSE 0
                      /\ k < registeredAt[h] => started[<<h, k>>] = 0
                      /\ started[<<h, k>>] <= 1
    BY DEF DispatchedOnce
  <2>1. h \in AllHandlers /\ k \in 1..MaxPackets
    BY DEF IInv, TypeOK
  <2>2. Account(h, k)
    BY <2>1 DEF IInv, Accounts
  <2> QED BY <2>2 DEF Account
<1> QED BY <1>1, InvariantHolds, PTL

(* When a connect handler starts, the gate that Emit waits at is open.     *)
THEOREM ConnectedFirst == Spec => []ConnectHandlerMayEmit
<1>1. IInv => ConnectHandlerMayEmit
  BY DEF IInv, TypeOK, Accounts, Account, ConnectHandlerMayEmit
<1> QED BY <1>1, InvariantHolds, PTL

-----------------------------------------------------------------------------
(* The codecs.                                                             *)

(* Whatever the messages it is asked of, the client sends none that would  *)
(* not be read back as it was sent, alone and in front of another packet   *)
(* of the same polling payload.                                            *)
THEOREM ReadBackAlways == Spec => []RoundTrip
<1>1. RoundTrip
  BY SampleAssumption, SentIsReadBack DEF RoundTrip
<1> QED BY <1>1, PTL

(* Whatever the texts it is asked of, the parser accepts no event,         *)
(* acknowledgement or error of more than one byte without its body.        *)
THEOREM BodiesAlways == Spec => []AcceptedHasBody
<1>1. AcceptedHasBody
  BY SampleAssumption, ParsedHasBody DEF AcceptedHasBody
<1> QED BY <1>1, PTL

=============================================================================
