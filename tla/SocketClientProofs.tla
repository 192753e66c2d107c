------------------------- MODULE SocketClientProofs -------------------------
(***************************************************************************)
(* Proofs that the Socket.IO client settles every Emit at most once and    *)
(* never loses or misroutes an acknowledgement, for any set of emits.      *)
(***************************************************************************)
EXTENDS SocketClient, TLAPS

InTable(e) == ackId[e] \in DOMAIN ackCallbacks

(* An emit has no id before it is registered, and none of the things an id *)
(* brings; only emits with a timeout have a watcher, after registration.   *)
Staged(e) ==
  /\ pc[e] \in {"idle", "gate", "register"} => ackId[e] = 0
  /\ ackId[e] = 0 => /\ calls[e] = 0 /\ ~done[e] /\ ackRuns[e] = 0
                     /\ watcher[e] = "none"
  /\ watcher[e] # "none" => e \in WithTimeout /\ pc[e] \in {"send", "returned", "error"}
  /\ pc[e] = "watch" => e \in WithTimeout /\ ackId[e] # 0

(* The right to answer an emit is in one place: the table, the goroutine   *)
(* of handleAck, the done channel, or used up.                             *)
AnswerInOnePlace(e) ==
  /\ InTable(e) => /\ calls[e] = 0 /\ ~done[e] /\ ackRuns[e] = 0
                   /\ watcher[e] \notin {"timedOut", "acked"}
  /\ calls[e] <= 1
  /\ calls[e] = 1 => ~done[e] /\ ackRuns[e] = 0 /\ watcher[e] # "acked"
  /\ done[e] => e \in WithTimeout /\ ackRuns[e] = 0 /\ watcher[e] # "acked"
  /\ ackRuns[e] <= 1
  /\ e \in WithTimeout /\ ackRuns[e] = 1 => watcher[e] = "acked"
  /\ timeoutRuns[e] = IF watcher[e] = "timedOut" THEN 1 ELSE 0

(* A registered emit without a timeout is unanswered, or had its callback  *)
(* removed by a malformed ack, or its callback runs or has run.            *)
AnswerKept(e) ==
  e \in WithAck \ WithTimeout /\ ackId[e] # 0 =>
    \/ InTable(e) /\ ackId[e] \notin answered
    \/ ackId[e] \in dropped
    \/ ackRuns[e] + calls[e] = 1

IInv ==
  /\ TypeOK
  /\ RoutedToOwner
  /\ \A e \in Emits : Staged(e)
  /\ \A e \in Emits : AnswerInOnePlace(e)
  /\ \A e \in Emits : AnswerKept(e)

USE EmitAssumption

(* NewClient and the first state of every emit satisfy the invariant.      *)
LEMMA InitEstablishes == Init => IInv
<1> SUFFICES ASSUME Init PROVE IInv
  OBVIOUS
<1>1. DOMAIN ackCallbacks = {}
  BY DEF Init
<1>2. TypeOK
  <2>1. ackCallbacks \in [DOMAIN ackCallbacks -> Emits]
    BY <1>1 DEF Init
  <2>2. DOMAIN ackCallbacks \subseteq 1..ackCounter
    BY <1>1
  <2>3. /\ ctx \in Contexts /\ cancelled \in BOOLEAN /\ connected \in BOOLEAN
        /\ pc \in [Emits -> EmitSteps] /\ gateCtx \in [Emits -> Contexts]
        /\ watcher \in [Emits -> WatcherSteps] /\ watchCtx \in [Emits -> Contexts]
        /\ done \in [Emits -> BOOLEAN] /\ crashed \in BOOLEAN
    BY DEF Init, Contexts, EmitSteps, WatcherSteps
  <2>4. /\ ackCounter \in Nat /\ ackId \in [Emits -> 0..ackCounter]
        /\ calls \in [Emits -> Nat] /\ ackRuns \in [Emits -> Nat]
        /\ timeoutRuns \in [Emits -> Nat]
    BY DEF Init
  <2>5. /\ sent \subseteq 0..ackCounter /\ answered \subseteq sent \ {0}
        /\ dropped \subseteq sent \ {0} /\ acksLeft \in Nat
    BY DEF Init
  <2> QED BY <2>1, <2>2, <2>3, <2>4, <2>5 DEF TypeOK
<1>3. RoutedToOwner
  BY <1>1 DEF Init, RoutedToOwner
<1>4. ASSUME NEW e \in Emits PROVE Staged(e) /\ AnswerInOnePlace(e) /\ AnswerKept(e)
  <2>1. /\ pc[e] = "idle" /\ ackId[e] = 0 /\ watcher[e] = "none" /\ done[e] = FALSE
        /\ calls[e] = 0 /\ ackRuns[e] = 0 /\ timeoutRuns[e] = 0
    BY DEF Init
  <2> QED BY <1>1, <2>1 DEF Staged, AnswerInOnePlace, AnswerKept, InTable
<1> QED BY <1>2, <1>3, <1>4 DEF IInv

(* Connect, cancellation and the connect packet touch no emit. *)
LEMMA SessionPreserves == ASSUME IInv, Connect \/ Cancel \/ HandleConnect PROVE IInv'
<1> USE DEF IInv, Connect, Cancel, HandleConnect,
            session, emitting, table, watching, outcome, network
<1>1. TypeOK'
  BY DEF TypeOK, Contexts, EmitSteps, WatcherSteps
<1>2. RoutedToOwner'
  BY DEF TypeOK, RoutedToOwner
<1>3. \A f \in Emits : Staged(f)'
  BY DEF TypeOK, Staged
<1>4. \A f \in Emits : AnswerInOnePlace(f)'
  BY DEF TypeOK, RoutedToOwner, Staged, AnswerInOnePlace, InTable
<1>5. \A f \in Emits : AnswerKept(f)'
  BY DEF TypeOK, RoutedToOwner, Staged, AnswerInOnePlace, AnswerKept, InTable
<1> QED BY <1>1, <1>2, <1>3, <1>4, <1>5

(* Steps of Emit that move only the goroutine, or put its packet on the wire. *)
LEMMA PlainStepPreserves == ASSUME IInv, NEW e \in Emits,
         \/ EmitBegin(e) \/ EmitReady(e) \/ EmitCancelled(e)
         \/ SendPacket(e)
   PROVE IInv'
<1> USE DEF IInv, EmitBegin, EmitReady, EmitCancelled, SendPacket, At,
            session, emitting, table, watching, outcome, network
<1>1. TypeOK'
  BY DEF TypeOK, Contexts, EmitSteps, WatcherSteps
<1>2. RoutedToOwner'
  BY DEF TypeOK, RoutedToOwner
<1>3. \A f \in Emits : Staged(f)'
  BY DEF TypeOK, Staged
<1>4. \A f \in Emits : AnswerInOnePlace(f)'
  BY DEF TypeOK, RoutedToOwner, Staged, AnswerInOnePlace, InTable
<1>5. \A f \in Emits : AnswerKept(f)'
  BY DEF TypeOK, RoutedToOwner, Staged, AnswerInOnePlace, AnswerKept, InTable
<1> QED BY <1>1, <1>2, <1>3, <1>4, <1>5

(* The id is new, so the entry it is stored under has no other owner. *)
LEMMA RegisterPreserves == ASSUME IInv, NEW e \in Emits, Register(e) PROVE IInv'
<1> USE DEF IInv, Register, At, Store,
            session, emitting, table, watching, outcome, network
<1>1. TypeOK'
  BY DEF TypeOK, Contexts, EmitSteps, WatcherSteps
<1>2. RoutedToOwner'
  BY DEF TypeOK, RoutedToOwner, Staged
<1>3. \A f \in Emits : Staged(f)'
  BY DEF TypeOK, Staged
<1>4. \A f \in Emits : AnswerInOnePlace(f)'
  BY DEF TypeOK, RoutedToOwner, Staged, AnswerInOnePlace, InTable
<1>5. \A f \in Emits : AnswerKept(f)'
  BY DEF TypeOK, RoutedToOwner, Staged, AnswerInOnePlace, AnswerKept, InTable
<1> QED BY <1>1, <1>2, <1>3, <1>4, <1>5

(* The watcher starts after registration. *)
LEMMA StartWatcherPreserves == ASSUME IInv, NEW e \in Emits, StartWatcher(e) PROVE IInv'
<1> USE DEF IInv, StartWatcher, At,
            session, emitting, table, watching, outcome, network
<1>1. TypeOK'
  BY DEF TypeOK, Contexts, EmitSteps, WatcherSteps
<1>2. RoutedToOwner'
  BY DEF TypeOK, RoutedToOwner
<1>3. \A f \in Emits : Staged(f)'
  BY DEF TypeOK, Staged
<1>4. \A f \in Emits : AnswerInOnePlace(f)'
  BY DEF TypeOK, RoutedToOwner, Staged, AnswerInOnePlace, InTable
<1>5. \A f \in Emits : AnswerKept(f)'
  BY DEF TypeOK, RoutedToOwner, Staged, AnswerInOnePlace, AnswerKept, InTable
<1> QED BY <1>1, <1>2, <1>3, <1>4, <1>5

(* handleAck moves the right to answer from the table to a new goroutine. *)
LEMMA HandleAckPreserves == ASSUME IInv, NEW id \in sent, HandleAck(id) PROVE IInv'
<1> USE DEF IInv, HandleAck, ServerMayAck, Delete,
            session, emitting, table, watching, outcome, network
<1>1. TypeOK'
  BY DEF TypeOK, Contexts, EmitSteps, WatcherSteps
<1>2. RoutedToOwner'
  BY DEF TypeOK, RoutedToOwner
<1>3. \A f \in Emits : Staged(f)'
  BY DEF TypeOK, RoutedToOwner, Staged
<1>4. \A f \in Emits : AnswerInOnePlace(f)'
  BY DEF TypeOK, RoutedToOwner, Staged, AnswerInOnePlace, InTable
<1>5. \A f \in Emits : AnswerKept(f)'
  BY DEF TypeOK, RoutedToOwner, Staged, AnswerInOnePlace, AnswerKept, InTable
<1> QED BY <1>1, <1>2, <1>3, <1>4, <1>5

(* A malformed ack only removes an entry. *)
LEMMA DropBadAckPreserves == ASSUME IInv, NEW id \in sent, DropBadAck(id) PROVE IInv'
<1> USE DEF IInv, DropBadAck, ServerMayAck, Delete,
            session, emitting, table, watching, outcome, network
<1>1. TypeOK'
  BY DEF TypeOK, Contexts, EmitSteps, WatcherSteps
<1>2. RoutedToOwner'
  BY DEF TypeOK, RoutedToOwner
<1>3. \A f \in Emits : Staged(f)'
  BY DEF TypeOK, Staged
<1>4. \A f \in Emits : AnswerInOnePlace(f)'
  BY DEF TypeOK, RoutedToOwner, Staged, AnswerInOnePlace, InTable
<1>5. \A f \in Emits : AnswerKept(f)'
  BY DEF TypeOK, RoutedToOwner, Staged, AnswerInOnePlace, AnswerKept, InTable
<1> QED BY <1>1, <1>2, <1>3, <1>4, <1>5

(* The goroutine of handleAck uses the right up or hands it to the watcher. *)
LEMMA RunCallbackPreserves == ASSUME IInv, NEW e \in Emits, RunCallback(e) PROVE IInv'
<1> USE DEF IInv, RunCallback,
            session, emitting, table, watching, outcome, network
<1>1. TypeOK'
  <2>1. calls' \in [Emits -> Nat] /\ ackRuns' \in [Emits -> Nat]
    BY DEF TypeOK
  <2>2. done' \in [Emits -> BOOLEAN]
    BY DEF TypeOK
  <2> QED BY <2>1, <2>2 DEF TypeOK
<1>2. RoutedToOwner'
  BY DEF TypeOK, RoutedToOwner
<1>3. \A f \in Emits : Staged(f)'
  BY DEF TypeOK, Staged
<1>4. \A f \in Emits : AnswerInOnePlace(f)'
  BY DEF TypeOK, RoutedToOwner, Staged, AnswerInOnePlace, InTable
<1>5. \A f \in Emits : AnswerKept(f)'
  BY DEF TypeOK, RoutedToOwner, Staged, AnswerInOnePlace, AnswerKept, InTable
<1> QED BY <1>1, <1>2, <1>3, <1>4, <1>5

(* The timer fires or the context ends while the watcher selects. *)
LEMMA WatchTimerPreserves ==
  ASSUME IInv, NEW e \in Emits, WatchTimer(e) \/ WatchCancelled(e)
  PROVE  IInv'
<1> USE DEF IInv, WatchTimer, WatchCancelled, Watching,
            session, emitting, table, watching, outcome, network
<1>1. TypeOK'
  BY DEF TypeOK, Contexts, EmitSteps, WatcherSteps
<1>2. RoutedToOwner'
  BY DEF TypeOK, RoutedToOwner
<1>3. \A f \in Emits : Staged(f)'
  BY DEF TypeOK, Staged
<1>4. \A f \in Emits : AnswerInOnePlace(f)'
  BY DEF TypeOK, RoutedToOwner, Staged, AnswerInOnePlace, InTable
<1>5. \A f \in Emits : AnswerKept(f)'
  BY DEF TypeOK, RoutedToOwner, Staged, AnswerInOnePlace, AnswerKept, InTable
<1> QED BY <1>1, <1>2, <1>3, <1>4, <1>5

(* A timeout takes its own entry out of the table, and no other. *)
LEMMA WatchTimeoutPreserves == ASSUME IInv, NEW e \in Emits, WatchTimeout(e) PROVE IInv'
<1> USE DEF IInv, WatchTimeout, Watching, Delete,
            session, emitting, table, watching, outcome, network
<1>1. TypeOK'
  BY DEF TypeOK, Contexts, EmitSteps, WatcherSteps
<1>2. RoutedToOwner'
  BY DEF TypeOK, RoutedToOwner
<1>3. \A f \in Emits : Staged(f)'
  BY DEF TypeOK, Staged
<1>4. \A f \in Emits : AnswerInOnePlace(f)'
  BY DEF TypeOK, RoutedToOwner, Staged, AnswerInOnePlace, InTable
<1>5. \A f \in Emits : AnswerKept(f)'
  BY DEF TypeOK, RoutedToOwner, Staged, AnswerInOnePlace, AnswerKept, InTable
<1> QED BY <1>1, <1>2, <1>3, <1>4, <1>5

(* The watcher uses up the answer it finds in the done channel. *)
LEMMA WatchDonePreserves == ASSUME IInv, NEW e \in Emits, WatchDone(e) PROVE IInv'
<1> USE DEF IInv, WatchDone, Watching,
            session, emitting, table, watching, outcome, network
<1>1. TypeOK'
  BY DEF TypeOK, Contexts, EmitSteps, WatcherSteps
<1>2. RoutedToOwner'
  BY DEF TypeOK, RoutedToOwner
<1>3. \A f \in Emits : Staged(f)'
  BY DEF TypeOK, Staged
<1>4. \A f \in Emits : AnswerInOnePlace(f)'
  BY DEF TypeOK, RoutedToOwner, Staged, AnswerInOnePlace, InTable
<1>5. \A f \in Emits : AnswerKept(f)'
  BY DEF TypeOK, RoutedToOwner, Staged, AnswerInOnePlace, AnswerKept, InTable
<1> QED BY <1>1, <1>2, <1>3, <1>4, <1>5

(* No step leaves the invariant.                                           *)
LEMMA StepPreserves == IInv /\ [Next]_vars => IInv'
<1> SUFFICES ASSUME IInv, [Next]_vars PROVE IInv'
  OBVIOUS
<1>1. CASE Connect \/ Cancel \/ HandleConnect
  BY <1>1, SessionPreserves
<1>2. ASSUME NEW e \in Emits, EmitBegin(e) \/ Emit(e) PROVE IInv'
  BY <1>2, PlainStepPreserves, RegisterPreserves, StartWatcherPreserves DEF Emit
<1>3. ASSUME NEW e \in Emits, RunCallback(e) \/ Watch(e) PROVE IInv'
  BY <1>3, RunCallbackPreserves, WatchTimerPreserves, WatchTimeoutPreserves,
     WatchDonePreserves DEF Watch
<1>4. ASSUME NEW id \in sent, HandleAck(id) \/ DropBadAck(id) PROVE IInv'
  BY <1>4, HandleAckPreserves, DropBadAckPreserves
<1>5. CASE UNCHANGED vars
  BY <1>5 DEF IInv, TypeOK, RoutedToOwner, Staged, AnswerInOnePlace, AnswerKept, InTable,
     vars, session, emitting, table, watching, outcome, network
<1> QED BY <1>1, <1>2, <1>3, <1>4, <1>5 DEF Next

(* The inductive invariant holds in every reachable state.                 *)
THEOREM Invariance == Spec => []IInv
BY InitEstablishes, StepPreserves, PTL DEF Spec

(* Every variable of the client keeps its type, and every id in use stays  *)
(* within c.ackCounter.                                                    *)
THEOREM TypeCorrect == Spec => []TypeOK
<1>1. IInv => TypeOK
  BY DEF IInv
<1> QED BY <1>1, Invariance, PTL

(* One of the ack callback and the timeout callback of an Emit runs, and   *)
(* it runs once, whatever the order of ack, timer and cancellation.        *)
THEOREM EmitSettledOnce == Spec => []SettledOnce
<1>1. IInv => SettledOnce
  <2> SUFFICES ASSUME IInv, NEW e \in Emits PROVE ackRuns[e] + timeoutRuns[e] <= 1
    BY DEF SettledOnce
  <2>1. ackRuns[e] \in Nat /\ ackRuns[e] <= 1
    BY DEF IInv, TypeOK, AnswerInOnePlace
  <2>2. timeoutRuns[e] = IF watcher[e] = "timedOut" THEN 1 ELSE 0
    BY DEF IInv, AnswerInOnePlace
  <2>3. CASE e \in WithTimeout
    BY <2>1, <2>2, <2>3 DEF IInv, AnswerInOnePlace
  <2>4. CASE e \notin WithTimeout
    BY <2>1, <2>2, <2>4 DEF IInv, Staged
  <2> QED BY <2>3, <2>4
<1> QED BY <1>1, Invariance, PTL

(* handleAck finds under an id the callback of the Emit that sent the id.  *)
THEOREM AcksRoutedToOwner == Spec => []RoutedToOwner
<1>1. IInv => RoutedToOwner
  BY DEF IInv
<1> QED BY <1>1, Invariance, PTL

(* A well-formed answer to an Emit without a timeout reaches its callback, *)
(* because registration precedes the send.                                 *)
THEOREM NoAckLost == Spec => []AckNotLost
<1>1. IInv => AckNotLost
  <2> SUFFICES ASSUME IInv, NEW e \in WithAck \ WithTimeout,
                      ackId[e] \in answered \ dropped
               PROVE ackRuns[e] + calls[e] = 1
    BY DEF AckNotLost
  <2>1. e \in Emits /\ AnswerKept(e)
    BY DEF IInv
  <2>2. ackId[e] # 0
    BY DEF IInv, TypeOK
  <2> QED BY <2>1, <2>2 DEF AnswerKept
<1> QED BY <1>1, Invariance, PTL

(* The goroutine that sends on the done channel finds it empty.            *)
THEOREM NoBlockedHandOver == Spec => []HandOverNeverBlocks
<1>1. IInv => HandOverNeverBlocks
  BY DEF IInv, TypeOK, HandOverNeverBlocks, AnswerInOnePlace
<1> QED BY <1>1, Invariance, PTL

(* A settled emit with a timeout does not leak its table entry.            *)
THEOREM NoLeakWhenSettled == Spec => []SettledLeavesTable
<1>1. IInv => SettledLeavesTable
  BY DEF IInv, SettledLeavesTable, AnswerInOnePlace, InTable
<1> QED BY <1>1, Invariance, PTL

=============================================================================
