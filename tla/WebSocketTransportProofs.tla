---------------------- MODULE WebSocketTransportProofs ----------------------
(***************************************************************************)
(* Proofs that the websocket transport hands the messages on in order, has *)
(* one goroutine in Receive and keeps the contract of the Transport        *)
(* interface, for any number of senders and messages and any buffer.       *)
(***************************************************************************)
EXTENDS WebSocketTransport, FiniteSetTheorems, TLAPS

(* The turns before this one are over, those after it have not begun.      *)
Turns ==
  /\ \A r \in Receivers : r < turn => receiver[r] = "done"
  /\ \A r \in Receivers : r > turn => receiver[r] = "none"

(* A receiver finds both places free, and its message has a number.        *)
FreePlaces ==
  \A r \in Receivers :
    /\ receiver[r] \in {"receive", "message", "error"} => messageCh = <<>> /\ ~errorCh
    /\ receiver[r] = "message" => got[r] \in 1..MaxMessages

(* Between two turns nothing is on its way: every message received has     *)
(* been forwarded.                                                         *)
BetweenTurns ==
  loop \in {"none", "failed", "spawn"} =>
    /\ turn = received /\ Len(forwarded) = received
    /\ messageCh = <<>> /\ ~errorCh
    /\ \A r \in Receivers : receiver[r] = IF r <= turn THEN "done" ELSE "none"

(* Within a turn its message is with the receiver, then in messageCh, ...  *)
InTurn ==
  loop = "select" =>
    /\ turn \in Receivers /\ Len(forwarded) = turn - 1
    /\ receiver[turn] # "none"
    /\ receiver[turn] \in {"receive", "error"} => received = turn - 1
    /\ receiver[turn] = "message" => received = turn /\ got[turn] = turn
    /\ receiver[turn] = "done" => \/ messageCh = <<turn>> /\ ~errorCh /\ received = turn
                                 \/ messageCh = <<>>

(* ... then with the loop.                                                 *)
HoldsMessage ==
  loop = "forward" =>
    /\ turn \in Receivers /\ Len(forwarded) = turn - 1
    /\ held = turn /\ received = turn /\ turn <= MaxMessages
    /\ receiver[turn] = "done"
    /\ messageCh = <<>> /\ ~errorCh

(* Nothing is reported before the loop ends.                               *)
ReportedLast == loop \notin {"close", "done"} => onClose = "empty"

(* The inductive invariant.                                                *)
IInv ==
  /\ LoopOK /\ ReceiversOK /\ QueueOK /\ SendersOK
  /\ Turns /\ FreePlaces /\ BetweenTurns /\ InTurn /\ HoldsMessage
  /\ InOrder /\ ReportedLast

USE WebSocketAssumption
USE DEF Receivers, LoopLabels, ReceiverLabels, SenderLabels, channels, world

-----------------------------------------------------------------------------
(* Initially no turn has begun.                                            *)
LEMMA InitIInv == Init => IInv
<1> SUFFICES ASSUME Init PROVE IInv
  OBVIOUS
<1>1. LoopOK /\ SendersOK
  <2>1. /\ conn \in {"nil", "open", "closed"} /\ loop \in LoopLabels
        /\ turn \in 0..(MaxMessages + 1)
    BY DEF Init
  <2>2. stopPooling \in BOOLEAN /\ asked \in BOOLEAN /\ ctxDone \in BOOLEAN
    BY Zenon DEF Init
  <2>3. onClose \in {"empty", "full"} /\ SendersOK
    BY DEF Init, SendersOK
  <2> QED BY <2>1, <2>2, <2>3 DEF LoopOK
<1>2. ReceiversOK
  <2>1. errorCh \in BOOLEAN
    BY Zenon DEF Init
  <2>2. receiver \in [Receivers -> ReceiverLabels] /\ got \in [Receivers -> 0..MaxMessages]
    BY DEF Init
  <2>3. messageCh \in Seq(1..MaxMessages) /\ held \in 0..MaxMessages
    BY DEF Init
  <2> QED BY <2>1, <2>2, <2>3 DEF ReceiversOK
<1>5. ReportedLast /\ InTurn /\ HoldsMessage
  BY DEF Init, ReportedLast, InTurn, HoldsMessage
<1>6. Turns /\ FreePlaces
  BY DEF Init, Turns, FreePlaces
<1>3. Len(forwarded) = 0 /\ QueueOK /\ InOrder
  BY DEF Init, QueueOK, InOrder
<1>4. BetweenTurns
  BY <1>3 DEF Init, BetweenTurns
<1> QED BY <1>1, <1>2, <1>3, <1>4, <1>5, <1>6 DEF IInv

(* Run starts the first turn.                                              *)
LEMMA RunPreserves == ASSUME IInv, Run PROVE IInv'
<1>1. /\ LoopOK'
      /\ ReceiversOK'
      /\ QueueOK'
      /\ SendersOK'
      /\ Turns'
      /\ FreePlaces'
      /\ BetweenTurns'
      /\ InTurn'
      /\ HoldsMessage'
      /\ InOrder'
      /\ ReportedLast'
  BY DEF IInv, Run,
         LoopOK, ReceiversOK, QueueOK, SendersOK, Turns, FreePlaces, BetweenTurns,
         InTurn, HoldsMessage, InOrder, ReportedLast
<1> QED BY <1>1 DEF IInv

(* Stop only leaves its token.                                             *)
LEMMA StopPreserves == ASSUME IInv, Stop PROVE IInv'
<1>1. UNCHANGED <<conn, mu, loop, turn, receiver, got, messageCh, errorCh, held, received,
                  forwarded, onClose, sender, ctxDone, served, consumed>>
  BY DEF Stop
<1>2. LoopOK'
  BY <1>1 DEF IInv, Stop, LoopOK
<1>3. ReceiversOK' /\ QueueOK' /\ SendersOK' /\ InOrder' /\ ReportedLast'
  BY <1>1 DEF IInv, ReceiversOK, QueueOK, SendersOK, InOrder, ReportedLast
<1>4. Turns' /\ FreePlaces' /\ BetweenTurns' /\ InTurn' /\ HoldsMessage'
  BY <1>1 DEF IInv, Turns, FreePlaces, BetweenTurns, InTurn, HoldsMessage
<1> QED BY <1>2, <1>3, <1>4 DEF IInv

(* A turn begins: every message received so far has been forwarded.        *)
LEMMA LoopSpawnPreserves == ASSUME IInv, LoopSpawn PROVE IInv'
<1>1. /\ QueueOK'
      /\ SendersOK'
      /\ InOrder'
      /\ ReportedLast'
  BY DEF IInv, LoopSpawn,
         QueueOK, SendersOK, InOrder, ReportedLast
<1>2. LoopOK'
  BY DEF IInv, LoopSpawn, LoopOK, QueueOK, BetweenTurns
<1>3. ReceiversOK'
  BY DEF IInv, LoopSpawn, ReceiversOK, LoopOK
<1>4. Turns'
  BY DEF IInv, LoopSpawn, Turns, BetweenTurns, LoopOK, ReceiversOK, QueueOK
<1>5. FreePlaces'
  BY DEF IInv, LoopSpawn, FreePlaces, BetweenTurns, LoopOK, ReceiversOK
<1>6. BetweenTurns'
  BY DEF IInv, LoopSpawn, BetweenTurns
<1>7. InTurn'
  BY DEF IInv, LoopSpawn, InTurn, BetweenTurns, LoopOK, QueueOK, ReceiversOK
<1>8. HoldsMessage'
  BY DEF IInv, LoopSpawn, HoldsMessage
<1> QED BY <1>1, <1>2, <1>3, <1>4, <1>5, <1>6, <1>7, <1>8 DEF IInv

(* A stopped loop forgets the message it holds.                            *)
LEMMA LoopHaltsPreserves == ASSUME IInv, LoopHalts PROVE IInv'
<1>1. /\ LoopOK'
      /\ QueueOK'
      /\ SendersOK'
      /\ Turns'
      /\ FreePlaces'
      /\ BetweenTurns'
      /\ InTurn'
      /\ HoldsMessage'
      /\ InOrder'
      /\ ReportedLast'
  BY DEF IInv, LoopHalts, Halts,
         LoopOK, QueueOK, SendersOK, Turns, FreePlaces, BetweenTurns, InTurn,
         HoldsMessage, InOrder, ReportedLast
<1>2. ReceiversOK'
  BY DEF IInv, LoopHalts, Halts, ReceiversOK
<1> QED BY <1>1, <1>2 DEF IInv

(* The loop takes the message of its turn.                                 *)
LEMMA LoopTakesPreserves == ASSUME IInv, LoopTakes PROVE IInv'
<1>1. /\ LoopOK'
      /\ QueueOK'
      /\ SendersOK'
      /\ Turns'
      /\ InTurn'
      /\ InOrder'
      /\ ReportedLast'
  BY DEF IInv, LoopTakes,
         LoopOK, QueueOK, SendersOK, Turns, InTurn, InOrder, ReportedLast
<1>2. ReceiversOK'
  BY SMTT(30) DEF IInv, LoopTakes, ReceiversOK
<1>3. FreePlaces'
  BY DEF IInv, LoopTakes, FreePlaces, ReceiversOK
<1>4. BetweenTurns'
  BY DEF IInv, LoopTakes, BetweenTurns
<1>5. HoldsMessage'
  <2>1. turn \in Receivers /\ receiver[turn] = "done" /\ messageCh = <<turn>>
        /\ ~errorCh /\ received = turn /\ Len(forwarded) = turn - 1
    BY DEF IInv, LoopTakes, InTurn, FreePlaces, ReceiversOK
  <2>2. held' = turn /\ messageCh' = <<>>
    BY <2>1 DEF LoopTakes
  <2> QED BY <2>1, <2>2 DEF IInv, LoopTakes, HoldsMessage, QueueOK
<1> QED BY <1>1, <1>2, <1>3, <1>4, <1>5 DEF IInv

(* It forwards it, which ends the turn.                                    *)
LEMMA LoopForwardsPreserves == ASSUME IInv, LoopForwards PROVE IInv'
<1>1. /\ LoopOK'
      /\ SendersOK'
      /\ Turns'
      /\ FreePlaces'
      /\ InTurn'
      /\ HoldsMessage'
      /\ ReportedLast'
  BY DEF IInv, LoopForwards, Room,
         LoopOK, SendersOK, Turns, FreePlaces, InTurn, HoldsMessage, ReportedLast
<1>2. QueueOK'
  BY DEF IInv, LoopForwards, Room, QueueOK, HoldsMessage, LoopOK
<1>3. InOrder'
  BY DEF IInv, LoopForwards, Room, InOrder, HoldsMessage, QueueOK, LoopOK
<1>4. BetweenTurns'
  BY DEF IInv, LoopForwards, Room, BetweenTurns, HoldsMessage, Turns, QueueOK, LoopOK,
         ReceiversOK
<1>5. ReceiversOK'
  BY DEF IInv, LoopForwards, Room, ReceiversOK
<1> QED BY <1>1, <1>2, <1>3, <1>4, <1>5 DEF IInv

(* An error ends the loop.                                                 *)
LEMMA LoopErrorPreserves == ASSUME IInv, LoopError PROVE IInv'
<1>1. /\ LoopOK'
      /\ ReceiversOK'
      /\ QueueOK'
      /\ SendersOK'
      /\ Turns'
      /\ FreePlaces'
      /\ BetweenTurns'
      /\ InTurn'
      /\ HoldsMessage'
      /\ InOrder'
      /\ ReportedLast'
  BY DEF IInv, LoopError,
         LoopOK, ReceiversOK, QueueOK, SendersOK, Turns, FreePlaces, BetweenTurns,
         InTurn, HoldsMessage, InOrder, ReportedLast
<1> QED BY <1>1 DEF IInv

(* The loop reports.                                                       *)
LEMMA LoopReportPreserves == ASSUME IInv, LoopReport PROVE IInv'
<1>1. /\ LoopOK'
      /\ ReceiversOK'
      /\ QueueOK'
      /\ SendersOK'
      /\ Turns'
      /\ FreePlaces'
      /\ BetweenTurns'
      /\ InTurn'
      /\ HoldsMessage'
      /\ InOrder'
      /\ ReportedLast'
  BY DEF IInv, LoopReport,
         LoopOK, ReceiversOK, QueueOK, SendersOK, Turns, FreePlaces, BetweenTurns,
         InTurn, HoldsMessage, InOrder, ReportedLast
<1> QED BY <1>1 DEF IInv

(* The connection is closed.                                               *)
LEMMA LoopClosePreserves == ASSUME IInv, LoopClose PROVE IInv'
<1>1. /\ LoopOK'
      /\ ReceiversOK'
      /\ QueueOK'
      /\ SendersOK'
      /\ Turns'
      /\ FreePlaces'
      /\ BetweenTurns'
      /\ InTurn'
      /\ HoldsMessage'
      /\ InOrder'
      /\ ReportedLast'
  BY DEF IInv, LoopClose,
         LoopOK, ReceiversOK, QueueOK, SendersOK, Turns, FreePlaces, BetweenTurns,
         InTurn, HoldsMessage, InOrder, ReportedLast
<1> QED BY <1>1 DEF IInv

(* Receive returns the next message.                                       *)
LEMMA ReceivePreserves == ASSUME IInv, NEW r \in Receivers, Receive(r) PROVE IInv'
<1>1. /\ LoopOK'
      /\ SendersOK'
      /\ InOrder'
      /\ ReportedLast'
  BY DEF IInv, Receive,
         LoopOK, SendersOK, InOrder, ReportedLast
<1>2. ReceiversOK'
  BY DEF IInv, Receive, ReceiversOK, QueueOK
<1>3. QueueOK'
  BY DEF IInv, Receive, QueueOK
<1>4. Turns'
  BY DEF IInv, Receive, Turns, ReceiversOK, LoopOK
<1>5. FreePlaces'
  BY DEF IInv, Receive, FreePlaces, ReceiversOK, QueueOK
<1>6. BetweenTurns'
  BY DEF IInv, Receive, BetweenTurns, ReceiversOK
<1>7. InTurn'
  BY DEF IInv, Receive, InTurn, Turns, ReceiversOK, LoopOK, QueueOK
<1>8. HoldsMessage'
  BY DEF IInv, Receive, HoldsMessage, Turns, ReceiversOK, LoopOK
<1> QED BY <1>1, <1>2, <1>3, <1>4, <1>5, <1>6, <1>7, <1>8 DEF IInv

(* Receive fails.                                                          *)
LEMMA ReceiveFailsPreserves ==
  ASSUME IInv, NEW r \in Receivers, ReceiveFails(r) \/ ReceiveClosed(r)
  PROVE  IInv'
<1>1. /\ LoopOK'
      /\ QueueOK'
      /\ SendersOK'
      /\ InOrder'
      /\ ReportedLast'
  BY SMTT(30) DEF IInv, ReceiveFails, ReceiveClosed, ReceiveTo,
         LoopOK, QueueOK, SendersOK, InOrder, ReportedLast
<1>2. ReceiversOK'
  BY DEF IInv, ReceiveFails, ReceiveClosed, ReceiveTo, ReceiversOK
<1>3. Turns'
  BY DEF IInv, ReceiveFails, ReceiveClosed, ReceiveTo, Turns, ReceiversOK, LoopOK
<1>4. FreePlaces'
  BY DEF IInv, ReceiveFails, ReceiveClosed, ReceiveTo, FreePlaces, ReceiversOK, Turns,
         LoopOK
<1>5. BetweenTurns'
  BY DEF IInv, ReceiveFails, ReceiveClosed, ReceiveTo, BetweenTurns, ReceiversOK
<1>6. InTurn'
  BY DEF IInv, ReceiveFails, ReceiveClosed, ReceiveTo, InTurn, Turns, ReceiversOK,
         LoopOK, QueueOK
<1>7. HoldsMessage'
  BY DEF IInv, ReceiveFails, ReceiveClosed, ReceiveTo, HoldsMessage, Turns, ReceiversOK,
         LoopOK
<1> QED BY <1>1, <1>2, <1>3, <1>4, <1>5, <1>6, <1>7 DEF IInv

(* The receiver of this turn hands over what it has, into a free place.    *)
LEMMA HandOverPreserves == ASSUME IInv, NEW r \in Receivers, HandOver(r) PROVE IInv'
<1>1. r = turn /\ receiver[r] \in {"message", "error"}
  BY DEF IInv, HandOver, ReceiveTo, Turns, LoopOK
<1>2. /\ messageCh = <<>> /\ ~errorCh
      /\ receiver[r] = "message" => got[r] \in 1..MaxMessages
  BY <1>1 DEF IInv, FreePlaces
<1>3. /\ receiver' = [receiver EXCEPT ![r] = "done"]
      /\ \/ /\ messageCh' = Append(messageCh, got[r]) /\ errorCh' = errorCh
            /\ receiver[r] = "message"
         \/ messageCh' = messageCh /\ errorCh' = TRUE /\ receiver[r] = "error"
  BY <1>2 DEF IInv, HandOver, ReceiveTo
<1>4. UNCHANGED <<conn, mu, loop, turn, got, held, stopPooling, received, forwarded,
onClose,
                  sender, asked, ctxDone, served, consumed>>
  BY DEF HandOver, ReceiveTo
<1>5. \A q \in Receivers : /\ q # r => receiver'[q] = receiver[q]
                          /\ receiver'[q] \notin {"receive", "message", "error"}
  <2> TAKE q \in Receivers
  <2>1. q < turn \/ q = turn \/ q > turn
    BY DEF IInv, LoopOK
  <2>2. /\ q # r => receiver'[q] = receiver[q]
        /\ q = r => receiver'[q] = "done"
    BY <1>3 DEF IInv, ReceiversOK
  <2> QED BY <1>1, <2>1, <2>2 DEF IInv, Turns
<1>6. receiver'[r] = "done"
  BY <1>3 DEF IInv, ReceiversOK
<1>7. ReceiversOK'
  <2>1. messageCh' \in Seq(1..MaxMessages)
    <3>1. CASE messageCh' = Append(messageCh, got[r]) /\ receiver[r] = "message"
      <4>1. messageCh \in Seq(1..MaxMessages) /\ got[r] \in 1..MaxMessages
        BY <1>2, <3>1 DEF IInv, ReceiversOK
      <4> QED BY <3>1, <4>1
    <3>2. CASE messageCh' = messageCh
      BY <3>2 DEF IInv, ReceiversOK
    <3> QED BY <1>3, <3>1, <3>2
  <2> QED BY <1>3, <1>4, <2>1 DEF IInv, ReceiversOK
<1>8. /\ LoopOK' /\ QueueOK' /\ SendersOK' /\ InOrder' /\ ReportedLast'
  BY <1>4 DEF IInv, LoopOK, QueueOK, SendersOK, InOrder, ReportedLast
<1>9. Turns' /\ FreePlaces'
  BY <1>1, <1>4, <1>5, <1>6 DEF IInv, Turns, FreePlaces, LoopOK
<1>10. BetweenTurns' /\ HoldsMessage'
  BY <1>1, <1>4 DEF IInv, BetweenTurns, HoldsMessage, LoopOK
<1>11. InTurn'
  <2>1. messageCh = <<>> => Append(messageCh, got[r]) = <<got[r]>>
    OBVIOUS
  <2> QED BY <1>1, <1>2, <1>3, <1>4, <1>6, <2>1 DEF IInv, InTurn
<1> QED BY <1>7, <1>8, <1>9, <1>10, <1>11 DEF IInv

(* Sending concerns nothing but the lock and the senders.                  *)
LEMMA SendPreserves ==
  ASSUME IInv, NEW s \in Senders,
         SendBegin(s) \/ SendMessage(s) \/ SendFails(s) \/ SendStalls(s)
  PROVE  IInv'
<1>1. UNCHANGED <<conn, loop, turn, receiver, got, messageCh, errorCh, held, stopPooling,
                  received, forwarded, onClose, asked, ctxDone, served, consumed>>
  BY DEF SendBegin, SendMessage, SendLock, SendWrite, SendFails, SendStalls, SendTo
<1>2. SendersOK'
  BY DEF IInv, SendBegin, SendMessage, SendLock, SendWrite, SendFails, SendStalls, SendTo,
         SendersOK
<1>3. /\ LoopOK'
      /\ ReceiversOK'
      /\ QueueOK'
      /\ Turns'
      /\ FreePlaces'
      /\ BetweenTurns'
      /\ InTurn'
      /\ HoldsMessage'
      /\ InOrder'
      /\ ReportedLast'
  BY <1>1 DEF IInv, LoopOK, ReceiversOK, QueueOK, Turns, FreePlaces,
              BetweenTurns, InTurn, HoldsMessage, InOrder, ReportedLast
<1> QED BY <1>2, <1>3 DEF IInv

(* The server sends, the engine takes a message or the report, the context *)
(* is cancelled.                                                           *)
LEMMA WorldPreserves ==
  ASSUME IInv, Serve \/ Consume \/ ReceiveReport \/ CancelContext
  PROVE  IInv'
<1>1. UNCHANGED <<conn, mu, loop, turn, receiver, got, messageCh, errorCh, held,
                  stopPooling, received, forwarded, sender, asked>>
  BY DEF Serve, Consume, ReceiveReport, CancelContext
<1>2. QueueOK'
  BY DEF IInv, Serve, Consume, ReceiveReport, CancelContext, QueueOK
<1>3. LoopOK' /\ ReportedLast'
  BY DEF IInv, Serve, Consume, ReceiveReport, CancelContext, LoopOK, ReportedLast
<1>4. /\ ReceiversOK' /\ SendersOK' /\ Turns' /\ FreePlaces' /\ BetweenTurns'
      /\ InTurn' /\ HoldsMessage' /\ InOrder'
  BY <1>1 DEF IInv, ReceiversOK, SendersOK, Turns, FreePlaces, BetweenTurns, InTurn,
              HoldsMessage, InOrder
<1> QED BY <1>2, <1>3, <1>4 DEF IInv

(* A stuttering step.                                                      *)
LEMMA StutterPreserves == ASSUME IInv, UNCHANGED vars PROVE IInv'
<1>1. /\ LoopOK'
      /\ ReceiversOK'
      /\ QueueOK'
      /\ SendersOK'
      /\ Turns'
      /\ FreePlaces'
      /\ BetweenTurns'
      /\ InTurn'
      /\ HoldsMessage'
      /\ InOrder'
      /\ ReportedLast'
  BY SMTT(30) DEF IInv, vars,
         LoopOK, ReceiversOK, QueueOK, SendersOK, Turns, FreePlaces, BetweenTurns,
         InTurn, HoldsMessage, InOrder, ReportedLast
<1> QED BY <1>1 DEF IInv

-----------------------------------------------------------------------------
(* Every step preserves the invariant.                                     *)
LEMMA StepPreserves == IInv /\ [Next]_vars => IInv'
BY RunPreserves, StopPreserves, LoopSpawnPreserves, LoopHaltsPreserves, LoopTakesPreserves,
   LoopForwardsPreserves, LoopErrorPreserves, LoopReportPreserves, LoopClosePreserves,
   ReceivePreserves, ReceiveFailsPreserves, HandOverPreserves, SendPreserves,
   WorldPreserves, StutterPreserves DEF Next, wsReadLoop

(* The websocket transport stays in the states of the invariant.           *)
THEOREM InvariantHolds == Spec => []IInv
BY InitIInv, StepPreserves, PTL DEF Spec

(* Every variable keeps its type: the turns of the loop are bounded by the *)
(* messages of the server, and the buffer of the engine by its capacity.   *)
THEOREM TypeCorrect == Spec => []TypeOK
<1>1. IInv => TypeOK BY DEF IInv, TypeOK
<1> QED BY <1>1, InvariantHolds, PTL

(* Messages reach the engine in the order the server sent them.            *)
THEOREM MessagesInOrder == Spec => []InOrder
<1>1. IInv => InOrder BY DEF IInv
<1> QED BY <1>1, InvariantHolds, PTL

(* Only the goroutine of the present turn waits in Receive, and its hand-  *)
(* over never blocks.                                                      *)
THEOREM ReceiverAlone == Spec => []OneReceiver
<1>1. ASSUME IInv PROVE OneReceiver
  <2>1. InFlight \subseteq {turn}
    BY <1>1 DEF IInv, InFlight, Turns, LoopOK
  <2>2. InFlight = {} \/ InFlight = {turn}
    BY <2>1
  <2>3. Cardinality(InFlight) <= 1
    BY <2>2, FS_EmptySet, FS_Singleton
  <2> QED BY <1>1, <2>3 DEF IInv, FreePlaces, OneReceiver
<1> QED BY <1>1, InvariantHolds, PTL

-----------------------------------------------------------------------------
(* The contract.                                                           *)

(* What the engine client sees of the loop at each of its labels.          *)
LEMMA ReaderAt ==
  ASSUME LoopOK
  PROVE  /\ loop \in {"none", "failed"} <=> Reader = "idle"
         /\ loop \in {"spawn", "select", "forward", "report"} <=> Reader = "running"
         /\ loop \in {"close", "done"} <=> Reader = "exited"
BY DEF LoopOK, Reader, Running

(* Every step of the transport is a step of the contract or none at all.   *)
LEMMA StepKeepsContract ==
  ASSUME IInv, IInv', [Next]_vars PROVE [Contract!Next]_(Contract!vars)
<1> USE DEF Contract!Next, Contract!vars
<1>0. LoopOK /\ LoopOK'
  BY DEF IInv
<1>1. CASE Run
  <2>1. CASE loop' = "spawn"
    <3>1. Reader = "idle" /\ Reader' = "running" /\ onClose = "empty"
      BY <1>0, <1>1, <2>1, ReaderAt DEF Run, IInv, ReportedLast, Reader, Running
    <3> QED BY <1>1, <3>1 DEF Run, Contract!Run
  <2>2. CASE loop' = "failed"
    BY <1>1, <2>2 DEF Run, Reader, Running
  <2> QED BY <1>1, <2>1, <2>2 DEF Run
<1>2. CASE Stop
  BY <1>2 DEF Stop, Contract!Stop, Reader, Running
<1>3. CASE LoopReport
  <2>1. Reader = "running" /\ Reader' = "exited" /\ onClose = "empty"
    BY <1>3 DEF LoopReport, IInv, ReportedLast, Reader, Running
  <2> QED BY <1>3, <2>1 DEF LoopReport, Contract!End
<1>4. CASE LoopSpawn \/ LoopHalts \/ LoopTakes \/ LoopForwards \/ LoopError \/ LoopClose
  BY <1>4 DEF LoopSpawn, LoopHalts, Halts, LoopTakes, LoopForwards, LoopError, LoopClose,
              Reader, Running
<1>5. CASE \E r \in Receivers :
             Receive(r) \/ ReceiveFails(r) \/ ReceiveClosed(r) \/ HandOver(r)
  BY <1>5 DEF Receive, ReceiveFails, ReceiveClosed, HandOver, ReceiveTo, Reader, Running
<1>6. CASE \E s \in Senders : SendBegin(s) \/ SendMessage(s) \/ SendFails(s) \/ SendStalls(s)
  BY <1>6 DEF SendBegin, SendMessage, SendLock, SendWrite, SendFails, SendStalls, SendTo,
              Reader, Running
<1>7. CASE Serve \/ Consume
  BY <1>7 DEF Serve, Consume, Reader, Running
<1>8. CASE ReceiveReport
  BY <1>8 DEF ReceiveReport, Contract!Receive, Reader, Running
<1>9. CASE CancelContext
  BY <1>9 DEF CancelContext, Contract!Cancel, Reader, Running
<1>10. CASE UNCHANGED vars
  BY <1>10 DEF vars, Reader, Running
<1> QED BY <1>1, <1>2, <1>3, <1>4, <1>5, <1>6, <1>7, <1>8, <1>9, <1>10 DEF Next, wsReadLoop

(* The websocket transport implements the contract of the Transport        *)
(* interface: one reader, one report, into a channel that has room.        *)
THEOREM ContractKept == Spec => KeepsContract
<1>1. Init => Contract!Init
  BY DEF Init, Contract!Init, Reader, Running
<1> QED BY <1>1, StepKeepsContract, InvariantHolds, PTL DEF Spec, KeepsContract,
Contract!Spec

=============================================================================
