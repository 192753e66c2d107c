----------------------- MODULE PollingTransportProofs -----------------------
(***************************************************************************)
(* Proofs about the polling transport, for any number of Stop calls, uses  *)
(* of the transport, body sizes and payload limits: a loop that polls only *)
(* behind the handshake it has to wait for, a gate that follows the        *)
(* session id, a Stop that is neither lost nor carried out twice, whole    *)
(* bodies, and the contract of the Transport interface.  Each group of     *)
(* facts is an invariant of its own.                                       *)
(***************************************************************************)
EXTENDS PollingTransport, TLAPS

USE PollingAssumption
USE DEF stopState, goroutines, gate, history, rest

-----------------------------------------------------------------------------
(* The gate.                                                               *)

(* The loop is past the gate only when it is open.                         *)
Gated ==
  loop \in {"check", "request", "deliver", "failed", "backoff"} => handshakeDone = "closed"

(* In a run that opens a session nothing can open it until the answer to   *)
(* the handshake poll is in messages, also when that poll fails.           *)
Asking ==
  purpose = "open" /\ asker # "answered" =>
    handshakeDone = "open" /\ setter = "idle" /\ messages = <<>>

GateMade ==
  /\ runs # 0 => handshakeDone \in {"open", "closed"}
  /\ runs = 0 => purpose = "none"

GateInv == Gated /\ Asking /\ GateMade /\ GateFollowsSid

(* Runs are counted upwards.                                               *)
RunsCounted == runs \in Nat

(* Nothing has run: there is no gate to follow.                            *)
LEMMA GateInit == Init => GateInv /\ RunsCounted
BY DEF Init, GateInv, Gated, Asking, GateMade, GateFollowsSid, RunsCounted

(* Run makes a new gate.                                                   *)
LEMMA GateRun ==
  ASSUME GateInv, RunsCounted, (\E why \in Purposes : RunBegin(why)) \/ Run
  PROVE  GateInv' /\ RunsCounted'
<1> USE DEF GateInv, Gated, Asking, GateMade, GateFollowsSid, RunsCounted
<1>1. CASE \E why \in Purposes : RunBegin(why)
  <2>1. PICK why \in Purposes : RunBegin(why)
    BY <1>1
  <2>2. runs' # 0 /\ runs' \in Nat /\ setter' = "idle" /\ purpose' = why /\ loop' = loop
    BY <2>1 DEF RunBegin
  <2>3. loop \in {"none", "done"}
    BY <2>1 DEF RunBegin, Running
  <2>4. CASE why = "open"
    <3>1. ~sid' /\ handshakeDone' = "open" /\ messages' = <<>>
      BY <2>1, <2>4 DEF RunBegin, NewGate
    <3> QED BY <2>2, <2>3, <3>1
  <2>5. CASE why # "open"
    <3>1. handshakeDone' = "closed"
      BY <2>1, <2>5 DEF RunBegin, NewGate
    <3> QED BY <2>2, <2>3, <2>5, <3>1
  <2> QED BY <2>4, <2>5
<1>2. CASE Run
  BY <1>2 DEF Run, RunFlag, RunToken, RunBroadcast, RunOnce, RunSpawn, RunStep
<1> QED BY <1>1, <1>2

(* Stop leaves the gate alone.                                             *)
LEMMA GateStop ==
  ASSUME GateInv, RunsCounted, NEW s \in Stoppers, StopSwap(s) \/ Stop(s)
  PROVE  GateInv' /\ RunsCounted'
BY DEF GateInv, Gated, Asking, GateMade, GateFollowsSid, RunsCounted,
       StopSwap, Stop, StopOnce, StopToken

(* The handshake poll leaves the gate alone; its answer is what the engine *)
(* client will open it with.                                               *)
LEMMA GateAsker ==
  ASSUME GateInv, RunsCounted, AskBegin \/ AskAnswered \/ AskFails \/ RequestHandshake
  PROVE  GateInv' /\ RunsCounted'
BY DEF GateInv, Gated, Asking, GateMade, GateFollowsSid, RunsCounted,
       AskBegin, AskAnswered, AskFails, RequestHandshake, AskCancelled, AskDelivers,
       AskStopped, AskerTo, Drop

(* The loop passes the gate only when it is open.                          *)
LEMMA GateLoop ==
  ASSUME GateInv, RunsCounted, LoopAnswered \/ LoopFails \/ pollingLoop
  PROVE  GateInv' /\ RunsCounted'
<1> USE DEF GateInv, Gated, Asking, GateMade, GateFollowsSid, RunsCounted, LoopTo, Quietly
<1>1. CASE LoopDelivers
  BY <1>1 DEF LoopDelivers
<1>2. CASE LoopAnswered \/ LoopFails \/ LoopCancelled
  BY <1>2 DEF LoopAnswered, LoopFails, LoopCancelled
<1>3. CASE (\E l \in LoopLabels : LoopHalts(l)) \/ LoopGate \/ LoopPolls
  BY <1>3 DEF LoopHalts, LoopGate, LoopPolls
<1>4. CASE LoopDeliverStopped \/ LoopError \/ LoopRetries \/ LoopFinish \/ LoopReport
  BY <1>4 DEF LoopDeliverStopped, LoopError, LoopRetries, LoopFinish, LoopReport, Drop
<1> QED BY <1>1, <1>2, <1>3, <1>4 DEF pollingLoop

(* SetHandshake stores the session id and then opens the gate.             *)
LEMMA GateWorld ==
  ASSUME GateInv, RunsCounted,
         Consume \/ HandshakeElsewhere \/ SetSid \/ SetGate \/ ReceiveReport \/ CancelContext
  PROVE  GateInv' /\ RunsCounted'
BY DEF GateInv, Gated, Asking, GateMade, GateFollowsSid, RunsCounted,
       Consume, HandshakeElsewhere, SetSid, SetGate, ReceiveReport, CancelContext

(* Every step preserves the invariant of the gate.                         *)
LEMMA GateStep == GateInv /\ RunsCounted /\ [Next]_vars => GateInv' /\ RunsCounted'
<1>1. ASSUME GateInv, RunsCounted, UNCHANGED vars PROVE GateInv' /\ RunsCounted'
  BY <1>1 DEF GateInv, Gated, Asking, GateMade, GateFollowsSid, RunsCounted, vars
<1> QED BY <1>1, GateRun, GateStop, GateAsker, GateLoop, GateWorld DEF Next

(* pollingLoop is past its gate only when the gate is open.  The gate is   *)
(* open once Run or SetHandshake had a session id; in a run without one it *)
(* stays shut until RequestHandshake has delivered its answer.             *)
THEOREM GateHolds == Spec => [](GateInv /\ RunsCounted)
BY GateInit, GateStep, PTL DEF Spec

(* In a run that opens a session the loop polls only behind the answer to  *)
(* the handshake poll, never next to that poll and never after it failed.  *)
THEOREM HandshakePolledFirst == Spec => []HandshakeFirst
<1>1. GateInv => HandshakeFirst
  BY DEF GateInv, Gated, Asking, HandshakeFirst
<1> QED BY <1>1, GateHolds, PTL

(* A loop that has a session id finds its gate open.                       *)
THEOREM GateOpens == Spec => []GateFollowsSid
<1>1. GateInv => GateFollowsSid BY DEF GateInv
<1> QED BY <1>1, GateHolds, PTL

-----------------------------------------------------------------------------
(* Stop.                                                                   *)

(* While Run is under way no loop runs, and its channel is empty.          *)
RunApart ==
  /\ onClose \in {"empty", "full"}
  /\ runner # "idle" => ~Running /\ onClose = "empty"

(* Whatever can end the loop goes back to a Stop that concerns it.         *)
Reasons ==
  /\ Stopping \/ stopPooling \/ stopCh = "closed" => asked
  /\ stopped => asked \/ (loop \in {"report", "done"} /\ runner \in {"idle", "flag"})
  /\ loop \in {"finish", "report"} => asked \/ ctxDone

(* When no Stop has overlapped a Run: Run has reset what it has passed,    *)
(* one Stop at a time is in the sync.Once, and it finds stopCh open.       *)
Reset ==
  ~crossed =>
    /\ runner \in {"token", "broadcast", "once", "spawn"} => ~stopped
    /\ runner \in {"broadcast", "once", "spawn"} => ~stopPooling
    /\ runner \in {"once", "spawn"} => stopCh = "open"
    /\ runner = "spawn" => ~stopOnce
    /\ runner # "idle" => ~reqCancelled /\ pollCancel
OneStop ==
  ~crossed =>
    /\ Stopping => stopped /\ runner = "idle"
    /\ \A s, t \in Stoppers :
         stopper[s] \in {"once", "token"} /\ stopper[t] \in {"once", "token"} => s = t
    /\ ~stopped /\ runner = "idle" => ~stopOnce /\ stopCh = "open"
    /\ \A s \in Stoppers : stopper[s] = "once" => ~stopOnce /\ stopCh = "open"
    /\ ~crashed

(* The loop runs and does not yet know that it has to end.                 *)
Live == ~crossed /\ Running /\ loop \notin {"finish", "report"}

(* What a Stop has done so far to such a loop.                             *)
StopSeen ==
  Live => /\ pollCancel
          /\ asked => stopped
          /\ \A s \in Stoppers : stopper[s] = "token" => stopCh = "closed" /\ reqCancelled
          /\ stopped /\ ~Stopping => stopPooling /\ stopCh = "closed" /\ reqCancelled

StopInv == LabelsOK /\ RunApart /\ Reasons /\ Reset /\ OneStop /\ StopSeen

USE DEF LoopLabels, AskerLabels, RunnerLabels, StopperLabels, Running

(* No Stop has been called.                                                *)
LEMMA StopInit == Init => StopInv
BY DEF Init, StopInv, LabelsOK, RunApart, Reasons, Reset, OneStop, Live, StopSeen, Stopping

(* Run begins: a Stop that is under way makes crossed true.                *)
LEMMA StopRunBegin ==
  ASSUME StopInv, NEW why \in Purposes, RunBegin(why) PROVE StopInv'
<1> USE DEF StopInv, RunBegin
<1>1. LabelsOK' /\ RunApart' BY DEF LabelsOK, RunApart
<1>2. Reasons' BY DEF Reasons, Stopping
<1>3. Reset' BY DEF Reset
<1>4. OneStop' BY DEF OneStop, Stopping
<1>5. StopSeen' BY DEF StopSeen, Live
<1> QED BY <1>1, <1>2, <1>3, <1>4, <1>5

(* Run remakes the stop state, one field after another.                    *)
LEMMA StopRun == ASSUME StopInv, Run PROVE StopInv'
<1> USE DEF StopInv, Run, RunFlag, RunToken, RunBroadcast, RunOnce, RunSpawn, RunStep
<1>1. LabelsOK' /\ RunApart' BY DEF LabelsOK, RunApart
<1>2. Reasons'
  <2>1. CASE RunFlag \/ RunToken \/ RunBroadcast \/ RunOnce
    BY <2>1 DEF Reasons, Stopping, RunApart
  <2>2. CASE RunSpawn
    <3>1. /\ Stopping' = Stopping /\ UNCHANGED <<stopped, stopPooling, stopCh>>
          /\ loop' = "gate"
      BY <2>2 DEF Stopping
    <3>2. Stopping \/ stopPooling \/ stopCh = "closed" \/ stopped => asked'
      BY <2>2 DEF Reasons
    <3> QED BY <3>1, <3>2 DEF Reasons
  <2> QED BY <2>1, <2>2
<1>3. Reset' BY DEF Reset
<1>4. OneStop' BY DEF OneStop, Stopping, Reset
<1>5. StopSeen' BY DEF StopSeen, Live, Stopping, Reset, OneStop, RunApart
<1> QED BY <1>1, <1>2, <1>3, <1>4, <1>5

(* A call of Stop takes the flag.                                          *)
LEMMA StopStopSwap == ASSUME StopInv, NEW s \in Stoppers, StopSwap(s) PROVE StopInv'
<1> USE DEF StopInv, StopSwap
<1>1. LabelsOK' /\ RunApart' BY DEF LabelsOK, RunApart
<1>2. Reasons' BY DEF Reasons, Stopping
<1>3. Reset' BY DEF Reset
<1>4. OneStop' BY DEF OneStop, Stopping, LabelsOK
<1>5. StopSeen' BY DEF StopSeen, Live, Stopping, LabelsOK
<1> QED BY <1>1, <1>2, <1>3, <1>4, <1>5

(* It broadcasts.                                                          *)
LEMMA StopStopOnce == ASSUME StopInv, NEW s \in Stoppers, StopOnce(s) PROVE StopInv'
<1> USE DEF StopInv, StopOnce
<1>1. LabelsOK' /\ RunApart' BY DEF LabelsOK, RunApart
<1>2. Reasons' BY DEF Reasons, Stopping, LabelsOK
<1>3. Reset' BY DEF Reset, OneStop, Stopping
<1>4. OneStop' BY DEF OneStop, Stopping, LabelsOK
<1>5. StopSeen' BY DEF StopSeen, Live, Stopping, LabelsOK, OneStop
<1> QED BY <1>1, <1>2, <1>3, <1>4, <1>5

(* It leaves the token, and was the only one to do so.                     *)
LEMMA StopStopToken == ASSUME StopInv, NEW s \in Stoppers, StopToken(s) PROVE StopInv'
<1> USE DEF StopInv, StopToken
<1>1. LabelsOK' /\ RunApart' BY DEF LabelsOK, RunApart
<1>2. Reasons' BY DEF Reasons, Stopping, LabelsOK
<1>3. Reset' BY DEF Reset, OneStop, Stopping
<1>4. OneStop' BY DEF OneStop, Stopping, LabelsOK
<1>5. StopSeen' BY DEF StopSeen, Live, Stopping, LabelsOK, OneStop
<1> QED BY <1>1, <1>2, <1>3, <1>4, <1>5

(* RequestHandshake and the engine client leave the stop state alone.      *)
LEMMA StopOthers ==
  ASSUME StopInv,
         \/ AskBegin \/ AskAnswered \/ AskFails \/ RequestHandshake
         \/ Consume \/ HandshakeElsewhere \/ SetSid \/ SetGate
         \/ ReceiveReport \/ CancelContext \/ UNCHANGED vars
  PROVE  StopInv'
<1>1. /\ UNCHANGED <<loop, runner, stopper, stopped, stopPooling, stopCh, stopOnce,
                     reqCancelled, pollCancel, asked, crossed, crashed>>
      /\ ctxDone => ctxDone'
      /\ onClose' \in {onClose, "empty"}
  BY DEF AskBegin, AskAnswered, AskFails, RequestHandshake, AskCancelled, AskDelivers,
         AskStopped, AskerTo, Consume, HandshakeElsewhere, SetSid, SetGate,
         ReceiveReport, CancelContext, vars
<1>2. LabelsOK'
  BY <1>1 DEF StopInv, LabelsOK, AskBegin, AskAnswered, AskFails, RequestHandshake,
         AskCancelled, AskDelivers, AskStopped, AskerTo, Consume, HandshakeElsewhere,
         SetSid, SetGate, ReceiveReport, CancelContext, vars
<1>3. RunApart' /\ Reasons' /\ Reset' /\ OneStop' /\ StopSeen'
  BY <1>1 DEF StopInv, RunApart, Reasons, Reset, OneStop, StopSeen, Live, Stopping
<1> QED BY <1>2, <1>3 DEF StopInv

(* The loop ends for a reason.                                             *)
LEMMA StopLoop == ASSUME StopInv, LoopAnswered \/ LoopFails \/ pollingLoop PROVE StopInv'
<1> USE DEF StopInv, LoopTo, Quietly
<1>1. CASE \E l \in LoopLabels : LoopHalts(l)
  BY <1>1 DEF LoopHalts, LabelsOK, RunApart, Reasons, Reset, OneStop, StopSeen, Live,
  Stopping
<1>2. CASE LoopFinish \/ LoopReport
  BY <1>2 DEF LoopFinish, LoopReport, LabelsOK, RunApart, Reasons, Reset, OneStop, StopSeen,
              Live, Stopping
<1>3. CASE LoopDeliverStopped \/ LoopError
  BY <1>3 DEF LoopDeliverStopped, LoopError, LabelsOK, RunApart, Reasons, Reset, OneStop,
              StopSeen, Live, Stopping
<1>4. CASE \/ LoopAnswered \/ LoopFails \/ LoopGate \/ LoopPolls \/ LoopCancelled
           \/ LoopDelivers \/ LoopRetries
  BY <1>4 DEF LoopAnswered, LoopFails, LoopGate, LoopPolls, LoopCancelled, LoopDelivers,
              LoopRetries, LabelsOK, RunApart, Reasons, Reset, OneStop, StopSeen, Live,
              Stopping
<1> QED BY <1>1, <1>2, <1>3, <1>4 DEF pollingLoop

(* Every step preserves the invariant of the stop state.                   *)
LEMMA StopStep == StopInv /\ [Next]_vars => StopInv'
BY StopRunBegin, StopRun, StopStopSwap, StopStopOnce, StopStopToken, StopOthers, StopLoop
   DEF Next, Stop

(* The stop flag, the token, stopCh and the cancelled request agree with   *)
(* each other between and during Stop and Run.                             *)
THEOREM StopHolds == Spec => []StopInv
BY StopInit, StopStep, PTL DEF Spec

(* A Stop that did not overlap a Run is not lost: the token, the closed    *)
(* stopCh and the cancelled request wait for the loop.                     *)
THEOREM StopKept == Spec => []StopNotLost
<1>1. StopInv => StopNotLost
  BY DEF StopInv, StopSeen, Live, StopNotLost
<1> QED BY <1>1, StopHolds, PTL

(* stopCh is closed twice only by Stop calls that overlap a Run.           *)
THEOREM ClosedOnce == Spec => []StopClosesOnce
<1>1. StopInv => StopClosesOnce
  BY DEF StopInv, OneStop, StopClosesOnce
<1> QED BY <1>1, StopHolds, PTL

-----------------------------------------------------------------------------
(* The contract.                                                           *)

(* Every step of the transport is a step of the contract or none at all.   *)
LEMMA StepKeepsContract ==
  ASSUME StopInv, [Next]_vars PROVE [Contract!Next]_(Contract!vars)
<1> USE DEF StopInv, Contract!Next, Contract!vars, Reader
<1>1. CASE \E why \in Purposes : RunBegin(why)
  <2>1. /\ UNCHANGED <<loop, asked>> /\ loop \in {"none", "done"} /\ onClose' = "empty"
    BY <1>1 DEF RunBegin
  <2>2. ctxDone' \in {ctxDone, FALSE}
    BY <1>1, Zenon DEF RunBegin
  <2> QED BY <2>1, <2>2 DEF Contract!Prepare
<1>2. CASE RunFlag \/ RunToken \/ RunBroadcast \/ RunOnce
  BY <1>2 DEF RunFlag, RunToken, RunBroadcast, RunOnce, RunStep
<1>3. CASE RunSpawn
  <2>1. Reader # "running" /\ Reader' = "running" /\ onClose' = "empty"
    BY <1>3 DEF RunSpawn, RunStep, RunApart
  <2>2. asked' \in {asked, FALSE} /\ ctxDone' = ctxDone
    BY <1>3, Zenon DEF RunSpawn, RunStep
  <2> QED BY <2>1, <2>2 DEF Contract!Run
<1>4. CASE \E s \in Stoppers : StopSwap(s)
  BY <1>4 DEF StopSwap, Contract!Stop
<1>5. CASE \E s \in Stoppers : StopOnce(s) \/ StopToken(s)
  BY <1>5 DEF StopOnce, StopToken
<1>6. CASE \/ AskBegin \/ AskAnswered \/ AskFails \/ RequestHandshake
           \/ Consume \/ HandshakeElsewhere \/ SetSid \/ SetGate \/ UNCHANGED vars
  BY <1>6 DEF AskBegin, AskAnswered, AskFails, RequestHandshake, AskCancelled, AskDelivers,
              AskStopped, AskerTo, Consume, HandshakeElsewhere, SetSid, SetGate, vars
<1>7. CASE LoopReport
  <2>1. Reader = "running" /\ Reader' = "exited" /\ (asked \/ ctxDone)
    BY <1>7 DEF LoopReport, LoopTo, Reasons
  <2> QED BY <1>7, <2>1 DEF LoopReport, LoopTo, Contract!End
<1>8. CASE \/ LoopAnswered \/ LoopFails \/ (\E l \in LoopLabels : LoopHalts(l))
           \/ LoopGate \/ LoopPolls \/ LoopCancelled \/ LoopDelivers \/ LoopDeliverStopped
           \/ LoopError \/ LoopRetries \/ LoopFinish
  BY <1>8 DEF LoopAnswered, LoopFails, LoopHalts, LoopGate, LoopPolls, LoopCancelled,
              LoopDelivers, LoopDeliverStopped, LoopError, LoopRetries, LoopFinish, LoopTo,
              Quietly
<1>9. CASE ReceiveReport
  BY <1>9 DEF ReceiveReport, Contract!Receive
<1>10. CASE CancelContext
  BY <1>10 DEF CancelContext, Contract!Cancel
<1> QED BY <1>1, <1>2, <1>3, <1>4, <1>5, <1>6, <1>7, <1>8, <1>9, <1>10
        DEF Next, Run, Stop, pollingLoop

(* The polling transport implements the contract of the Transport          *)
(* interface: its loop ends only when it was told to or the context is     *)
(* done, over any number of uses.                                          *)
THEOREM ContractKept == Spec => KeepsContract
<1>1. Init => Contract!Init
  BY DEF Init, Contract!Init, Reader
<1> QED BY <1>1, StepKeepsContract, StopHolds, PTL
        DEF Spec, KeepsContract, Contract!Spec

-----------------------------------------------------------------------------
(* Bodies.                                                                 *)

(* What a poll has read and not yet delivered is whole as well.            *)
BodiesInv ==
  /\ BodiesOK /\ WholeBodies
  /\ \A g \in {"loop", "asker"} : body[g].len = body[g].size
  /\ loop = "deliver" => body["loop"] \in Bodies
  /\ asker = "deliver" => body["asker"] \in Bodies

(* A body that is not too large has been read to its end.                  *)
LEMMA ReadWhole ==
  ASSUME maxPayloadSize \in PayloadLimits, NEW size \in BodySizes, ~TooLarge(size)
  PROVE  BytesRead(size) = size /\ size \in 0..MaxInt
BY DEF TooLarge, BytesRead, ReadLimit

(* What poll reads from an answer is the whole body or nothing.            *)
LEMMA AnswerWhole ==
  ASSUME BodiesInv, NEW g \in {"loop", "asker"}, Answer(g), UNCHANGED <<maxPayloadSize,
         messages>>
  PROVE  /\ BodiesOK' /\ WholeBodies'
         /\ \A h \in {"loop", "asker"} : body'[h].len = body'[h].size
         /\ body'[g] \in Bodies
         /\ \A h \in {"loop", "asker"} : h # g => body'[h] = body[h]
<1>1. PICK size \in BodySizes :
        /\ ~TooLarge(size)
        /\ body' = [body EXCEPT ![g] = [kind |-> IF sid THEN "data" ELSE "open",
                                        size |-> size, len |-> BytesRead(size)]]
  BY DEF Answer
<1>2. BytesRead(size) = size /\ size \in 0..MaxInt
  BY <1>1, ReadWhole DEF BodiesInv, BodiesOK
<1>3. /\ body' \in [{"loop", "asker"} -> Bodies \cup {NoBody}] /\ body'[g] \in Bodies
      /\ body'[g].len = body'[g].size
      /\ \A h \in {"loop", "asker"} : h # g => body'[h] = body[h]
  BY <1>1, <1>2 DEF BodiesInv, BodiesOK, Bodies
<1> QED BY <1>3 DEF BodiesInv, BodiesOK, WholeBodies

(* Delivering a body appends it to messages as it is.                      *)
LEMMA ForwardWhole ==
  ASSUME BodiesInv, NEW g \in {"loop", "asker"}, Forward(g), body[g] \in Bodies,
         UNCHANGED maxPayloadSize
  PROVE  /\ BodiesOK' /\ WholeBodies'
         /\ \A h \in {"loop", "asker"} : body'[h].len = body'[h].size
         /\ \A h \in {"loop", "asker"} : h # g => body'[h] = body[h]
<1>1. /\ body' = [body EXCEPT ![g] = NoBody]
      /\ messages' = Append(messages, body[g]) /\ Len(messages) < MessageCap
  BY DEF Forward, Room
<1>2. body \in [{"loop", "asker"} -> Bodies \cup {NoBody}] /\ messages \in Seq(Bodies)
  BY DEF BodiesInv, BodiesOK
<1>3. /\ \A h \in {"loop", "asker"} : body'[h] = IF h = g THEN NoBody ELSE body[h]
      /\ body' \in [{"loop", "asker"} -> Bodies \cup {NoBody}]
  BY <1>1, <1>2
<1>4. /\ messages' \in Seq(Bodies) /\ Len(messages') = Len(messages) + 1
      /\ Len(messages) \in Nat
      /\ \A i \in 1..Len(messages) + 1 :
           messages'[i] = IF i <= Len(messages) THEN messages[i] ELSE body[g]
  BY <1>1, <1>2
<1>5. BodiesOK'
  BY <1>1, <1>3, <1>4 DEF BodiesInv, BodiesOK
<1>6. WholeBodies'
  BY <1>4 DEF BodiesInv, WholeBodies
<1> QED BY <1>3, <1>5, <1>6 DEF BodiesInv, NoBody

(* A poll that delivers nothing forgets its body.                          *)
LEMMA DropWhole ==
  ASSUME BodiesInv, NEW g \in {"loop", "asker"}, Drop(g), UNCHANGED maxPayloadSize
  PROVE  /\ BodiesOK' /\ WholeBodies'
         /\ \A h \in {"loop", "asker"} : body'[h].len = body'[h].size
         /\ \A h \in {"loop", "asker"} : h # g => body'[h] = body[h]
<1>1. /\ \A h \in {"loop", "asker"} : body'[h] = IF h = g THEN NoBody ELSE body[h]
      /\ body' \in [{"loop", "asker"} -> Bodies \cup {NoBody}]
  BY DEF Drop, BodiesInv, BodiesOK
<1> QED BY <1>1 DEF Drop, BodiesInv, BodiesOK, WholeBodies, NoBody

(* No body has been read.                                                  *)
LEMMA BodiesInit == Init => BodiesInv
<1> SUFFICES ASSUME Init PROVE BodiesInv
  OBVIOUS
<1>1. messages \in Seq(Bodies) /\ Len(messages) = 0
  BY DEF Init
<1>2. BodiesOK /\ WholeBodies
  BY <1>1 DEF Init, BodiesOK, WholeBodies
<1> QED BY <1>2 DEF Init, BodiesInv, NoBody

(* Polls read, forward and drop bodies; the engine takes them.             *)
LEMMA BodiesStep == BodiesInv /\ [Next]_vars => BodiesInv'
<1> SUFFICES ASSUME BodiesInv, [Next]_vars PROVE BodiesInv'
  OBVIOUS
<1>1. CASE AskAnswered
  BY <1>1, AnswerWhole DEF AskAnswered, AskerTo, BodiesInv
<1>2. CASE LoopAnswered
  BY <1>2, AnswerWhole DEF LoopAnswered, LoopTo, BodiesInv
<1>3. CASE AskDelivers
  BY <1>3, ForwardWhole DEF AskDelivers, AskerTo, BodiesInv
<1>4. CASE LoopDelivers
  BY <1>4, ForwardWhole DEF LoopDelivers, LoopTo, BodiesInv
<1>5. CASE AskStopped
  BY <1>5, DropWhole DEF AskStopped, AskerTo, BodiesInv
<1>6. CASE LoopDeliverStopped
  BY <1>6, DropWhole DEF LoopDeliverStopped, LoopTo, BodiesInv
<1>7. CASE Consume
  <2>1. /\ messages \in Seq(Bodies) /\ messages # <<>> /\ messages' = Tail(messages)
        /\ UNCHANGED <<maxPayloadSize, body, loop, asker>>
    BY <1>7 DEF Consume, BodiesInv, BodiesOK
  <2>2. /\ messages' \in Seq(Bodies) /\ Len(messages') = Len(messages) - 1
        /\ \A i \in 1..Len(messages') : i + 1 \in 1..Len(messages)
                                        /\ messages'[i] = messages[i + 1]
    BY <2>1
  <2>3. BodiesOK' /\ WholeBodies'
    BY <2>1, <2>2 DEF BodiesInv, BodiesOK, WholeBodies
  <2> QED BY <2>1, <2>3 DEF BodiesInv
<1>8. CASE \E why \in Purposes : RunBegin(why)
  <2>1. /\ messages' = messages \/ messages' = <<>>
        /\ UNCHANGED <<maxPayloadSize, body, loop>> /\ asker' # "deliver"
    BY <1>8 DEF RunBegin
  <2>2. CASE messages' = messages
    BY <2>1, <2>2 DEF BodiesInv, BodiesOK, WholeBodies
  <2>3. CASE messages' = <<>>
    <3>1. messages' \in Seq(Bodies) /\ Len(messages') = 0
      BY <2>3
    <3>2. BodiesOK' /\ WholeBodies'
      BY <2>1, <3>1 DEF BodiesInv, BodiesOK, WholeBodies
    <3> QED BY <2>1, <3>2 DEF BodiesInv
  <2> QED BY <2>1, <2>2, <2>3
<1>9. CASE \/ Run \/ (\E s \in Stoppers : StopSwap(s) \/ Stop(s))
           \/ HandshakeElsewhere \/ SetSid \/ SetGate \/ ReceiveReport \/ CancelContext
           \/ UNCHANGED vars
  <2>1. /\ UNCHANGED <<maxPayloadSize, body, messages, asker>>
        /\ loop' = "deliver" => loop = "deliver"
    BY <1>9 DEF Run, RunFlag, RunToken, RunBroadcast, RunOnce, RunSpawn, RunStep, StopSwap,
                Stop, StopOnce, StopToken, HandshakeElsewhere, SetSid, SetGate,
                ReceiveReport, CancelContext, vars
  <2> QED BY <2>1 DEF BodiesInv, BodiesOK, WholeBodies
<1>10. CASE \/ AskBegin \/ AskFails \/ AskCancelled \/ LoopFails
            \/ (\E l \in LoopLabels : LoopHalts(l)) \/ LoopGate \/ LoopPolls
            \/ LoopCancelled \/ LoopError \/ LoopRetries \/ LoopFinish \/ LoopReport
  <2>1. /\ UNCHANGED <<maxPayloadSize, body, messages>>
        /\ asker' = "deliver" => asker = "deliver"
        /\ loop' = "deliver" => loop = "deliver"
    BY <1>10 DEF AskBegin, AskFails, AskCancelled, AskerTo, LoopFails, LoopHalts, LoopGate,
                 LoopPolls, LoopCancelled, LoopError, LoopRetries, LoopFinish, LoopReport,
                 LoopTo, Quietly
  <2> QED BY <2>1 DEF BodiesInv, BodiesOK, WholeBodies
<1> QED BY <1>1, <1>2, <1>3, <1>4, <1>5, <1>6, <1>7, <1>8, <1>9, <1>10
        DEF Next, RequestHandshake, pollingLoop

(* Every body that was read, buffered or delivered is whole.               *)
THEOREM BodiesHold == Spec => []BodiesInv
BY BodiesInit, BodiesStep, PTL DEF Spec

(* The payload limit rejects a body or leaves it whole, whatever the       *)
(* limit, the largest integer included.                                    *)
THEOREM BodiesWhole == Spec => []WholeBodies
<1>1. BodiesInv => WholeBodies BY DEF BodiesInv
<1> QED BY <1>1, BodiesHold, PTL

-----------------------------------------------------------------------------
(* Types.                                                                  *)

(* FlagsOK in two parts: the Boolean variables and the others.             *)
BooleansOK ==
  /\ sid \in BOOLEAN /\ stopped \in BOOLEAN /\ stopPooling \in BOOLEAN
  /\ stopOnce \in BOOLEAN /\ reqCancelled \in BOOLEAN /\ pollCancel \in BOOLEAN
  /\ ctxDone \in BOOLEAN /\ asked \in BOOLEAN /\ crossed \in BOOLEAN /\ crashed \in BOOLEAN
CountsOK ==
  /\ handshakeDone \in {"nil", "open", "closed"} /\ stopCh \in {"open", "closed"}
  /\ onClose \in {"empty", "full"} /\ runs \in 0..MaxRuns
  /\ purpose \in Purposes \cup {"none"}

(* The flags and counters start in their types.                            *)
LEMMA FlagsInit == Init => BooleansOK /\ CountsOK
<1>1. Init => BooleansOK BY Zenon DEF Init, BooleansOK
<1>2. Init => CountsOK BY DEF Init, CountsOK
<1> QED BY <1>1, <1>2

(* Counters stay natural numbers within their bounds.                      *)
LEMMA CountsStep == CountsOK /\ [Next]_vars => CountsOK'
<1> SUFFICES ASSUME CountsOK, [Next]_vars PROVE CountsOK'
  OBVIOUS
<1> USE DEF CountsOK
<1>1. CASE (\E why \in Purposes : RunBegin(why)) \/ Run
  BY <1>1 DEF RunBegin, NewGate, Run, RunFlag, RunToken, RunBroadcast, RunOnce, RunSpawn,
              RunStep
<1>2. CASE \E s \in Stoppers : StopSwap(s) \/ Stop(s)
  BY <1>2 DEF StopSwap, Stop, StopOnce, StopToken
<1>3. CASE \/ AskBegin \/ AskAnswered \/ AskFails \/ RequestHandshake
           \/ Consume \/ HandshakeElsewhere \/ SetSid \/ SetGate \/ ReceiveReport
           \/ CancelContext \/ UNCHANGED vars
  BY <1>3 DEF AskBegin, AskAnswered, AskFails, RequestHandshake, AskCancelled, AskDelivers,
              AskStopped, AskerTo, Consume, HandshakeElsewhere, SetSid, SetGate,
              ReceiveReport, CancelContext, vars
<1>4. CASE LoopAnswered \/ LoopFails \/ pollingLoop
  BY <1>4 DEF LoopAnswered, LoopFails, pollingLoop, LoopHalts, LoopGate, LoopPolls,
              LoopCancelled, LoopDelivers, LoopDeliverStopped, LoopError, LoopRetries,
              LoopFinish, LoopReport, LoopTo, Quietly
<1> QED BY <1>1, <1>2, <1>3, <1>4 DEF Next

(* Flags stay booleans.                                                    *)
LEMMA BooleansStep == BooleansOK /\ [Next]_vars => BooleansOK'
<1> SUFFICES ASSUME BooleansOK, [Next]_vars PROVE BooleansOK'
  OBVIOUS
<1> USE DEF BooleansOK
<1>1. CASE \E why \in Purposes : RunBegin(why)
  BY <1>1, Zenon DEF RunBegin
<1>2. CASE RunFlag \/ RunToken \/ RunBroadcast \/ RunOnce
  <2>1. CASE RunFlag
    BY <2>1, Zenon DEF RunFlag, RunStep
  <2>2. CASE RunToken
    BY <2>2, Zenon DEF RunToken, RunStep
  <2>3. CASE RunBroadcast
    BY <2>3, Zenon DEF RunBroadcast, RunStep
  <2>4. CASE RunOnce
    BY <2>4, Zenon DEF RunOnce, RunStep
  <2> QED BY <1>2, <2>1, <2>2, <2>3, <2>4
<1>3. CASE RunSpawn
  BY <1>3, Zenon DEF RunSpawn, RunStep
<1>4. CASE \E s \in Stoppers : StopSwap(s)
  BY <1>4, Zenon DEF StopSwap
<1>5. CASE \E s \in Stoppers : StopOnce(s)
  BY <1>5, Zenon DEF StopOnce
<1>6. CASE \E s \in Stoppers : StopToken(s)
  BY <1>6, Zenon DEF StopToken
<1>7. CASE \/ AskBegin \/ AskAnswered \/ AskFails \/ RequestHandshake
           \/ Consume \/ HandshakeElsewhere \/ SetGate \/ ReceiveReport \/ UNCHANGED vars
  <2>1. UNCHANGED <<sid, stopped, stopPooling, stopOnce, reqCancelled, pollCancel, ctxDone,
                    asked, crossed, crashed>>
    BY <1>7 DEF AskBegin, AskAnswered, AskFails, RequestHandshake, AskCancelled,
                AskDelivers, AskStopped, AskerTo, Consume, HandshakeElsewhere, SetGate,
                ReceiveReport, vars
  <2> QED BY <2>1, Zenon
<1>8. CASE SetSid \/ CancelContext
  BY <1>8, Zenon DEF SetSid, CancelContext
<1>9. CASE LoopFinish \/ LoopReport \/ \E l \in LoopLabels : LoopHalts(l)
  <2>1. /\ UNCHANGED <<sid, stopOnce, reqCancelled, pollCancel, ctxDone, asked, crossed,
                       crashed>>
        /\ stopped' = stopped \/ stopped' = TRUE
        /\ stopPooling' = stopPooling \/ stopPooling' = FALSE
    <3>1. CASE LoopFinish
      BY <3>1 DEF LoopFinish, LoopTo
    <3>2. CASE LoopReport
      BY <3>2 DEF LoopReport, LoopTo
    <3>3. CASE \E l \in LoopLabels : LoopHalts(l)
      BY <3>3 DEF LoopHalts, LoopTo
    <3> QED BY <1>9, <3>1, <3>2, <3>3
  <2> QED BY <2>1, Zenon
<1>10. CASE \/ LoopAnswered \/ LoopFails \/ LoopGate \/ LoopPolls \/ LoopCancelled
            \/ LoopDelivers \/ LoopDeliverStopped \/ LoopError \/ LoopRetries
  <2>1. UNCHANGED <<sid, stopped, stopPooling, stopOnce, reqCancelled, pollCancel, ctxDone,
                    asked, crossed, crashed>>
    BY <1>10 DEF LoopAnswered, LoopFails, LoopGate, LoopPolls, LoopCancelled, LoopDelivers,
                 LoopDeliverStopped, LoopError, LoopRetries, LoopTo, Quietly
  <2> QED BY <2>1, Zenon
<1> QED BY <1>1, <1>2, <1>3, <1>4, <1>5, <1>6, <1>7, <1>8, <1>9, <1>10
        DEF Next, Run, Stop, pollingLoop

(* Every variable keeps its type, and messages its capacity.               *)
THEOREM TypeCorrect == Spec => []TypeOK
<1>1. StopInv /\ BodiesInv /\ BooleansOK /\ CountsOK => TypeOK
  BY DEF StopInv, BodiesInv, BooleansOK, CountsOK, TypeOK, FlagsOK
<1> QED BY <1>1, FlagsInit, CountsStep, BooleansStep, StopHolds, BodiesHold, PTL DEF Spec

=============================================================================
