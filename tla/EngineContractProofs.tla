------------------------ MODULE EngineContractProofs ------------------------
(***************************************************************************)
(* Proofs of what the Engine.IO client owes to its two sides.  Below it,   *)
(* it drives each of its transports as the contract of the Transport       *)
(* interface says, whatever its callers, the server and the network do.    *)
(* Above it, a Close shuts the client down cleanly and once, for an        *)
(* application that calls it only after Connect has returned without an    *)
(* error and does not call it from a close handler; any number of          *)
(* goroutines may call it then, and without these conditions the theorems  *)
(* on Close are false.  Both build on the invariant of EngineClientProofs. *)
(***************************************************************************)
EXTENDS EngineClientProofs

(* Each Run hands out a channel of its own: no two transports report into  *)
(* the same one, and only a transport that never ran refers to channel 0.  *)
OwnChannels ==
  /\ DOMAIN stopReq = Transports
  /\ \A t \in Transports : onClose[t] \in 0..transportClosed
  /\ \A t \in Transports : reader[t] = "running" => onClose[t] # 0
  /\ onClose["polling"] = onClose["websocket"] => onClose["polling"] = 0
  /\ pc["connect"] \in {"fresh", "run"} => \A t \in Transports : onClose[t] = 0

CInv == IInv /\ OwnChannels

(* What the contract speaks of.                                            *)
Channels == <<transportClosed, closedChan, reader, stopReq, onClose, ctxDone>>

USE ThreadAssumption
USE DEF At, Goto, Step, gates, closing, queue, readers, world, locals
USE DEF Threads, SendThreads, CloseThreads, Transports

-----------------------------------------------------------------------------
(* Steps that leave the transports and their channels alone.               *)

QuietStep ==
  UNCHANGED Channels
    /\ (pc["connect"] \notin {"fresh", "run"} => pc'["connect"] \notin {"fresh", "run"})

(* A panic leaves the transports as they were.                             *)
LEMMA CrashQuiet == ASSUME NEW cause, Crash(cause) PROVE QuietStep
BY DEF Crash, QuietStep, Channels

(* Connect touches a transport only in Run, Stop and the wait.             *)
LEMMA ConnectQuiet ==
  ASSUME IInv, \/ ConnectSpawn \/ ConnectGate \/ ConnectRequest \/ ConnectPollOk
               \/ ConnectPollFails \/ ConnectFailClose \/ ConnectFailJoin
  PROVE  QuietStep
<1> USE DEF QuietStep, Channels, IInv, Shapes
<1>1. CASE ConnectSpawn \/ ConnectGate \/ ConnectPollFails \/ ConnectFailJoin
  BY <1>1 DEF ConnectSpawn, ConnectGate, ConnectPollFails, ConnectFailJoin
<1>2. CASE ConnectRequest
  BY <1>2, CrashQuiet DEF ConnectRequest
<1>3. CASE ConnectPollOk
  BY <1>3, CrashQuiet DEF ConnectPollOk
<1>4. CASE ConnectFailClose
  BY <1>4, CrashQuiet DEF ConnectFailClose, CloseMessages
<1> QED BY <1>1, <1>2, <1>3, <1>4

(* Send touches no transport state.                                        *)
LEMMA SendQuiet ==
  ASSUME IInv, NEW s \in SendThreads, SendBegin(s) \/ Send(s) PROVE QuietStep
<1> USE DEF QuietStep, Channels, IInv, Shapes
<1>1. CASE SendBegin(s) \/ SendSnapshot(s) \/ SendWait(s)
  BY <1>1 DEF SendBegin, SendSnapshot, SendWait
<1>2. CASE SendWrite(s)
  BY <1>2, CrashQuiet DEF SendWrite
<1> QED BY <1>1, <1>2 DEF Send

(* Close touches a transport only in Stop and the wait.                    *)
LEMMA CloseQuiet ==
  ASSUME IInv, NEW c \in CloseThreads,
         CloseBegin(c) \/ CloseTake(c) \/ CloseCloseMessages(c) \/ CloseJoin(c)
  PROVE  QuietStep
<1> USE DEF QuietStep, Channels, IInv, Shapes
<1>1. CASE CloseBegin(c) \/ CloseTake(c) \/ CloseJoin(c)
  BY <1>1 DEF CloseBegin, CloseTake, CloseJoin
<1>2. CASE CloseCloseMessages(c)
  BY <1>2, CrashQuiet DEF CloseCloseMessages, CloseMessages
<1> QED BY <1>1, <1>2

(* messageLoop touches a transport only in the upgrade.                    *)
LEMMA LoopQuiet ==
  ASSUME IInv, \/ LoopBadOpen \/ LoopOpen \/ LoopPing \/ LoopProbed \/ LoopUpgraded
               \/ LoopMessage \/ LoopClosePacket \/ LoopHandlerDone \/ LoopExit
               \/ UpgradeProbe \/ UpgradeProbeFails \/ OpenHandshakeGate
  PROVE  QuietStep
<1> USE DEF QuietStep, Channels, IInv, Shapes
<1>1. CASE \/ LoopBadOpen \/ LoopUpgraded \/ LoopMessage \/ LoopHandlerDone \/ LoopExit
           \/ UpgradeProbeFails
  BY <1>1 DEF LoopBadOpen, LoopUpgraded, LoopMessage, LoopHandlerDone, LoopExit,
              UpgradeProbeFails
<1>2. CASE LoopOpen
  BY <1>2, CrashQuiet DEF LoopOpen
<1>3. CASE LoopPing \/ LoopProbed \/ UpgradeProbe
  BY <1>3, CrashQuiet DEF LoopPing, LoopProbed, UpgradeProbe, SendPacket
<1>4. CASE LoopClosePacket
  BY <1>4 DEF LoopClosePacket
<1>5. CASE OpenHandshakeGate
  BY <1>5, CrashQuiet DEF OpenHandshakeGate
<1> QED BY <1>1, <1>2, <1>3, <1>4, <1>5

(* A packet from the server goes to messages.                              *)
LEMMA ServerQuiet == ASSUME ServerOpen \/ ServerProbe \/ ServerSends PROVE QuietStep
<1>1. ASSUME NEW t, NEW p, Deliver(t, p) PROVE QuietStep
  BY <1>1, CrashQuiet DEF Deliver, QuietStep, Channels
<1> QED BY <1>1 DEF ServerOpen, ServerProbe, ServerSends

-----------------------------------------------------------------------------
(* OwnChannels is inductive.                                               *)

(* No transport has run yet.                                               *)
LEMMA OwnInit == Init => OwnChannels
BY DEF Init, OwnChannels

(* A quiet step keeps the owner of every channel.                          *)
LEMMA QuietOwn == ASSUME OwnChannels, QuietStep PROVE OwnChannels'
BY DEF OwnChannels, QuietStep, Channels

(* Stop and the wait for a transport change no channel's owner.            *)
LEMMA StopWaitOwn ==
  ASSUME CInv,
         \/ ConnectFailStop \/ ConnectFailWait \/ UpgradeStop \/ UpgradeWait
         \/ (\E c \in CloseThreads : CloseStop(c) \/ CloseWait(c)) \/ CancelContext
  PROVE  OwnChannels'
<1> USE DEF CInv, OwnChannels, IInv, Shapes
<1>1. CASE ConnectFailStop
  BY <1>1, CrashQuiet, QuietOwn DEF ConnectFailStop, StopOk
<1>2. CASE UpgradeStop
  BY <1>2, CrashQuiet, QuietOwn DEF UpgradeStop, StopOk
<1>3. CASE \E c \in CloseThreads : CloseStop(c) \/ CloseWait(c)
  BY <1>3 DEF CloseStop, CloseWait, StopOk, AwaitTransport
<1>4. CASE ConnectFailWait \/ UpgradeWait
  BY <1>4 DEF ConnectFailWait, UpgradeWait, AwaitTransport
<1>5. CASE CancelContext
  BY <1>5 DEF CancelContext
<1> QED BY <1>1, <1>2, <1>3, <1>4, <1>5

(* Connect makes channel 1 before anything has run.                        *)
LEMMA BeginOwn == ASSUME CInv, ConnectBegin PROVE OwnChannels'
<1>1. CASE transport = "nil"
  BY <1>1, CrashQuiet, QuietOwn DEF ConnectBegin, CInv
<1>2. CASE transport # "nil"
  <2>1. pc["connect"] = "fresh" /\ pc'["connect"] = "run"
    BY <1>2 DEF ConnectBegin, CInv, IInv, Shapes
  <2>2. transportClosed' = 1 /\ UNCHANGED <<reader, stopReq, onClose>>
    BY <1>2 DEF ConnectBegin
  <2>3. NoReader /\ \A t \in Transports : onClose[t] = 0
    BY <2>1 DEF CInv, OwnChannels, IInv, BeforeRun
  <2> QED BY <2>1, <2>2, <2>3 DEF CInv, OwnChannels, NoReader
<1> QED BY <1>1, <1>2

(* The first transport gets channel 1, its successor channel 2.            *)
LEMMA ConnectRunOwn == ASSUME CInv, ConnectRun PROVE OwnChannels'
<1>1. /\ pc["connect"] = "run" /\ transportClosed = 1 /\ NoReader
      /\ \A t \in Transports : onClose[t] = 0
  BY DEF ConnectRun, CInv, OwnChannels, IInv, BeforeRun
<1>2. pc'["connect"] \in {"spawn", "failed"} /\ transportClosed' = 1
  BY <1>1 DEF ConnectRun, CInv, IInv, Shapes
<1>3. CASE UNCHANGED readers
  BY <1>1, <1>2, <1>3 DEF CInv, OwnChannels, NoReader
<1>4. CASE RunOk(tr["connect"], 1)
  BY <1>1, <1>2, <1>4 DEF RunOk, CInv, OwnChannels, IInv, Shapes, NoReader
<1> QED BY <1>3, <1>4 DEF ConnectRun

(* The upgrade runs once, with the new channel 2.                          *)
LEMMA UpgradeRunOwn == ASSUME CInv, UpgradeRun PROVE OwnChannels'
<1>1. /\ pc["loop"] = "upgRun" /\ transportClosed # 2 /\ NoReader
      /\ pc["connect"] \notin {"fresh", "run"}
  BY DEF UpgradeRun, CInv, IInv, Awaited, UpgradedOnce, OpenPending, Upgrading, BeforeRun
<1>2. pc'["connect"] = pc["connect"] /\ transportClosed' = 2
  BY DEF UpgradeRun, CInv, IInv, Shapes
<1>3. transportClosed \in 0..1 /\ \A t \in Transports : onClose[t] \in 0..1
  BY <1>1 DEF CInv, OwnChannels, IInv, Shapes
<1>4. CASE UNCHANGED readers
  BY <1>1, <1>2, <1>3, <1>4 DEF CInv, OwnChannels, NoReader
<1>5. CASE RunOk(tr["loop"], 2)
  BY <1>1, <1>2, <1>3, <1>5 DEF RunOk, CInv, OwnChannels, IInv, Shapes, NoReader
<1> QED BY <1>4, <1>5 DEF UpgradeRun

(* A reader that ends keeps its channel.                                   *)
LEMMA ReaderOwn ==
  ASSUME CInv, NEW t \in Transports, ReaderStops(t) \/ ReaderFails(t) PROVE OwnChannels'
BY DEF ReaderStops, ReaderFails, ReaderEnds, CInv, OwnChannels, IInv, Shapes

(* Every step is quiet or one of the above.                                *)
LEMMA Steps ==
  ASSUME CInv, [Next]_vars
  PROVE  \/ QuietStep
         \/ ConnectBegin \/ ConnectRun \/ UpgradeRun
         \/ ConnectFailStop \/ ConnectFailWait \/ UpgradeStop \/ UpgradeWait
         \/ (\E c \in CloseThreads : CloseStop(c) \/ CloseWait(c)) \/ CancelContext
         \/ (\E t \in Transports : ReaderStops(t) \/ ReaderFails(t))
<1>1. UNCHANGED vars => QuietStep
  BY DEF vars, QuietStep, Channels
<1> QED BY <1>1, ConnectQuiet, SendQuiet, CloseQuiet, LoopQuiet, ServerQuiet
        DEF CInv, Next, Connect, Close, messageLoop

(* Every step preserves the invariant.                                     *)
LEMMA CInvStep == CInv /\ [Next]_vars => CInv'
<1> SUFFICES ASSUME CInv, [Next]_vars PROVE CInv'
  OBVIOUS
<1>1. IInv' BY StepPreserves DEF CInv
<1>2. OwnChannels'
  BY Steps, QuietOwn, BeginOwn, ConnectRunOwn, UpgradeRunOwn, StopWaitOwn,
  ReaderOwn DEF CInv
<1> QED BY <1>1, <1>2 DEF CInv

(* Each Run of a transport gets a channel of its own, whatever the callers *)
(* of Connect, Send and Close, the server and the network do.              *)
THEOREM ChannelsOwned == Spec => []CInv
<1>1. Init => CInv BY InitIInv, OwnInit DEF CInv
<1> QED BY <1>1, CInvStep, PTL DEF Spec

-----------------------------------------------------------------------------
(* One transport's view of a step, in the terms of the contract.           *)

Report(t) == IF closedChan[onClose[t]] = "full" THEN "full" ELSE "empty"

Untouched(t) == reader'[t] = reader[t] /\ stopReq'[t] = stopReq[t] /\ Report(t)' = Report(t)
Starts(t) ==
  /\ reader[t] # "running" /\ reader'[t] = "running" /\ Report(t)' = "empty"
  /\ stopReq'[t] \in {stopReq[t], FALSE} /\ ctxDone' = ctxDone
IsStopped(t) ==
  /\ stopReq'[t] = TRUE /\ reader'[t] = reader[t] /\ Report(t)' = Report(t)
  /\ ctxDone' = ctxDone
Ends(t) ==
  /\ reader[t] = "running" /\ Report(t) = "empty"
  /\ stopReq[t] \/ ctxDone \/ t = "websocket"
  /\ reader'[t] = "exited" /\ Report(t)' = "full"
  /\ stopReq'[t] = stopReq[t] /\ ctxDone' = ctxDone
IsHeard(t) ==
  /\ Report(t) = "full" /\ Report(t)' = "empty"
  /\ reader'[t] = reader[t] /\ stopReq'[t] = stopReq[t] /\ ctxDone' = ctxDone
DrivesWell(t) ==
  \/ Untouched(t) /\ ctxDone' \in {ctxDone, TRUE}
  \/ Starts(t) \/ IsStopped(t) \/ Ends(t) \/ IsHeard(t)

(* A Stop asks one transport to end and is nothing to the other.           *)
LEMMA StopDrives ==
  ASSUME CInv, NEW t \in Transports, NEW u, StopOk(u), UNCHANGED <<reader, onClose,
         closedChan, ctxDone>>
  PROVE  DrivesWell(t)
BY DEF StopOk, DrivesWell, Untouched, IsStopped, Report, CInv, OwnChannels

(* A wait takes the report of the transport that owns the channel.         *)
LEMMA AwaitDrives ==
  ASSUME CInv, NEW t \in Transports, NEW th, NEW next, AwaitTransport(th, next)
  PROVE  DrivesWell(t)
<1>1. UNCHANGED <<transportClosed, reader, stopReq, onClose, ctxDone>>
  BY DEF AwaitTransport
<1>2. onClose[t] \in 0..2 /\ transportClosed \in 0..2
  BY DEF CInv, OwnChannels, IInv, Shapes
<1>3. \A k \in 0..2 :
        closedChan'[k] = IF k = transportClosed /\ closedChan[k] = "full" THEN "empty"
                                                                        ELSE closedChan[k]
  BY DEF AwaitTransport, CInv, IInv, Shapes
<1> QED BY <1>1, <1>2, <1>3 DEF DrivesWell, Untouched, IsHeard, Report

(* A Run starts one transport on an empty channel.                         *)
LEMMA RunDrives ==
  ASSUME CInv, NEW t \in Transports, NEW u, NEW k \in 0..2, NoReader, RunOk(u, k),
         closedChan[k] = "empty", UNCHANGED <<closedChan, ctxDone>>
  PROVE  DrivesWell(t)
<1>1. CASE t = u
  BY <1>1 DEF RunOk, DrivesWell, Starts, Report, CInv, OwnChannels, IInv, Shapes, NoReader
<1>2. CASE t # u
  BY <1>2 DEF RunOk, DrivesWell, Untouched, Report, CInv, OwnChannels, IInv, Shapes
<1> QED BY <1>1, <1>2

(* A failed Run closes a channel that was empty.                           *)
LEMMA RunFailDrives ==
  ASSUME CInv, NEW t \in Transports, NEW k \in 0..2, closedChan[k] = "empty",
         closedChan' = [closedChan EXCEPT ![k] = "closed"], UNCHANGED <<readers, ctxDone>>
  PROVE  DrivesWell(t)
<1>1. \A j \in 0..2 : (closedChan'[j] = "full") <=> (closedChan[j] = "full")
  BY DEF CInv, IInv, Shapes
<1>2. onClose[t] \in 0..2
  BY DEF CInv, OwnChannels, IInv, Shapes
<1> QED BY <1>1, <1>2 DEF DrivesWell, Untouched, Report

(* A reader ends: it finds its channel empty, and no other transport has   *)
(* that channel.                                                           *)
LEMMA ReaderDrives ==
  ASSUME CInv, NEW t \in Transports, NEW u \in Transports, ReaderStops(u) \/ ReaderFails(u)
  PROVE  DrivesWell(t)
<1>1. /\ reader[u] = "running" /\ onClose[u] \in 0..2 /\ onClose[u] # 0
      /\ closedChan[onClose[u]] = "empty" /\ onClose[t] \in 0..2
  BY DEF ReaderStops, ReaderFails, Reading, CInv, OwnChannels, IInv, Shapes, ReaderReports
<1>2. /\ UNCHANGED <<stopReq, onClose, ctxDone>>
      /\ reader'[u] = "exited" /\ \A o \in Transports : o # u => reader'[o] = reader[o]
      /\ \A k \in 0..2 : closedChan'[k] = IF k = onClose[u] THEN "full" ELSE closedChan[k]
  BY <1>1 DEF ReaderStops, ReaderFails, ReaderEnds, CInv, IInv, Shapes
<1>3. CASE t = u
  BY <1>1, <1>2, <1>3 DEF ReaderStops, ReaderFails, DrivesWell, Ends, Report
<1>4. CASE t # u
  <2>1. onClose[t] # onClose[u]
    BY <1>1, <1>4 DEF CInv, OwnChannels
  <2> QED BY <1>1, <1>2, <1>4, <2>1 DEF DrivesWell, Untouched, Report
<1> QED BY <1>3, <1>4

(* Every step of the client is, for each transport, a step the contract    *)
(* allows.                                                                 *)
LEMMA StepDrives ==
  ASSUME CInv, [Next]_vars, NEW t \in Transports PROVE DrivesWell(t)
<1>0. ASSUME QuietStep PROVE DrivesWell(t)
  BY <1>0 DEF QuietStep, Channels, DrivesWell, Untouched, Report
<1>1. CASE ConnectBegin
  BY <1>0, <1>1, CrashQuiet DEF ConnectBegin, DrivesWell, Untouched, Report
<1>2. CASE ConnectRun
  <2>1. NoReader /\ closedChan[1] = "empty" /\ UNCHANGED ctxDone
    BY <1>2 DEF ConnectRun, CInv, IInv, BeforeRun
  <2> QED BY <1>2, <2>1, RunDrives, RunFailDrives DEF ConnectRun
<1>3. CASE UpgradeRun
  <2>1. NoReader /\ closedChan[2] = "empty" /\ UNCHANGED ctxDone
    BY <1>3 DEF UpgradeRun, CInv, IInv, Awaited, UpgradedOnce, OpenPending, Upgrading
  <2> QED BY <1>3, <2>1, RunDrives, RunFailDrives DEF UpgradeRun
<1>4. CASE ConnectFailStop
  <2>1. CASE transport = "nil"
    BY <1>0, <1>4, <2>1, CrashQuiet DEF ConnectFailStop
  <2>2. CASE transport # "nil"
    BY <1>4, <2>2, StopDrives DEF ConnectFailStop, DrivesWell, Untouched, Report
  <2> QED BY <2>1, <2>2
<1>5. CASE UpgradeStop
  <2>1. CASE transport = "nil"
    BY <1>0, <1>5, <2>1, CrashQuiet DEF UpgradeStop
  <2>2. CASE transport # "nil"
    BY <1>5, <2>2, StopDrives DEF UpgradeStop, DrivesWell, Untouched, Report
  <2> QED BY <2>1, <2>2
<1>6. CASE \E c \in CloseThreads : CloseStop(c)
  BY <1>6, StopDrives DEF CloseStop, DrivesWell, Untouched, Report
<1>7. CASE ConnectFailWait \/ UpgradeWait \/ \E c \in CloseThreads : CloseWait(c)
  BY <1>7, AwaitDrives DEF ConnectFailWait, UpgradeWait, CloseWait
<1>8. CASE CancelContext
  BY <1>8 DEF CancelContext, DrivesWell, Untouched, Report
<1> QED BY <1>0, <1>1, <1>2, <1>3, <1>4, <1>5, <1>6, <1>7, <1>8, Steps, ReaderDrives

(* The client never runs a transport that runs, gives it a channel of its  *)
(* own that is empty when the transport ends, and takes one report out of  *)
(* it: it implements the contract towards both transports.                 *)
THEOREM TransportsUsed == Spec => UsesTransports
<1>1. Init => PollingContract!Init /\ WebSocketContract!Init
  <2> SUFFICES ASSUME Init PROVE PollingContract!Init /\ WebSocketContract!Init
    OBVIOUS
  <2>1. \A t \in Transports : /\ reader[t] = "idle" /\ stopReq[t] = FALSE
                              /\ closedChan[onClose[t]] = "empty"
    BY DEF Init
  <2>2. ctxDone = FALSE
    BY DEF Init
  <2>3. PollingContract!Init
    BY <2>1, <2>2, Zenon DEF PollingContract!Init
  <2>4. WebSocketContract!Init
    BY <2>1, <2>2, Zenon DEF WebSocketContract!Init
  <2> QED BY <2>3, <2>4
<1>2. ASSUME CInv, [Next]_vars PROVE [PollingContract!Next]_(PollingContract!vars)
  <2>1. DrivesWell("polling")
    BY <1>2, StepDrives
  <2> QED BY <2>1 DEF DrivesWell, Untouched, Starts, IsStopped, Ends, IsHeard, Report,
                      PollingContract!Next, PollingContract!vars, PollingContract!Run,
                      PollingContract!Stop, PollingContract!End, PollingContract!Receive,
                      PollingContract!Cancel
<1>3. ASSUME CInv, [Next]_vars PROVE [WebSocketContract!Next]_(WebSocketContract!vars)
  <2>1. DrivesWell("websocket")
    BY <1>3, StepDrives
  <2> QED BY <2>1 DEF DrivesWell, Untouched, Starts, IsStopped, Ends, IsHeard, Report,
                      WebSocketContract!Next, WebSocketContract!vars,
                      WebSocketContract!Run, WebSocketContract!Stop, WebSocketContract!End,
                      WebSocketContract!Receive, WebSocketContract!Cancel
<1> QED BY <1>1, <1>2, <1>3, ChannelsOwned, PTL
        DEF Spec, UsesTransports, PollingContract!Spec, WebSocketContract!Spec

-----------------------------------------------------------------------------
(* Close.                                                                  *)

(* When the application may call Close.                                    *)
CloseAfterConnect == CloseFrom \subseteq {"connected", "ready"} /\ ~HandlerCloses

(* No Close begins before Connect has returned.                            *)
After == \A c \in CloseThreads : pc[c] # "idle" => pc["connect"] = "connected"

(* Only one Close gets hold of the transport, and it keeps it.             *)
TearsDown(c) == pc[c] \in {"stop", "wait", "closeMessages", "join", "returned", "error"}
OneTeardown ==
  /\ \A c \in CloseThreads :
       TearsDown(c) => transport = "nil" /\ pc["loop"] \notin {"upgWait", "upgRun"}
  /\ \A c, d \in CloseThreads : TearsDown(c) /\ TearsDown(d) => c = d

(* Who has closed messages is past doing so.                               *)
Joining == {"join", "returned"}
WhoClosed ==
  messagesChan = "closed" => \/ pc["connect"] \in {"failJoin", "failed"}
                             \/ \E c \in CloseThreads : pc[c] \in Joining

(* messagesDone follows messageLoop.                                       *)
LoopDone ==
  /\ messagesDone \in Gate /\ messagesChan \in Gate
  /\ messagesDone = "closed" => pc["loop"] = "exited"
  /\ messagesDone = "nil" => pc["connect"] \in {"fresh", "run", "spawn", "failed"}
  /\ messagesChan = "nil" => pc["connect"] = "fresh"

(* A Close that has returned has waited for messageLoop.                   *)
Joined ==
  \A c \in CloseThreads :
    /\ pc[c] \in Joining => messagesChan = "closed"
    /\ pc[c] = "returned" => messagesDone = "closed"

KInv == After /\ OneTeardown /\ WhoClosed /\ LoopDone /\ Joined /\ MessagesClosedOnce

USE DEF Joining, TearsDown

-----------------------------------------------------------------------------
(* Nothing has begun.                                                      *)
LEMMA KInit == Init => KInv
<1> SUFFICES ASSUME Init PROVE KInv
  OBVIOUS
<1>1. /\ \A c \in CloseThreads : pc[c] = "idle"
      /\ pc["connect"] = "fresh"
  BY Zenon DEF Init
<1>2. messagesChan = "nil" /\ messagesDone = "nil" /\ crashed = "no"
  BY Zenon DEF Init
<1> QED BY <1>1, <1>2
        DEF KInv, After, OneTeardown, WhoClosed, LoopDone, Joined, MessagesClosedOnce, Gate

(* A panic for another reason leaves everything as it is.                  *)
LEMMA CrashKeeps ==
  ASSUME KInv, NEW cause, Crash(cause),
         cause \notin {"send on closed messages", "close of closed messages"}
  PROVE  KInv'
BY DEF Crash, KInv, After, OneTeardown, WhoClosed, LoopDone, Joined, MessagesClosedOnce

(* So does a step that concerns neither Close nor messages.                *)
LEMMA QuietKeeps ==
  ASSUME KInv, UNCHANGED <<messagesChan, messagesDone, crashed>>,
         transport' \in {transport, "nil"} \/ ~\E c \in CloseThreads : TearsDown(c),
         \A c \in CloseThreads : pc'[c] = pc[c],
         pc'["connect"] = pc["connect"] \/ (/\ pc["connect"] \notin {"fresh", "connected"}
                                           /\ pc["connect"] \notin {"failJoin", "failed"}
                                           /\ pc'["connect"] # "fresh"
                                           /\ messagesDone # "nil"),
         pc'["loop"] = pc["loop"] \/ (/\ pc["loop"] # "exited"
                                      /\ \/ pc'["loop"] \notin {"upgWait", "upgRun"}
                                         \/ ~\E c \in CloseThreads : TearsDown(c))
  PROVE  KInv'
BY DEF KInv, After, OneTeardown, WhoClosed, LoopDone, Joined, MessagesClosedOnce

(* Connect.  Nobody has closed messages before it sends or closes itself.  *)
LEMMA ConnectKeeps == ASSUME IInv, KInv, ConnectBegin \/ Connect PROVE KInv'
<1> USE DEF IInv, Shapes
<1>1. CASE ConnectBegin
  <2>1. CASE transport = "nil"
    BY <1>1, <2>1, CrashKeeps DEF ConnectBegin
  <2>2. CASE transport # "nil"
    BY <1>1, <2>2 DEF ConnectBegin, KInv, After, OneTeardown, WhoClosed, LoopDone, Joined,
                      MessagesClosedOnce, Gate
  <2> QED BY <2>1, <2>2
<1>2. CASE ConnectRun \/ ConnectSpawn
  <2>1. /\ pc["connect"] \in {"run", "spawn"}
        /\ pc'["connect"] \in {"spawn", "gate", "failed"}
        /\ \A c \in CloseThreads : pc'[c] = pc[c]
        /\ UNCHANGED <<messagesChan, transport, crashed>>
    BY <1>2 DEF ConnectRun, ConnectSpawn
  <2>2. \/ messagesDone' = "open" /\ pc'["loop"] = "recv"
        \/ /\ UNCHANGED messagesDone /\ pc'["loop"] = pc["loop"]
           /\ pc'["connect"] \in {"spawn", "failed"}
    BY <1>2 DEF ConnectRun, ConnectSpawn
  <2>3. messagesChan = "open" /\ \A c \in CloseThreads : pc[c] = "idle"
    BY <2>1 DEF KInv, After, WhoClosed, LoopDone, Gate
  <2>4. LoopDone'
    BY <2>1, <2>2, <2>3 DEF KInv, LoopDone, Gate
  <2> QED BY <2>1, <2>3, <2>4 DEF KInv, After, OneTeardown, WhoClosed, Joined,
                                  MessagesClosedOnce
<1>3. CASE ConnectGate \/ ConnectPollFails \/ ConnectFailWait
  BY <1>3, QuietKeeps DEF ConnectGate, ConnectPollFails, ConnectFailWait, AwaitTransport,
                          KInv, LoopDone
<1>4. CASE ConnectRequest
  <2>1. CASE transport = "nil"
    BY <1>4, <2>1, CrashKeeps DEF ConnectRequest
  <2>2. CASE transport # "nil"
    BY <1>4, <2>2, QuietKeeps DEF ConnectRequest, KInv, LoopDone
  <2> QED BY <2>1, <2>2
<1>5. CASE ConnectPollOk
  <2>1. messagesChan # "closed"
    BY <1>5 DEF ConnectPollOk, KInv, WhoClosed, After
  <2> QED BY <1>5, <2>1, QuietKeeps DEF ConnectPollOk, KInv, LoopDone
<1>6. CASE ConnectFailStop
  <2>1. CASE transport = "nil"
    BY <1>6, <2>1, CrashKeeps DEF ConnectFailStop
  <2>2. CASE transport # "nil"
    BY <1>6, <2>2, QuietKeeps DEF ConnectFailStop, KInv, LoopDone
  <2> QED BY <2>1, <2>2
<1>7. CASE ConnectFailClose
  <2>1. messagesChan = "open"
    BY <1>7 DEF ConnectFailClose, KInv, WhoClosed, After, LoopDone, Gate
  <2> QED BY <1>7, <2>1 DEF ConnectFailClose, CloseMessages, KInv, After, OneTeardown,
                            WhoClosed, LoopDone, Joined, MessagesClosedOnce, Gate
<1>8. CASE ConnectFailJoin
  BY <1>8 DEF ConnectFailJoin, KInv, After, OneTeardown, WhoClosed, LoopDone, Joined,
              MessagesClosedOnce
<1> QED BY <1>1, <1>2, <1>3, <1>4, <1>5, <1>6, <1>7, <1>8 DEF Connect

(* Send.                                                                   *)
LEMMA SendKeeps ==
  ASSUME IInv, KInv, NEW s \in SendThreads, SendBegin(s) \/ Send(s) PROVE KInv'
<1> USE DEF IInv, Shapes
<1>1. CASE SendBegin(s) \/ SendSnapshot(s) \/ SendWait(s)
  BY <1>1, QuietKeeps DEF SendBegin, SendSnapshot, SendWait
<1>2. CASE SendWrite(s)
  <2>1. CASE crashed' = crashed
    <3>1. /\ UNCHANGED <<messagesChan, messagesDone, transport>>
          /\ \A c \in CloseThreads \cup {"connect", "loop"} : pc'[c] = pc[c]
      BY <1>2, <2>1, SMTT(20) DEF SendWrite, Crash
    <3> QED BY <2>1, <3>1, QuietKeeps
  <2>2. CASE crashed' # crashed
    BY <1>2, <2>2, CrashKeeps DEF SendWrite
  <2> QED BY <2>1, <2>2
<1> QED BY <1>1, <1>2 DEF Send

(* In these phases Connect has returned.                                   *)
LEMMA PhaseAfter ==
  ASSUME CloseAfterConnect, Phase \in CloseFrom PROVE pc["connect"] = "connected"
<1>1. Phase \in {"connected", "ready"}
  BY DEF CloseAfterConnect
<1>2. CASE pc["connect"] = "fresh"
  BY <1>1, <1>2 DEF Phase
<1>3. CASE pc["connect"] = "failed"
  BY <1>1, <1>3 DEF Phase
<1>4. CASE pc["connect"] \notin {"fresh", "failed", "connected"}
  BY <1>1, <1>4 DEF Phase
<1> QED BY <1>2, <1>3, <1>4

(* Close.                                                                  *)
LEMMA CloseKeeps ==
  ASSUME CloseAfterConnect, IInv, KInv, NEW c \in CloseThreads, CloseBegin(c) \/ Close(c)
  PROVE  KInv'
<1> USE DEF IInv, Shapes
<1>1. CASE CloseBegin(c)
  BY <1>1, PhaseAfter DEF CloseBegin, KInv, After, OneTeardown, WhoClosed, LoopDone, Joined,
                          MessagesClosedOnce
<1>2. CASE CloseTake(c)
  BY <1>2 DEF CloseTake, LockHeld, KInv, After, OneTeardown, WhoClosed, LoopDone, Joined,
              MessagesClosedOnce
<1>3. CASE CloseStop(c) \/ CloseWait(c)
  <2>1. /\ pc[c] \in {"stop", "wait"} /\ pc'[c] \in {"wait", "error", "closeMessages"}
        /\ pc'["connect"] = pc["connect"] /\ pc'["loop"] = pc["loop"]
        /\ \A d \in CloseThreads : d # c => pc'[d] = pc[d]
        /\ UNCHANGED <<transport, messagesChan, messagesDone, crashed>>
    BY <1>3 DEF CloseStop, CloseWait, AwaitTransport
  <2>2. After' /\ OneTeardown'
    BY <2>1 DEF KInv, After, OneTeardown
  <2>3. WhoClosed' /\ LoopDone'
    BY <2>1 DEF KInv, WhoClosed, LoopDone
  <2>4. Joined' /\ MessagesClosedOnce'
    BY <2>1 DEF KInv, Joined, MessagesClosedOnce
  <2> QED BY <2>2, <2>3, <2>4 DEF KInv
<1>4. CASE CloseCloseMessages(c)
  <2>1. messagesChan = "open" /\ pc["connect"] = "connected"
    BY <1>4 DEF CloseCloseMessages, KInv, WhoClosed, After, OneTeardown, LoopDone, Gate
  <2> QED BY <1>4, <2>1 DEF CloseCloseMessages, CloseMessages, KInv, After, OneTeardown,
                            WhoClosed, LoopDone, Joined, MessagesClosedOnce, Gate
<1>5. CASE CloseJoin(c)
  <2>1. messagesDone = "closed"
    BY <1>5 DEF CloseJoin, KInv, After, LoopDone, Gate
  <2> QED BY <1>5, <2>1 DEF CloseJoin, KInv, After, OneTeardown, WhoClosed, LoopDone, Joined,
                            MessagesClosedOnce
<1> QED BY <1>1, <1>2, <1>3, <1>4, <1>5 DEF Close

(* messageLoop.                                                            *)
LEMMA LoopKeeps == ASSUME CloseAfterConnect, IInv, KInv, messageLoop PROVE KInv'
<1> USE DEF IInv, Shapes
<1>1. CASE LoopBadOpen \/ LoopUpgraded \/ LoopMessage \/ LoopHandlerDone \/ UpgradeProbeFails
  BY <1>1, QuietKeeps
     DEF LoopBadOpen, LoopUpgraded, LoopMessage, LoopHandlerDone, UpgradeProbeFails,
         LoopMayTake, Take
<1>2. CASE LoopOpen
  BY <1>2, QuietKeeps, CrashKeeps DEF LoopOpen, LoopMayTake, Take
<1>3. CASE LoopPing \/ LoopProbed \/ UpgradeProbe
  BY <1>3, QuietKeeps, CrashKeeps
     DEF LoopPing, LoopProbed, UpgradeProbe, SendPacket, LoopMayTake, Take
<1>4. CASE LoopClosePacket
  BY <1>4, QuietKeeps DEF LoopClosePacket, LoopMayTake, Take, CloseAfterConnect
<1>5. CASE LoopExit
  BY <1>5 DEF LoopExit, KInv, After, OneTeardown, WhoClosed, LoopDone, Joined,
              MessagesClosedOnce, Gate
<1>6. CASE UpgradeStop
  <2>1. CASE transport = "nil"
    BY <1>6, <2>1, CrashKeeps DEF UpgradeStop
  <2>2. CASE transport # "nil"
    BY <1>6, <2>2, QuietKeeps DEF UpgradeStop, KInv, OneTeardown
  <2> QED BY <2>1, <2>2
<1>7. CASE UpgradeWait \/ UpgradeRun
  <2>1. ~\E c \in CloseThreads : TearsDown(c)
    BY <1>7 DEF UpgradeWait, UpgradeRun, KInv, OneTeardown
  <2> QED BY <1>7, <2>1, QuietKeeps DEF UpgradeWait, AwaitTransport, UpgradeRun
<1>8. CASE OpenHandshakeGate
  BY <1>8, QuietKeeps, CrashKeeps DEF OpenHandshakeGate
<1> QED BY <1>1, <1>2, <1>3, <1>4, <1>5, <1>6, <1>7, <1>8 DEF messageLoop

(* A reader that runs finds messages open.                                 *)
LEMMA WorldKeeps ==
  ASSUME IInv, KInv, \/ ServerOpen \/ ServerProbe \/ ServerSends \/ CancelContext
                     \/ \E t \in Transports : ReaderStops(t) \/ ReaderFails(t)
                     \/ UNCHANGED vars
  PROVE  KInv'
<1>1. ASSUME NEW t \in Transports, NEW p, Deliver(t, p) PROVE KInv'
  <2>1. messagesChan # "closed"
    BY <1>1 DEF Deliver, Reading, IInv, Closed, NoReader
  <2> QED BY <1>1, <2>1, QuietKeeps DEF Deliver
<1>2. ServerTransport \in Transports
  BY DEF ServerTransport
<1>3. CASE ServerOpen \/ ServerProbe \/ ServerSends
  BY <1>1, <1>2, <1>3 DEF ServerOpen, ServerProbe, ServerSends
<1>4. CASE \/ CancelContext \/ UNCHANGED vars
           \/ \E t \in Transports : ReaderStops(t) \/ ReaderFails(t)
  BY <1>4, QuietKeeps DEF CancelContext, vars, ReaderStops, ReaderFails, ReaderEnds
<1> QED BY <1>3, <1>4

(* Every step preserves the invariant.                                     *)
LEMMA KStep == ASSUME CloseAfterConnect PROVE IInv /\ KInv /\ [Next]_vars => KInv'
BY ConnectKeeps, SendKeeps, CloseKeeps, LoopKeeps, WorldKeeps DEF Next

(* Closing goes one way: one Close tears the client down, and messages is  *)
(* closed by it or by the failed Connect.                                  *)
THEOREM ClosingHolds == ASSUME CloseAfterConnect PROVE Spec => []KInv
BY InvariantHolds, KInit, KStep, PTL DEF Spec

(* No goroutine sends on a closed messages channel, and it is not closed   *)
(* twice, however many goroutines call Close after Connect has returned.   *)
THEOREM ClosedOnce == ASSUME CloseAfterConnect PROVE Spec => []MessagesClosedOnce
<1>1. KInv => MessagesClosedOnce
  BY DEF KInv
<1> QED BY <1>1, ClosingHolds, PTL

(* A Close that has torn the client down returns when no reader and no     *)
(* messageLoop runs any more and messages is closed.                       *)
THEOREM ShutdownClean == ASSUME CloseAfterConnect PROVE Spec => []CleanShutdown
<1>1. IInv /\ KInv => CleanShutdown
  BY DEF IInv, Closed, NoReader, KInv, Joined, LoopDone, CleanShutdown
<1> QED BY <1>1, InvariantHolds, ClosingHolds, PTL

=============================================================================
