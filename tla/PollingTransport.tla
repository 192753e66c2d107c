-------------------------- MODULE PollingTransport --------------------------
(***************************************************************************)
(* The polling transport, engine.io/v4/client/transport/polling: the       *)
(* polling loop and its gate, the handshake poll made by the goroutine     *)
(* that calls RequestHandshake, Run, which remakes the stop state so that  *)
(* the transport can be used again, and Stop, which may be called at any   *)
(* time, also while Run is under way.  Run and Stop share plain fields; a  *)
(* step of theirs is one access to one of these fields.                    *)
(*                                                                         *)
(* The engine client is the environment: it runs the transport again only  *)
(* after the loop has ended, asks for the handshake whether or not Run was *)
(* given a session id, takes bodies out of messages and calls SetHandshake *)
(* when it finds the open packet in one.                                   *)
(***************************************************************************)
EXTENDS Integers, Sequences

CONSTANTS
  Stoppers,       \* goroutines that call Stop, each once
  MaxRuns,        \* bound on the number of calls of Run
  MessageCap,     \* capacity of the messages channel
  PayloadLimits,  \* the values maxPayloadSize may have; 0 or less: no limit
  BodySizes,      \* sizes of the bodies the server may send
  MaxInt          \* the largest int64

ASSUME PollingAssumption ==
  /\ MaxRuns \in Nat /\ MessageCap \in Nat \ {0} /\ MaxInt \in Nat
  /\ PayloadLimits \subseteq 0..MaxInt /\ BodySizes \subseteq 0..MaxInt

VARIABLES
  maxPayloadSize,
  loop,           \* the goroutine of pollingLoop
  asker,          \* the goroutine in RequestHandshake
  runner,         \* the goroutine in Run
  stopper,        \* the goroutines in Stop
  setter,         \* the goroutine in SetHandshake
  body,           \* what a poll of the loop and of the asker has read
  sid,            \* a session id is known
  handshakeDone,  \* the gate of the loop: nil, open or closed
  stopped,        \* the atomic flag
  stopPooling,    \* a value is in the channel of this name
  stopCh,         \* open or closed
  stopOnce,       \* stopOnce has been used
  reqCancelled,   \* reqCtx was cancelled by pollCancel
  pollCancel,     \* pollCancel is not nil
  messages,       \* bodies in the channel
  onClose,        \* the channel given to Run: empty or full
  ctxDone,
  runs,           \* calls of Run so far
  purpose,        \* what the present run is for
  asked,          \* history: a Stop that concerns the present loop was called
  crossed,        \* history: a Stop overlapped a Run
  crashed         \* a panic ended the process

stopState == <<stopped, stopPooling, stopCh, stopOnce, reqCancelled, pollCancel>>
goroutines == <<loop, asker, runner, stopper, setter>>
gate == <<sid, handshakeDone>>
history == <<asked, crossed>>
rest == <<maxPayloadSize, ctxDone, runs, purpose, crashed>>
vars == <<goroutines, body, gate, stopState, messages, onClose, history, rest>>

(* Bodies: the open packet of the handshake or ordinary data; len is how   *)
(* much of size was read.                                                  *)
Bodies == [kind : {"open", "data"}, size : BodySizes, len : 0..MaxInt]
NoBody == [kind |-> "none", size |-> 0, len |-> 0]

LoopLabels == {"none", "gate", "check", "request", "deliver", "failed", "backoff",
               "finish", "report", "done"}
AskerLabels == {"none", "due", "request", "deliver", "answered", "canceled", "failed"}
RunnerLabels == {"idle", "flag", "token", "broadcast", "once", "spawn"}
StopperLabels == {"idle", "once", "token", "done"}

(* Run is called by Connect without a session id, by Connect with the id   *)
(* of an earlier session (c.sid is kept), or for the target of an upgrade. *)
Purposes == {"open", "resume", "upgrade"}

Running == loop \notin {"none", "done"}
Stopping == \E s \in Stoppers : stopper[s] \in {"once", "token"}

(* NewTransport.                                                           *)
Init ==
  /\ maxPayloadSize \in PayloadLimits
  /\ loop = "none" /\ asker = "none" /\ runner = "idle" /\ setter = "idle"
  /\ stopper = [s \in Stoppers |-> "idle"]
  /\ body = [g \in {"loop", "asker"} |-> NoBody]
  /\ sid = FALSE /\ handshakeDone = "nil"
  /\ stopped = FALSE /\ stopPooling = FALSE /\ stopCh = "open" /\ stopOnce = FALSE
  /\ reqCancelled = FALSE /\ pollCancel = FALSE
  /\ messages = <<>> /\ onClose = "empty" /\ ctxDone = FALSE
  /\ runs = 0 /\ purpose = "none"
  /\ asked = FALSE /\ crossed = FALSE /\ crashed = FALSE

-----------------------------------------------------------------------------
(* Run.  A new request context and a new gate first, open at once when the *)
(* caller already has a session id; the stop state after them.  Connect    *)
(* brings a context and a messages channel of its own, an upgrade shares   *)
(* those of the session.  Connect asks for the handshake in any case; in   *)
(* an upgrade its request went to the old transport, or is still to come   *)
(* and then goes to this one.                                              *)

(* Mutant: the gate is always open.                                        *)
NewGateOpen(known) == "closed"

(* Mutant: the gate waits for SetHandshake although the id is known.       *)
NewGateShut(known) == "open"

NewGate(known) == IF known THEN "closed" ELSE "open"

RunBegin(why) ==
  /\ ~crashed /\ runner = "idle" /\ ~Running /\ runs < MaxRuns
  /\ asker \notin {"due", "request", "deliver"} /\ setter = "idle"
  /\ why # "open" => sid
  /\ runs' = runs + 1 /\ purpose' = why
  /\ reqCancelled' = FALSE /\ pollCancel' = TRUE
  /\ sid' = (why # "open") /\ handshakeDone' = NewGate(why # "open")
  /\ messages' = IF why = "upgrade" THEN messages ELSE <<>>
  /\ ctxDone' = (why = "upgrade" /\ ctxDone)
  /\ onClose' = "empty"
  /\ asker' \in (IF why = "upgrade" THEN {"none", "due"} ELSE {"due"})
  /\ runner' = "flag" /\ crossed' = (crossed \/ Stopping)
  /\ UNCHANGED <<loop, stopper, setter, body, stopped, stopPooling, stopCh, stopOnce,
                 asked, maxPayloadSize, crashed>>

(* One assignment of Run; what it assigns is up to the caller.             *)
RunStep(from, to) ==
  /\ ~crashed /\ runner = from /\ runner' = to
  /\ UNCHANGED <<asker, stopper, setter, body, gate, reqCancelled, pollCancel, messages,
                 onClose, crossed, rest>>

RunFlag ==
  /\ RunStep("flag", "token") /\ stopped' = FALSE
  /\ UNCHANGED <<loop, stopPooling, stopCh, stopOnce, asked>>

RunToken ==
  /\ RunStep("token", "broadcast") /\ stopPooling' = FALSE
  /\ UNCHANGED <<loop, stopped, stopCh, stopOnce, asked>>

(* Mutant: Run does not remake the broadcast channel.                      *)
RunBroadcastKept ==
  /\ RunStep("broadcast", "once")
  /\ UNCHANGED <<loop, stopped, stopPooling, stopCh, stopOnce, asked>>

RunBroadcast ==
  /\ RunStep("broadcast", "once") /\ stopCh' = "open"
  /\ UNCHANGED <<loop, stopped, stopPooling, stopOnce, asked>>

RunOnce ==
  /\ RunStep("once", "spawn") /\ stopOnce' = FALSE
  /\ UNCHANGED <<loop, stopped, stopPooling, stopCh, asked>>

(* The loop starts.  A Stop whose effect is still to be seen or still to   *)
(* come concerns it.                                                       *)
RunSpawn ==
  /\ RunStep("spawn", "idle") /\ loop' = "gate"
  /\ asked' = (asked /\ (Stopping \/ stopped \/ stopPooling \/ stopCh = "closed"
                           \/ reqCancelled))
  /\ UNCHANGED <<stopped, stopPooling, stopCh, stopOnce>>

Run == RunFlag \/ RunToken \/ RunBroadcast \/ RunOnce \/ RunSpawn

-----------------------------------------------------------------------------
(* Stop: the flag is taken by compare-and-swap, the winner broadcasts and  *)
(* leaves a token.                                                         *)

StopSwap(s) ==
  /\ ~crashed /\ stopper[s] = "idle"
  /\ stopped' = TRUE
  /\ stopper' = [stopper EXCEPT ![s] = IF stopped THEN "done" ELSE "once"]
  /\ asked' = TRUE /\ crossed' = (crossed \/ runner # "idle")
  /\ UNCHANGED <<loop, asker, runner, setter, body, gate, stopPooling, stopCh, stopOnce,
                 reqCancelled, pollCancel, messages, onClose, rest>>

(* stopOnce.Do: cancel the request, close the broadcast channel.  Closing  *)
(* a closed channel panics.                                                *)
StopOnce(s) ==
  /\ ~crashed /\ stopper[s] = "once"
  /\ stopper' = [stopper EXCEPT ![s] = "token"]
  /\ \/ stopOnce /\ UNCHANGED <<stopOnce, stopCh, reqCancelled, crashed>>
     \/ /\ ~stopOnce /\ stopOnce' = TRUE
        /\ reqCancelled' = (reqCancelled \/ pollCancel)
        /\ stopCh' = "closed" /\ crashed' = (stopCh = "closed")
  /\ UNCHANGED <<loop, asker, runner, setter, body, gate, stopped, stopPooling,
                 pollCancel, messages, onClose, history, maxPayloadSize, ctxDone, runs, purpose>>

(* Mutant: no token is left for the loop.                                  *)
StopTokenSkipped(s) ==
  /\ ~crashed /\ stopper[s] = "token"
  /\ stopper' = [stopper EXCEPT ![s] = "done"]
  /\ UNCHANGED <<loop, asker, runner, setter, body, gate, stopState, messages, onClose,
                 history, rest>>

StopToken(s) ==
  /\ ~crashed /\ stopper[s] = "token"
  /\ stopPooling' = TRUE
  /\ stopper' = [stopper EXCEPT ![s] = "done"]
  /\ UNCHANGED <<loop, asker, runner, setter, body, gate, stopped, stopCh, stopOnce,
                 reqCancelled, pollCancel, messages, onClose, history, rest>>

Stop(s) == StopOnce(s) \/ StopToken(s)

-----------------------------------------------------------------------------
(* poll, by the loop and by RequestHandshake.                              *)

(* Mutant: exactly maxPayloadSize bytes are read.                          *)
ReadLimitExact == maxPayloadSize

(* maxPayloadSize + 1 in 64 bits; a sum that wraps around is clamped.      *)
ReadLimit == IF maxPayloadSize + 1 > MaxInt THEN maxPayloadSize ELSE maxPayloadSize + 1

BytesRead(size) ==
  IF maxPayloadSize > 0 /\ size > ReadLimit THEN ReadLimit ELSE size
TooLarge(size) == maxPayloadSize > 0 /\ BytesRead(size) > maxPayloadSize

(* The server answers the poll of goroutine g: a poll without a session id *)
(* opens a session.                                                        *)
Answer(g) ==
  \E size \in BodySizes :
    /\ ~TooLarge(size)
    /\ body' = [body EXCEPT ![g] = [kind |-> IF sid THEN "data" ELSE "open",
                                    size |-> size, len |-> BytesRead(size)]]

Cancelled == reqCancelled \/ ctxDone

(* Mutant: a channel without a bound.                                      *)
RoomUnbounded == TRUE

Room == Len(messages) < MessageCap
Forward(g) ==
  /\ Room /\ messages' = Append(messages, body[g])
  /\ body' = [body EXCEPT ![g] = NoBody]
Drop(g) == body' = [body EXCEPT ![g] = NoBody] /\ UNCHANGED messages

-----------------------------------------------------------------------------
(* RequestHandshake.  Connect calls it after its own Run; when messageLoop *)
(* makes the upgrade meanwhile, that Run need not have returned.           *)

AskerTo(from, to) ==
  /\ ~crashed /\ asker = from /\ asker' = to
  /\ UNCHANGED <<loop, runner, stopper, setter, gate, stopState, onClose, history, rest>>

AskBegin ==
  /\ runner = "idle" \/ purpose = "upgrade"
  /\ AskerTo("due", "request")
  /\ UNCHANGED <<body, messages>>

AskAnswered == AskerTo("request", "deliver") /\ Answer("asker") /\ UNCHANGED messages

(* The network, a bad status, a body that is too large, or a Run that has  *)
(* not stored messages yet.                                                *)
AskFails == AskerTo("request", "failed") /\ UNCHANGED <<body, messages>>

AskCancelled == Cancelled /\ AskerTo("request", "failed") /\ UNCHANGED <<body, messages>>

(* The select over messages, ctx.Done and stopCh takes any ready case; the *)
(* internal errTransportStopped becomes a cancellation.                    *)
AskDelivers == AskerTo("deliver", "answered") /\ Forward("asker")
AskStopped ==
  /\ stopCh = "closed" \/ ctxDone
  /\ AskerTo("deliver", "canceled") /\ Drop("asker")

RequestHandshake == AskCancelled \/ AskDelivers \/ AskStopped

-----------------------------------------------------------------------------
(* pollingLoop.                                                            *)

LoopTo(from, to) ==
  /\ ~crashed /\ loop = from /\ loop' = to
  /\ UNCHANGED <<asker, runner, stopper, setter, gate, stopCh, stopOnce, reqCancelled,
                 pollCancel, history, rest>>
Quietly == UNCHANGED <<body, messages, onClose, stopped, stopPooling>>

(* A select of the loop that finds the token, or the context done.         *)
LoopHalts(from) ==
  /\ from \in {"gate", "check", "backoff"}
  /\ LoopTo(from, "finish")
  /\ \/ stopPooling /\ stopPooling' = FALSE
     \/ ctxDone /\ UNCHANGED stopPooling
  /\ UNCHANGED <<body, messages, onClose, stopped>>

LoopGate == handshakeDone = "closed" /\ LoopTo("gate", "check") /\ Quietly

(* The default case: neither is ready.                                     *)
LoopPolls == ~stopPooling /\ ~ctxDone /\ LoopTo("check", "request") /\ Quietly

LoopAnswered ==
  /\ LoopTo("request", "deliver") /\ Answer("loop")
  /\ UNCHANGED <<messages, onClose, stopped, stopPooling>>

LoopFails == LoopTo("request", "failed") /\ Quietly
LoopCancelled == Cancelled /\ LoopTo("request", "failed") /\ Quietly

LoopDelivers ==
  /\ LoopTo("deliver", "check") /\ Forward("loop")
  /\ UNCHANGED <<onClose, stopped, stopPooling>>

(* Mutant: a loop that waits for room in messages does not see Stop.       *)
LoopDeliverStopIgnored ==
  /\ ctxDone /\ LoopTo("deliver", "failed") /\ Drop("loop")
  /\ UNCHANGED <<onClose, stopped, stopPooling>>

LoopDeliverStopped ==
  /\ \/ stopCh = "closed" /\ LoopTo("deliver", "finish")
     \/ ctxDone /\ LoopTo("deliver", "failed")
  /\ Drop("loop") /\ UNCHANGED <<onClose, stopped, stopPooling>>

(* Mutant: an error of the poll ends the loop.                             *)
LoopErrorEnds == LoopTo("failed", "finish") /\ Quietly

(* An error of a stopped or cancelled transport ends the loop, any other   *)
(* one is retried after a pause.                                           *)
LoopError ==
  /\ LoopTo("failed", IF stopped \/ ctxDone THEN "finish" ELSE "backoff") /\ Quietly

LoopRetries == LoopTo("backoff", "check") /\ Quietly

(* finishPolling: the flag, then the report.                               *)
LoopFinish ==
  /\ LoopTo("finish", "report") /\ stopped' = TRUE
  /\ UNCHANGED <<body, messages, onClose, stopPooling>>
LoopReport ==
  /\ onClose = "empty" /\ LoopTo("report", "done") /\ onClose' = "full"
  /\ UNCHANGED <<body, messages, stopped, stopPooling>>

pollingLoop ==
  \/ \E l \in LoopLabels : LoopHalts(l)
  \/ LoopGate \/ LoopPolls \/ LoopCancelled \/ LoopDelivers \/ LoopDeliverStopped
  \/ LoopError \/ LoopRetries \/ LoopFinish \/ LoopReport

-----------------------------------------------------------------------------
(* The engine client.                                                      *)

(* messageLoop takes a body; an open packet leads to SetHandshake, which   *)
(* stores the session id and then opens the gate, under the lock each.     *)
Consume ==
  /\ ~crashed /\ messages # <<>> /\ setter = "idle"
  /\ messages' = Tail(messages)
  /\ setter' = IF Head(messages).kind = "open" THEN "sid" ELSE "idle"
  /\ UNCHANGED <<loop, asker, runner, stopper, body, gate, stopState, onClose, history,
                 rest>>

(* The open packet came over another transport, before Run.                *)
HandshakeElsewhere ==
  /\ ~crashed /\ setter = "idle" /\ runs = 0 /\ runner = "idle" /\ setter' = "sid"
  /\ UNCHANGED <<loop, asker, runner, stopper, body, gate, stopState, messages, onClose,
                 history, rest>>

SetSid ==
  /\ ~crashed /\ setter = "sid"
  /\ sid' = TRUE /\ setter' = "gate"
  /\ UNCHANGED <<loop, asker, runner, stopper, body, handshakeDone, stopState, messages,
                 onClose, history, rest>>

(* markHandshakeDoneLocked closes an open gate.                            *)
SetGate ==
  /\ ~crashed /\ setter = "gate"
  /\ handshakeDone' = IF handshakeDone = "open" THEN "closed" ELSE handshakeDone
  /\ setter' = "idle"
  /\ UNCHANGED <<loop, asker, runner, stopper, body, sid, stopState, messages, onClose,
                 history, rest>>

ReceiveReport ==
  /\ ~crashed /\ onClose = "full" /\ onClose' = "empty"
  /\ UNCHANGED <<goroutines, body, gate, stopState, messages, history, rest>>

CancelContext ==
  /\ ~crashed /\ ~ctxDone /\ ctxDone' = TRUE
  /\ UNCHANGED <<goroutines, body, gate, stopState, messages, onClose, history,
                 maxPayloadSize, runs, purpose, crashed>>

-----------------------------------------------------------------------------
Next ==
  \/ \E why \in Purposes : RunBegin(why)
  \/ Run
  \/ \E s \in Stoppers : StopSwap(s) \/ Stop(s)
  \/ AskBegin \/ AskAnswered \/ AskFails \/ RequestHandshake
  \/ LoopAnswered \/ LoopFails \/ pollingLoop
  \/ Consume \/ HandshakeElsewhere \/ SetSid \/ SetGate \/ ReceiveReport \/ CancelContext

Spec == Init /\ [][Next]_vars

(* Goroutines run; the server may hold a poll for ever, polls need not     *)
(* fail, and nobody has to take bodies out of messages.                    *)
FairSpec ==
  /\ Spec /\ WF_vars(Run) /\ WF_vars(RequestHandshake) /\ WF_vars(pollingLoop)
  /\ \A s \in Stoppers : WF_vars(Stop(s))

-----------------------------------------------------------------------------
(* Properties.                                                             *)

LabelsOK ==
  /\ loop \in LoopLabels /\ asker \in AskerLabels /\ runner \in RunnerLabels
  /\ stopper \in [Stoppers -> StopperLabels] /\ setter \in {"idle", "sid", "gate"}
BodiesOK ==
  /\ maxPayloadSize \in PayloadLimits
  /\ body \in [{"loop", "asker"} -> Bodies \cup {NoBody}]
  /\ messages \in Seq(Bodies) /\ Len(messages) <= MessageCap
FlagsOK ==
  /\ sid \in BOOLEAN /\ handshakeDone \in {"nil", "open", "closed"}
  /\ stopped \in BOOLEAN /\ stopPooling \in BOOLEAN /\ stopCh \in {"open", "closed"}
  /\ stopOnce \in BOOLEAN /\ reqCancelled \in BOOLEAN /\ pollCancel \in BOOLEAN
  /\ onClose \in {"empty", "full"} /\ ctxDone \in BOOLEAN /\ runs \in 0..MaxRuns
  /\ purpose \in Purposes \cup {"none"}
  /\ asked \in BOOLEAN /\ crossed \in BOOLEAN /\ crashed \in BOOLEAN

(* Every variable keeps its type, and messages its capacity.               *)
TypeOK == LabelsOK /\ BodiesOK /\ FlagsOK

(* The loop as the engine client sees it.                                  *)
Reader == CASE loop = "none" -> "idle" [] loop = "done" -> "exited" [] OTHER -> "running"

Contract == INSTANCE Transport WITH
  MayFail <- FALSE, reader <- Reader, stopReq <- asked, report <- onClose

(* The transport keeps its part of the Transport interface: its loop ends  *)
(* only when Stop was called or the context is done, never because a poll  *)
(* failed, also when it is used a second time; and it reports once.        *)
KeepsContract == Contract!Spec

(* In a run that opens a session the loop polls only when the answer to    *)
(* the handshake poll is in messages, not while that poll is in flight and *)
(* not after it failed: the server rejects two polls on one session (the   *)
(* comment on handshakeDone).  A run that is given a session id has no     *)
(* such order: its gate is open, and Connect may poll next to the loop.    *)
HandshakeFirst ==
  purpose = "open" /\ loop \in {"check", "request", "deliver", "failed", "backoff"} =>
    asker = "answered"

(* A loop that has a session id does not wait for one: whichever of Run    *)
(* and SetHandshake comes first, the gate of the present run opens.        *)
GateFollowsSid ==
  (sid /\ setter # "gate" /\ runs > 0) => handshakeDone = "closed"

(* Several Stop calls, over several uses of the transport, close stopCh at *)
(* most once per use: a second close would panic.  Only Stop calls that    *)
(* overlap a Run can defeat the sync.Once.                                 *)
StopClosesOnce == crashed => crossed

(* What reaches messages is a whole body: the limit rejects a large one    *)
(* and never cuts it, at the limit and where limit + 1 overflows.          *)
WholeBodies == \A i \in 1..Len(messages) : messages[i].len = messages[i].size

(* A Stop that did not overlap a Run is not lost: when it has returned the *)
(* loop is on its way out, or the token and the closed stopCh wait for it. *)
StopNotLost ==
  (asked /\ ~crossed /\ ~Stopping /\ Running /\ loop \notin {"finish", "report"})
    => (stopPooling /\ stopCh = "closed" /\ reqCancelled)

(* Stop ends the loop and the handshake poll, although the server holds    *)
(* the poll open and nobody makes room in messages.                        *)
StopEnds ==
  /\ (asked /\ Running) ~> (~Running \/ crossed)
  /\ (asked /\ runner = "idle" /\ asker \in {"request", "deliver"}) ~>
       (asker \notin {"request", "deliver"} \/ crossed)

=============================================================================
