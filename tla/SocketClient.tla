---------------------------- MODULE SocketClient ----------------------------
(***************************************************************************)
(* Emit and acknowledgements of the Socket.IO client, socket.io/v5/client: *)
(* the goroutines that call Emit, the ackCallbacks table they share with   *)
(* the goroutine that handles incoming packets (handleAck), the watcher    *)
(* goroutine of an emit with a timeout, and the goroutines that safeGo     *)
(* starts to run acknowledgement callbacks.                                *)
(*                                                                         *)
(* Each member of Emits is one call of Emit.  The engine below is seen     *)
(* through Send (it writes, fails, or fails after the packet got through)  *)
(* and through the acknowledgements it delivers, which may be late,        *)
(* repeated, malformed or missing.                                         *)
(***************************************************************************)
EXTENDS Naturals

CONSTANTS
  Emits,       \* the calls of Emit
  WithAck,     \* those given an ack callback (emit.WithAck)
  WithTimeout, \* those given a timeout (emit.WithTimeout)
  Refused,     \* those Emit rejects: a bad event or argument, or an ack
               \* callback that is not a function
  Panicking,   \* those whose callbacks may panic
  MaxAcks      \* bound on the acknowledgement packets the server sends

ASSUME EmitAssumption ==
  /\ WithAck \subseteq Emits /\ WithTimeout \subseteq Emits
  /\ Refused \subseteq Emits /\ Panicking \subseteq Emits
  /\ MaxAcks \in Nat

VARIABLES
  ctx,          \* c.ctx: Background until Connect stores the caller's context
  cancelled,    \* the caller's context was cancelled
  connected,    \* waitConnected is closed
  pc,           \* where each Emit is
  gateCtx,      \* the context an Emit waits with at waitConnected
  ackCounter,   \* c.ackCounter
  ackId,        \* the id each Emit was given, 0 for none
  ackCallbacks, \* c.ackCallbacks: the Emit whose callback is stored under an id
  watcher,      \* the goroutine that waits for the timeout of each Emit
  watchCtx,     \* the context that goroutine waits with
  done,         \* whether the done channel (capacity 1) holds the answer
  calls,        \* callback goroutines started by handleAck and not yet run
  ackRuns,      \* how often the ack callback of each Emit was run
  timeoutRuns,  \* how often its timeout callback was run
  sent,         \* the ids that reached the server
  answered,     \* the ids for which handleAck has handled a well-formed ack
  dropped,      \* the ids whose callback a malformed ack removed
  acksLeft,     \* acknowledgement packets the server may still send
  crashed       \* a panic outside safeGo ended the process

session == <<ctx, cancelled, connected>>
emitting == <<pc, gateCtx, ackId>>
table == <<ackCounter, ackCallbacks>>
watching == <<watcher, watchCtx, done>>
outcome == <<calls, ackRuns, timeoutRuns>>
network == <<sent, answered, dropped, acksLeft>>
vars == <<session, emitting, table, watching, outcome, network, crashed>>

Contexts == {"background", "user"}
EmitSteps == {"idle", "gate", "register", "watch", "send", "returned", "error"}
WatcherSteps == {"none", "select", "expired", "timedOut", "acked", "cancelled"}

Init ==
  /\ ctx = "background" /\ cancelled = FALSE /\ connected = FALSE
  /\ pc = [e \in Emits |-> "idle"]
  /\ gateCtx = [e \in Emits |-> "background"]
  /\ ackId = [e \in Emits |-> 0]
  /\ ackCounter = 0
  /\ ackCallbacks = [i \in {} |-> i]
  /\ watcher = [e \in Emits |-> "none"]
  /\ watchCtx = [e \in Emits |-> "background"]
  /\ done = [e \in Emits |-> FALSE]
  /\ calls = [e \in Emits |-> 0]
  /\ ackRuns = [e \in Emits |-> 0]
  /\ timeoutRuns = [e \in Emits |-> 0]
  /\ sent = {} /\ answered = {} /\ dropped = {} /\ acksLeft = MaxAcks
  /\ crashed = FALSE

(* Only the context given to Connect can be done.                          *)
Done(context) == context = "user" /\ cancelled

(* Storing under and deleting an id of ackCallbacks.                       *)
Store(id, e) == [i \in DOMAIN ackCallbacks \cup {id} |->
                   IF i = id THEN e ELSE ackCallbacks[i]]
Delete(id) == [i \in DOMAIN ackCallbacks \ {id} |-> ackCallbacks[i]]

-----------------------------------------------------------------------------
(* The session.                                                            *)

Connect ==
  /\ ~crashed /\ ctx = "background"
  /\ ctx' = "user"
  /\ UNCHANGED <<cancelled, connected, emitting, table, watching, outcome, network,
                 crashed>>

Cancel ==
  /\ ~crashed /\ ctx = "user" /\ ~cancelled
  /\ cancelled' = TRUE
  /\ UNCHANGED <<ctx, connected, emitting, table, watching, outcome, network, crashed>>

(* handleConnect: the gate is closed once, whatever the server repeats.    *)
HandleConnect ==
  /\ ~crashed /\ ctx = "user"
  /\ connected' = TRUE
  /\ UNCHANGED <<ctx, cancelled, emitting, table, watching, outcome, network, crashed>>

-----------------------------------------------------------------------------
(* Emit.                                                                   *)

At(e, l) == ~crashed /\ pc[e] = l

EmitBegin(e) ==
  /\ At(e, "idle")
  /\ gateCtx' = [gateCtx EXCEPT ![e] = ctx]
  /\ pc' = [pc EXCEPT ![e] = "gate"]
  /\ UNCHANGED <<session, ackId, table, watching, outcome, network, crashed>>

(* The arguments are checked after the gate; nothing else can see the      *)
(* checks happen, so they are one step with it.                            *)
EmitReady(e) ==
  /\ At(e, "gate") /\ connected
  /\ pc' = [pc EXCEPT ![e] = CASE e \in Refused -> "error"
                               [] e \in (WithAck \cup WithTimeout) \ Refused -> "register"
                               [] OTHER -> "send"]
  /\ UNCHANGED <<session, gateCtx, ackId, table, watching, outcome, network, crashed>>

EmitCancelled(e) ==
  /\ At(e, "gate") /\ Done(gateCtx[e])
  /\ pc' = [pc EXCEPT ![e] = "error"]
  /\ UNCHANGED <<session, gateCtx, ackId, table, watching, outcome, network, crashed>>

(* Mutant: the counter is not advanced when an id is taken.                *)
RegisterForgetsCount(e) ==
  /\ At(e, "register")
  /\ ackId' = [ackId EXCEPT ![e] = ackCounter + 1]
  /\ ackCallbacks' = Store(ackCounter + 1, e)
  /\ pc' = [pc EXCEPT ![e] = IF e \in WithTimeout THEN "watch" ELSE "send"]
  /\ UNCHANGED <<session, gateCtx, ackCounter, watching, outcome, network, crashed>>

(* One critical section takes the next id and stores the callback.         *)
Register(e) ==
  /\ At(e, "register")
  /\ ackCounter' = ackCounter + 1
  /\ ackId' = [ackId EXCEPT ![e] = ackCounter + 1]
  /\ ackCallbacks' = Store(ackCounter + 1, e)
  /\ pc' = [pc EXCEPT ![e] = IF e \in WithTimeout THEN "watch" ELSE "send"]
  /\ UNCHANGED <<session, gateCtx, watching, outcome, network, crashed>>

StartWatcher(e) ==
  /\ At(e, "watch")
  /\ watchCtx' = [watchCtx EXCEPT ![e] = ctx]
  /\ watcher' = [watcher EXCEPT ![e] = "select"]
  /\ pc' = [pc EXCEPT ![e] = "send"]
  /\ UNCHANGED <<session, gateCtx, ackId, table, done, outcome, network, crashed>>

(* An error of Send does not tell whether the packet got through; a        *)
(* failed Emit leaves its callback in the table.                           *)
SendPacket(e) ==
  /\ At(e, "send")
  /\ \/ /\ sent' = sent \cup {ackId[e]}
        /\ pc' \in {[pc EXCEPT ![e] = l] : l \in {"returned", "error"}}
     \/ /\ sent' = sent
        /\ pc' = [pc EXCEPT ![e] = "error"]
  /\ UNCHANGED <<session, gateCtx, ackId, table, watching, outcome, answered, dropped,
                 acksLeft, crashed>>

Emit(e) ==
  \/ EmitReady(e) \/ EmitCancelled(e)
  \/ Register(e) \/ StartWatcher(e) \/ SendPacket(e)

-----------------------------------------------------------------------------
(* Incoming acknowledgements.                                              *)

(* The server answers packets that carried an id, in any order, repeating  *)
(* itself or not.                                                          *)
ServerMayAck(id) == ~crashed /\ acksLeft > 0 /\ id \in sent \ {0}

(* Mutants: the entry stays in the table; it is deleted before the lookup. *)
HandleAckKeeps(id) ==
  /\ ServerMayAck(id)
  /\ answered' = answered \cup {id}
  /\ acksLeft' = acksLeft - 1
  /\ calls' = IF id \in DOMAIN ackCallbacks
              THEN [calls EXCEPT ![ackCallbacks[id]] = @ + 1] ELSE calls
  /\ UNCHANGED <<session, emitting, table, watching, ackRuns, timeoutRuns, sent, dropped,
                 crashed>>

HandleAckDeletesFirst(id) ==
  /\ ServerMayAck(id)
  /\ answered' = answered \cup {id}
  /\ acksLeft' = acksLeft - 1
  /\ ackCallbacks' = Delete(id)
  /\ UNCHANGED <<session, emitting, ackCounter, watching, outcome, sent, dropped, crashed>>

HandleAck(id) ==
  /\ ServerMayAck(id)
  /\ answered' = answered \cup {id}
  /\ acksLeft' = acksLeft - 1
  /\ ackCallbacks' = Delete(id)
  /\ calls' = IF id \in DOMAIN ackCallbacks
              THEN [calls EXCEPT ![ackCallbacks[id]] = @ + 1] ELSE calls
  /\ UNCHANGED <<session, emitting, ackCounter, watching, ackRuns, timeoutRuns, sent,
                 dropped, crashed>>

(* An ack packet without event data only removes the callback.             *)
DropBadAck(id) ==
  /\ ServerMayAck(id)
  /\ dropped' = IF id \in DOMAIN ackCallbacks THEN dropped \cup {id} ELSE dropped
  /\ acksLeft' = acksLeft - 1
  /\ ackCallbacks' = Delete(id)
  /\ UNCHANGED <<session, emitting, ackCounter, watching, outcome, sent, answered,
                 crashed>>

(* The goroutine of handleAck runs the stored function: the user's         *)
(* callback, its panics recovered, or the hand-over to the watcher.        *)
RunCallback(e) ==
  /\ ~crashed /\ calls[e] > 0
  /\ calls' = [calls EXCEPT ![e] = @ - 1]
  /\ \/ /\ e \in WithTimeout /\ ~done[e]
        /\ done' = [done EXCEPT ![e] = TRUE]
        /\ UNCHANGED ackRuns
     \/ /\ e \notin WithTimeout
        /\ ackRuns' = [ackRuns EXCEPT ![e] = @ + 1]
        /\ UNCHANGED done
  /\ UNCHANGED <<session, emitting, table, watcher, watchCtx, timeoutRuns, network,
                 crashed>>

-----------------------------------------------------------------------------
(* The watcher of an emit with a timeout: its select takes any ready case. *)

Watching(e, l) == ~crashed /\ watcher[e] = l

WatchTimer(e) ==
  /\ Watching(e, "select")
  /\ watcher' = [watcher EXCEPT ![e] = "expired"]
  /\ UNCHANGED <<session, emitting, table, watchCtx, done, outcome, network, crashed>>

(* Mutants: the entry is left behind; the timeout callback is not run.     *)
WatchTimeoutLeaks(e) ==
  /\ Watching(e, "expired")
  /\ watcher' = [watcher EXCEPT ![e] = "timedOut"]
  /\ timeoutRuns' = [timeoutRuns EXCEPT ![e] = @ + 1]
  /\ UNCHANGED <<session, emitting, table, watchCtx, done, calls, ackRuns, network, crashed>>

WatchTimeoutSilent(e) ==
  /\ Watching(e, "expired")
  /\ watcher' = [watcher EXCEPT ![e] = "timedOut"]
  /\ ackCallbacks' = Delete(ackId[e])
  /\ UNCHANGED <<session, emitting, ackCounter, watchCtx, done, outcome, network, crashed>>

(* The timeout callback runs on the watcher itself, outside safeGo.        *)
WatchTimeout(e) ==
  /\ Watching(e, "expired")
  /\ watcher' = [watcher EXCEPT ![e] = "timedOut"]
  /\ ackCallbacks' = Delete(ackId[e])
  /\ timeoutRuns' = [timeoutRuns EXCEPT ![e] = @ + 1]
  /\ crashed' \in BOOLEAN /\ (crashed' => e \in Panicking)
  /\ UNCHANGED <<session, emitting, ackCounter, watchCtx, done, calls, ackRuns, network>>

WatchCancelled(e) ==
  /\ Watching(e, "select") /\ Done(watchCtx[e])
  /\ watcher' = [watcher EXCEPT ![e] = "cancelled"]
  /\ UNCHANGED <<session, emitting, table, watchCtx, done, outcome, network, crashed>>

WatchDone(e) ==
  /\ Watching(e, "select") /\ done[e]
  /\ watcher' = [watcher EXCEPT ![e] = "acked"]
  /\ done' = [done EXCEPT ![e] = FALSE]
  /\ ackRuns' = [ackRuns EXCEPT ![e] = IF e \in WithAck THEN @ + 1 ELSE @]
  /\ crashed' \in BOOLEAN /\ (crashed' => e \in WithAck \cap Panicking)
  /\ UNCHANGED <<session, emitting, table, watchCtx, calls, timeoutRuns, network>>

Watch(e) == WatchTimer(e) \/ WatchTimeout(e) \/ WatchCancelled(e) \/ WatchDone(e)

-----------------------------------------------------------------------------
Next ==
  \/ Connect \/ Cancel \/ HandleConnect
  \/ \E e \in Emits : EmitBegin(e) \/ Emit(e) \/ RunCallback(e) \/ Watch(e)
  \/ \E id \in sent : HandleAck(id) \/ DropBadAck(id)

Spec == Init /\ [][Next]_vars

(* Goroutines that can run do; timers fire; Send of the engine returns.    *)
Fairness == \A e \in Emits : /\ WF_vars(Emit(e))
                             /\ WF_vars(RunCallback(e))
                             /\ WF_vars(Watch(e))
FairSpec == Spec /\ Fairness

-----------------------------------------------------------------------------
(* Properties.                                                             *)

(* Every variable keeps its type; ids in use never exceed the counter.     *)
TypeOK ==
  /\ ctx \in Contexts /\ cancelled \in BOOLEAN /\ connected \in BOOLEAN
  /\ pc \in [Emits -> EmitSteps]
  /\ gateCtx \in [Emits -> Contexts]
  /\ ackCounter \in Nat
  /\ ackId \in [Emits -> 0..ackCounter]
  /\ DOMAIN ackCallbacks \subseteq 1..ackCounter
  /\ ackCallbacks \in [DOMAIN ackCallbacks -> Emits]
  /\ watcher \in [Emits -> WatcherSteps]
  /\ watchCtx \in [Emits -> Contexts]
  /\ done \in [Emits -> BOOLEAN]
  /\ calls \in [Emits -> Nat] /\ ackRuns \in [Emits -> Nat]
  /\ timeoutRuns \in [Emits -> Nat]
  /\ sent \subseteq 0..ackCounter
  /\ answered \subseteq sent \ {0} /\ dropped \subseteq sent \ {0}
  /\ acksLeft \in Nat
  /\ crashed \in BOOLEAN

(* The caller of Emit learns the outcome at most once: one run of the ack  *)
(* callback or one of the timeout callback, however late, repeated or      *)
(* racing the acknowledgement is.                                          *)
SettledOnce == \A e \in Emits : ackRuns[e] + timeoutRuns[e] <= 1

(* An id stands for one emit: what is stored under it is the callback of   *)
(* the emit that was given the id, so an ack never runs another's callback.*)
RoutedToOwner ==
  /\ \A i \in DOMAIN ackCallbacks : ackId[ackCallbacks[i]] = i
  /\ \A e, f \in Emits : ackId[e] = ackId[f] => e = f \/ ackId[e] = 0

(* The first answer to an emit without a timeout is not lost, even when it *)
(* arrives before SendPacket has returned or Emit reports an error.        *)
AckNotLost ==
  \A e \in WithAck \ WithTimeout :
    ackId[e] \in answered \ dropped => ackRuns[e] + calls[e] = 1

(* The goroutine that hands an answer to the watcher never blocks on the   *)
(* done channel, also when the watcher has already given up.               *)
HandOverNeverBlocks == \A e \in WithTimeout : calls[e] > 0 => calls[e] = 1 /\ ~done[e]

(* A watcher that has settled its emit leaves nothing in the table.        *)
SettledLeavesTable ==
  \A e \in Emits : watcher[e] \in {"timedOut", "acked"} => ackId[e] \notin DOMAIN ackCallbacks

(* An emit with a timeout is settled: its ack callback runs, or its        *)
(* timeout callback, or the context of Connect was cancelled; without an   *)
(* ack callback the watcher at least ends.                                 *)
EmitIsSettled ==
  \A e \in Emits :
    pc[e] = "watch" ~> \/ ackRuns[e] + timeoutRuns[e] = 1
                       \/ watcher[e] = "acked" /\ e \notin WithAck
                       \/ watcher[e] = "cancelled"
                       \/ crashed

(* An answer to an emit without a timeout runs its callback.               *)
AnswerRunsCallback ==
  \A e \in WithAck \ WithTimeout :
    ackId[e] \in answered \ dropped ~> (ackRuns[e] = 1 \/ crashed)

=============================================================================
