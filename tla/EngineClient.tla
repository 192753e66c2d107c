---------------------------- MODULE EngineClient ----------------------------
(***************************************************************************)
(* The Engine.IO client of engine.io/v4/client/client.go: the goroutines   *)
(* that run Connect, messageLoop (with the handshake and the upgrade from  *)
(* polling to websocket), Send and Close over one Client value, and the    *)
(* reader goroutine of each transport behind the Transport interface.      *)
(*                                                                         *)
(* A step of a goroutine ends where another goroutine can observe or       *)
(* disturb it: at a lock, a channel operation, a call into a transport or  *)
(* an unlocked read of a shared field.  A Go panic in one of these         *)
(* goroutines ends the process; the variable crashed records its cause.    *)
(***************************************************************************)
EXTENDS Naturals, Sequences, FiniteSets

CONSTANTS
  Senders,          \* application goroutines, each calling Send once
  Hook,             \* the goroutine that runs afterConnect; it calls Send
  Closers,          \* application goroutines, each calling Close once
  HandlerCloser,    \* the Close call made by a registered close handler
  HandlerCloses,    \* whether the application registered such a handler
  Firsts,           \* the transports the client may start on
  Supported,        \* the keys of supportedTransports
  UpgradeOffers,    \* the upgrade lists an open packet may carry
  Faults,           \* which fallible calls may fail
  SendFrom,         \* phases of the connection in which Send may be called
  CloseFrom,        \* phases of the connection in which Close may be called
  ServerPackets,    \* unsolicited packets the server may send
  MaxServerPackets, \* bound on their number
  MessageCap        \* capacity of the messages channel (100 in Connect)

Transports == {"polling", "websocket"}
FaultKinds == {"dial", "handshake", "open", "send", "read", "stop", "cancel"}
Phases == {"fresh", "connecting", "connected", "ready", "failed"}
SendThreads == Senders \cup {Hook}
CloseThreads == Closers \cup {HandlerCloser}
Threads == {"connect", "loop"} \cup SendThreads \cup CloseThreads

ASSUME ThreadAssumption ==
  /\ SendThreads \cap CloseThreads = {}
  /\ {"connect", "loop"} \cap (SendThreads \cup CloseThreads) = {}
  /\ Hook \notin Senders
  /\ HandlerCloser \notin Closers
ASSUME ConfigAssumption ==
  /\ Firsts \subseteq Transports /\ Firsts # {}
  /\ Supported \subseteq Transports
  /\ UpgradeOffers \subseteq Seq(Transports \cup {"webtransport"})
  /\ HandlerCloses \in BOOLEAN
  /\ Faults \subseteq FaultKinds
  /\ SendFrom \subseteq Phases
  /\ CloseFrom \subseteq Phases
  /\ ServerPackets \subseteq {"ping", "message", "close"}
  /\ MaxServerPackets \in Nat
  /\ MessageCap \in Nat \ {0}

VARIABLES
  pc,              \* where each goroutine is
  tr,              \* the transport each goroutine read into a local variable
  saw,             \* the gates each Send found non-nil when it took its snapshot
  transport,       \* c.transport; "nil" after Close
  waitHandshake,   \* c.waitHandshake: nil, open or closed
  waitUpgrade,     \* c.waitUpgrade: nil, open or closed
  mu,              \* transportMu is held by transportUpgrade across its waits
  transportClosed, \* which channel c.transportClosed refers to
  closedChan,      \* contents of the channels made by NewClient (0), Connect (1)
                   \* and transportUpgrade (2)
  messages,        \* the packets buffered in c.messages
  messagesChan,    \* c.messages itself: nil, open or closed
  messagesDone,    \* c.messagesDone: nil, open or closed
  reader,          \* the reader goroutine of each transport
  stopReq,         \* Stop was called on the transport
  onClose,         \* the channel each transport was given by Run
  first,           \* the transport the client started on
  sid,             \* the handshake was applied (SetHandshake, c.sid)
  ctxDone,         \* the context of Connect was cancelled
  wire,            \* the packets the client put on each transport
  served,          \* the one-time packets the server has sent
  budget,          \* unsolicited packets the server may still send
  crashed          \* "no", or the cause of the panic that ended the process

gates == <<waitHandshake, waitUpgrade, mu>>
closing == <<transportClosed, closedChan>>
queue == <<messages, messagesChan, messagesDone>>
readers == <<reader, stopReq, onClose>>
world == <<first, sid, ctxDone, wire, served, budget>>
locals == <<pc, tr, saw>>
vars == <<locals, transport, gates, closing, queue, readers, world, crashed>>

Gate == {"nil", "open", "closed"}
PacketTypes == {"open", "badopen", "ping", "probe", "message", "close"}
Packets == [type : PacketTypes, upgrades : UpgradeOffers \cup {<<>>}]
Packet(type) == [type |-> type, upgrades |-> <<>>]
Panics == {"nil transport", "nil url", "send on closed messages",
           "close of closed messages", "close of nil gate"}

ConnectSteps == {"fresh", "run", "spawn", "gate", "request", "poll", "failStop",
                 "failWait", "failClose", "failJoin", "connected", "failed"}
LoopSteps == {"none", "recv", "upgLock", "upgWait", "upgRun", "probe",
              "failProbe",
              "failGate", "openGate", "upgraded", "inHandler", "exited"}
SendSteps == {"idle", "snapshot", "wait", "write", "sent", "error", "closed"}
CloseSteps == {"idle", "lock", "stop", "wait", "closeMessages", "join",
               "returned", "error", "noop"}

(***************************************************************************)
(* The phase of the connection as the application can observe it.  Connect *)
(* has returned in "connected", "ready" and "failed"; in "ready" the       *)
(* handshake gate is open to senders as well.                              *)
(***************************************************************************)
Phase ==
  CASE pc["connect"] = "fresh" -> "fresh"
    [] pc["connect"] = "failed" -> "failed"
    [] pc["connect"] = "connected" /\ waitHandshake = "closed" -> "ready"
    [] pc["connect"] = "connected" /\ waitHandshake # "closed" -> "connected"
    [] OTHER -> "connecting"

Init ==
  /\ pc = [th \in Threads |-> CASE th = "connect" -> "fresh"
                                [] th = "loop" -> "none"
                                [] OTHER -> "idle"]
  /\ tr = [th \in Threads |-> "nil"]
  /\ saw = [s \in SendThreads |-> {}]
  /\ first \in Firsts /\ transport = first
  /\ waitHandshake = "nil" /\ waitUpgrade = "nil" /\ mu = FALSE
  /\ transportClosed = 0
  /\ closedChan = [k \in 0..2 |-> "empty"]
  /\ messages = <<>> /\ messagesChan = "nil" /\ messagesDone = "nil"
  /\ reader = [t \in Transports |-> "idle"]
  /\ stopReq = [t \in Transports |-> FALSE]
  /\ onClose = [t \in Transports |-> 0]
  /\ sid = FALSE /\ ctxDone = FALSE
  /\ wire = {} /\ served = {} /\ budget = MaxServerPackets
  /\ crashed = "no"

-----------------------------------------------------------------------------
(* Small pieces the actions are made of.                                   *)

(* A goroutine is at label l, and a reader runs, only while the process    *)
(* has not panicked.                                                       *)
At(th, l) == crashed = "no" /\ pc[th] = l
Reading(t) == crashed = "no" /\ reader[t] = "running"
Goto(th, l) == pc' = [pc EXCEPT ![th] = l]

(* A step that does nothing but move its goroutine.                        *)
Step(th, l) ==
  Goto(th, l) /\ UNCHANGED <<tr, saw, transport, gates, closing, queue, readers, world,
                              crashed>>

Crash(cause) ==
  /\ crashed' = cause
  /\ UNCHANGED <<locals, transport, gates, closing, queue, readers, world>>

(* The receive <-c.transportClosed takes the buffered value, and never     *)
(* blocks on a closed channel.                                             *)
AwaitTransport(th, next) ==
  /\ closedChan[transportClosed] # "empty"
  /\ closedChan' = [closedChan EXCEPT ![transportClosed] = IF @ = "full" THEN "empty" ELSE @]
  /\ Goto(th, next)
  /\ UNCHANGED <<tr, saw, transport, gates, transportClosed, queue, readers, world, crashed>>

(* Writing a packet on a transport.  A POST runs under the context of      *)
(* Connect, whether or not the polling loop still runs; a websocket write  *)
(* needs a connection, which the reader goroutine closes when it ends.     *)
SendOk(t) == \/ t = "polling" /\ ~ctxDone
             \/ t = "websocket" /\ reader[t] # "idle"
SendFails(t) == \/ "send" \in Faults
                \/ t = "polling" /\ ctxDone
                \/ t = "websocket" /\ reader[t] # "running"

(* Stop never waits.  A fresh Run of the polling transport forgets an      *)
(* earlier Stop; the websocket transport keeps the token in stopPooling.   *)
StopOk(t) == stopReq' = [stopReq EXCEPT ![t] = TRUE]
StopFails == "stop" \in Faults

RunOk(t, k) ==
  /\ reader' = [reader EXCEPT ![t] = "running"]
  /\ onClose' = [onClose EXCEPT ![t] = k]
  /\ stopReq' = [stopReq EXCEPT ![t] = IF t = "polling" THEN FALSE ELSE @]
RunFails(t) == t = "websocket" /\ ("dial" \in Faults \/ ctxDone)

(* Mutant: a queue without a bound.                                        *)
RoomUnbounded == TRUE

(* A send on messages finds a free place in its buffer.                    *)
Room == Len(messages) < MessageCap

(* The transport an open packet makes the client upgrade to, if any: the   *)
(* first listed name that is the current transport (no upgrade) or a       *)
(* supported one; other names are skipped with a warning.                  *)
UpgradeTarget(current, upgrades) ==
  LET hits == {i \in DOMAIN upgrades :
                 upgrades[i] = current \/ upgrades[i] \in Supported}
      hit == CHOOSE i \in hits : \A j \in hits : i <= j
  IN IF hits = {} \/ upgrades[hit] = current THEN "nil" ELSE upgrades[hit]

-----------------------------------------------------------------------------
(* Connect.                                                                *)

(* Fields are assigned, then c.transport.Run is called.                    *)
ConnectBegin ==
  /\ At("connect", "fresh")
  /\ \/ /\ transport = "nil" /\ Crash("nil transport")
     \/ /\ transport # "nil"
        /\ messagesChan' = "open" /\ transportClosed' = 1
        /\ tr' = [tr EXCEPT !["connect"] = transport]
        /\ Goto("connect", "run")
        /\ UNCHANGED <<saw, transport, gates, closedChan, messages, messagesDone,
                       readers, world, crashed>>

ConnectRun ==
  /\ At("connect", "run")
  /\ \/ /\ RunOk(tr["connect"], 1)
        /\ Goto("connect", "spawn")
        /\ UNCHANGED closedChan
     \/ /\ RunFails(tr["connect"])
        /\ closedChan' = [closedChan EXCEPT ![1] = "closed"]
        /\ Goto("connect", "failed")
        /\ UNCHANGED readers
  /\ UNCHANGED <<tr, saw, transport, gates, transportClosed, queue, world, crashed>>

ConnectSpawn ==
  /\ At("connect", "spawn")
  /\ messagesDone' = "open"
  /\ pc' = [pc EXCEPT !["connect"] = "gate", !["loop"] = "recv"]
  /\ UNCHANGED <<tr, saw, transport, gates, closing, messages, messagesChan,
                 readers, world, crashed>>

ConnectGate ==
  /\ At("connect", "gate") /\ ~mu
  /\ waitHandshake' = "open"
  /\ Goto("connect", "request")
  /\ UNCHANGED <<tr, saw, transport, waitUpgrade, mu, closing, queue, readers,
                 world, crashed>>

(* RequestHandshake: nothing to do on a websocket, one poll on polling.    *)
ConnectRequest ==
  /\ At("connect", "request")
  /\ \/ /\ transport = "nil" /\ Crash("nil transport")
     \/ /\ transport # "nil"
        /\ Step("connect", IF transport = "polling" THEN "poll" ELSE "connected")

OpenPackets ==
  {[type |-> "open", upgrades |-> u] : u \in UpgradeOffers}
    \cup (IF "open" \in Faults THEN {Packet("badopen")} ELSE {})

(* The handshake poll: its answer goes into messages from the goroutine of *)
(* Connect, not from the reader goroutine of the transport.  A session     *)
(* that is already open (a websocket client upgraded to polling before     *)
(* Connect asks) answers with ordinary data.                               *)
HandshakeAnswers == IF served = {} THEN OpenPackets ELSE {Packet("message")}

ConnectPollOk ==
  /\ At("connect", "poll")
  /\ \/ /\ messagesChan = "closed" /\ Crash("send on closed messages")
     \/ /\ messagesChan = "open" /\ Room
        /\ \E p \in HandshakeAnswers : /\ messages' = Append(messages, p)
                                       /\ served' = served \cup {p.type}
        /\ Goto("connect", "connected")
        /\ UNCHANGED <<tr, saw, transport, gates, closing, messagesChan, messagesDone,
                       readers, first, sid, ctxDone, wire, budget, crashed>>

ConnectPollFails ==
  /\ At("connect", "poll")
  /\ "handshake" \in Faults \/ stopReq["polling"] \/ ctxDone
  /\ Step("connect", "failStop")

(* Clean-up after a failed handshake request.  Stop's error is ignored.    *)
ConnectFailStop ==
  /\ At("connect", "failStop")
  /\ \/ /\ transport = "nil" /\ Crash("nil transport")
     \/ /\ transport # "nil"
        /\ \/ StopOk(transport)
           \/ StopFails /\ UNCHANGED stopReq
        /\ Goto("connect", "failWait")
        /\ UNCHANGED <<tr, saw, transport, gates, closing, queue, reader, onClose,
                       world, crashed>>

(* Mutant: the failed Connect does not wait for the polling loop.          *)
ConnectFailWaitSkipped == At("connect", "failWait") /\ Step("connect", "failClose")

ConnectFailWait == At("connect", "failWait") /\ AwaitTransport("connect", "failClose")

(* close(c.messages), in Connect and in Close.                             *)
CloseMessages(th, next) ==
  \/ /\ messagesChan = "closed" /\ Crash("close of closed messages")
  \/ /\ messagesChan # "closed"
     /\ messagesChan' = IF messagesChan = "open" THEN "closed" ELSE "nil"
     /\ Goto(th, next)
     /\ UNCHANGED <<tr, saw, transport, gates, closing, messages, messagesDone,
                    readers, world, crashed>>

ConnectFailClose == At("connect", "failClose") /\ CloseMessages("connect", "failJoin")

ConnectFailJoin ==
  /\ At("connect", "failJoin") /\ messagesDone = "closed"
  /\ Step("connect", "failed")

Connect ==
  \/ ConnectRun \/ ConnectSpawn \/ ConnectGate \/ ConnectRequest
  \/ ConnectPollOk \/ ConnectPollFails
  \/ ConnectFailStop \/ ConnectFailWait \/ ConnectFailClose \/ ConnectFailJoin

-----------------------------------------------------------------------------
(* Send.                                                                   *)

SendBegin(s) ==
  /\ s \in Senders /\ At(s, "idle") /\ Phase \in SendFrom
  /\ Step(s, "snapshot")

(* Both wait channels are read once, under the read lock.                  *)
SendSnapshot(s) ==
  /\ At(s, "snapshot") /\ ~mu
  /\ saw' = [saw EXCEPT ![s] = {g \in {"handshake", "upgrade"} :
                 \/ g = "handshake" /\ waitHandshake # "nil"
                 \/ g = "upgrade" /\ waitUpgrade # "nil"}]
  /\ Goto(s, "wait")
  /\ UNCHANGED <<tr, transport, gates, closing, queue, readers, world, crashed>>

(* Mutant: Send waits for the handshake only.                              *)
HandshakeGatePassed(s) == "handshake" \in saw[s] => waitHandshake = "closed"

(* Both gates of the snapshot have opened.                                 *)
GatesPassed(s) ==
  /\ "handshake" \in saw[s] => waitHandshake = "closed"
  /\ "upgrade" \in saw[s] => waitUpgrade = "closed"

SendWait(s) ==
  /\ At(s, "wait") /\ GatesPassed(s) /\ ~mu
  /\ tr' = [tr EXCEPT ![s] = transport]
  /\ Goto(s, IF transport = "nil" THEN "closed" ELSE "write")
  /\ UNCHANGED <<saw, transport, gates, closing, queue, readers, world, crashed>>

(* The transport read under the lock is used after the lock is released.   *)
SendWrite(s) ==
  /\ At(s, "write")
  /\ \/ /\ tr[s] = "polling" /\ reader["polling"] = "idle" /\ Crash("nil url")
     \/ /\ ~(tr[s] = "polling" /\ reader["polling"] = "idle")
        /\ \/ /\ SendOk(tr[s])
              /\ wire' = wire \cup {<<tr[s], "message">>}
              /\ Goto(s, "sent")
           \/ SendFails(tr[s]) /\ Goto(s, "error") /\ UNCHANGED wire
        /\ UNCHANGED <<tr, saw, transport, gates, closing, queue, readers,
                       first, sid, ctxDone, served, budget, crashed>>

Send(s) == SendSnapshot(s) \/ SendWait(s) \/ SendWrite(s)

-----------------------------------------------------------------------------
(* Close.                                                                  *)

CloseBegin(c) ==
  /\ c \in Closers /\ At(c, "idle") /\ Phase \in CloseFrom
  /\ Step(c, "lock")

(* Mutant: Close leaves c.transport in place.                              *)
CloseTakeKeeps(c) ==
  /\ At(c, "lock") /\ ~mu
  /\ tr' = [tr EXCEPT ![c] = transport]
  /\ Goto(c, IF transport = "nil" THEN "noop" ELSE "stop")
  /\ UNCHANGED <<saw, transport, gates, closing, queue, readers, world, crashed>>

CloseTake(c) ==
  /\ At(c, "lock") /\ ~mu
  /\ tr' = [tr EXCEPT ![c] = transport]
  /\ transport' = "nil"
  /\ Goto(c, IF transport = "nil" THEN "noop" ELSE "stop")
  /\ UNCHANGED <<saw, gates, closing, queue, readers, world, crashed>>

CloseStop(c) ==
  /\ At(c, "stop")
  /\ \/ StopOk(tr[c]) /\ Goto(c, "wait")
     \/ StopFails /\ Goto(c, "error") /\ UNCHANGED stopReq
  /\ UNCHANGED <<tr, saw, transport, gates, closing, queue, reader, onClose, world,
                 crashed>>

CloseWait(c) == At(c, "wait") /\ AwaitTransport(c, "closeMessages")

CloseCloseMessages(c) == At(c, "closeMessages") /\ CloseMessages(c, "join")

(* Mutant: Close does not wait for messageLoop.                            *)
CloseJoinSkipped(c) == At(c, "join") /\ Step(c, "returned")

CloseJoin(c) ==
  /\ At(c, "join") /\ messagesDone # "open"
  /\ Step(c, "returned")

Close(c) ==
  CloseTake(c) \/ CloseStop(c) \/ CloseWait(c) \/ CloseCloseMessages(c) \/ CloseJoin(c)

-----------------------------------------------------------------------------
(* messageLoop: one packet at a time, handled to the end before the next.  *)

NextPacket == Head(messages)
LoopMayTake(type) ==
  At("loop", "recv") /\ messages # <<>> /\ NextPacket.type = type
Take == messages' = Tail(messages) /\ UNCHANGED <<messagesChan, messagesDone>>

(* sendPacket: c.transport is read without the lock.                       *)
SendPacket(p, onOk, onError) ==
  /\ transport # "nil"
  /\ \/ /\ SendOk(transport)
        /\ wire' = wire \cup {<<transport, p>>}
        /\ Goto("loop", onOk)
     \/ SendFails(transport) /\ UNCHANGED wire /\ Goto("loop", onError)
  /\ UNCHANGED <<tr, saw, transport, gates, closing, readers, first, sid, ctxDone,
                 served, budget, crashed>>

(* A handshake without a session id, or one that is not JSON, is an error. *)
LoopBadOpen ==
  /\ LoopMayTake("badopen") /\ Take
  /\ UNCHANGED <<locals, transport, gates, closing, readers, world, crashed>>

(* handleHandshake up to the choice of the transport to upgrade to.        *)
LoopOpen ==
  /\ LoopMayTake("open")
  /\ \/ /\ NextPacket.upgrades # <<>> /\ transport = "nil"
        /\ Crash("nil transport")
     \/ /\ NextPacket.upgrades # <<>> => transport # "nil"
        /\ Take
        /\ sid' = TRUE
        /\ LET target == UpgradeTarget(transport, NextPacket.upgrades)
           IN /\ tr' = [tr EXCEPT !["loop"] = target]
              /\ Goto("loop", IF target = "nil" THEN "openGate" ELSE "upgLock")
        /\ UNCHANGED <<saw, transport, gates, closing, readers, first, ctxDone, wire,
                       served, budget, crashed>>

LoopPing ==
  /\ LoopMayTake("ping")
  /\ \/ transport = "nil" /\ Crash("nil transport")
     \/ SendPacket("pong", "recv", "recv") /\ Take

(* The answer to the probe: the upgrade packet goes out, then the gate     *)
(* opens whether or not it could be written.                               *)
LoopProbed ==
  /\ LoopMayTake("probe")
  /\ \/ transport = "nil" /\ Crash("nil transport")
     \/ SendPacket("upgrade", "upgraded", "upgraded") /\ Take

LoopUpgraded ==
  /\ At("loop", "upgraded")
  /\ waitUpgrade' = "closed"
  /\ Goto("loop", "recv")
  /\ UNCHANGED <<tr, saw, transport, waitHandshake, mu, closing, queue, readers, world,
                 crashed>>

(* The message handler of the socket.io client starts goroutines and       *)
(* returns.                                                                *)
LoopMessage ==
  /\ LoopMayTake("message") /\ Take
  /\ UNCHANGED <<locals, transport, gates, closing, readers, world, crashed>>

(* The close handler is called by the loop itself.                         *)
LoopClosePacket ==
  /\ LoopMayTake("close") /\ Take
  /\ \/ /\ HandlerCloses
        /\ pc' = [pc EXCEPT !["loop"] = "inHandler", ![HandlerCloser] = "lock"]
     \/ ~HandlerCloses /\ UNCHANGED pc
  /\ UNCHANGED <<tr, saw, transport, gates, closing, readers, world, crashed>>

LoopHandlerDone ==
  /\ At("loop", "inHandler") /\ pc[HandlerCloser] \in {"returned", "error", "noop"}
  /\ Step("loop", "recv")

LoopExit ==
  /\ At("loop", "recv")
  /\ \/ messages = <<>> /\ messagesChan = "closed"
     \/ ctxDone
  /\ messagesDone' = "closed"
  /\ Goto("loop", "exited")
  /\ UNCHANGED <<tr, saw, transport, gates, closing, messages, messagesChan, readers,
                 world, crashed>>

-----------------------------------------------------------------------------
(* transportUpgrade: transportMu is held from the stop of the old          *)
(* transport until the new one runs.                                       *)

(* Mutant: the upgrade gate is not published.                              *)
UpgradeStopUnpublished ==
  /\ At("loop", "upgLock") /\ transport # "nil"
  /\ StopOk(transport)
  /\ mu' = TRUE
  /\ Goto("loop", "upgWait")
  /\ UNCHANGED <<tr, saw, transport, waitHandshake, waitUpgrade, closing, queue, reader,
                 onClose, world, crashed>>

UpgradeStop ==
  /\ At("loop", "upgLock")
  /\ \/ transport = "nil" /\ Crash("nil transport")
     \/ /\ transport # "nil"
        /\ \/ /\ StopOk(transport)
              /\ waitUpgrade' = "open" /\ mu' = TRUE
              /\ Goto("loop", "upgWait")
           \/ /\ StopFails
              /\ waitUpgrade' = "closed"
              /\ Goto("loop", "failGate")
              /\ UNCHANGED <<mu, stopReq>>
        /\ UNCHANGED <<tr, saw, transport, waitHandshake, closing, queue, reader,
                       onClose, world, crashed>>

(* Mutant: the new transport starts before the old one has ended.          *)
UpgradeWaitSkipped == At("loop", "upgWait") /\ Step("loop", "upgRun")

UpgradeWait == At("loop", "upgWait") /\ AwaitTransport("loop", "upgRun")

(* Mutant: transportClosed stays open when Run fails.                      *)
UpgradeRunUnclosed ==
  /\ At("loop", "upgRun")
  /\ transport' = tr["loop"] /\ transportClosed' = 2 /\ mu' = FALSE
  /\ \/ RunOk(tr["loop"], 2) /\ Goto("loop", "probe") /\ UNCHANGED waitUpgrade
     \/ /\ RunFails(tr["loop"])
        /\ waitUpgrade' = "closed"
        /\ Goto("loop", "failGate")
        /\ UNCHANGED readers
  /\ UNCHANGED <<tr, saw, waitHandshake, closedChan, queue, world, crashed>>

(* Mutant: the websocket reports its end in the channel of polling.        *)
UpgradeRunSameChannel ==
  /\ At("loop", "upgRun")
  /\ transport' = tr["loop"] /\ mu' = FALSE
  /\ \/ RunOk(tr["loop"], 1) /\ Goto("loop", "probe") /\ UNCHANGED waitUpgrade
     \/ /\ RunFails(tr["loop"])
        /\ waitUpgrade' = "closed"
        /\ Goto("loop", "failGate")
        /\ UNCHANGED readers
  /\ UNCHANGED <<tr, saw, transportClosed, waitHandshake, closedChan, queue, world, crashed>>

(* A failed Run leaves c.transport at the transport that does not run.     *)
UpgradeRun ==
  /\ At("loop", "upgRun")
  /\ transport' = tr["loop"]
  /\ transportClosed' = 2
  /\ mu' = FALSE
  /\ \/ /\ RunOk(tr["loop"], 2)
        /\ Goto("loop", "probe")
        /\ UNCHANGED <<closedChan, waitUpgrade>>
     \/ /\ RunFails(tr["loop"])
        /\ closedChan' = [closedChan EXCEPT ![2] = "closed"]
        /\ waitUpgrade' = "closed"
        /\ Goto("loop", "failGate")
        /\ UNCHANGED readers
  /\ UNCHANGED <<tr, saw, waitHandshake, queue, world, crashed>>

UpgradeProbe ==
  /\ At("loop", "probe")
  /\ \/ transport = "nil" /\ Crash("nil transport")
     \/ SendPacket("probe", "openGate", "failProbe") /\ UNCHANGED queue

(* Mutant: a failed probe leaves the upgrade gate shut.                    *)
UpgradeProbeFailsSilently == At("loop", "failProbe") /\ Step("loop", "failGate")

(* A probe that could not be written opens the upgrade gate.               *)
UpgradeProbeFails ==
  /\ At("loop", "failProbe") /\ ~mu
  /\ waitUpgrade' = "closed"
  /\ Goto("loop", "failGate")
  /\ UNCHANGED <<tr, saw, transport, waitHandshake, mu, closing, queue, readers, world,
                 crashed>>

(* The handshake gate opens, after the upgrade or after its failure; the   *)
(* afterConnect hook starts only in the first case.                        *)
OpenHandshakeGate ==
  /\ At("loop", "openGate") \/ At("loop", "failGate")
  /\ \/ waitHandshake = "nil" /\ Crash("close of nil gate")
     \/ /\ waitHandshake # "nil"
        /\ waitHandshake' = "closed"
        /\ pc' = [pc EXCEPT !["loop"] = "recv",
                            ![Hook] = IF pc["loop"] = "openGate" THEN "snapshot" ELSE @]
        /\ UNCHANGED <<tr, saw, transport, waitUpgrade, mu, closing, queue, readers,
                       world, crashed>>

messageLoop ==
  \/ LoopBadOpen \/ LoopOpen \/ LoopPing \/ LoopProbed \/ LoopUpgraded
  \/ LoopMessage \/ LoopClosePacket \/ LoopHandlerDone \/ LoopExit
  \/ UpgradeStop \/ UpgradeWait \/ UpgradeRun \/ UpgradeProbe
  \/ UpgradeProbeFails \/ OpenHandshakeGate

-----------------------------------------------------------------------------
(* The reader goroutine of a transport, and the server it reads from.      *)

(* The transport the server considers current.                             *)
ServerTransport ==
  IF first = "websocket" \/ <<"websocket", "upgrade">> \in wire
  THEN "websocket" ELSE "polling"

(* A reader blocks while messages is full, and forwards what it has read   *)
(* even when it has been told to stop in the meantime.                     *)
Deliver(t, p) ==
  /\ Reading(t)
  /\ \/ messagesChan = "closed" /\ Crash("send on closed messages")
     \/ /\ messagesChan = "open" /\ Room
        /\ messages' = Append(messages, p)
        /\ served' = served \cup {p.type}
        /\ budget' = IF p.type \in ServerPackets THEN budget - 1 ELSE budget
        /\ UNCHANGED <<locals, transport, gates, closing, messagesChan, messagesDone,
                       readers, first, sid, ctxDone, wire, crashed>>

(* A server that a websocket client connects to first greets it itself.    *)
ServerOpen ==
  /\ first = "websocket" /\ served = {}
  /\ \E p \in OpenPackets : Deliver("websocket", p)

ServerProbe ==
  /\ <<"websocket", "probe">> \in wire /\ "probe" \notin served
  /\ Deliver("websocket", Packet("probe"))

(* The polling loop asks for packets only once it has a session id.        *)
ServerSends ==
  /\ budget > 0 /\ "open" \in served
  /\ ServerTransport = "polling" => sid
  /\ \E type \in ServerPackets : Deliver(ServerTransport, Packet(type))

(* The reader ends when it was told to stop or when the context of Connect *)
(* is done, and, on a websocket, at the first read error; it leaves one    *)
(* value in the channel it was given.                                      *)
ReaderEnds(t) ==
  /\ reader' = [reader EXCEPT ![t] = "exited"]
  /\ closedChan' = [closedChan EXCEPT ![onClose[t]] = IF @ = "empty" THEN "full" ELSE @]
  /\ UNCHANGED <<locals, transport, gates, transportClosed, queue, stopReq, onClose,
                 world, crashed>>

ReaderStops(t) == Reading(t) /\ (stopReq[t] \/ ctxDone) /\ ReaderEnds(t)

ReaderFails(t) ==
  Reading(t) /\ t = "websocket" /\ "read" \in Faults /\ ReaderEnds(t)

CancelContext ==
  /\ crashed = "no" /\ "cancel" \in Faults /\ ~ctxDone
  /\ ctxDone' = TRUE
  /\ UNCHANGED <<locals, transport, gates, closing, queue, readers, first, sid, wire,
                 served, budget, crashed>>

-----------------------------------------------------------------------------
Next ==
  \/ ConnectBegin \/ Connect \/ messageLoop
  \/ \E s \in SendThreads : SendBegin(s) \/ Send(s)
  \/ \E c \in CloseThreads : CloseBegin(c) \/ Close(c)
  \/ ServerOpen \/ ServerProbe \/ ServerSends
  \/ \E t \in Transports : ReaderStops(t) \/ ReaderFails(t)
  \/ CancelContext

Spec == Init /\ [][Next]_vars

(* A goroutine that can run eventually runs; nothing obliges the           *)
(* application to make a call, a fault to happen or the server to speak.   *)
GoroutineFairness ==
  /\ WF_vars(Connect)
  /\ WF_vars(messageLoop)
  /\ \A s \in SendThreads : WF_vars(Send(s))
  /\ \A c \in CloseThreads : WF_vars(Close(c))
  /\ \A t \in Transports : WF_vars(ReaderStops(t))

FairSpec == Spec /\ GoroutineFairness

(* The server also greets a websocket client and answers a probe.          *)
AnsweredSpec ==
  FairSpec /\ WF_vars(ServerOpen) /\ WF_vars(ServerProbe)

-----------------------------------------------------------------------------
(* Properties.                                                             *)

PcOK ==
  /\ pc \in [Threads -> ConnectSteps \cup LoopSteps \cup SendSteps \cup CloseSteps]
  /\ pc["connect"] \in ConnectSteps /\ pc["loop"] \in LoopSteps
  /\ \A s \in SendThreads : pc[s] \in SendSteps
  /\ \A c \in CloseThreads : pc[c] \in CloseSteps
LocalsOK ==
  /\ tr \in [Threads -> Transports \cup {"nil"}]
  /\ saw \in [SendThreads -> SUBSET {"handshake", "upgrade"}]
GatesOK ==
  /\ transport \in Transports \cup {"nil"}
  /\ waitHandshake \in Gate /\ waitUpgrade \in Gate /\ mu \in BOOLEAN
  /\ transportClosed \in 0..2
  /\ closedChan \in [0..2 -> {"empty", "full", "closed"}]
QueueOK ==
  /\ messages \in Seq(Packets) /\ Len(messages) <= MessageCap
  /\ messagesChan \in Gate /\ messagesDone \in Gate
ReadersOK ==
  /\ reader \in [Transports -> {"idle", "running", "exited"}]
  /\ stopReq \in [Transports -> BOOLEAN]
  /\ onClose \in [Transports -> 0..2]
WorldOK ==
  /\ first \in Transports /\ sid \in BOOLEAN /\ ctxDone \in BOOLEAN
  /\ wire \subseteq Transports \X {"message", "pong", "probe", "upgrade"}
  /\ served \subseteq PacketTypes
  /\ budget \in 0..MaxServerPackets
  /\ crashed \in Panics \cup {"no"}

(* Every variable keeps its type: each goroutine stays on its own labels,  *)
(* and messages never holds more than its capacity.                        *)
TypeOK == PcOK /\ LocalsOK /\ GatesOK /\ QueueOK /\ ReadersOK /\ WorldOK

(* transportUpgrade waits for the old transport to report that it has      *)
(* stopped before it starts the new one: two readers never feed messages   *)
(* at the same time.                                                       *)
TransportExclusive == ~(reader["polling"] = "running" /\ reader["websocket"] = "running")

(* Close and the clean-up of Connect wait for the transport before they    *)
(* close messages, and only one of them gets to close it: no goroutine     *)
(* sends on a closed messages channel, and it is not closed twice.         *)
MessagesClosedOnce ==
  crashed \notin {"send on closed messages", "close of closed messages"}

(* When Close has returned nil from a real teardown nothing of the client  *)
(* is still running: no reader, no messageLoop, and messages is closed     *)
(* (the comment in Close: "ensures clean shutdown").                       *)
CleanShutdown ==
  \A c \in CloseThreads : pc[c] = "returned" =>
    /\ pc["loop"] \in {"none", "exited"}
    /\ \A t \in Transports : reader[t] # "running"
    /\ messagesChan # "open"

(* No application message is written while an upgrade is under way: Send   *)
(* waits for both gates (the comment in handleHandshake that Send "sees    *)
(* both gates atomically").                                                *)
UpgradeFence ==
  [][\A s \in SendThreads : pc[s] = "write" /\ pc'[s] = "sent" => waitUpgrade # "open"]_vars

(* What Send writes, it writes on the transport the server takes messages  *)
(* from: polling until the upgrade packet has been sent, the websocket     *)
(* afterwards.                                                             *)
OnServerTransport ==
  [][\A s \in SendThreads : pc[s] = "write" /\ pc'[s] = "sent" => tr[s] = ServerTransport]_vars

(* The channel messages is closed only after the last reader has ended:    *)
(* whoever closes it has received from transportClosed first.              *)
ReadersEndFirst ==
  messagesChan = "closed" => \A t \in Transports : reader[t] # "running"

(* Each transport as the contract of module Transport sees it.             *)
PollingContract == INSTANCE Transport WITH
  MayFail <- FALSE, reader <- reader["polling"], stopReq <- stopReq["polling"],
  report <- IF closedChan[onClose["polling"]] = "full" THEN "full" ELSE "empty"
WebSocketContract == INSTANCE Transport WITH
  MayFail <- TRUE, reader <- reader["websocket"], stopReq <- stopReq["websocket"],
  report <- IF closedChan[onClose["websocket"]] = "full" THEN "full" ELSE "empty"

(* The client drives each transport as the contract between them says: it  *)
(* never runs one that is running, gives it a channel of its own that is   *)
(* empty when the transport ends, and takes the one report out of it.      *)
UsesTransports == PollingContract!Spec /\ WebSocketContract!Spec

Crashed == crashed # "no"

(* Every Close the application starts returns.                             *)
CloseReturns ==
  \A c \in CloseThreads :
    pc[c] = "lock" ~> (pc[c] \in {"returned", "error", "noop"} \/ Crashed)

(* Every Send returns, with or without an error, unless the client is      *)
(* closed or its context done: a failed or abandoned upgrade opens the     *)
(* gates it waits on.                                                      *)
SendReturns ==
  \A s \in SendThreads :
    pc[s] = "snapshot" ~> \/ pc[s] \in {"sent", "error", "closed"}
                         \/ transport = "nil" \/ ctxDone
                         \/ Crashed

(* A Send that starts after Close took the transport away fails (the       *)
(* comment in Close: it "will see nil and fail fast").                     *)
SendAfterCloseFails ==
  \A s \in SendThreads :
    (pc[s] = "snapshot" /\ transport = "nil") ~> (pc[s] = "closed" \/ Crashed)

(* No goroutine of the client dereferences the transport that Close set to *)
(* nil (README: "all public methods are goroutine-safe").                  *)
NoNilTransport == crashed # "nil transport"

=============================================================================
