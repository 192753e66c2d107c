-------------------------- MODULE EngineSendProofs --------------------------
(***************************************************************************)
(* Proofs about Send of the Engine.IO client, for any set of senders and   *)
(* closers, any upgrade lists and buffer size: when it writes, and where.  *)
(*                                                                         *)
(* When: a Send that starts behind the handshake gate takes its snapshot   *)
(* after the only open packet was acted upon, so the upgrade gate is in    *)
(* the snapshot or no upgrade comes any more, whatever fails (SInv).       *)
(*                                                                         *)
(* Where: the upgrade gate stays shut from before the client changes its   *)
(* transport until the upgrade packet is on the wire, which is when the    *)
(* server changes its own, so a Send that is about to write holds the      *)
(* transport the server listens on (VInv).  This needs a network that does *)
(* not fail: after a failed write of the upgrade packet the gate opens all *)
(* the same.                                                               *)
(***************************************************************************)
EXTENDS EngineClientProofs

(* The application calls Send when the handshake gate is open, as the      *)
(* afterConnect hook does.                                                 *)
SendAfterHandshake == SendFrom \subseteq {"ready"}

(* messageLoop acts on the open packet.                                    *)
Handling ==
  pc["loop"] \in {"upgLock", "upgWait", "upgRun", "probe", "failProbe", "failGate", "openGate"}

(* The open packet has come and gone.                                      *)
NoOpenLeft == served # {} /\ \A i \in DOMAIN messages : messages[i].type # "open"

(* The handshake gate opens once, behind the one open packet: no upgrade   *)
(* begins after it.                                                        *)
Early == {"fresh", "run", "spawn", "gate"}
HandshakeOnce ==
  /\ Handling \/ waitHandshake = "closed" => NoOpenLeft
  /\ waitHandshake = "closed" => ~Handling
  /\ pc["connect"] \in Early => waitHandshake = "nil"

(* A Send that has begun found the handshake gate open.                    *)
SendersLate == \A s \in SendThreads : pc[s] # "idle" => waitHandshake = "closed"

(* So its snapshot holds the upgrade gate if that is shut, and it is past  *)
(* the gate when it writes.                                                *)
Fenced ==
  \A s \in SendThreads :
    /\ pc[s] = "wait" /\ waitUpgrade = "open" => "upgrade" \in saw[s]
    /\ pc[s] = "write" => waitUpgrade # "open"

SInv == HandshakeOnce /\ SendersLate /\ Fenced

USE ThreadAssumption
USE DEF At, Goto, Step, gates, closing, queue, readers, world, locals
USE DEF Threads, SendThreads, CloseThreads, Transports, Early

-----------------------------------------------------------------------------
(* What the steps do to the queue and to the gates.                        *)

(* Nothing has happened.                                                   *)
LEMMA SInit == Init => SInv
<1> SUFFICES ASSUME Init PROVE SInv
  OBVIOUS
<1>1. /\ \A s \in SendThreads : pc[s] = "idle"
      /\ pc["loop"] = "none" /\ waitHandshake = "nil"
  BY Zenon DEF Init
<1> QED BY <1>1 DEF SInv, HandshakeOnce, SendersLate, Fenced, Handling

(* A step that concerns neither Send nor its gates.                        *)
LEMMA QuietFence ==
  ASSUME SInv, UNCHANGED <<waitHandshake, waitUpgrade, saw>>,
         \A s \in SendThreads : pc'[s] = pc[s],
         NoOpenLeft => NoOpenLeft',
         Handling' => Handling,
         pc'["connect"] \in Early => pc["connect"] \in Early
  PROVE  SInv'
BY DEF SInv, HandshakeOnce, SendersLate, Fenced

(* A panic.                                                                *)
LEMMA CrashFence == ASSUME SInv, NEW cause, Crash(cause) PROVE SInv'
BY QuietFence DEF Crash, NoOpenLeft, Handling

(* Taking a packet brings no open packet.                                  *)
LEMMA TakeNoOpen ==
  ASSUME IInv, messages # <<>>, messages' = Tail(messages), UNCHANGED served
  PROVE  NoOpenLeft => NoOpenLeft'
<1>1. messages \in Seq(Packets)
  BY DEF IInv, Shapes
<1>2. \A i \in DOMAIN messages' :
        i + 1 \in DOMAIN messages /\ messages'[i] = messages[i + 1]
  BY <1>1, TailOf
<1> QED BY <1>2 DEF NoOpenLeft

(* Nor does a packet that arrives after the first one.                     *)
LEMMA AppendNoOpen ==
  ASSUME IInv, NEW p \in Packets, messages' = Append(messages, p),
         served' = served \cup {p.type}, p.type = "open" => served = {}
  PROVE  NoOpenLeft => NoOpenLeft'
<1>1. messages \in Seq(Packets)
  BY DEF IInv, Shapes
<1>2. \A i \in DOMAIN messages' :
        \/ i \in DOMAIN messages /\ messages'[i] = messages[i]
        \/ messages'[i] = p
  BY <1>1, AppendOf
<1> QED BY <1>2 DEF NoOpenLeft

-----------------------------------------------------------------------------
(* The actions.                                                            *)

(* Connect publishes the handshake gate before anything can be sent.       *)
LEMMA ConnectFence == ASSUME IInv, SInv, ConnectBegin \/ Connect PROVE SInv'
<1> USE DEF IInv, Shapes
<1>1. CASE ConnectBegin
  BY <1>1, CrashFence, QuietFence DEF ConnectBegin, NoOpenLeft, Handling
<1>2. CASE ConnectRun
  BY <1>2, QuietFence DEF ConnectRun, NoOpenLeft, Handling
<1>3. CASE ConnectSpawn \/ ConnectPollFails \/ ConnectFailWait \/ ConnectFailJoin
  BY <1>3, QuietFence DEF ConnectSpawn, ConnectPollFails, ConnectFailWait, AwaitTransport,
                          ConnectFailJoin, NoOpenLeft, Handling
<1>4. CASE ConnectRequest
  BY <1>4, CrashFence, QuietFence DEF ConnectRequest, NoOpenLeft, Handling
<1>5. CASE ConnectFailStop
  BY <1>5, CrashFence, QuietFence DEF ConnectFailStop, NoOpenLeft, Handling
<1>6. CASE ConnectFailClose
  BY <1>6, CrashFence, QuietFence DEF ConnectFailClose, CloseMessages, NoOpenLeft, Handling
<1>7. CASE ConnectGate
  <2>1. waitHandshake = "nil" /\ \A s \in SendThreads : pc[s] = "idle"
    BY <1>7 DEF ConnectGate, SInv, HandshakeOnce, SendersLate
  <2> QED BY <1>7, <2>1 DEF ConnectGate, SInv, HandshakeOnce, SendersLate, Fenced, NoOpenLeft,
                            Handling
<1>8. CASE ConnectPollOk
  <2>1. CASE messagesChan = "closed"
    BY <1>8, <2>1, CrashFence DEF ConnectPollOk
  <2>2. CASE messagesChan # "closed"
    <3>1. PICK p \in HandshakeAnswers : /\ messages' = Append(messages, p)
                                        /\ served' = served \cup {p.type}
      BY <1>8, <2>2 DEF ConnectPollOk
    <3>2. p \in Packets /\ (p.type = "open" => served = {})
      BY AnswerType DEF HandshakeAnswers, Packet
    <3>3. NoOpenLeft => NoOpenLeft'
      BY <3>1, <3>2, AppendNoOpen
    <3> QED BY <1>8, <2>2, <3>3, QuietFence DEF ConnectPollOk, Handling
  <2> QED BY <2>1, <2>2
<1> QED BY <1>1, <1>2, <1>3, <1>4, <1>5, <1>6, <1>7, <1>8 DEF Connect

(* Send may begin only when the connection is ready.                       *)
LEMMA PhaseReady ==
  ASSUME SendAfterHandshake, Phase \in SendFrom PROVE waitHandshake = "closed"
<1>1. Phase = "ready"
  BY DEF SendAfterHandshake
<1>2. CASE pc["connect"] = "fresh"
  BY <1>1, <1>2 DEF Phase
<1>3. CASE pc["connect"] = "failed"
  BY <1>1, <1>3 DEF Phase
<1>4. CASE pc["connect"] \notin {"fresh", "failed", "connected"}
  BY <1>1, <1>4 DEF Phase
<1>5. CASE pc["connect"] = "connected" /\ waitHandshake # "closed"
  BY <1>1, <1>5 DEF Phase
<1> QED BY <1>2, <1>3, <1>4, <1>5

(* Send passes the gates of its snapshot.                                  *)
LEMMA SendFence ==
  ASSUME SendAfterHandshake, TypeOK, IInv, SInv, NEW s \in SendThreads, SendBegin(s) \/ Send(s)
  PROVE  SInv'
<1> USE DEF IInv, Shapes
<1>1. CASE SendBegin(s)
  <2>1. waitHandshake = "closed"
    BY <1>1, PhaseReady DEF SendBegin
  <2> QED BY <1>1, <2>1 DEF SendBegin, SInv, HandshakeOnce, SendersLate, Fenced, NoOpenLeft,
                            Handling
<1>2. CASE SendSnapshot(s)
  <2>1. /\ pc[s] = "snapshot" /\ pc' = [pc EXCEPT ![s] = "wait"]
        /\ waitUpgrade = "open" => "upgrade" \in saw'[s]
        /\ \A r \in SendThreads : r # s => saw'[r] = saw[r]
        /\ UNCHANGED <<waitHandshake, waitUpgrade, served, messages>>
    BY <1>2 DEF SendSnapshot, TypeOK, LocalsOK
  <2> QED BY <2>1 DEF SInv, HandshakeOnce, SendersLate, Fenced, NoOpenLeft, Handling
<1>3. CASE SendWait(s)
  <2>1. waitUpgrade # "open" /\ pc[s] = "wait"
    BY <1>3 DEF SendWait, GatesPassed, SInv, Fenced
  <2>2. /\ pc'[s] \in {"closed", "write"}
        /\ \A th \in Threads : th # s => pc'[th] = pc[th]
        /\ UNCHANGED <<waitHandshake, waitUpgrade, saw, served, messages>>
    BY <1>3 DEF SendWait
  <2> QED BY <2>1, <2>2 DEF SInv, HandshakeOnce, SendersLate, Fenced, NoOpenLeft, Handling
<1>4. CASE SendWrite(s)
  <2>1. CASE crashed' # crashed
    BY <1>4, <2>1, CrashFence DEF SendWrite
  <2>2. CASE crashed' = crashed
    <3>1. /\ pc[s] = "write" /\ pc'[s] \in {"write", "sent", "error"}
          /\ \A th \in Threads : th # s => pc'[th] = pc[th]
      BY <1>4, <2>2 DEF SendWrite, Crash
    <3>2. UNCHANGED <<waitHandshake, waitUpgrade, saw, served, messages>>
      BY <1>4, <2>2 DEF SendWrite, Crash
    <3> QED BY <3>1, <3>2 DEF SInv, HandshakeOnce, SendersLate, Fenced, NoOpenLeft, Handling
  <2> QED BY <2>1, <2>2
<1> QED BY <1>1, <1>2, <1>3, <1>4 DEF Send

(* Close leaves the gates alone.                                           *)
LEMMA CloseFence ==
  ASSUME IInv, SInv, NEW c \in CloseThreads, CloseBegin(c) \/ Close(c) PROVE SInv'
<1> USE DEF IInv, Shapes
<1>1. CASE CloseBegin(c) \/ CloseTake(c) \/ CloseJoin(c) \/ CloseWait(c)
  BY <1>1, QuietFence DEF CloseBegin, CloseTake, CloseJoin, CloseWait, AwaitTransport,
                          NoOpenLeft, Handling
<1>2. CASE CloseStop(c)
  BY <1>2, QuietFence DEF CloseStop, NoOpenLeft, Handling
<1>3. CASE CloseCloseMessages(c)
  <2>1. CASE messagesChan = "closed"
    BY <1>3, <2>1, CrashFence DEF CloseCloseMessages, CloseMessages
  <2>2. CASE messagesChan # "closed"
    <3>1. /\ \A th \in Threads : th # c => pc'[th] = pc[th]
          /\ UNCHANGED <<waitHandshake, waitUpgrade, saw, served, messages>>
      BY <1>3, <2>2 DEF CloseCloseMessages, CloseMessages
    <3> QED BY <3>1, QuietFence DEF NoOpenLeft, Handling
  <2> QED BY <2>1, <2>2
<1> QED BY <1>1, <1>2, <1>3 DEF Close

(* messageLoop moves the upgrade gate only before the handshake gate opens,*)
(* except to open it.                                                      *)
LEMMA LoopFence == ASSUME IInv, SInv, messageLoop PROVE SInv'
<1> USE DEF IInv, Shapes
<1>1. CASE LoopBadOpen \/ LoopMessage \/ LoopClosePacket
  <2>1. NoOpenLeft => NoOpenLeft'
    BY <1>1, TakeNoOpen DEF LoopBadOpen, LoopMessage, LoopClosePacket, LoopMayTake, Take
  <2> QED BY <1>1, <2>1, QuietFence
          DEF LoopBadOpen, LoopMessage, LoopClosePacket, LoopMayTake, Take, Handling
<1>2. CASE LoopPing \/ LoopProbed
  <2>1. CASE transport = "nil"
    BY <1>2, <2>1, CrashFence DEF LoopPing, LoopProbed, SendPacket
  <2>2. CASE transport # "nil"
    <3>1. NoOpenLeft => NoOpenLeft'
      BY <1>2, <2>2, TakeNoOpen DEF LoopPing, LoopProbed, LoopMayTake, Take, SendPacket
    <3> QED BY <1>2, <2>2, <3>1, QuietFence
            DEF LoopPing, LoopProbed, LoopMayTake, Take, SendPacket, Handling
  <2> QED BY <2>1, <2>2
<1>3. CASE LoopOpen
  <2>1. CASE NextPacket.upgrades # <<>> /\ transport = "nil"
    BY <1>3, <2>1, CrashFence DEF LoopOpen
  <2>2. CASE ~(NextPacket.upgrades # <<>> /\ transport = "nil")
    <3>1. /\ messages # <<>> /\ Head(messages).type = "open" /\ messages' = Tail(messages)
          /\ pc'["loop"] \in {"openGate", "upgLock"}
          /\ \A th \in Threads : th # "loop" => pc'[th] = pc[th]
          /\ UNCHANGED <<waitHandshake, waitUpgrade, saw, served>>
      BY <1>3, <2>2 DEF LoopOpen, LoopMayTake, Take, NextPacket
    <3>2. /\ 1 \in DOMAIN messages /\ messages[1].type = "open"
          /\ \A i \in DOMAIN messages' :
               i # 0 /\ i + 1 \in DOMAIN messages /\ messages'[i] = messages[i + 1]
      BY <3>1, TailOf
    <3>3. served # {}
      BY <3>1 DEF Silent
    <3>4. \A i \in DOMAIN messages' : messages'[i].type # "open"
      <4>1. DOMAIN messages' \subseteq Nat
        BY <3>1
      <4> QED BY <3>2, <4>1 DEF OneOpen
    <3>5. waitHandshake # "closed"
      BY <3>2 DEF SInv, HandshakeOnce, NoOpenLeft
    <3>6. NoOpenLeft'
      BY <3>1, <3>3, <3>4 DEF NoOpenLeft
    <3> QED BY <3>1, <3>5, <3>6 DEF SInv, HandshakeOnce, SendersLate, Fenced
  <2> QED BY <2>1, <2>2
<1>4. CASE LoopUpgraded
  <2>1. /\ waitUpgrade' = "closed" /\ pc["loop"] = "upgraded" /\ pc'["loop"] = "recv"
        /\ \A th \in Threads : th # "loop" => pc'[th] = pc[th]
        /\ UNCHANGED <<waitHandshake, saw, served, messages>>
    BY <1>4 DEF LoopUpgraded
  <2> QED BY <2>1 DEF SInv, HandshakeOnce, SendersLate, Fenced, NoOpenLeft, Handling
<1>5. CASE LoopHandlerDone \/ LoopExit \/ UpgradeWait
  BY <1>5, QuietFence DEF LoopHandlerDone, LoopExit, UpgradeWait, AwaitTransport, NoOpenLeft,
                          Handling
<1>6. CASE UpgradeProbe
  BY <1>6, CrashFence, QuietFence DEF UpgradeProbe, SendPacket, NoOpenLeft, Handling
<1>7. CASE UpgradeStop \/ UpgradeRun \/ UpgradeProbeFails
  <2>1. CASE pc["loop"] = "upgLock" /\ transport = "nil"
    BY <1>7, <2>1, CrashFence DEF UpgradeStop, UpgradeRun, UpgradeProbeFails
  <2>2. CASE ~(pc["loop"] = "upgLock" /\ transport = "nil")
    <3>1. /\ pc["loop"] \in {"upgLock", "upgRun", "failProbe"}
          /\ \A th \in Threads : th # "loop" => pc'[th] = pc[th]
          /\ UNCHANGED <<waitHandshake, saw, served, messages>>
      BY <1>7, <2>2 DEF UpgradeStop, UpgradeRun, UpgradeProbeFails
    <3>2. waitHandshake # "closed" /\ \A s \in SendThreads : pc[s] = "idle"
      BY <3>1 DEF SInv, HandshakeOnce, SendersLate, Handling
    <3> QED BY <3>1, <3>2 DEF SInv, HandshakeOnce, SendersLate, Fenced, NoOpenLeft, Handling
  <2> QED BY <2>1, <2>2
<1>8. CASE OpenHandshakeGate
  <2>1. CASE waitHandshake = "nil"
    BY <1>8, <2>1, CrashFence DEF OpenHandshakeGate
  <2>2. CASE waitHandshake # "nil"
    <3>1. /\ pc["loop"] \in {"openGate", "failGate"} /\ pc'["loop"] = "recv"
          /\ waitHandshake' = "closed" /\ pc'["connect"] = pc["connect"]
          /\ \A s \in SendThreads : pc'[s] \in {pc[s], "snapshot"}
          /\ UNCHANGED <<waitUpgrade, saw, served, messages>>
      BY <1>8, <2>2 DEF OpenHandshakeGate
    <3>2. NoOpenLeft' /\ \A s \in SendThreads : pc[s] = "idle"
      BY <3>1 DEF SInv, HandshakeOnce, SendersLate, NoOpenLeft, Handling
    <3> QED BY <2>2, <3>1, <3>2 DEF SInv, HandshakeOnce, SendersLate, Fenced, Handling
  <2> QED BY <2>1, <2>2
<1> QED BY <1>1, <1>2, <1>3, <1>4, <1>5, <1>6, <1>7, <1>8 DEF messageLoop

(* The server opens one session.                                           *)
LEMMA WorldFence ==
  ASSUME IInv, SInv, \/ ServerOpen \/ ServerProbe \/ ServerSends \/ CancelContext
                     \/ \E t \in Transports : ReaderStops(t) \/ ReaderFails(t)
                     \/ UNCHANGED vars
  PROVE  SInv'
<1>1. ASSUME NEW t, NEW p \in Packets, Deliver(t, p), p.type = "open" => served = {}
      PROVE  SInv'
  <2>1. CASE messagesChan = "closed"
    BY <1>1, <2>1, CrashFence DEF Deliver
  <2>2. CASE messagesChan # "closed"
    <3>1. NoOpenLeft => NoOpenLeft'
      BY <1>1, <2>2, AppendNoOpen DEF Deliver
    <3> QED BY <1>1, <2>2, <3>1, QuietFence DEF Deliver, Handling
  <2> QED BY <2>1, <2>2
<1>2. CASE ServerOpen
  BY <1>1, <1>2, AnswerType DEF ServerOpen
<1>3. CASE ServerProbe \/ ServerSends
  <2>1. \A type \in ServerPackets \cup {"probe"} :
          Packet(type) \in Packets /\ Packet(type).type # "open"
    BY ConfigAssumption DEF Packets, Packet, PacketTypes
  <2> QED BY <1>1, <1>3, <2>1 DEF ServerProbe, ServerSends
<1>4. CASE \/ CancelContext \/ UNCHANGED vars
           \/ \E t \in Transports : ReaderStops(t) \/ ReaderFails(t)
  BY <1>4, QuietFence DEF CancelContext, vars, ReaderStops, ReaderFails, ReaderEnds,
                          NoOpenLeft, Handling
<1> QED BY <1>2, <1>3, <1>4

(* Every step preserves the invariant.                                     *)
LEMMA SStep ==
  ASSUME SendAfterHandshake PROVE TypeOK /\ IInv /\ SInv /\ [Next]_vars => SInv'
BY ConnectFence, SendFence, CloseFence, LoopFence, WorldFence DEF Next

(* The gates keep every Send that starts after the handshake behind the    *)
(* upgrade: it meets the upgrade gate in its snapshot or finds it open.    *)
THEOREM FenceHolds == ASSUME SendAfterHandshake PROVE Spec => []SInv
BY TypeCorrect, InvariantHolds, SInit, SStep, PTL DEF Spec

(* No Send that starts after the handshake writes while an upgrade is      *)
(* under way, although dials, writes and reads may fail and any number of  *)
(* goroutines send and close.                                              *)
THEOREM UpgradeFenced == ASSUME SendAfterHandshake PROVE Spec => UpgradeFence
<1>1. SInv => [\A s \in SendThreads :
                 pc[s] = "write" /\ pc'[s] = "sent" => waitUpgrade # "open"]_vars
  BY DEF SInv, Fenced
<1> QED BY <1>1, FenceHolds, PTL DEF UpgradeFence

-----------------------------------------------------------------------------
(* On which transport Send writes.                                         *)

(* The network does not fail under the client.                             *)
ReliableNetwork == Faults \cap {"send", "read", "cancel"} = {}

Probed == <<"websocket", "probe">> \in wire
Switched == <<"websocket", "upgrade">> \in wire
Ran == reader["websocket"] # "idle"

(* An answer to a probe follows the probe.                                 *)
Answered == \A i \in DOMAIN messages : messages[i].type = "probe" => Probed

(* A client that starts on polling runs the websocket once, as the upgrade.*)
Upgrades ==
  /\ pc["connect"] = "run" => tr["connect"] = "polling"
  /\ Upgrading => tr["loop"] = "websocket"
  /\ transport = "websocket" \/ Ran => transportClosed = 2 /\ served # {}

(* It stops the websocket only after Close has taken it away.              *)
StopsLast ==
  stopReq["websocket"] \/ reader["websocket"] = "exited" =>
    transport = "nil" /\ pc["loop"] \notin {"upgWait", "upgRun"}

(* The upgrade gate is shut until the upgrade packet has been written.     *)
Probing ==
  /\ pc["loop"] \in {"upgWait", "upgRun", "probe"} => waitUpgrade = "open"
  /\ pc["loop"] = "probe" => Ran /\ transport # "polling"
  /\ pc["loop"] # "failProbe"
  /\ pc["loop"] = "upgraded" => Switched
  /\ Answered
  /\ Probed => Ran /\ transport # "polling"
  /\ Switched => Probed
  /\ transport = "websocket" /\ Ran /\ waitUpgrade # "open" => Switched

(* What a Send that is about to write knows of the server.                 *)
Writes ==
  \A s \in SendThreads : pc[s] = "write" =>
    /\ tr[s] = "polling" => ~Probed
    /\ tr[s] = "websocket" /\ Ran => Switched

FromPolling == Upgrades /\ StopsLast /\ Probing /\ Writes

(* A client that starts on a websocket may be led to polling, but then its *)
(* probe goes where the server does not look for one: the upgrade gate     *)
(* stays shut for good and no Send follows.                                *)
FromWebsocket ==
  /\ Upgrading => tr["loop"] = "polling"
  /\ pc["loop"] \in {"upgWait", "upgRun"} \/ transport = "polling" => waitUpgrade = "open"
  /\ pc["loop"] = "probe" => transport # "websocket"
  /\ pc["loop"] \notin {"failProbe", "upgraded"}
  /\ ~Probed /\ Answered
  /\ \A s \in SendThreads : pc[s] = "write" => tr[s] = "websocket"

VInv ==
  /\ first \in Firsts /\ ~ctxDone
  /\ IF first = "polling" THEN FromPolling ELSE FromWebsocket

USE DEF Upgrading, OpenPending, Answered

(* At the start.                                                           *)
LEMMA VInit == Init => VInv
<1> SUFFICES ASSUME Init PROVE VInv
  OBVIOUS
<1>1. /\ \A s \in SendThreads : pc[s] = "idle"
      /\ pc["loop"] = "none" /\ pc["connect"] = "fresh"
  BY Zenon DEF Init
<1>2. /\ transport = first /\ first \in Firsts /\ wire = {} /\ messages = <<>> /\ ~ctxDone
      /\ reader["websocket"] = "idle" /\ ~stopReq["websocket"] /\ waitUpgrade = "nil"
  BY DEF Init
<1>3. CASE first = "polling"
  <2>1. Upgrades /\ StopsLast
    BY <1>1, <1>2, <1>3 DEF Upgrades, StopsLast, Ran
  <2>2. Probing /\ Writes
    BY <1>1, <1>2, <1>3 DEF Probing, Writes, Probed, Switched, Ran
  <2> QED BY <1>2, <1>3, <2>1, <2>2 DEF VInv, FromPolling
<1>4. CASE first # "polling"
  BY <1>1, <1>2, <1>4 DEF VInv, FromWebsocket, Probed
<1> QED BY <1>3, <1>4

(* A step that moves neither an upgrade nor a Send.                        *)
LEMMA QuietSwitch ==
  ASSUME FromPolling,
         UNCHANGED <<transport, transportClosed, waitUpgrade>>,
         reader'["websocket"] = reader["websocket"],
         stopReq'["websocket"] = stopReq["websocket"],
         tr'["connect"] = tr["connect"], tr'["loop"] = tr["loop"],
         served # {} => served' # {},
         Probed' <=> Probed, Switched' <=> Switched,
         \/ pc'["loop"] = pc["loop"]
         \/ pc'["loop"] \in {"none", "recv", "inHandler", "exited", "openGate"},
         pc'["connect"] = pc["connect"] \/ pc'["connect"] # "run",
         \A s \in SendThreads : pc'[s] # "write" \/ (pc'[s] = pc[s] /\ tr'[s] = tr[s]),
         \A i \in DOMAIN messages' : messages'[i].type = "probe" => Probed
  PROVE  FromPolling'
<1>1. Upgrades' /\ StopsLast'
  BY DEF FromPolling, Upgrades, StopsLast, Ran
<1>2. Probing'
  BY DEF FromPolling, Probing, Ran
<1>3. Writes'
  BY DEF FromPolling, Writes, Ran
<1> QED BY <1>1, <1>2, <1>3 DEF FromPolling

(* What the steps of a client that starts on polling may rely on.          *)
Polls ==
  /\ ReliableNetwork /\ TypeOK /\ IInv /\ SInv
  /\ first = "polling" /\ ~ctxDone /\ FromPolling

(* A panic.                                                                *)
LEMMA CrashSwitch == ASSUME Polls, NEW cause, Crash(cause) PROVE FromPolling'
BY QuietSwitch DEF Crash, Polls, Probed, Switched, FromPolling, Probing

(* The packets still queued after one was taken, or one that is no answer  *)
(* to a probe was added.                                                   *)
LEMMA TakeAnswers ==
  ASSUME IInv, Answered, messages # <<>>, messages' = Tail(messages)
  PROVE  \A i \in DOMAIN messages' : messages'[i].type = "probe" => Probed
<1>1. messages \in Seq(Packets)
  BY DEF IInv, Shapes
<1>2. \A i \in DOMAIN messages' :
        i + 1 \in DOMAIN messages /\ messages'[i] = messages[i + 1]
  BY <1>1, TailOf
<1> QED BY <1>2

(* An answer to the probe enters messages behind the probe itself.         *)
LEMMA AppendAnswers ==
  ASSUME IInv, Answered, NEW p \in Packets, messages' = Append(messages, p),
         p.type = "probe" => Probed
  PROVE  \A i \in DOMAIN messages' : messages'[i].type = "probe" => Probed
<1>1. messages \in Seq(Packets)
  BY DEF IInv, Shapes
<1>2. \A i \in DOMAIN messages' :
        \/ i \in DOMAIN messages /\ messages'[i] = messages[i]
        \/ messages'[i] = p
  BY <1>1, AppendOf
<1> QED BY <1>2

(* Until Connect has its handshake the client is on polling.               *)
LEMMA StillPolling ==
  ASSUME Polls, pc["connect"] # "connected"
  PROVE  served = {} /\ transport \in {"polling", "nil"} /\ ~Ran
BY DEF Polls, IInv, PolledOpen, Silent, FromPolling, Upgrades

(* Connect.                                                                *)
LEMMA ConnectSwitch == ASSUME Polls, ConnectBegin \/ Connect PROVE FromPolling'
<1> USE DEF Polls, IInv, Shapes, TypeOK, PcOK, LocalsOK, ReadersOK
<1>1. CASE ConnectBegin
  <2>1. CASE transport = "nil"
    BY <1>1, <2>1, CrashSwitch DEF ConnectBegin
  <2>2. CASE transport # "nil"
    <3>1. transport = "polling" /\ ~Ran /\ pc["loop"] = "none" /\ served = {}
      BY <1>1, <2>2, StillPolling DEF ConnectBegin, BeforeRun
    <3>2. /\ tr' = [tr EXCEPT !["connect"] = "polling"]
          /\ pc' = [pc EXCEPT !["connect"] = "run"]
          /\ UNCHANGED <<transport, waitUpgrade, reader, stopReq, wire, messages, served>>
      BY <1>1, <2>2, <3>1 DEF ConnectBegin
    <3>3. Upgrades' /\ StopsLast'
      BY <3>1, <3>2 DEF FromPolling, Upgrades, StopsLast, Ran
    <3>4. Probing'
      BY <3>1, <3>2 DEF FromPolling, Probing, Probed, Switched, Ran
    <3>5. Writes'
      BY <3>1, <3>2 DEF FromPolling, Writes, Probed, Switched, Ran
    <3> QED BY <3>3, <3>4, <3>5 DEF FromPolling
  <2> QED BY <2>1, <2>2
<1>2. CASE ConnectRun
  <2>1. /\ reader'["websocket"] = reader["websocket"]
        /\ stopReq'["websocket"] = stopReq["websocket"]
    <3>1. tr["connect"] = "polling"
      BY <1>2 DEF ConnectRun, FromPolling, Upgrades
    <3> QED BY <1>2, <3>1 DEF ConnectRun, RunOk
  <2>2. /\ pc' = [pc EXCEPT !["connect"] = "spawn"] \/ pc' = [pc EXCEPT !["connect"] = "failed"]
        /\ UNCHANGED <<tr, transport, transportClosed, waitUpgrade, wire, messages, served>>
    BY <1>2 DEF ConnectRun
  <2> QED BY <2>1, <2>2, QuietSwitch DEF Probed, Switched, FromPolling, Probing
<1>3. CASE ConnectSpawn \/ ConnectGate \/ ConnectPollFails \/ ConnectFailWait \/ ConnectFailJoin
  <2>1. /\ pc'["loop"] \in {pc["loop"], "recv"} /\ pc'["connect"] # "run"
        /\ \A s \in SendThreads : pc'[s] = pc[s]
    BY <1>3 DEF ConnectSpawn, ConnectGate, ConnectPollFails, ConnectFailWait, AwaitTransport,
                ConnectFailJoin
  <2>2. UNCHANGED <<tr, transport, transportClosed, waitUpgrade, reader, stopReq, wire, messages,
                    served>>
    BY <1>3 DEF ConnectSpawn, ConnectGate, ConnectPollFails, ConnectFailWait, AwaitTransport,
                ConnectFailJoin
  <2> QED BY <2>1, <2>2, QuietSwitch DEF Probed, Switched, FromPolling, Probing
<1>4. CASE ConnectRequest
  BY <1>4, CrashSwitch, QuietSwitch DEF ConnectRequest, Probed, Switched, FromPolling, Probing
<1>5. CASE ConnectFailClose
  BY <1>5, CrashSwitch, QuietSwitch
     DEF ConnectFailClose, CloseMessages, Probed, Switched, FromPolling, Probing
<1>6. CASE ConnectFailStop
  <2>1. CASE transport = "nil"
    BY <1>6, <2>1, CrashSwitch DEF ConnectFailStop
  <2>2. CASE transport # "nil"
    <3>1. transport = "polling"
      BY <1>6, <2>2, StillPolling DEF ConnectFailStop
    <3>2. /\ stopReq'["websocket"] = stopReq["websocket"]
          /\ pc' = [pc EXCEPT !["connect"] = "failWait"]
          /\ UNCHANGED <<tr, transport, transportClosed, waitUpgrade, reader, wire, messages,
                         served>>
      BY <1>6, <2>2, <3>1 DEF ConnectFailStop, StopOk
    <3> QED BY <3>2, QuietSwitch DEF Probed, Switched, FromPolling, Probing
  <2> QED BY <2>1, <2>2
<1>7. CASE ConnectPollOk
  <2>1. CASE messagesChan = "closed"
    BY <1>7, <2>1, CrashSwitch DEF ConnectPollOk
  <2>2. CASE messagesChan # "closed"
    <3>1. PICK p \in HandshakeAnswers : /\ messages' = Append(messages, p)
                                        /\ served' = served \cup {p.type}
      BY <1>7, <2>2 DEF ConnectPollOk
    <3>2. p \in Packets /\ p.type # "probe"
      BY AnswerType DEF HandshakeAnswers, Packet
    <3>3. \A i \in DOMAIN messages' : messages'[i].type = "probe" => Probed
      BY <3>1, <3>2, AppendAnswers DEF FromPolling, Probing
    <3>4. /\ pc' = [pc EXCEPT !["connect"] = "connected"]
          /\ UNCHANGED <<tr, transport, transportClosed, waitUpgrade, reader, stopReq, wire>>
      BY <1>7, <2>2 DEF ConnectPollOk
    <3> QED BY <3>1, <3>3, <3>4, QuietSwitch DEF Probed, Switched
  <2> QED BY <2>1, <2>2
<1> QED BY <1>1, <1>2, <1>3, <1>4, <1>5, <1>6, <1>7 DEF Connect

(* Send: the transport it reads is the one the server listens on.          *)
LEMMA SendSwitch ==
  ASSUME Polls, NEW s \in SendThreads, SendBegin(s) \/ Send(s) PROVE FromPolling'
<1> USE DEF Polls, IInv, Shapes, TypeOK, PcOK, LocalsOK
<1>1. CASE SendBegin(s) \/ SendSnapshot(s)
  BY <1>1, QuietSwitch DEF SendBegin, SendSnapshot, Probed, Switched, FromPolling, Probing
<1>2. CASE SendWait(s)
  <2>1. waitUpgrade # "open"
    BY <1>2 DEF SendWait, GatesPassed, SInv, Fenced
  <2>2. /\ tr' = [tr EXCEPT ![s] = transport]
        /\ \A th \in Threads : th # s => pc'[th] = pc[th]
        /\ UNCHANGED <<transport, transportClosed, waitUpgrade, reader, stopReq, wire, messages,
                       served>>
    BY <1>2 DEF SendWait
  <2>3. Upgrades' /\ StopsLast' /\ Probing'
    BY <2>2 DEF FromPolling, Upgrades, StopsLast, Probing, Probed, Switched, Ran
  <2>4. Writes'
    BY <2>1, <2>2 DEF FromPolling, Writes, Probing, Probed, Switched, Ran
  <2> QED BY <2>3, <2>4 DEF FromPolling
<1>3. CASE SendWrite(s)
  <2>1. CASE crashed' # crashed
    BY <1>3, <2>1, CrashSwitch DEF SendWrite
  <2>2. CASE crashed' = crashed
    <3>1. /\ pc'[s] # "write" \/ pc'[s] = pc[s]
          /\ \A th \in Threads : th # s => pc'[th] = pc[th]
      BY <1>3, <2>2 DEF SendWrite, Crash
    <3>2. UNCHANGED <<tr, transport, transportClosed, waitUpgrade, reader, stopReq, messages,
                      served>>
      BY <1>3, <2>2 DEF SendWrite, Crash
    <3>3. wire' = wire \/ wire' = wire \cup {<<tr[s], "message">>}
      BY <1>3, <2>2 DEF SendWrite, Crash
    <3>4. (Probed' <=> Probed) /\ (Switched' <=> Switched)
      BY <3>3 DEF Probed, Switched
    <3> QED BY <3>1, <3>2, <3>4, QuietSwitch DEF FromPolling, Probing
  <2> QED BY <2>1, <2>2
<1> QED BY <1>1, <1>2, <1>3 DEF Send

(* Close takes the transport away for good before it stops it.             *)
LEMMA CloseSwitch ==
  ASSUME Polls, NEW c \in CloseThreads, CloseBegin(c) \/ Close(c) PROVE FromPolling'
<1> USE DEF Polls, IInv, Shapes, TypeOK, PcOK, LocalsOK, ReadersOK
<1>1. CASE CloseBegin(c) \/ CloseJoin(c) \/ CloseWait(c)
  BY <1>1, QuietSwitch DEF CloseBegin, CloseJoin, CloseWait, AwaitTransport, Probed, Switched,
                           FromPolling, Probing
<1>2. CASE CloseTake(c)
  <2>1. /\ transport' = "nil" /\ pc["loop"] \notin {"upgWait", "upgRun"}
        /\ tr' = [tr EXCEPT ![c] = transport]
        /\ \A th \in Threads : th # c => pc'[th] = pc[th]
        /\ UNCHANGED <<transportClosed, waitUpgrade, reader, stopReq, wire, messages, served>>
    BY <1>2 DEF CloseTake, LockHeld
  <2>2. Upgrades' /\ StopsLast'
    BY <2>1 DEF FromPolling, Upgrades, StopsLast, Ran
  <2>3. Probing'
    BY <2>1 DEF FromPolling, Probing, Probed, Switched, Ran
  <2>4. \A s \in SendThreads : pc'[s] = pc[s] /\ tr'[s] = tr[s]
    BY <2>1
  <2>5. Writes'
    BY <2>1, <2>4 DEF FromPolling, Writes, Probed, Switched, Ran
  <2> QED BY <2>2, <2>3, <2>5 DEF FromPolling
<1>3. CASE CloseStop(c)
  <2>1. transport = "nil" /\ pc["loop"] \notin {"upgWait", "upgRun"}
    BY <1>3 DEF CloseStop, Taken
  <2>2. /\ \A th \in Threads : th # c => pc'[th] = pc[th]
        /\ UNCHANGED <<tr, transport, transportClosed, waitUpgrade, reader, wire, messages,
                       served>>
    BY <1>3 DEF CloseStop
  <2>3. StopsLast'
    BY <2>1, <2>2 DEF StopsLast
  <2>4. Upgrades' /\ Probing'
    BY <2>2 DEF FromPolling, Upgrades, Probing, Probed, Switched, Ran
  <2>5. \A s \in SendThreads : pc'[s] = pc[s]
    BY <2>2
  <2>6. Writes'
    BY <2>2, <2>5 DEF FromPolling, Writes, Probed, Switched, Ran
  <2> QED BY <2>3, <2>4, <2>6 DEF FromPolling
<1>4. CASE CloseCloseMessages(c)
  BY <1>4, CrashSwitch, QuietSwitch
     DEF CloseCloseMessages, CloseMessages, Probed, Switched, FromPolling, Probing
<1> QED BY <1>1, <1>2, <1>3, <1>4 DEF Close

(* While the client switches, no Send has begun.                           *)
LEMMA NoneSending ==
  ASSUME Polls, Handling
  PROVE  waitHandshake # "closed" /\ \A s \in SendThreads : pc[s] = "idle"
BY DEF Polls, SInv, HandshakeOnce, SendersLate

(* The websocket the client is on runs once it has been started.           *)
LEMMA StillRunning ==
  ASSUME Polls, Ran, transport \notin {"polling", "nil"}
  PROVE  transport = "websocket" /\ SendOk(transport) /\ ~SendFails(transport)
<1>1. transport = "websocket"
  BY DEF Polls, TypeOK, GatesOK
<1>2. reader["websocket"] = "running"
  BY <1>1 DEF Polls, TypeOK, ReadersOK, FromPolling, StopsLast, Ran
<1> QED BY <1>1, <1>2 DEF SendOk, SendFails, Polls, ReliableNetwork

(* messageLoop outside an upgrade.                                         *)
LEMMA LoopSwitch ==
  ASSUME Polls, \/ LoopBadOpen \/ LoopOpen \/ LoopPing \/ LoopProbed \/ LoopUpgraded
                \/ LoopMessage \/ LoopClosePacket \/ LoopHandlerDone \/ LoopExit
  PROVE  FromPolling'
<1> USE DEF Polls, IInv, Shapes, TypeOK, PcOK, LocalsOK
<1>1. CASE LoopBadOpen \/ LoopMessage \/ LoopClosePacket
  <2>1. \A i \in DOMAIN messages' : messages'[i].type = "probe" => Probed
    BY <1>1, TakeAnswers DEF FromPolling, Probing, LoopBadOpen, LoopMessage, LoopClosePacket,
                             LoopMayTake, Take
  <2>2. /\ pc'["loop"] \in {pc["loop"], "inHandler"} /\ pc'["connect"] = pc["connect"]
        /\ \A s \in SendThreads : pc'[s] = pc[s]
    BY <1>1 DEF LoopBadOpen, LoopMessage, LoopClosePacket
  <2>3. UNCHANGED <<tr, transport, transportClosed, waitUpgrade, reader, stopReq, wire, served>>
    BY <1>1 DEF LoopBadOpen, LoopMessage, LoopClosePacket
  <2> QED BY <2>1, <2>2, <2>3, QuietSwitch DEF Probed, Switched
<1>2. CASE LoopPing
  <2>1. CASE transport = "nil"
    BY <1>2, <2>1, CrashSwitch DEF LoopPing, SendPacket
  <2>2. CASE transport # "nil"
    <3>1. \A i \in DOMAIN messages' : messages'[i].type = "probe" => Probed
      BY <1>2, <2>2, TakeAnswers DEF FromPolling, Probing, LoopPing, LoopMayTake, Take
    <3>2. wire' = wire \/ wire' = wire \cup {<<transport, "pong">>}
      BY <1>2, <2>2 DEF LoopPing, SendPacket
    <3>3. (Probed' <=> Probed) /\ (Switched' <=> Switched)
      BY <3>2 DEF Probed, Switched
    <3>4. /\ pc' = [pc EXCEPT !["loop"] = "recv"]
          /\ UNCHANGED <<tr, transport, transportClosed, waitUpgrade, reader, stopReq, served>>
      BY <1>2, <2>2 DEF LoopPing, SendPacket
    <3> QED BY <3>1, <3>3, <3>4, QuietSwitch
  <2> QED BY <2>1, <2>2
<1>3. CASE LoopProbed
  <2>1. CASE transport = "nil"
    BY <1>3, <2>1, CrashSwitch DEF LoopProbed, SendPacket
  <2>2. CASE transport # "nil"
    <3>1. messages # <<>> /\ messages[1].type = "probe" /\ 1 \in DOMAIN messages
      BY <1>3, TailOf DEF LoopProbed, LoopMayTake, NextPacket
    <3>2. Probed /\ Ran /\ transport # "polling"
      BY <3>1 DEF FromPolling, Probing
    <3>3. wire' = wire \cup {<<"websocket", "upgrade">>}
      BY <1>3, <2>2, <3>2, StillRunning DEF LoopProbed, SendPacket
    <3>4. \A i \in DOMAIN messages' : messages'[i].type = "probe" => Probed
      BY <1>3, <2>2, TakeAnswers DEF FromPolling, Probing, LoopProbed, LoopMayTake, Take
    <3>5. /\ pc' = [pc EXCEPT !["loop"] = "upgraded"]
          /\ UNCHANGED <<tr, transport, transportClosed, waitUpgrade, reader, stopReq, served>>
      BY <1>3, <2>2 DEF LoopProbed, SendPacket
    <3>6. Probed' /\ Switched'
      BY <3>2, <3>3 DEF Probed, Switched
    <3>7. Upgrades' /\ StopsLast'
      BY <3>5 DEF FromPolling, Upgrades, StopsLast, Ran
    <3>8. Probing'
      BY <3>2, <3>4, <3>5, <3>6 DEF Probing, Ran
    <3>9. Writes'
      BY <3>2, <3>5, <3>6 DEF FromPolling, Writes
    <3> QED BY <3>7, <3>8, <3>9 DEF FromPolling
  <2> QED BY <2>1, <2>2
<1>4. CASE LoopOpen
  <2>1. CASE NextPacket.upgrades # <<>> /\ transport = "nil"
    BY <1>4, <2>1, CrashSwitch DEF LoopOpen
  <2>2. CASE ~(NextPacket.upgrades # <<>> /\ transport = "nil")
    <3> DEFINE target == UpgradeTarget(transport, NextPacket.upgrades)
    <3>1. /\ messages # <<>> /\ NextPacket.type = "open" /\ messages' = Tail(messages)
          /\ tr' = [tr EXCEPT !["loop"] = target]
          /\ pc' = [pc EXCEPT !["loop"] = IF target = "nil" THEN "openGate" ELSE "upgLock"]
          /\ UNCHANGED <<transport, transportClosed, waitUpgrade, reader, stopReq, wire, served>>
      BY <1>4, <2>2 DEF LoopOpen, LoopMayTake, Take
    <3>2. NextPacket = messages[1] /\ NextPacket \in Packets
      BY <3>1, TailOf DEF NextPacket
    <3>3. transport \in {"polling", "nil"}
      BY <3>1, <3>2 DEF UpgradedOnce, FromPolling, Upgrades, GatesOK
    <3>4. target \in {"websocket", "nil"}
      <4>1. NextPacket.upgrades \in UpgradeOffers \cup {<<>>}
        BY <3>2 DEF Packets
      <4>2. /\ target \in Transports \cup {"nil"}
            /\ target # "nil" => /\ target # transport
                                 /\ \E i \in DOMAIN NextPacket.upgrades : TRUE
        BY <4>1, TargetType
      <4>3. transport = "nil" => target = "nil"
        BY <2>2, <4>2
      <4> QED BY <3>3, <4>2, <4>3
    <3>5. \A i \in DOMAIN messages' : messages'[i].type = "probe" => Probed
      BY <3>1, TakeAnswers DEF FromPolling, Probing
    <3> HIDE DEF target
    <3>6. Upgrades' /\ StopsLast'
      BY <3>1, <3>4 DEF FromPolling, Upgrades, StopsLast, Ran
    <3>7. Probing'
      BY <3>1, <3>5 DEF FromPolling, Probing, Probed, Switched, Ran
    <3>8. Writes'
      BY <3>1 DEF FromPolling, Writes, Probed, Switched, Ran
    <3> QED BY <3>6, <3>7, <3>8 DEF FromPolling
  <2> QED BY <2>1, <2>2
<1>5. CASE LoopUpgraded
  <2>1. /\ pc["loop"] = "upgraded" /\ pc' = [pc EXCEPT !["loop"] = "recv"]
        /\ UNCHANGED <<tr, transport, transportClosed, reader, stopReq, wire, messages, served>>
    BY <1>5 DEF LoopUpgraded
  <2>2. Upgrades' /\ StopsLast'
    BY <2>1 DEF FromPolling, Upgrades, StopsLast, Ran
  <2>3. Probing'
    BY <2>1 DEF FromPolling, Probing, Probed, Switched, Ran
  <2>4. Writes'
    BY <2>1 DEF FromPolling, Writes, Probed, Switched, Ran
  <2> QED BY <2>2, <2>3, <2>4 DEF FromPolling
<1>6. CASE LoopHandlerDone \/ LoopExit
  BY <1>6, QuietSwitch DEF LoopHandlerDone, LoopExit, Probed, Switched, FromPolling, Probing
<1> QED BY <1>1, <1>2, <1>3, <1>4, <1>5, <1>6

(* The upgrade.                                                            *)
LEMMA UpgradeSwitch ==
  ASSUME Polls, \/ UpgradeStop \/ UpgradeWait \/ UpgradeRun \/ UpgradeProbe
                \/ UpgradeProbeFails \/ OpenHandshakeGate
  PROVE  FromPolling'
<1> USE DEF Polls, IInv, Shapes, TypeOK, PcOK, LocalsOK, ReadersOK
<1>1. CASE UpgradeStop
  <2>1. CASE transport = "nil"
    BY <1>1, <2>1, CrashSwitch DEF UpgradeStop
  <2>2. CASE transport # "nil"
    <3>1. transport = "polling" /\ ~stopReq["websocket"] /\ reader["websocket"] # "exited"
      BY <1>1, <2>2 DEF UpgradeStop, UpgradedOnce, FromPolling, Upgrades, StopsLast, GatesOK
    <3>2. \A s \in SendThreads : pc[s] = "idle"
      BY <1>1, NoneSending DEF UpgradeStop, Handling
    <3>3. /\ pc["loop"] = "upgLock" /\ stopReq'["websocket"] = stopReq["websocket"]
          /\ \/ pc' = [pc EXCEPT !["loop"] = "upgWait"] /\ waitUpgrade' = "open"
             \/ pc' = [pc EXCEPT !["loop"] = "failGate"]
      BY <1>1, <2>2, <3>1 DEF UpgradeStop, StopOk
    <3>4. UNCHANGED <<tr, transport, transportClosed, reader, wire, messages, served>>
      BY <1>1, <2>2 DEF UpgradeStop
    <3>5. Upgrades' /\ StopsLast'
      BY <3>1, <3>3, <3>4 DEF FromPolling, Upgrades, StopsLast, Ran
    <3>6. Probing'
      BY <3>1, <3>3, <3>4 DEF FromPolling, Probing, Probed, Switched, Ran
    <3>7. \A s \in SendThreads : pc'[s] = "idle"
      BY <3>2, <3>3
    <3>8. Writes'
      BY <3>7 DEF Writes
    <3> QED BY <3>5, <3>6, <3>8 DEF FromPolling
  <2> QED BY <2>1, <2>2
<1>2. CASE UpgradeWait
  <2>1. /\ pc["loop"] = "upgWait" /\ pc' = [pc EXCEPT !["loop"] = "upgRun"]
        /\ UNCHANGED <<tr, transport, transportClosed, waitUpgrade, reader, stopReq, wire,
                       messages, served>>
    BY <1>2 DEF UpgradeWait, AwaitTransport
  <2>2. Upgrades' /\ StopsLast'
    BY <2>1 DEF FromPolling, Upgrades, StopsLast, Ran
  <2>3. Probing'
    BY <2>1 DEF FromPolling, Probing, Probed, Switched, Ran
  <2>4. Writes'
    BY <2>1 DEF FromPolling, Writes, Probed, Switched, Ran
  <2> QED BY <2>2, <2>3, <2>4 DEF FromPolling
<1>3. CASE UpgradeRun
  <2>1. pc["loop"] = "upgRun" /\ served # {} /\ tr["loop"] = "websocket"
    BY <1>3 DEF UpgradeRun, Silent, FromPolling, Upgrades
  <2>2. ~Ran /\ ~Probed /\ ~Switched
    BY <2>1 DEF UpgradedOnce, FromPolling, Upgrades, Probing
  <2>3. waitUpgrade = "open" /\ ~stopReq["websocket"]
    BY <2>1 DEF FromPolling, Probing, StopsLast
  <2>4. \A s \in SendThreads : pc[s] = "idle"
    BY <2>1, NoneSending DEF Handling
  <2>5. /\ transport' = "websocket" /\ transportClosed' = 2
        /\ UNCHANGED <<tr, wire, messages, served>>
    BY <1>3, <2>1 DEF UpgradeRun
  <2>6. stopReq'["websocket"] = stopReq["websocket"]
    BY <1>3, <2>1 DEF UpgradeRun, RunOk
  <2>7. \/ /\ reader'["websocket"] = "running" /\ waitUpgrade' = waitUpgrade
           /\ pc' = [pc EXCEPT !["loop"] = "probe"]
        \/ reader' = reader /\ pc' = [pc EXCEPT !["loop"] = "failGate"]
    BY <1>3, <2>1 DEF UpgradeRun, RunOk
  <2>8. Upgrades' /\ StopsLast'
    BY <2>1, <2>2, <2>3, <2>5, <2>6, <2>7 DEF FromPolling, Upgrades, StopsLast, Ran
  <2>9. Probing'
    BY <2>2, <2>3, <2>5, <2>7 DEF FromPolling, Probing, Probed, Switched, Ran
  <2>10. Writes'
    BY <2>4, <2>7 DEF Writes
  <2> QED BY <2>8, <2>9, <2>10 DEF FromPolling
<1>4. CASE UpgradeProbe
  <2>1. CASE transport = "nil"
    BY <1>4, <2>1, CrashSwitch DEF UpgradeProbe, SendPacket
  <2>2. CASE transport # "nil"
    <3>1. pc["loop"] = "probe" /\ Ran /\ transport # "polling" /\ waitUpgrade = "open"
      BY <1>4 DEF UpgradeProbe, FromPolling, Probing
    <3>2. /\ transport = "websocket" /\ wire' = wire \cup {<<"websocket", "probe">>}
          /\ pc' = [pc EXCEPT !["loop"] = "openGate"]
      BY <1>4, <2>2, <3>1, StillRunning DEF UpgradeProbe, SendPacket
    <3>3. UNCHANGED <<tr, transport, transportClosed, waitUpgrade, reader, stopReq, messages,
                      served>>
      BY <1>4, <2>2 DEF UpgradeProbe, SendPacket
    <3>4. \A s \in SendThreads : pc[s] = "idle"
      BY <3>1, NoneSending DEF Handling
    <3>5. Upgrades' /\ StopsLast'
      BY <3>2, <3>3 DEF FromPolling, Upgrades, StopsLast, Ran
    <3>6. Probed'
      BY <3>2 DEF Probed
    <3>7. Probing'
      BY <3>1, <3>2, <3>3, <3>6 DEF FromPolling, Probing, Ran
    <3>8. Writes'
      BY <3>2, <3>4 DEF Writes
    <3> QED BY <3>5, <3>7, <3>8 DEF FromPolling
  <2> QED BY <2>1, <2>2
<1>5. CASE UpgradeProbeFails
  BY <1>5 DEF UpgradeProbeFails, FromPolling, Probing
<1>6. CASE OpenHandshakeGate
  <2>1. CASE waitHandshake = "nil"
    BY <1>6, <2>1, CrashSwitch DEF OpenHandshakeGate
  <2>2. CASE waitHandshake # "nil"
    <3>1. /\ pc'["loop"] = "recv" /\ pc'["connect"] = pc["connect"]
          /\ \A s \in SendThreads : pc'[s] \in {pc[s], "snapshot"}
      <4> HIDE DEF TypeOK
      <4> QED BY <1>6, <2>2 DEF OpenHandshakeGate
    <3>2. UNCHANGED <<tr, transport, transportClosed, waitUpgrade, reader, stopReq, wire,
                      messages, served>>
      BY <1>6, <2>2 DEF OpenHandshakeGate
    <3> QED BY <3>1, <3>2, QuietSwitch DEF Probed, Switched, FromPolling, Probing
  <2> QED BY <2>1, <2>2
<1> QED BY <1>1, <1>2, <1>3, <1>4, <1>5, <1>6

(* The readers and the server.                                             *)
LEMMA WorldSwitch ==
  ASSUME Polls, \/ ServerOpen \/ ServerProbe \/ ServerSends \/ CancelContext
                \/ \E t \in Transports : ReaderStops(t) \/ ReaderFails(t)
                \/ UNCHANGED vars
  PROVE  FromPolling'
<1> USE DEF Polls
<1>1. ASSUME NEW t, NEW p \in Packets, Deliver(t, p), p.type = "probe" => Probed
      PROVE  FromPolling'
  <2>1. CASE messagesChan = "closed"
    BY <1>1, <2>1, CrashSwitch DEF Deliver
  <2>2. CASE messagesChan # "closed"
    <3>1. \A i \in DOMAIN messages' : messages'[i].type = "probe" => Probed
      BY <1>1, <2>2, AppendAnswers DEF FromPolling, Probing, Deliver
    <3>2. /\ served' = served \cup {p.type}
          /\ UNCHANGED <<pc, tr, transport, transportClosed, waitUpgrade, reader, stopReq, wire>>
      BY <1>1, <2>2 DEF Deliver
    <3> QED BY <3>1, <3>2, QuietSwitch DEF Probed, Switched
  <2> QED BY <2>1, <2>2
<1>2. CASE ServerOpen \/ CancelContext
  BY <1>2 DEF ServerOpen, CancelContext, ReliableNetwork
<1>3. CASE ServerProbe
  <2>1. Packet("probe") \in Packets
    BY DEF Packets, Packet, PacketTypes
  <2> QED BY <1>1, <1>3, <2>1 DEF ServerProbe, Probed
<1>4. CASE ServerSends
  <2>1. \A type \in ServerPackets : Packet(type) \in Packets /\ Packet(type).type # "probe"
    BY ConfigAssumption DEF Packets, Packet, PacketTypes
  <2> QED BY <1>1, <1>4, <2>1 DEF ServerSends
<1>5. ASSUME NEW t \in Transports, ReaderStops(t) \/ ReaderFails(t) PROVE FromPolling'
  <2>1. /\ reader' = [reader EXCEPT ![t] = "exited"] /\ reader[t] = "running"
        /\ UNCHANGED <<pc, tr, transport, transportClosed, waitUpgrade, stopReq, wire, messages,
                       served>>
    BY <1>5 DEF ReaderStops, ReaderFails, ReaderEnds, Reading
  <2>2. t = "websocket" => stopReq["websocket"]
    BY <1>5 DEF ReaderStops, ReaderFails, ReliableNetwork
  <2>3. (Ran' <=> Ran) /\ (t # "websocket" => reader'["websocket"] = reader["websocket"])
    BY <2>1 DEF Ran, TypeOK, ReadersOK
  <2>4. Upgrades'
    BY <2>1, <2>3 DEF FromPolling, Upgrades
  <2>5. StopsLast'
    BY <2>1, <2>2, <2>3 DEF FromPolling, StopsLast
  <2>6. Probing' /\ Writes'
    BY <2>1, <2>3 DEF FromPolling, Probing, Writes, Probed, Switched
  <2> QED BY <2>4, <2>5, <2>6 DEF FromPolling
<1>6. CASE UNCHANGED vars
  BY <1>6, QuietSwitch DEF vars, Probed, Switched, FromPolling, Probing
<1> QED BY <1>2, <1>3, <1>4, <1>5, <1>6

(* What the steps of a client that starts on a websocket may rely on.      *)
Webs ==
  /\ ReliableNetwork /\ TypeOK /\ IInv /\ SInv
  /\ first # "polling" /\ ~ctxDone /\ FromWebsocket

(* A step outside an upgrade: Close may take the transport, and a Send     *)
(* past the gates may read it.                                             *)
StaysPut ==
  /\ transport' \in {transport, "nil"} /\ UNCHANGED waitUpgrade
  /\ tr'["loop"] = tr["loop"]
  /\ \/ pc'["loop"] = pc["loop"]
     \/ pc'["loop"] \in {"none", "recv", "inHandler", "exited", "openGate"}
  /\ \A s \in SendThreads :
       pc'[s] = "write" => \/ pc[s] = "write" /\ tr'[s] = tr[s]
                           \/ waitUpgrade # "open" /\ transport # "nil" /\ tr'[s] = transport
  /\ Probed' => Probed
  /\ \A i \in DOMAIN messages' : messages'[i].type = "probe" => Probed

(* Such a step leaves the client where it is.                              *)
LEMMA WebsocketStays == ASSUME Webs, StaysPut PROVE FromWebsocket'
<1>1. ASSUME NEW s \in SendThreads, pc'[s] = "write" PROVE tr'[s] = "websocket"
  BY <1>1 DEF Webs, StaysPut, FromWebsocket, TypeOK, GatesOK
<1> QED BY <1>1 DEF Webs, StaysPut, FromWebsocket

(* A panic.                                                                *)
LEMMA CrashStays == ASSUME Webs, NEW cause, Crash(cause) PROVE FromWebsocket'
BY WebsocketStays DEF Crash, Webs, FromWebsocket, StaysPut, Probed

(* Connect.                                                                *)
LEMMA ConnectStays == ASSUME Webs, ConnectBegin \/ Connect PROVE FromWebsocket'
<1> USE DEF Webs, TypeOK, PcOK, LocalsOK
<1>1. CASE ConnectBegin
  BY <1>1, CrashStays, WebsocketStays DEF ConnectBegin, StaysPut, FromWebsocket, Probed
<1>2. CASE ConnectRun \/ ConnectSpawn \/ ConnectGate \/ ConnectPollFails
  BY <1>2, WebsocketStays DEF ConnectRun, ConnectSpawn, ConnectGate, ConnectPollFails, StaysPut,
                              FromWebsocket, Probed
<1>3. CASE ConnectRequest \/ ConnectFailStop
  BY <1>3, CrashStays, WebsocketStays DEF ConnectRequest, ConnectFailStop, StaysPut,
                                          FromWebsocket, Probed
<1>4. CASE ConnectPollOk
  <2>1. CASE messagesChan = "closed"
    BY <1>4, <2>1, CrashStays DEF ConnectPollOk
  <2>2. CASE messagesChan # "closed"
    <3>1. PICK p \in HandshakeAnswers : messages' = Append(messages, p)
      BY <1>4, <2>2 DEF ConnectPollOk
    <3>2. p \in Packets /\ p.type # "probe"
      BY AnswerType DEF HandshakeAnswers, Packet
    <3>3. \A i \in DOMAIN messages' : messages'[i].type = "probe" => Probed
      BY <3>1, <3>2, AppendAnswers DEF FromWebsocket
    <3>4. /\ pc' = [pc EXCEPT !["connect"] = "connected"]
          /\ UNCHANGED <<tr, transport, waitUpgrade, wire>>
      BY <1>4, <2>2 DEF ConnectPollOk
    <3> QED BY <3>3, <3>4, WebsocketStays DEF StaysPut, Probed
  <2> QED BY <2>1, <2>2
<1>5. CASE ConnectFailWait \/ ConnectFailJoin
  BY <1>5, WebsocketStays DEF ConnectFailWait, AwaitTransport, ConnectFailJoin, StaysPut,
                              FromWebsocket, Probed
<1>6. CASE ConnectFailClose
  BY <1>6, CrashStays, WebsocketStays DEF ConnectFailClose, CloseMessages, StaysPut,
                                          FromWebsocket, Probed
<1> QED BY <1>1, <1>2, <1>3, <1>4, <1>5, <1>6 DEF Connect

(* Send reads the transport when the upgrade gate is not shut.             *)
LEMMA SendStays ==
  ASSUME Webs, NEW s \in SendThreads, SendBegin(s) \/ Send(s) PROVE FromWebsocket'
<1> USE DEF Webs, TypeOK, PcOK, LocalsOK
<1>1. CASE SendBegin(s) \/ SendSnapshot(s)
  BY <1>1, WebsocketStays DEF SendBegin, SendSnapshot, StaysPut, FromWebsocket, Probed
<1>2. CASE SendWait(s)
  <2>1. waitUpgrade # "open"
    BY <1>2 DEF SendWait, GatesPassed, SInv, Fenced
  <2> QED BY <1>2, <2>1, WebsocketStays DEF SendWait, StaysPut, FromWebsocket, Probed
<1>3. CASE SendWrite(s)
  BY <1>3, CrashStays, WebsocketStays DEF SendWrite, StaysPut, FromWebsocket, Probed
<1> QED BY <1>1, <1>2, <1>3 DEF Send

(* Close.                                                                  *)
LEMMA CloseStays ==
  ASSUME Webs, NEW c \in CloseThreads, CloseBegin(c) \/ Close(c) PROVE FromWebsocket'
<1> USE DEF Webs, TypeOK, PcOK, LocalsOK
<1>1. CASE CloseBegin(c) \/ CloseTake(c) \/ CloseStop(c)
  BY <1>1, WebsocketStays DEF CloseBegin, CloseTake, CloseStop, StaysPut, FromWebsocket, Probed
<1>2. CASE CloseWait(c) \/ CloseJoin(c)
  BY <1>2, WebsocketStays DEF CloseWait, AwaitTransport, CloseJoin, StaysPut, FromWebsocket,
                              Probed
<1>3. CASE CloseCloseMessages(c)
  BY <1>3, CrashStays, WebsocketStays DEF CloseCloseMessages, CloseMessages, StaysPut,
                                          FromWebsocket, Probed
<1> QED BY <1>1, <1>2, <1>3 DEF Close

(* messageLoop outside an upgrade: no answer to a probe ever comes.        *)
LEMMA LoopStays ==
  ASSUME Webs, \/ LoopBadOpen \/ LoopOpen \/ LoopPing \/ LoopProbed \/ LoopUpgraded
               \/ LoopMessage \/ LoopClosePacket \/ LoopHandlerDone \/ LoopExit
  PROVE  FromWebsocket'
<1> USE DEF Webs, TypeOK, PcOK, LocalsOK
<1>1. CASE LoopBadOpen \/ LoopMessage \/ LoopClosePacket
  <2>1. \A i \in DOMAIN messages' : messages'[i].type = "probe" => Probed
    BY <1>1, TakeAnswers
       DEF FromWebsocket, LoopBadOpen, LoopMessage, LoopClosePacket, LoopMayTake, Take
  <2>2. /\ pc'["loop"] \in {pc["loop"], "inHandler"}
        /\ \A s \in SendThreads : pc'[s] = pc[s]
        /\ UNCHANGED <<tr, transport, waitUpgrade, wire>>
    BY <1>1 DEF LoopBadOpen, LoopMessage, LoopClosePacket
  <2> QED BY <2>1, <2>2, WebsocketStays DEF StaysPut, Probed
<1>2. CASE LoopPing
  <2>1. CASE transport = "nil"
    BY <1>2, <2>1, CrashStays DEF LoopPing, SendPacket
  <2>2. CASE transport # "nil"
    <3>1. \A i \in DOMAIN messages' : messages'[i].type = "probe" => Probed
      BY <1>2, <2>2, TakeAnswers DEF FromWebsocket, LoopPing, LoopMayTake, Take
    <3>2. wire' = wire \/ wire' = wire \cup {<<transport, "pong">>}
      BY <1>2, <2>2 DEF LoopPing, SendPacket
    <3>3. Probed' => Probed
      BY <3>2 DEF Probed
    <3>4. /\ pc' = [pc EXCEPT !["loop"] = "recv"]
          /\ UNCHANGED <<tr, transport, waitUpgrade>>
      BY <1>2, <2>2 DEF LoopPing, SendPacket
    <3> QED BY <3>1, <3>3, <3>4, WebsocketStays DEF StaysPut
  <2> QED BY <2>1, <2>2
<1>3. CASE LoopProbed \/ LoopUpgraded
  <2>1. ASSUME LoopProbed PROVE messages[1].type = "probe" /\ 1 \in DOMAIN messages
    BY <2>1, TailOf DEF LoopProbed, LoopMayTake, NextPacket, QueueOK
  <2> QED BY <1>3, <2>1 DEF LoopUpgraded, FromWebsocket
<1>4. CASE LoopOpen
  <2>1. CASE NextPacket.upgrades # <<>> /\ transport = "nil"
    BY <1>4, <2>1, CrashStays DEF LoopOpen
  <2>2. CASE ~(NextPacket.upgrades # <<>> /\ transport = "nil")
    <3> DEFINE target == UpgradeTarget(transport, NextPacket.upgrades)
    <3>1. /\ messages # <<>> /\ NextPacket.type = "open" /\ messages' = Tail(messages)
          /\ tr' = [tr EXCEPT !["loop"] = target]
          /\ pc' = [pc EXCEPT !["loop"] = IF target = "nil" THEN "openGate" ELSE "upgLock"]
          /\ UNCHANGED <<transport, waitUpgrade, wire>>
      BY <1>4, <2>2 DEF LoopOpen, LoopMayTake, Take
    <3>2. NextPacket = messages[1] /\ NextPacket \in Packets
      BY <3>1, TailOf DEF NextPacket, QueueOK
    <3>3. transport \in {"websocket", "nil"}
      BY <3>1, <3>2 DEF IInv, UpgradedOnce, WorldOK, GatesOK
    <3>4. target \in {"polling", "nil"}
      <4>1. NextPacket.upgrades \in UpgradeOffers \cup {<<>>}
        BY <3>2 DEF Packets
      <4>2. /\ target \in Transports \cup {"nil"}
            /\ target # "nil" => /\ target # transport
                                 /\ \E i \in DOMAIN NextPacket.upgrades : TRUE
        BY <4>1, TargetType
      <4>3. transport = "nil" => target = "nil"
        BY <2>2, <4>2
      <4> QED BY <3>3, <4>2, <4>3
    <3>5. \A i \in DOMAIN messages' : messages'[i].type = "probe" => Probed
      BY <3>1, TakeAnswers DEF FromWebsocket
    <3> HIDE DEF target
    <3>6. \A s \in SendThreads : pc'[s] = pc[s] /\ tr'[s] = tr[s]
      BY <3>1
    <3> QED BY <3>1, <3>3, <3>4, <3>5, <3>6 DEF FromWebsocket, Probed
  <2> QED BY <2>1, <2>2
<1>5. CASE LoopHandlerDone \/ LoopExit
  BY <1>5, WebsocketStays DEF LoopHandlerDone, LoopExit, StaysPut, FromWebsocket, Probed
<1> QED BY <1>1, <1>2, <1>3, <1>4, <1>5

(* The upgrade to polling shuts the gate and does not open it again.       *)
LEMMA UpgradeStays ==
  ASSUME Webs, \/ UpgradeStop \/ UpgradeWait \/ UpgradeRun \/ UpgradeProbe
               \/ UpgradeProbeFails \/ OpenHandshakeGate
  PROVE  FromWebsocket'
<1> USE DEF Webs, TypeOK, PcOK, LocalsOK
<1>1. CASE UpgradeStop
  <2>1. CASE transport = "nil"
    BY <1>1, <2>1, CrashStays DEF UpgradeStop
  <2>2. CASE transport # "nil"
    <3>1. transport # "polling"
      BY <1>1, <2>2 DEF UpgradeStop, IInv, UpgradedOnce, WorldOK
    <3>2. /\ pc["loop"] = "upgLock"
          /\ \/ pc' = [pc EXCEPT !["loop"] = "upgWait"] /\ waitUpgrade' = "open"
             \/ pc' = [pc EXCEPT !["loop"] = "failGate"]
          /\ UNCHANGED <<tr, transport, wire, messages>>
      BY <1>1, <2>2 DEF UpgradeStop
    <3> QED BY <3>1, <3>2 DEF FromWebsocket, Probed
  <2> QED BY <2>1, <2>2
<1>2. CASE UpgradeWait
  BY <1>2 DEF UpgradeWait, AwaitTransport, FromWebsocket, Probed
<1>3. CASE UpgradeRun
  <2>1. pc["loop"] = "upgRun" /\ tr["loop"] = "polling" /\ waitUpgrade = "open"
    BY <1>3 DEF UpgradeRun, FromWebsocket
  <2>2. /\ transport' = "polling" /\ pc' = [pc EXCEPT !["loop"] = "probe"]
        /\ UNCHANGED <<tr, waitUpgrade, wire, messages>>
    BY <1>3, <2>1 DEF UpgradeRun, RunFails
  <2> QED BY <2>1, <2>2 DEF FromWebsocket, Probed
<1>4. CASE UpgradeProbe
  <2>1. CASE transport = "nil"
    BY <1>4, <2>1, CrashStays DEF UpgradeProbe, SendPacket
  <2>2. CASE transport # "nil"
    <3>1. transport = "polling"
      BY <1>4, <2>2 DEF UpgradeProbe, FromWebsocket, GatesOK
    <3>2. /\ wire' = wire \cup {<<"polling", "probe">>}
          /\ pc' = [pc EXCEPT !["loop"] = "openGate"]
          /\ UNCHANGED <<tr, transport, waitUpgrade, messages>>
      BY <1>4, <3>1 DEF UpgradeProbe, SendPacket, SendFails, ReliableNetwork
    <3>3. Probed' => Probed
      BY <3>2 DEF Probed
    <3> QED BY <3>2, <3>3, WebsocketStays DEF StaysPut, FromWebsocket
  <2> QED BY <2>1, <2>2
<1>5. CASE UpgradeProbeFails
  BY <1>5 DEF UpgradeProbeFails, FromWebsocket
<1>6. CASE OpenHandshakeGate
  <2>1. CASE waitHandshake = "nil"
    BY <1>6, <2>1, CrashStays DEF OpenHandshakeGate
  <2>2. CASE waitHandshake # "nil"
    <3>1. /\ pc'["loop"] = "recv"
          /\ \A s \in SendThreads : pc'[s] \in {pc[s], "snapshot"}
          /\ UNCHANGED <<tr, transport, waitUpgrade, wire, messages>>
      <4> HIDE DEF TypeOK
      <4> QED BY <1>6, <2>2 DEF OpenHandshakeGate, TypeOK, PcOK
    <3> QED BY <3>1, WebsocketStays DEF StaysPut, FromWebsocket, Probed
  <2> QED BY <2>1, <2>2
<1> QED BY <1>1, <1>2, <1>3, <1>4, <1>5, <1>6

(* The readers and the server, which answers a probe on the websocket.     *)
LEMMA WorldStays ==
  ASSUME Webs, \/ ServerOpen \/ ServerProbe \/ ServerSends \/ CancelContext
               \/ \E t \in Transports : ReaderStops(t) \/ ReaderFails(t)
               \/ UNCHANGED vars
  PROVE  FromWebsocket'
<1> USE DEF Webs
<1>1. ASSUME NEW t, NEW p \in Packets, Deliver(t, p), p.type # "probe" PROVE FromWebsocket'
  <2>1. CASE messagesChan = "closed"
    BY <1>1, <2>1, CrashStays DEF Deliver
  <2>2. CASE messagesChan # "closed"
    <3>1. \A i \in DOMAIN messages' : messages'[i].type = "probe" => Probed
      BY <1>1, <2>2, AppendAnswers DEF FromWebsocket, Deliver
    <3>2. UNCHANGED <<pc, tr, transport, waitUpgrade, wire>>
      BY <1>1, <2>2 DEF Deliver
    <3> QED BY <3>1, <3>2, WebsocketStays DEF StaysPut, Probed
  <2> QED BY <2>1, <2>2
<1>2. CASE ServerOpen
  <2>1. \A p \in OpenPackets : p \in Packets /\ p.type # "probe"
    BY AnswerType
  <2> QED BY <1>1, <1>2, <2>1 DEF ServerOpen
<1>3. CASE ServerProbe \/ CancelContext
  BY <1>3 DEF ServerProbe, CancelContext, ReliableNetwork, FromWebsocket, Probed
<1>4. CASE ServerSends
  <2>1. \A type \in ServerPackets : Packet(type) \in Packets /\ Packet(type).type # "probe"
    BY ConfigAssumption DEF Packets, Packet, PacketTypes
  <2> QED BY <1>1, <1>4, <2>1 DEF ServerSends
<1>5. CASE \/ UNCHANGED vars
           \/ \E t \in Transports : ReaderStops(t) \/ ReaderFails(t)
  BY <1>5, WebsocketStays DEF vars, ReaderStops, ReaderFails, ReaderEnds, StaysPut,
                              FromWebsocket, Probed
<1> QED BY <1>2, <1>3, <1>4, <1>5

(* The first transport and the context do not change.                      *)
LEMMA SameFirst ==
  ASSUME TypeOK, [Next]_vars, "cancel" \notin Faults
  PROVE  first' = first /\ ctxDone' = ctxDone
<1>1. ASSUME ConnectBegin \/ Connect PROVE UNCHANGED <<first, ctxDone>>
  BY <1>1 DEF ConnectBegin, Connect, ConnectRun, ConnectSpawn, ConnectGate, ConnectRequest,
              ConnectPollOk, ConnectPollFails, ConnectFailStop, ConnectFailWait,
              ConnectFailClose, ConnectFailJoin, CloseMessages, AwaitTransport, Crash
<1>2. ASSUME NEW s \in SendThreads, SendBegin(s) \/ Send(s) PROVE UNCHANGED <<first, ctxDone>>
  BY <1>2 DEF SendBegin, Send, SendSnapshot, SendWait, SendWrite, Crash
<1>3. ASSUME NEW c \in CloseThreads, CloseBegin(c) \/ Close(c)
      PROVE  UNCHANGED <<first, ctxDone>>
  BY <1>3 DEF CloseBegin, Close, CloseTake, CloseStop, CloseWait, CloseCloseMessages, CloseJoin,
              CloseMessages, AwaitTransport, Crash
<1>4. ASSUME messageLoop PROVE UNCHANGED <<first, ctxDone>>
  BY <1>4 DEF messageLoop, LoopBadOpen, LoopOpen, LoopPing, LoopProbed, LoopUpgraded,
              LoopMessage, LoopClosePacket, LoopHandlerDone, LoopExit, UpgradeStop, UpgradeWait,
              UpgradeRun, UpgradeProbe, UpgradeProbeFails, OpenHandshakeGate, SendPacket,
              AwaitTransport, Crash
<1>5. ASSUME ServerOpen \/ ServerProbe \/ ServerSends PROVE UNCHANGED <<first, ctxDone>>
  BY <1>5 DEF ServerOpen, ServerProbe, ServerSends, Deliver, Crash
<1>6. ASSUME \E t \in Transports : ReaderStops(t) \/ ReaderFails(t)
      PROVE  UNCHANGED <<first, ctxDone>>
  BY <1>6 DEF ReaderStops, ReaderFails, ReaderEnds
<1>7. ASSUME CancelContext \/ UNCHANGED vars PROVE UNCHANGED <<first, ctxDone>>
  BY <1>7 DEF CancelContext, vars
<1> QED BY <1>1, <1>2, <1>3, <1>4, <1>5, <1>6, <1>7 DEF Next

(* Every step preserves the invariant.                                     *)
LEMMA VStep ==
  ASSUME ReliableNetwork, TypeOK, IInv, SInv, VInv, [Next]_vars PROVE VInv'
<1>1. first' = first /\ ctxDone' = ctxDone /\ first \in Firsts /\ ~ctxDone
  BY SameFirst DEF ReliableNetwork, VInv
<1>2. CASE first = "polling"
  <2>1. Polls
    BY <1>1, <1>2 DEF Polls, VInv
  <2>2. FromPolling'
    BY <2>1, ConnectSwitch, SendSwitch, CloseSwitch, LoopSwitch, UpgradeSwitch, WorldSwitch
       DEF Next, messageLoop
  <2> QED BY <1>1, <1>2, <2>2 DEF VInv
<1>3. CASE first # "polling"
  <2>1. Webs
    BY <1>1, <1>3 DEF Webs, VInv
  <2>2. FromWebsocket'
    BY <2>1, ConnectStays, SendStays, CloseStays, LoopStays, UpgradeStays, WorldStays
       DEF Next, messageLoop
  <2> QED BY <1>1, <1>3, <2>2 DEF VInv
<1> QED BY <1>2, <1>3

(* As long as writes succeed, the gates keep a Send that is about to write *)
(* on the transport the server listens on.                                 *)
THEOREM SwitchHolds ==
  ASSUME SendAfterHandshake, ReliableNetwork PROVE Spec => []VInv
<1>1. TypeOK /\ IInv /\ SInv /\ VInv /\ [Next]_vars => VInv'
  BY VStep
<1> QED BY <1>1, VInit, TypeCorrect, InvariantHolds, FenceHolds, PTL DEF Spec

(* A message is sent by the write of its own Send.                         *)
LEMMA SentByWrite ==
  ASSUME TypeOK, [Next]_vars, NEW s \in SendThreads, pc[s] = "write", pc'[s] = "sent"
  PROVE  SendOk(tr[s])
<1> USE DEF TypeOK, PcOK
<1>1. ASSUME ConnectBegin \/ Connect PROVE pc'[s] = pc[s]
  BY <1>1 DEF ConnectBegin, Connect, ConnectRun, ConnectSpawn, ConnectGate, ConnectRequest,
              ConnectPollOk, ConnectPollFails, ConnectFailStop, ConnectFailWait,
              ConnectFailClose, ConnectFailJoin, CloseMessages, AwaitTransport, Crash
<1>2. ASSUME NEW c \in CloseThreads, CloseBegin(c) \/ Close(c) PROVE pc'[s] = pc[s]
  BY <1>2 DEF CloseBegin, Close, CloseTake, CloseStop, CloseWait, CloseCloseMessages, CloseJoin,
              CloseMessages, AwaitTransport, Crash
<1>3. ASSUME messageLoop PROVE pc'[s] \in {pc[s], "snapshot"}
  <2>1. CASE OpenHandshakeGate
    BY <2>1 DEF OpenHandshakeGate, Crash
  <2>2. CASE ~OpenHandshakeGate
    BY <1>3, <2>2 DEF messageLoop, LoopBadOpen, LoopOpen, LoopPing, LoopProbed, LoopUpgraded,
         LoopMessage, LoopClosePacket, LoopHandlerDone, LoopExit, UpgradeStop, UpgradeWait,
         UpgradeRun, UpgradeProbe, UpgradeProbeFails, SendPacket, AwaitTransport, Crash
  <2> QED BY <2>1, <2>2
<1>4. ASSUME \/ ServerOpen \/ ServerProbe \/ ServerSends \/ CancelContext \/ UNCHANGED vars
             \/ \E t \in Transports : ReaderStops(t) \/ ReaderFails(t)
      PROVE  pc'[s] = pc[s]
  BY <1>4 DEF ServerOpen, ServerProbe, ServerSends, Deliver, Crash, CancelContext, vars,
              ReaderStops, ReaderFails, ReaderEnds
<1>5. ASSUME NEW r \in SendThreads, SendBegin(r) \/ Send(r) PROVE SendOk(tr[s])
  <2>1. r = s
    BY <1>5 DEF SendBegin, Send, SendSnapshot, SendWait, SendWrite, Crash
  <2> QED BY <1>5, <2>1 DEF SendBegin, Send, SendSnapshot, SendWait, SendWrite, Crash
<1> QED BY <1>1, <1>2, <1>3, <1>4, <1>5 DEF Next

(* What a Send that starts after the handshake writes goes to the          *)
(* transport the server listens on, before, during and after an upgrade    *)
(* that succeeds, or one whose dial or stop fails.                         *)
THEOREM SentWhereServed ==
  ASSUME SendAfterHandshake, ReliableNetwork PROVE Spec => OnServerTransport
<1>1. ASSUME TypeOK, VInv, [Next]_vars, NEW s \in SendThreads, pc[s] = "write", pc'[s] = "sent"
      PROVE  tr[s] = ServerTransport
  <2>1. SendOk(tr[s])
    BY <1>1, SentByWrite
  <2>2. CASE first = "polling"
    <3>1. tr[s] = "polling" => ~Probed
      BY <1>1, <2>2 DEF VInv, FromPolling, Writes
    <3>2. tr[s] = "websocket" => Switched
      BY <1>1, <2>1, <2>2 DEF VInv, FromPolling, Writes, Ran, SendOk
    <3>3. Switched => Probed
      BY <1>1, <2>2 DEF VInv, FromPolling, Probing
    <3> QED BY <2>1, <2>2, <3>1, <3>2, <3>3 DEF ServerTransport, Switched, SendOk
  <2>3. CASE first # "polling"
    <3>1. first = "websocket"
      BY <1>1, <2>3 DEF TypeOK, WorldOK
    <3> QED BY <1>1, <2>3, <3>1 DEF VInv, FromWebsocket, ServerTransport
  <2> QED BY <2>2, <2>3
<1>2. TypeOK /\ VInv /\ [Next]_vars =>
        [\A s \in SendThreads : pc[s] = "write" /\ pc'[s] = "sent" => tr[s] = ServerTransport]_vars
  BY <1>1
<1> QED BY <1>2, SwitchHolds, TypeCorrect, PTL DEF OnServerTransport, Spec

=============================================================================
