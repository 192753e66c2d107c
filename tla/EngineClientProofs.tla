------------------------- MODULE EngineClientProofs -------------------------
(***************************************************************************)
(* Proofs about the Engine.IO client, for any set of senders and closers,  *)
(* any upgrade lists, faults and buffer size.                              *)
(*                                                                         *)
(* First its types: each goroutine stays on its own labels, and the queue  *)
(* of packets never outgrows its capacity.  Then its readers: the client   *)
(* never reads from two transports at once and never closes messages under *)
(* a running reader.                                                       *)
(***************************************************************************)
EXTENDS EngineClient, WellFoundedInduction, TLAPS

USE ThreadAssumption, ConfigAssumption
USE DEF At, Step, gates, closing, queue, readers, world, locals

-----------------------------------------------------------------------------
(* Labels.  A goroutine that goes to one of its own labels keeps PcOK.     *)

(* Connect moves.                                                          *)
LEMMA GotoConnect == ASSUME PcOK, NEW l \in ConnectSteps, Goto("connect", l) PROVE PcOK'
BY DEF PcOK, Goto, Threads

(* messageLoop moves.                                                      *)
LEMMA GotoLoop == ASSUME PcOK, NEW l \in LoopSteps, Goto("loop", l) PROVE PcOK'
BY DEF PcOK, Goto, Threads

(* A Send moves.                                                           *)
LEMMA GotoSend ==
  ASSUME PcOK, NEW s \in SendThreads, NEW l \in SendSteps, Goto(s, l) PROVE PcOK'
BY DEF PcOK, Goto, Threads

(* A Close moves.                                                          *)
LEMMA GotoClose ==
  ASSUME PcOK, NEW c \in CloseThreads, NEW l \in CloseSteps, Goto(c, l) PROVE PcOK'
BY DEF PcOK, Goto, Threads

(* No goroutine moves.                                                     *)
LEMMA SamePc == ASSUME PcOK, UNCHANGED pc PROVE PcOK'
BY DEF PcOK

(* A panic.                                                                *)
LEMMA CrashType == ASSUME TypeOK, NEW cause \in Panics, Crash(cause) PROVE TypeOK'
BY DEF Crash, TypeOK, PcOK, LocalsOK, GatesOK, QueueOK, ReadersOK, WorldOK

(* A step of a goroutine that moves nothing but its label.                 *)
LEMMA StepType ==
  ASSUME TypeOK, PcOK',
         UNCHANGED <<tr, saw, transport, gates, closing, queue, readers, world, crashed>>
  PROVE  TypeOK'
BY DEF TypeOK, LocalsOK, GatesOK, QueueOK, ReadersOK, WorldOK

(* A wait for a transport empties its channel.                             *)
LEMMA AwaitType ==
  ASSUME TypeOK, NEW th, NEW l, PcOK', AwaitTransport(th, l) PROVE TypeOK'
<1>1. GatesOK'
  BY DEF AwaitTransport, TypeOK, GatesOK
<1> QED BY <1>1 DEF AwaitTransport, TypeOK, LocalsOK, QueueOK, ReadersOK, WorldOK

(* close(c.messages) closes the channel or panics.                         *)
LEMMA CloseMessagesType ==
  ASSUME TypeOK, NEW th, NEW l, Goto(th, l) => PcOK', CloseMessages(th, l) PROVE TypeOK'
<1>1. CASE Crash("close of closed messages")
  BY <1>1, CrashType DEF Panics
<1>2. CASE ~Crash("close of closed messages")
  <2>1. /\ messagesChan' \in {"closed", "nil"} /\ Goto(th, l)
        /\ UNCHANGED <<tr, saw, transport, gates, closing, messages, messagesDone, readers,
                       world, crashed>>
    BY <1>2 DEF CloseMessages
  <2>2. QueueOK'
    BY <2>1 DEF TypeOK, QueueOK, Gate
  <2>3. LocalsOK' /\ GatesOK' /\ ReadersOK' /\ WorldOK'
    BY <2>1 DEF TypeOK, LocalsOK, GatesOK, ReadersOK, WorldOK
  <2> QED BY <2>1, <2>2, <2>3 DEF TypeOK
<1> QED BY <1>1, <1>2

(* The queue.                                                              *)
LEMMA AppendType ==
  ASSUME QueueOK, NEW p \in Packets, Room, messages' = Append(messages, p),
         UNCHANGED <<messagesChan, messagesDone>>
  PROVE  QueueOK'
BY DEF QueueOK, Room

(* What the loop takes from messages is a packet.                          *)
LEMMA TakeType ==
  ASSUME QueueOK, messages # <<>>, Take PROVE QueueOK' /\ NextPacket \in Packets
BY DEF QueueOK, Take, NextPacket

(* The answers to the handshake poll are packets.                          *)
LEMMA AnswerType ==
  /\ \A p \in OpenPackets : p \in Packets /\ p.type \in {"open", "badopen"}
  /\ \A p \in HandshakeAnswers : p \in Packets /\ p.type \in PacketTypes
BY DEF OpenPackets, HandshakeAnswers, Packet, Packets, PacketTypes

(* Run and Stop keep the types of the readers.                             *)
LEMMA RunType == ASSUME ReadersOK, NEW t, NEW k \in 0..2, RunOk(t, k) PROVE ReadersOK'
<1>1. /\ reader' \in [Transports -> {"idle", "running", "exited"}]
      /\ onClose' \in [Transports -> 0..2]
  BY DEF ReadersOK, RunOk
<1>2. stopReq' \in [Transports -> BOOLEAN]
  <2>1. CASE t = "polling"
    BY <2>1 DEF ReadersOK, RunOk
  <2>2. CASE t # "polling"
    <3>1. stopReq' = [stopReq EXCEPT ![t] = stopReq[t]]
      BY <2>2 DEF RunOk
    <3> QED BY <3>1, Zenon DEF ReadersOK
  <2> QED BY <2>1, <2>2
<1> QED BY <1>1, <1>2 DEF ReadersOK

(* The first hit of a non-empty set of positions is one of them.           *)
LEMMA FirstHit ==
  ASSUME NEW hits, hits \subseteq Nat, hits # {}
  PROVE  (CHOOSE i \in hits : \A j \in hits : i <= j) \in hits
<1>1. \E i \in hits : \A j \in hits : ~(<<j, i>> \in OpToRel(<, Nat))
  BY NatLessThanWellFounded, WFMin
<1>2. \A j, i \in Nat : j < i => <<j, i>> \in OpToRel(<, Nat)
  BY Zenon DEF OpToRel
<1>3. \E i \in hits : \A j \in hits : ~(j < i)
  BY <1>1, <1>2, Zenon
<1>4. \E i \in hits : \A j \in hits : i <= j
  BY <1>3
<1> QED BY <1>4

(* An upgrade goes to a supported transport that the open packet names and *)
(* that is not the current one.                                            *)
LEMMA TargetType ==
  ASSUME NEW current, NEW upgrades \in UpgradeOffers \cup {<<>>}
  PROVE  /\ UpgradeTarget(current, upgrades) \in Transports \cup {"nil"}
         /\ UpgradeTarget(current, upgrades) # "nil" =>
              /\ UpgradeTarget(current, upgrades) # current
              /\ \E i \in DOMAIN upgrades : UpgradeTarget(current, upgrades) = upgrades[i]
<1> DEFINE hits == {i \in DOMAIN upgrades : upgrades[i] = current \/ upgrades[i] \in Supported}
           hit == CHOOSE i \in hits : \A j \in hits : i <= j
<1>1. hits \subseteq Nat
  BY DEF Transports
<1>2. hits # {} => hit \in hits
  BY <1>1, FirstHit
<1>3. hits # {} /\ upgrades[hit] # current =>
        upgrades[hit] \in Transports /\ hit \in DOMAIN upgrades
  BY <1>2
<1>4. UpgradeTarget(current, upgrades) =
        IF hits = {} \/ upgrades[hit] = current THEN "nil" ELSE upgrades[hit]
  BY DEF UpgradeTarget
<1> HIDE DEF hits, hit
<1> QED BY <1>3, <1>4

-----------------------------------------------------------------------------
(* Connect.                                                                *)
LEMMA ConnectType == ASSUME TypeOK, ConnectBegin \/ Connect PROVE TypeOK'
<1> USE DEF TypeOK, Panics
<1>1. CASE ConnectBegin
  <2>1. CASE transport = "nil"
    BY <1>1, <2>1, CrashType DEF ConnectBegin
  <2>2. CASE transport # "nil"
    <3>1. PcOK'
      BY <1>1, <2>2, GotoConnect DEF ConnectBegin, ConnectSteps
    <3>2. /\ tr' = [tr EXCEPT !["connect"] = transport] /\ UNCHANGED saw
          /\ transport \in Transports \cup {"nil"}
      BY <1>1, <2>2 DEF ConnectBegin, GatesOK
    <3>3. LocalsOK'
      BY <3>2 DEF LocalsOK
    <3>4. /\ transportClosed' = 1 /\ messagesChan' = "open"
          /\ UNCHANGED <<transport, gates, closedChan, messages, messagesDone>>
      BY <1>1, <2>2 DEF ConnectBegin
    <3>5. GatesOK' /\ QueueOK'
      BY <3>4 DEF GatesOK, QueueOK, Gate
    <3> QED BY <1>1, <2>2, <3>1, <3>3, <3>5 DEF ConnectBegin, ReadersOK, WorldOK
  <2> QED BY <2>1, <2>2
<1>2. CASE ConnectRun
  <2>1. PcOK'
    BY <1>2, GotoConnect DEF ConnectRun, ConnectSteps
  <2>2. ReadersOK'
    BY <1>2, RunType DEF ConnectRun, ReadersOK
  <2>3. GatesOK'
    BY <1>2 DEF ConnectRun, GatesOK
  <2> QED BY <1>2, <2>1, <2>2, <2>3 DEF ConnectRun, LocalsOK, QueueOK, WorldOK
<1>3. CASE ConnectSpawn
  <2>1. PcOK'
    BY <1>3 DEF ConnectSpawn, PcOK, Threads, ConnectSteps, LoopSteps
  <2> QED BY <1>3, <2>1 DEF ConnectSpawn, LocalsOK, GatesOK, QueueOK, ReadersOK, WorldOK, Gate
<1>4. CASE ConnectGate
  <2>1. PcOK'
    BY <1>4, GotoConnect DEF ConnectGate, ConnectSteps
  <2> QED BY <1>4, <2>1 DEF ConnectGate, LocalsOK, GatesOK, QueueOK, ReadersOK, WorldOK, Gate
<1>5. CASE ConnectRequest
  <2>1. CASE transport = "nil"
    BY <1>5, <2>1, CrashType DEF ConnectRequest
  <2>2. CASE transport # "nil"
    BY <1>5, <2>2, GotoConnect, StepType DEF ConnectRequest, ConnectSteps
  <2> QED BY <2>1, <2>2
<1>6. CASE ConnectPollOk
  <2>1. CASE messagesChan = "closed"
    BY <1>6, <2>1, CrashType DEF ConnectPollOk
  <2>2. CASE messagesChan = "open"
    <3>1. PcOK'
      BY <1>6, <2>2, GotoConnect DEF ConnectPollOk, ConnectSteps
    <3>2. PICK p \in HandshakeAnswers : /\ messages' = Append(messages, p)
                                        /\ served' = served \cup {p.type}
      BY <1>6, <2>2 DEF ConnectPollOk
    <3>3. p \in Packets /\ p.type \in PacketTypes
      BY AnswerType
    <3>4. QueueOK'
      BY <1>6, <2>2, <3>2, <3>3, AppendType DEF ConnectPollOk
    <3> QED BY <1>6, <2>2, <3>1, <3>2, <3>3, <3>4
            DEF ConnectPollOk, LocalsOK, GatesOK, ReadersOK, WorldOK
  <2> QED BY <1>6, <2>1, <2>2 DEF ConnectPollOk
<1>7. CASE ConnectPollFails \/ ConnectFailJoin
  BY <1>7, GotoConnect, StepType DEF ConnectPollFails, ConnectFailJoin, ConnectSteps
<1>8. CASE ConnectFailStop
  <2>1. CASE transport = "nil"
    BY <1>8, <2>1, CrashType DEF ConnectFailStop
  <2>2. CASE transport # "nil"
    <3>1. PcOK'
      BY <1>8, <2>2, GotoConnect DEF ConnectFailStop, ConnectSteps
    <3>2. ReadersOK'
      BY <1>8, <2>2 DEF ConnectFailStop, StopOk, ReadersOK
    <3> QED BY <1>8, <2>2, <3>1, <3>2
            DEF ConnectFailStop, LocalsOK, GatesOK, QueueOK, WorldOK
  <2> QED BY <2>1, <2>2
<1>9. CASE ConnectFailWait
  <2>1. PcOK'
    BY <1>9, GotoConnect DEF ConnectFailWait, AwaitTransport, ConnectSteps
  <2> QED BY <1>9, <2>1, AwaitType DEF ConnectFailWait
<1>10. CASE ConnectFailClose
  <2>1. Goto("connect", "failJoin") => PcOK'
    BY GotoConnect DEF ConnectSteps
  <2> QED BY <1>10, <2>1, CloseMessagesType DEF ConnectFailClose
<1> QED BY <1>1, <1>2, <1>3, <1>4, <1>5, <1>6, <1>7, <1>8, <1>9, <1>10 DEF Connect

-----------------------------------------------------------------------------
(* Send.                                                                   *)
LEMMA SendType ==
  ASSUME TypeOK, NEW s \in SendThreads, SendBegin(s) \/ Send(s) PROVE TypeOK'
<1> USE DEF TypeOK
<1>1. CASE SendBegin(s)
  BY <1>1, GotoSend, StepType DEF SendBegin, SendSteps
<1>2. CASE SendSnapshot(s)
  <2>1. PcOK'
    BY <1>2, GotoSend DEF SendSnapshot, SendSteps
  <2>2. LocalsOK'
    BY <1>2 DEF SendSnapshot, LocalsOK
  <2> QED BY <1>2, <2>1, <2>2 DEF SendSnapshot, GatesOK, QueueOK, ReadersOK, WorldOK
<1>3. CASE SendWait(s)
  <2>1. PcOK'
    BY <1>3, GotoSend DEF SendWait, SendSteps
  <2>2. LocalsOK'
    BY <1>3 DEF SendWait, LocalsOK, GatesOK
  <2> QED BY <1>3, <2>1, <2>2 DEF SendWait, GatesOK, QueueOK, ReadersOK, WorldOK
<1>4. CASE SendWrite(s)
  <2>1. CASE Crash("nil url")
    BY <2>1, CrashType DEF Panics
  <2>2. CASE ~Crash("nil url")
    <3>1. PcOK'
      BY <1>4, <2>2, GotoSend DEF SendWrite, SendSteps
    <3>2. wire' \subseteq Transports \X {"message", "pong", "probe", "upgrade"}
      <4>1. wire' = wire \/ (wire' = wire \cup {<<tr[s], "message">>} /\ SendOk(tr[s]))
        BY <1>4, <2>2 DEF SendWrite
      <4>2. SendOk(tr[s]) => tr[s] \in Transports
        BY DEF SendOk, Transports
      <4> QED BY <4>1, <4>2 DEF WorldOK
    <3> QED BY <1>4, <2>2, <3>1, <3>2
            DEF SendWrite, LocalsOK, GatesOK, QueueOK, ReadersOK, WorldOK
  <2> QED BY <2>1, <2>2
<1> QED BY <1>1, <1>2, <1>3, <1>4 DEF Send

-----------------------------------------------------------------------------
(* Close.                                                                  *)
LEMMA CloseType ==
  ASSUME TypeOK, NEW c \in CloseThreads, CloseBegin(c) \/ Close(c) PROVE TypeOK'
<1> USE DEF TypeOK
<1>1. CASE CloseBegin(c) \/ CloseJoin(c)
  BY <1>1, GotoClose, StepType DEF CloseBegin, CloseJoin, CloseSteps
<1>2. CASE CloseTake(c)
  <2>1. PcOK'
    BY <1>2, GotoClose DEF CloseTake, CloseSteps
  <2>2. LocalsOK' /\ GatesOK'
    BY <1>2 DEF CloseTake, LocalsOK, GatesOK
  <2> QED BY <1>2, <2>1, <2>2 DEF CloseTake, QueueOK, ReadersOK, WorldOK
<1>3. CASE CloseStop(c)
  <2>1. PcOK'
    BY <1>3, GotoClose DEF CloseStop, CloseSteps
  <2>2. ReadersOK'
    BY <1>3 DEF CloseStop, StopOk, ReadersOK
  <2> QED BY <1>3, <2>1, <2>2 DEF CloseStop, LocalsOK, GatesOK, QueueOK, WorldOK
<1>4. CASE CloseWait(c)
  <2>1. PcOK'
    BY <1>4, GotoClose DEF CloseWait, AwaitTransport, CloseSteps
  <2> QED BY <1>4, <2>1, AwaitType DEF CloseWait
<1>5. CASE CloseCloseMessages(c)
  <2>1. Goto(c, "join") => PcOK'
    BY GotoClose DEF CloseSteps
  <2> QED BY <1>5, <2>1, CloseMessagesType DEF CloseCloseMessages
<1> QED BY <1>1, <1>2, <1>3, <1>4, <1>5 DEF Close

-----------------------------------------------------------------------------
(* messageLoop.                                                            *)

(* sendPacket, for any label it may lead to.                               *)
LEMMA SendPacketType ==
  ASSUME TypeOK, NEW p \in {"pong", "probe", "upgrade"},
         NEW onOk \in LoopSteps, NEW onError \in LoopSteps,
         SendPacket(p, onOk, onError), QueueOK'
  PROVE  TypeOK'
<1>1. PcOK'
  BY GotoLoop DEF SendPacket, TypeOK
<1>2. wire' \subseteq Transports \X {"message", "pong", "probe", "upgrade"}
  BY DEF SendPacket, SendOk, Transports, TypeOK, WorldOK
<1> QED BY <1>1, <1>2 DEF SendPacket, TypeOK, LocalsOK, GatesOK, ReadersOK, WorldOK

(* The packets of the loop.                                                *)
LEMMA LoopType ==
  ASSUME TypeOK, \/ LoopBadOpen \/ LoopOpen \/ LoopPing \/ LoopProbed \/ LoopUpgraded
                 \/ LoopMessage \/ LoopClosePacket \/ LoopHandlerDone \/ LoopExit
  PROVE  TypeOK'
<1> USE DEF TypeOK, LoopMayTake
<1>0. Take /\ messages # <<>> => QueueOK' /\ NextPacket \in Packets
  BY TakeType
<1>1. CASE LoopBadOpen \/ LoopMessage
  BY <1>0, <1>1, SamePc
     DEF LoopBadOpen, LoopMessage, LocalsOK, GatesOK, ReadersOK, WorldOK
<1>2. CASE LoopOpen
  <2>1. CASE Crash("nil transport")
    BY <2>1, CrashType DEF Panics
  <2>2. CASE ~Crash("nil transport")
    <3>1. PcOK'
      BY <1>2, <2>2, GotoLoop DEF LoopOpen, LoopSteps
    <3>2. QueueOK' /\ NextPacket \in Packets
      BY <1>0, <1>2, <2>2 DEF LoopOpen
    <3>3. UpgradeTarget(transport, NextPacket.upgrades) \in Transports \cup {"nil"}
      BY <3>2, TargetType DEF Packets
    <3>4. LocalsOK'
      BY <1>2, <2>2, <3>3 DEF LoopOpen, LocalsOK
    <3> QED BY <1>2, <2>2, <3>1, <3>2, <3>4 DEF LoopOpen, GatesOK, ReadersOK, WorldOK
  <2> QED BY <2>1, <2>2
<1>3. CASE LoopPing
  BY <1>0, <1>3, CrashType, SendPacketType DEF LoopPing, LoopSteps, Panics
<1>4. CASE LoopProbed
  BY <1>0, <1>4, CrashType, SendPacketType DEF LoopProbed, LoopSteps, Panics
<1>5. CASE LoopUpgraded
  <2>1. PcOK'
    BY <1>5, GotoLoop DEF LoopUpgraded, LoopSteps
  <2> QED BY <1>5, <2>1
          DEF LoopUpgraded, LocalsOK, GatesOK, QueueOK, ReadersOK, WorldOK, Gate
<1>6. CASE LoopClosePacket
  <2>1. PcOK'
    BY <1>6 DEF LoopClosePacket, PcOK, Threads, CloseThreads, LoopSteps, CloseSteps
  <2> QED BY <1>0, <1>6, <2>1 DEF LoopClosePacket, LocalsOK, GatesOK, ReadersOK, WorldOK
<1>7. CASE LoopHandlerDone
  BY <1>7, GotoLoop, StepType DEF LoopHandlerDone, LoopSteps
<1>8. CASE LoopExit
  <2>1. PcOK'
    BY <1>8, GotoLoop DEF LoopExit, LoopSteps
  <2> QED BY <1>8, <2>1
          DEF LoopExit, LocalsOK, GatesOK, QueueOK, ReadersOK, WorldOK, Gate
<1> QED BY <1>1, <1>2, <1>3, <1>4, <1>5, <1>6, <1>7, <1>8

(* The upgrade.                                                            *)
LEMMA UpgradeType ==
  ASSUME TypeOK, \/ UpgradeStop \/ UpgradeWait \/ UpgradeRun \/ UpgradeProbe
                 \/ UpgradeProbeFails \/ OpenHandshakeGate
  PROVE  TypeOK'
<1> USE DEF TypeOK
<1>1. CASE UpgradeStop
  <2>1. CASE transport = "nil"
    BY <1>1, <2>1, CrashType DEF UpgradeStop, Panics
  <2>2. CASE transport # "nil"
    <3>1. PcOK'
      BY <1>1, <2>2, GotoLoop DEF UpgradeStop, LoopSteps
    <3>2. ReadersOK'
      BY <1>1, <2>2 DEF UpgradeStop, StopOk, ReadersOK
    <3>3. GatesOK'
      BY <1>1, <2>2 DEF UpgradeStop, GatesOK, Gate
    <3> QED BY <1>1, <2>2, <3>1, <3>2, <3>3 DEF UpgradeStop, LocalsOK, QueueOK, WorldOK
  <2> QED BY <2>1, <2>2
<1>2. CASE UpgradeWait
  <2>1. PcOK'
    BY <1>2, GotoLoop DEF UpgradeWait, AwaitTransport, LoopSteps
  <2> QED BY <1>2, <2>1, AwaitType DEF UpgradeWait
<1>3. CASE UpgradeRun
  <2>1. PcOK'
    BY <1>3, GotoLoop DEF UpgradeRun, LoopSteps
  <2>2. ReadersOK'
    BY <1>3, RunType DEF UpgradeRun, ReadersOK
  <2>3. tr["loop"] \in Transports \cup {"nil"}
    BY DEF LocalsOK, Threads
  <2>4. GatesOK'
    <3>1. /\ transport' = tr["loop"] /\ transportClosed' = 2 /\ mu' = FALSE
          /\ waitHandshake' = waitHandshake /\ waitUpgrade' \in {waitUpgrade, "closed"}
          /\ closedChan' = closedChan \/ closedChan' = [closedChan EXCEPT ![2] = "closed"]
      BY <1>3 DEF UpgradeRun
    <3> QED BY <2>3, <3>1 DEF GatesOK, Gate
  <2> QED BY <1>3, <2>1, <2>2, <2>4 DEF UpgradeRun, LocalsOK, QueueOK, WorldOK
<1>4. CASE UpgradeProbe
  <2>1. CASE Crash("nil transport")
    BY <2>1, CrashType DEF Panics
  <2>2. CASE ~Crash("nil transport")
    <3>1. QueueOK'
      BY <1>4, <2>2 DEF UpgradeProbe, QueueOK
    <3> QED BY <1>4, <2>2, <3>1, SendPacketType DEF UpgradeProbe, LoopSteps
  <2> QED BY <2>1, <2>2
<1>5. CASE UpgradeProbeFails
  <2>1. PcOK'
    BY <1>5, GotoLoop DEF UpgradeProbeFails, LoopSteps
  <2> QED BY <1>5, <2>1
          DEF UpgradeProbeFails, LocalsOK, GatesOK, QueueOK, ReadersOK, WorldOK, Gate
<1>6. CASE OpenHandshakeGate
  <2>1. CASE Crash("close of nil gate")
    BY <2>1, CrashType DEF Panics
  <2>2. CASE ~Crash("close of nil gate")
    <3>1. PcOK'
      <4>1. /\ Hook \in SendThreads /\ Hook # "loop" /\ "loop" \in Threads
            /\ "recv" \in LoopSteps /\ "snapshot" \in SendSteps
        BY DEF Threads, SendThreads, LoopSteps, SendSteps
      <4>2. PICK l \in {"snapshot", pc[Hook]} : pc' = [pc EXCEPT !["loop"] = "recv", ![Hook] = l]
        BY <1>6, <2>2 DEF OpenHandshakeGate
      <4>3. l \in SendSteps
        BY <4>1, <4>2 DEF PcOK
      <4> HIDE DEF LoopSteps, SendSteps
      <4> QED BY <4>1, <4>2, <4>3 DEF PcOK, Threads
    <3> QED BY <1>6, <2>2, <3>1
            DEF OpenHandshakeGate, LocalsOK, GatesOK, QueueOK, ReadersOK, WorldOK, Gate
  <2> QED BY <2>1, <2>2
<1> QED BY <1>1, <1>2, <1>3, <1>4, <1>5, <1>6

-----------------------------------------------------------------------------
(* The readers, the server and the context.                                *)

(* A packet that the server sends of its own accord costs budget.          *)
LEMMA DeliverType ==
  ASSUME TypeOK, NEW t, NEW p \in Packets, Deliver(t, p),
         p.type \in ServerPackets => budget > 0
  PROVE  TypeOK'
<1> USE DEF TypeOK
<1>1. CASE Crash("send on closed messages")
  BY <1>1, CrashType DEF Panics
<1>2. CASE ~Crash("send on closed messages")
  <2>1. QueueOK'
    BY <1>2, AppendType DEF Deliver
  <2>2. served' \subseteq PacketTypes /\ budget' \in 0..MaxServerPackets
    <3>1. /\ served' = served \cup {p.type}
          /\ budget' = IF p.type \in ServerPackets THEN budget - 1 ELSE budget
      BY <1>2 DEF Deliver
    <3>2. /\ p.type \in PacketTypes /\ budget \in 0..MaxServerPackets
          /\ served \subseteq PacketTypes
      BY DEF WorldOK, Packets
    <3> QED BY <3>1, <3>2
  <2> QED BY <1>2, <2>1, <2>2, SamePc DEF Deliver, LocalsOK, GatesOK, ReadersOK, WorldOK
<1> QED BY <1>1, <1>2

(* What the world around the client does.                                  *)
LEMMA WorldType ==
  ASSUME TypeOK, \/ ServerOpen \/ ServerProbe \/ ServerSends \/ CancelContext
                 \/ \E t \in Transports : ReaderStops(t) \/ ReaderFails(t)
  PROVE  TypeOK'
<1> USE DEF TypeOK
<1>1. CASE ServerOpen
  <2>1. \A p \in OpenPackets : p \in Packets /\ p.type \notin ServerPackets
    BY AnswerType
  <2> QED BY <1>1, <2>1, DeliverType DEF ServerOpen
<1>2. CASE ServerProbe
  <2>1. Packet("probe") \in Packets /\ Packet("probe").type \notin ServerPackets
    BY DEF Packet, Packets, PacketTypes
  <2> QED BY <1>2, <2>1, DeliverType DEF ServerProbe
<1>3. CASE ServerSends
  <2>1. \A type \in ServerPackets : Packet(type) \in Packets
    BY DEF Packet, Packets, PacketTypes
  <2>2. budget > 0
    BY <1>3 DEF ServerSends
  <2> QED BY <1>3, <2>1, <2>2, DeliverType DEF ServerSends
<1>4. CASE CancelContext
  BY <1>4, SamePc DEF CancelContext, LocalsOK, GatesOK, QueueOK, ReadersOK, WorldOK
<1>5. CASE \E t \in Transports : ReaderStops(t) \/ ReaderFails(t)
  <2>1. PICK t \in Transports : ReaderEnds(t)
    BY <1>5 DEF ReaderStops, ReaderFails
  <2>2. GatesOK' /\ ReadersOK'
    BY <2>1 DEF ReaderEnds, GatesOK, ReadersOK
  <2> QED BY <2>1, <2>2, SamePc DEF ReaderEnds, LocalsOK, QueueOK, WorldOK
<1> QED BY <1>1, <1>2, <1>3, <1>4, <1>5

-----------------------------------------------------------------------------
(* The client starts in its types.                                         *)
LEMMA InitType == Init => TypeOK
<1> SUFFICES ASSUME Init PROVE TypeOK
  OBVIOUS
<1>1. PcOK
  BY DEF Init, PcOK, Threads, ConnectSteps, LoopSteps, SendSteps, CloseSteps
<1>2. LocalsOK /\ GatesOK /\ ReadersOK
  <2>1. /\ tr = [th \in Threads |-> "nil"] /\ saw = [s \in SendThreads |-> {}]
        /\ first \in Firsts /\ transport = first
        /\ waitHandshake = "nil" /\ waitUpgrade = "nil" /\ mu = FALSE
        /\ transportClosed = 0 /\ closedChan = [k \in 0..2 |-> "empty"]
        /\ reader = [t \in Transports |-> "idle"]
        /\ stopReq = [t \in Transports |-> FALSE]
        /\ onClose = [t \in Transports |-> 0]
    BY Zenon DEF Init
  <2>2. LocalsOK
    BY <2>1 DEF LocalsOK
  <2>3. GatesOK
    <3>1. /\ transport \in Transports \cup {"nil"}
          /\ waitHandshake \in Gate /\ waitUpgrade \in Gate
      BY <2>1 DEF Gate
    <3>2. mu \in BOOLEAN
      BY <2>1
    <3>3. transportClosed \in 0..2 /\ closedChan \in [0..2 -> {"empty", "full", "closed"}]
      BY <2>1
    <3> QED BY <3>1, <3>2, <3>3 DEF GatesOK
  <2>4. ReadersOK
    BY <2>1 DEF ReadersOK
  <2> QED BY <2>2, <2>3, <2>4
<1>3. QueueOK
  BY DEF Init, QueueOK, Gate
<1>4. WorldOK
  <2>1. /\ first \in Firsts /\ sid = FALSE /\ ctxDone = FALSE /\ wire = {} /\ served = {}
        /\ budget = MaxServerPackets /\ crashed = "no"
    BY Zenon DEF Init
  <2>2. sid \in BOOLEAN /\ ctxDone \in BOOLEAN
    BY <2>1, Zenon
  <2>3. /\ first \in Transports /\ budget \in 0..MaxServerPackets
        /\ crashed \in Panics \cup {"no"}
    BY <2>1
  <2>4. /\ wire \subseteq Transports \X {"message", "pong", "probe", "upgrade"}
        /\ served \subseteq PacketTypes
    BY <2>1
  <2> QED BY <2>2, <2>3, <2>4 DEF WorldOK
<1> QED BY <1>1, <1>2, <1>3, <1>4 DEF TypeOK

(* Every variable of the client keeps its type, whatever its callers, the  *)
(* server and the network do: each goroutine stays on its own labels, an   *)
(* upgrade goes to a supported transport only, and messages never holds    *)
(* more packets than its capacity.                                         *)
THEOREM TypeCorrect == Spec => []TypeOK
<1>1. TypeOK /\ [Next]_vars => TypeOK'
  <2>1. TypeOK /\ UNCHANGED vars => TypeOK'
    BY StepType, SamePc DEF vars, TypeOK
  <2> QED BY <2>1, ConnectType, SendType, CloseType, LoopType, UpgradeType, WorldType
          DEF Next, messageLoop
<1> QED BY <1>1, InitType, PTL DEF Spec


HIDE ConfigAssumption

-----------------------------------------------------------------------------
(* Readers.                                                                *)

Upgrading == pc["loop"] \in {"upgLock", "upgWait", "upgRun"}

(* The open packet waits in messages or is being acted upon.               *)
OpenPending == Upgrading \/ (messages # <<>> /\ messages[1].type = "open")

NoReader == \A t \in Transports : reader[t] # "running"

(* As much of the types as the argument needs.                             *)
Shapes ==
  /\ DOMAIN pc = Threads
  /\ transportClosed \in 0..2 /\ DOMAIN closedChan = 0..2
  /\ DOMAIN reader = Transports /\ DOMAIN onClose = Transports
  /\ first \in Transports /\ messages \in Seq(Packets)

(* A running reader reports to the channel that is being waited on, and    *)
(* that channel is still empty: whoever receives from it knows that no     *)
(* reader runs.                                                            *)
ReaderReports ==
  \A t \in Transports : reader[t] = "running" =>
    onClose[t] = transportClosed /\ closedChan[transportClosed] = "empty"

(* Before the first Run nothing has started, reported or been closed.      *)
BeforeRun ==
  /\ pc["connect"] \in {"fresh", "run", "spawn"} => pc["loop"] = "none"
  /\ pc["connect"] \in {"fresh", "run"} =>
       /\ NoReader /\ messagesChan # "closed"
       /\ \A k \in 0..2 : closedChan[k] = "empty"
       /\ \A c \in CloseThreads : pc[c] # "closeMessages"
  /\ pc["connect"] = "run" => transportClosed = 1

(* There is one open packet: it enters an empty queue, and none is left    *)
(* behind it when its upgrade begins.                                      *)
OneOpen == \A i \in DOMAIN messages : messages[i].type = "open" => i = 1 /\ ~Upgrading

(* Until the server has said anything the client is where it started.      *)
Silent ==
  served = {} => /\ messages = <<>> /\ pc["loop"] \in {"none", "recv", "exited"}
                 /\ <<"websocket", "probe">> \notin wire
                 /\ transport \in {first, "nil"}

(* On polling the open packet is the answer to the request of Connect.     *)
PolledOpen == first = "polling" /\ pc["connect"] # "connected" => served = {}

(* The upgrade happens once, and makes the last channel.                   *)
UpgradedOnce ==
  /\ first = "websocket" /\ transport = "polling" => ~OpenPending
  /\ OpenPending \/ served = {} => transportClosed # 2 /\ closedChan[2] = "empty"

(* While Connect waits for its handshake poll, or cleans up after it, no   *)
(* upgrade can begin.                                                      *)
Requesting ==
  pc["connect"] \in {"poll", "failStop", "failWait", "failClose"} =>
    ~OpenPending /\ (first = "websocket" => served # {})

(* Who has received from transportClosed finds no reader running.          *)
Awaited ==
  (\/ pc["loop"] = "upgRun" \/ pc["connect"] = "failClose"
   \/ \E c \in CloseThreads : pc[c] = "closeMessages") => NoReader

(* transportUpgrade keeps the lock, so a Close that has the transport has  *)
(* it for good.                                                            *)
LockHeld == pc["loop"] \in {"upgWait", "upgRun"} => mu
Taken ==
  \A c \in CloseThreads : pc[c] \in {"stop", "wait", "closeMessages"} =>
    transport = "nil" /\ pc["loop"] \notin {"upgWait", "upgRun"}

(* Once messages is closed no reader runs and none can be started.         *)
Closed ==
  messagesChan = "closed" =>
    /\ NoReader
    /\ pc["loop"] \notin {"upgWait", "upgRun"}
    /\ transport = "nil" \/ ~OpenPending

IInv ==
  /\ Shapes /\ ReaderReports /\ TransportExclusive /\ BeforeRun /\ OneOpen
  /\ Silent /\ PolledOpen /\ UpgradedOnce /\ Requesting /\ Awaited /\ LockHeld
  /\ Taken /\ Closed

-----------------------------------------------------------------------------
(* What Take and Append do to the buffered packets.                        *)

(* Removing the first packet shifts the others down by one place.          *)
LEMMA TailOf ==
  ASSUME messages \in Seq(Packets), messages # <<>>
  PROVE  /\ Tail(messages) \in Seq(Packets)
         /\ Head(messages) = messages[1] /\ 1 \in DOMAIN messages
         /\ \A i \in DOMAIN Tail(messages) :
              i # 0 /\ i + 1 \in DOMAIN messages /\ Tail(messages)[i] = messages[i + 1]
         /\ Tail(messages) # <<>> => 1 \in DOMAIN Tail(messages)
OBVIOUS

(* Adding a packet leaves the earlier ones where they are.                 *)
LEMMA AppendOf ==
  ASSUME messages \in Seq(Packets), NEW p \in Packets
  PROVE  /\ Append(messages, p) \in Seq(Packets)
         /\ Append(messages, p) # <<>>
         /\ messages # <<>> => Append(messages, p)[1] = messages[1]
         /\ messages = <<>> => Append(messages, p)[1] = p
         /\ \A i \in DOMAIN Append(messages, p) :
              \/ i \in DOMAIN messages /\ Append(messages, p)[i] = messages[i]
              \/ i = Len(messages) + 1 /\ Append(messages, p)[i] = p
<1>1. /\ Append(messages, p) \in Seq(Packets)
      /\ Len(Append(messages, p)) = Len(messages) + 1
  OBVIOUS
<1>2. Len(messages) \in Nat /\ DOMAIN messages = 1..Len(messages)
  OBVIOUS
<1>3. \A i \in 1..Len(messages) + 1 :
        Append(messages, p)[i] = IF i <= Len(messages) THEN messages[i] ELSE p
  BY <1>2
<1>4. DOMAIN Append(messages, p) = 1..Len(messages) + 1
  BY <1>1
<1>5. messages # <<>> => Len(messages) > 0
  OBVIOUS
<1>6. messages = <<>> => Len(messages) = 0
  OBVIOUS
<1>7. Append(messages, p) # <<>>
  BY <1>1, <1>2
<1>8. messages # <<>> => Append(messages, p)[1] = messages[1]
  BY <1>2, <1>3, <1>5
<1>9. messages = <<>> => Append(messages, p)[1] = p
  BY <1>2, <1>3, <1>6
<1>10. \A i \in DOMAIN Append(messages, p) :
         \/ i \in DOMAIN messages /\ Append(messages, p)[i] = messages[i]
         \/ i = Len(messages) + 1 /\ Append(messages, p)[i] = p
  BY <1>2, <1>3, <1>4
<1> QED BY <1>1, <1>7, <1>8, <1>9, <1>10

-----------------------------------------------------------------------------
USE DEF Goto, Threads, SendThreads, CloseThreads, Transports, NoReader, Upgrading, OpenPending

(* The client before the first call satisfies the invariant.               *)
LEMMA InitIInv == Init => IInv
<1> SUFFICES ASSUME Init PROVE IInv
  OBVIOUS
<1> USE DEF Init
<1>1. Shapes /\ OneOpen
  BY ConfigAssumption DEF Shapes, OneOpen
<1>2. ReaderReports /\ TransportExclusive /\ BeforeRun /\ Awaited /\ LockHeld
  BY DEF ReaderReports, TransportExclusive, BeforeRun, Awaited, LockHeld
<1>3. Silent /\ PolledOpen
  BY DEF Silent, PolledOpen
<1>4. UpgradedOnce /\ Requesting /\ Taken /\ Closed
  BY DEF UpgradedOnce, Requesting, Taken, Closed
<1> QED BY <1>1, <1>2, <1>3, <1>4 DEF IInv

(* A panic freezes everything but crashed, which the invariant ignores.    *)
LEMMA CrashPreserves == ASSUME IInv, NEW cause, Crash(cause) PROVE IInv'
BY DEF Crash, IInv, Shapes, ReaderReports, TransportExclusive, BeforeRun, OneOpen,
       Silent, PolledOpen, UpgradedOnce, Requesting, Awaited, LockHeld, Taken, Closed

-----------------------------------------------------------------------------
(* Packets entering messages.                                              *)

(* A packet enters messages, from a reader or from the poll of Connect; an *)
(* open packet is the first thing the server says.                         *)
LEMMA EnqueuePreserves ==
  ASSUME IInv, NEW p \in Packets,
         messages' = Append(messages, p), served' # {}, messagesChan = "open",
         p.type = "open" => served = {},
         UNCHANGED <<transport, gates, closing, messagesChan, readers, first, wire>>,
         \/ /\ UNCHANGED pc
            /\ served = {} => first = "websocket"
         \/ /\ pc["connect"] = "poll" /\ Goto("connect", "connected")
  PROVE  IInv'
<1>1. messages \in Seq(Packets)
  BY DEF IInv, Shapes
<1>2. /\ messages' \in Seq(Packets) /\ messages' # <<>>
      /\ messages # <<>> => messages'[1] = messages[1]
      /\ messages = <<>> => messages'[1] = p
      /\ \A i \in DOMAIN messages' :
           \/ i \in DOMAIN messages /\ messages'[i] = messages[i]
           \/ i = Len(messages) + 1 /\ messages'[i] = p
  BY <1>1, AppendOf
<1>3. /\ DOMAIN pc' = Threads
      /\ \A th \in Threads : th # "connect" => pc'[th] = pc[th]
      /\ pc'["connect"] = pc["connect"] \/ pc'["connect"] = "connected"
      /\ pc'["connect"] = pc["connect"] => (served = {} => first = "websocket")
  BY DEF IInv, Shapes
<1>4. Shapes' /\ ReaderReports' /\ TransportExclusive' /\ LockHeld'
  BY <1>2, <1>3 DEF IInv, Shapes, ReaderReports, TransportExclusive, LockHeld
<1>5. BeforeRun' /\ Awaited' /\ Taken'
  BY <1>3 DEF IInv, BeforeRun, Awaited, Taken
<1>6. served = {} => /\ messages = <<>> /\ Len(messages) = 0 /\ ~Upgrading
                     /\ transport \in {first, "nil"}
  BY DEF IInv, Silent
<1>7. OneOpen'
  BY <1>2, <1>3, <1>6 DEF IInv, OneOpen
<1>8. OpenPending' => OpenPending \/ served = {}
  BY <1>2, <1>3, <1>6
<1>9. Silent' /\ PolledOpen'
  BY <1>3 DEF IInv, Silent, PolledOpen
<1>10. UpgradedOnce'
  BY <1>6, <1>8 DEF IInv, UpgradedOnce
<1>11. Requesting'
  BY <1>3, <1>8 DEF IInv, Requesting
<1>12. Closed'
  BY DEF Closed
<1> QED BY <1>4, <1>5, <1>7, <1>9, <1>10, <1>11, <1>12 DEF IInv

(* A reader that forwards a packet: a panic when messages is closed.       *)
LEMMA DeliverPreserves ==
  ASSUME IInv, NEW t \in Transports, NEW p \in Packets, Deliver(t, p),
         p.type = "open" => served = {}, served = {} => first = "websocket"
  PROVE  IInv'
<1>1. CASE messagesChan = "closed"
  BY <1>1, CrashPreserves DEF Deliver
<1>2. CASE messagesChan = "open"
  <2>1. /\ messages' = Append(messages, p) /\ served' # {} /\ UNCHANGED pc
        /\ UNCHANGED <<transport, gates, closing, messagesChan, readers, first, wire>>
    BY <1>2 DEF Deliver
  <2> QED BY <1>2, <2>1, EnqueuePreserves
<1> QED BY <1>1, <1>2 DEF Deliver

(* The packets the server sends on its own: it opens a session once, and   *)
(* answers only a probe it was sent.                                       *)
LEMMA ServerPreserves ==
  ASSUME IInv, ServerOpen \/ ServerProbe \/ ServerSends PROVE IInv'
<1>1. CASE ServerOpen
  <2>1. PICK p \in OpenPackets : Deliver("websocket", p)
    BY <1>1 DEF ServerOpen
  <2>2. p \in Packets
    BY DEF OpenPackets, Packets, Packet, PacketTypes
  <2> QED BY <1>1, <2>1, <2>2, DeliverPreserves DEF ServerOpen
<1>2. CASE ServerProbe
  <2>1. Packet("probe") \in Packets /\ Packet("probe").type # "open"
    BY DEF Packets, Packet, PacketTypes
  <2>2. served # {}
    BY <1>2 DEF ServerProbe, IInv, Silent
  <2> QED BY <1>2, <2>1, <2>2, DeliverPreserves DEF ServerProbe
<1>3. CASE ServerSends
  <2>1. PICK type \in ServerPackets : Deliver(ServerTransport, Packet(type))
    BY <1>3 DEF ServerSends
  <2>2. Packet(type) \in Packets /\ Packet(type).type # "open"
    BY ConfigAssumption DEF Packets, Packet, PacketTypes
  <2>3. served # {} /\ ServerTransport \in Transports
    BY <1>3 DEF ServerSends, ServerTransport
  <2> QED BY <2>1, <2>2, <2>3, DeliverPreserves
<1> QED BY <1>1, <1>2, <1>3

(* The answer to the handshake poll.                                       *)
LEMMA ConnectPollOkPreserves == ASSUME IInv, ConnectPollOk PROVE IInv'
<1>1. CASE messagesChan = "closed"
  BY <1>1, CrashPreserves DEF ConnectPollOk
<1>2. CASE messagesChan = "open"
  <2>1. PICK p \in HandshakeAnswers : /\ messages' = Append(messages, p)
                                      /\ served' = served \cup {p.type}
    BY <1>2 DEF ConnectPollOk
  <2>2. p \in Packets /\ (p.type = "open" => served = {})
    BY DEF HandshakeAnswers, OpenPackets, Packets, Packet, PacketTypes
  <2>3. /\ pc["connect"] = "poll" /\ Goto("connect", "connected")
        /\ UNCHANGED <<transport, gates, closing, messagesChan, readers, first, wire>>
    BY <1>2 DEF ConnectPollOk
  <2> QED BY <1>2, <2>1, <2>2, <2>3, EnqueuePreserves
<1> QED BY <1>1, <1>2 DEF ConnectPollOk

-----------------------------------------------------------------------------
(* Packets leaving messages.                                               *)

(* messageLoop takes a packet and moves, outside an upgrade unless the     *)
(* packet was the open packet; a message it writes is not yet a probe.     *)
LEMMA DequeuePreserves ==
  ASSUME IInv, messages # <<>>, messages' = Tail(messages),
         pc["loop"] = "recv", NEW l, pc'["loop"] = l, DOMAIN pc' = DOMAIN pc,
         \A th \in Threads : th # "loop" => pc'[th] = pc[th],
         l \notin {"upgWait", "upgRun"},
         l = "upgLock" => messages[1].type = "open",
         UNCHANGED <<transport, gates, closing, messagesChan, readers, first, served>>
  PROVE  IInv'
<1>1. messages \in Seq(Packets)
  BY DEF IInv, Shapes
<1>2. /\ messages' \in Seq(Packets) /\ 1 \in DOMAIN messages
      /\ \A i \in DOMAIN messages' :
           i # 0 /\ i + 1 \in DOMAIN messages /\ messages'[i] = messages[i + 1]
      /\ messages' # <<>> => 1 \in DOMAIN messages'
  BY <1>1, TailOf
<1>3. DOMAIN messages \subseteq Nat /\ DOMAIN messages' \subseteq Nat
  BY <1>1, <1>2
<1>4. \A i \in DOMAIN messages' : messages'[i].type # "open"
  BY <1>2, <1>3 DEF IInv, OneOpen
<1>5. ~(messages' # <<>> /\ messages'[1].type = "open")
  BY <1>2, <1>4
<1>6. DOMAIN pc' = Threads
  BY DEF IInv, Shapes
<1>7. OpenPending' => OpenPending
  BY <1>5, <1>6
<1>8. Shapes' /\ ReaderReports' /\ TransportExclusive' /\ LockHeld'
  BY <1>2, <1>6 DEF IInv, Shapes, ReaderReports, TransportExclusive, LockHeld
<1>9. BeforeRun' /\ Awaited' /\ Taken'
  BY <1>6 DEF IInv, BeforeRun, Awaited, Taken
<1>10. OneOpen'
  BY <1>4 DEF OneOpen
<1>11. served # {} /\ Silent' /\ PolledOpen'
  BY <1>6 DEF IInv, Silent, PolledOpen
<1>12. UpgradedOnce'
  BY <1>7, <1>11 DEF IInv, UpgradedOnce
<1>13. Requesting'
  BY <1>6, <1>7 DEF IInv, Requesting
<1>14. Closed'
  BY <1>6, <1>7 DEF IInv, Closed
<1> QED BY <1>8, <1>9, <1>10, <1>11, <1>12, <1>13, <1>14 DEF IInv

(* The packets messageLoop handles in one step.                            *)
LEMMA TakePreserves ==
  ASSUME IInv, LoopBadOpen \/ LoopOpen \/ LoopPing \/ LoopProbed \/ LoopMessage
  PROVE  IInv'
<1> USE DEF LoopMayTake, NextPacket, Take
<1>1. messages # <<>> => Head(messages) = messages[1]
  BY TailOf DEF IInv, Shapes
<1>2. "loop" \in DOMAIN pc /\ DOMAIN pc = Threads
  BY DEF IInv, Shapes
<1>3. CASE LoopBadOpen \/ LoopMessage
  <2>1. /\ pc["loop"] = "recv" /\ messages # <<>> /\ UNCHANGED pc
        /\ messages' = Tail(messages)
        /\ UNCHANGED <<transport, gates, closing, messagesChan, readers, first, served>>
    BY <1>3 DEF LoopBadOpen, LoopMessage
  <2> QED BY <2>1, DequeuePreserves
<1>4. CASE LoopOpen
  <2>1. CASE NextPacket.upgrades # <<>> /\ transport = "nil"
    BY <1>4, <2>1, CrashPreserves DEF LoopOpen
  <2>2. CASE ~(NextPacket.upgrades # <<>> /\ transport = "nil")
    <3> DEFINE target == UpgradeTarget(transport, NextPacket.upgrades)
               l == IF target = "nil" THEN "openGate" ELSE "upgLock"
    <3>1. /\ pc["loop"] = "recv" /\ messages # <<>> /\ messages[1].type = "open"
          /\ messages' = Tail(messages) /\ Goto("loop", l)
          /\ UNCHANGED <<transport, gates, closing, messagesChan, readers, first, served>>
      BY <1>1, <1>4, <2>2 DEF LoopOpen
    <3>2. l \notin {"upgWait", "upgRun"}
      OBVIOUS
    <3> HIDE DEF l
    <3>3. /\ DOMAIN pc' = DOMAIN pc /\ pc'["loop"] = l
          /\ \A th \in Threads : th # "loop" => pc'[th] = pc[th]
      BY <1>2, <3>1
    <3> QED BY <3>1, <3>2, <3>3, DequeuePreserves
  <2> QED BY <2>1, <2>2
<1>5. CASE LoopPing \/ LoopProbed
  <2>1. CASE transport = "nil"
    BY <1>5, <2>1, CrashPreserves DEF LoopPing, LoopProbed, SendPacket
  <2>2. CASE transport # "nil"
    <3>1. PICK l \in {"recv", "upgraded"} :
            /\ pc["loop"] = "recv" /\ messages # <<>>
            /\ messages' = Tail(messages) /\ Goto("loop", l)
            /\ UNCHANGED <<transport, gates, closing, messagesChan, readers, first,
                           served>>
      BY <1>5, <2>2 DEF LoopPing, LoopProbed, SendPacket
    <3>2. /\ DOMAIN pc' = DOMAIN pc /\ pc'["loop"] = l
          /\ \A th \in Threads : th # "loop" => pc'[th] = pc[th]
      BY <1>2, <3>1
    <3> QED BY <3>1, <3>2, DequeuePreserves
  <2> QED BY <2>1, <2>2
<1> QED BY <1>3, <1>4, <1>5

-----------------------------------------------------------------------------
(* Transports starting.                                                    *)

(* The fields Connect assigns before Run refer to fresh channels.          *)
LEMMA ConnectBeginPreserves == ASSUME IInv, ConnectBegin PROVE IInv'
<1>1. CASE transport = "nil"
  BY <1>1, CrashPreserves DEF ConnectBegin
<1>2. CASE transport # "nil"
  <2>1. /\ pc["connect"] = "fresh" /\ Goto("connect", "run")
        /\ messagesChan' = "open" /\ transportClosed' = 1
        /\ UNCHANGED <<transport, gates, closedChan, messages, readers, first, wire, served>>
    BY <1>2 DEF ConnectBegin
  <2>2. /\ DOMAIN pc' = Threads /\ pc'["connect"] = "run"
        /\ \A th \in Threads : th # "connect" => pc'[th] = pc[th]
    BY <2>1 DEF IInv, Shapes
  <2>3. /\ NoReader /\ pc["loop"] = "none" /\ messagesChan # "closed"
        /\ \A k \in 0..2 : closedChan[k] = "empty"
        /\ \A c \in CloseThreads : pc[c] # "closeMessages"
    BY <2>1 DEF IInv, BeforeRun
  <2>4. Shapes' /\ ReaderReports' /\ TransportExclusive' /\ LockHeld'
    BY <2>1, <2>2, <2>3 DEF IInv, Shapes, ReaderReports, TransportExclusive, LockHeld
  <2>5. BeforeRun' /\ Awaited' /\ Taken' /\ Closed'
    BY <2>1, <2>2, <2>3 DEF IInv, BeforeRun, Awaited, Taken, Closed
  <2>6. OneOpen' /\ Silent' /\ PolledOpen' /\ Requesting'
    BY <2>1, <2>2, <2>3 DEF IInv, OneOpen, Silent, PolledOpen, Requesting
  <2>7. UpgradedOnce'
    BY <2>1, <2>2, <2>3 DEF IInv, UpgradedOnce
  <2> QED BY <2>4, <2>5, <2>6, <2>7 DEF IInv
<1> QED BY <1>1, <1>2

(* A reader starts, or fails to start, while no reader runs: it is the     *)
(* only one, and the channel it was given is the one that is waited on.    *)
LEMMA RunAlone ==
  ASSUME DOMAIN reader = Transports, DOMAIN onClose = Transports, NoReader,
         NEW t, NEW k \in 0..2, transportClosed' = k,
         \/ RunOk(t, k) /\ closedChan[k] = "empty" /\ UNCHANGED closedChan
         \/ UNCHANGED readers
  PROVE  /\ DOMAIN reader' = Transports /\ DOMAIN onClose' = Transports
         /\ ReaderReports' /\ TransportExclusive'
<1>1. CASE UNCHANGED readers
  BY <1>1 DEF ReaderReports, TransportExclusive
<1>2. CASE RunOk(t, k) /\ closedChan[k] = "empty" /\ UNCHANGED closedChan
  <2>1. /\ DOMAIN reader' = Transports /\ DOMAIN onClose' = Transports
        /\ \A o \in Transports : reader'[o] = "running" => o = t
        /\ t \in Transports => onClose'[t] = k
    BY <1>2 DEF RunOk
  <2>2. ReaderReports'
    BY <1>2, <2>1 DEF ReaderReports
  <2>3. TransportExclusive'
    BY <2>1 DEF TransportExclusive
  <2> QED BY <2>1, <2>2, <2>3
<1> QED BY <1>1, <1>2

(* The first transport starts while nothing else runs (BeforeRun).         *)
LEMMA ConnectRunPreserves == ASSUME IInv, ConnectRun PROVE IInv'
<1>1. /\ pc["connect"] = "run" /\ pc["loop"] = "none" /\ NoReader
      /\ messagesChan # "closed" /\ transportClosed = 1
      /\ \A k \in 0..2 : closedChan[k] = "empty"
      /\ \A c \in CloseThreads : pc[c] # "closeMessages"
  BY DEF ConnectRun, IInv, BeforeRun
<1>2. UNCHANGED <<transport, gates, transportClosed, queue, first, wire, served>>
  BY DEF ConnectRun
<1>3. PICK l \in {"spawn", "failed"} : Goto("connect", l)
  BY DEF ConnectRun
<1>4. /\ DOMAIN pc' = Threads /\ pc'["connect"] = l
      /\ \A th \in Threads : th # "connect" => pc'[th] = pc[th]
  BY <1>3 DEF IInv, Shapes
<1>5. DOMAIN closedChan' = 0..2 /\ closedChan'[2] = closedChan[2]
  BY DEF ConnectRun, IInv, Shapes
<1>6. /\ DOMAIN reader' = Transports /\ DOMAIN onClose' = Transports
      /\ ReaderReports' /\ TransportExclusive'
  BY <1>1, <1>2, RunAlone DEF ConnectRun, IInv, Shapes
<1>7. Shapes' /\ LockHeld' /\ Taken'
  BY <1>1, <1>2, <1>4, <1>5, <1>6 DEF IInv, Shapes, LockHeld, Taken
<1>8. BeforeRun' /\ Awaited' /\ Closed'
  BY <1>1, <1>2, <1>3, <1>4 DEF IInv, BeforeRun, Awaited, Closed
<1>9. OneOpen' /\ Silent' /\ PolledOpen' /\ Requesting'
  BY <1>1, <1>2, <1>3, <1>4 DEF IInv, OneOpen, Silent, PolledOpen, Requesting
<1>10. UpgradedOnce'
  BY <1>1, <1>2, <1>4, <1>5 DEF IInv, UpgradedOnce
<1> QED BY <1>6, <1>7, <1>8, <1>9, <1>10 DEF IInv

(* transportUpgrade starts the new transport after it received from the    *)
(* channel of the old one (Awaited), on a channel of its own that nobody   *)
(* has used (UpgradedOnce); no Close holds the transport (Taken), and      *)
(* Connect is past its request (Requesting).                               *)
LEMMA UpgradeRunPreserves == ASSUME IInv, UpgradeRun PROVE IInv'
<1>1. /\ pc["loop"] = "upgRun" /\ NoReader /\ closedChan[2] = "empty"
      /\ messagesChan # "closed" /\ served # {}
      /\ pc["connect"] \notin {"fresh", "run", "spawn", "poll", "failStop", "failWait",
                               "failClose"}
      /\ \A c \in CloseThreads : pc[c] \notin {"stop", "wait", "closeMessages"}
  BY DEF UpgradeRun, IInv, Awaited, UpgradedOnce, Closed, Silent, BeforeRun, Requesting,
         Taken
<1>2. transportClosed' = 2 /\ UNCHANGED <<queue, first, wire, served>>
  BY DEF UpgradeRun
<1>3. PICK l \in {"probe", "failGate"} : Goto("loop", l)
  BY DEF UpgradeRun
<1>4. /\ DOMAIN pc' = Threads /\ pc'["loop"] = l
      /\ \A th \in Threads : th # "loop" => pc'[th] = pc[th]
  BY <1>3 DEF IInv, Shapes
<1>5. DOMAIN closedChan' = 0..2
  BY DEF UpgradeRun, IInv, Shapes
<1>6. /\ DOMAIN reader' = Transports /\ DOMAIN onClose' = Transports
      /\ ReaderReports' /\ TransportExclusive'
  BY <1>1, <1>2, RunAlone DEF UpgradeRun, IInv, Shapes
<1>7. \A i \in DOMAIN messages : messages[i].type # "open"
  BY <1>1 DEF IInv, OneOpen
<1>8. ~OpenPending'
  BY <1>2, <1>3, <1>4, <1>7 DEF IInv, Shapes
<1>9. Shapes' /\ LockHeld' /\ Taken'
  BY <1>1, <1>2, <1>3, <1>4, <1>5, <1>6 DEF IInv, Shapes, LockHeld, Taken
<1>10. BeforeRun' /\ Awaited' /\ Closed'
  BY <1>1, <1>2, <1>3, <1>4 DEF IInv, BeforeRun, Awaited, Closed
<1>11. OneOpen' /\ Silent' /\ PolledOpen'
  BY <1>1, <1>2, <1>4, <1>7 DEF IInv, OneOpen, Silent, PolledOpen
<1>12. UpgradedOnce' /\ Requesting'
  BY <1>1, <1>2, <1>4, <1>8 DEF UpgradedOnce, Requesting
<1> QED BY <1>6, <1>9, <1>10, <1>11, <1>12 DEF IInv

-----------------------------------------------------------------------------
(* Steps that write on a transport.                                        *)

(* A write adds to wire only; no probe goes out before the open packet.    *)
LEMMA WritePreserves ==
  ASSUME IInv, UpgradeProbe \/ \E s \in SendThreads : SendWrite(s) PROVE IInv'
<1>1. CASE UpgradeProbe
  <2>1. CASE transport = "nil"
    BY <1>1, <2>1, CrashPreserves DEF UpgradeProbe, SendPacket
  <2>2. CASE transport # "nil"
    <3>1. PICK l \in {"openGate", "failProbe"} :
            /\ pc["loop"] = "probe" /\ Goto("loop", l)
            /\ UNCHANGED <<transport, gates, closing, queue, readers, first, served>>
      BY <1>1, <2>2 DEF UpgradeProbe, SendPacket
    <3>2. served # {}
      BY <3>1 DEF IInv, Silent
    <3> QED BY <3>1, <3>2 DEF IInv, Shapes, ReaderReports, TransportExclusive, BeforeRun,
               OneOpen, Silent, PolledOpen, UpgradedOnce, Requesting, Awaited, LockHeld,
               Taken, Closed
  <2> QED BY <2>1, <2>2
<1>2. ASSUME NEW s \in SendThreads, SendWrite(s) PROVE IInv'
  <2>1. CASE tr[s] = "polling" /\ reader["polling"] = "idle"
    BY <1>2, <2>1, CrashPreserves DEF SendWrite
  <2>2. CASE ~(tr[s] = "polling" /\ reader["polling"] = "idle")
    <3>1. /\ \E l \in {"sent", "error"} : Goto(s, l)
          /\ wire' \subseteq wire \cup {<<tr[s], "message">>}
          /\ UNCHANGED <<transport, gates, closing, queue, readers, first, served>>
      BY <1>2, <2>2 DEF SendWrite
    <3>2. <<"websocket", "probe">> \notin wire => <<"websocket", "probe">> \notin wire'
      BY <3>1
    <3>3. DOMAIN pc' = Threads /\ \A th \in Threads \ SendThreads : pc'[th] = pc[th]
      BY <3>1 DEF IInv, Shapes
    <3>4. Silent'
      BY <3>1, <3>2, <3>3 DEF IInv, Silent
    <3> QED BY <3>1, <3>3, <3>4 DEF IInv, Shapes, ReaderReports, TransportExclusive,
               BeforeRun, OneOpen, PolledOpen, UpgradedOnce, Requesting, Awaited,
               LockHeld, Taken, Closed
  <2> QED BY <2>1, <2>2
<1> QED BY <1>1, <1>2

-----------------------------------------------------------------------------
(* The remaining steps change little each.                                 *)
USE DEF Shapes, ReaderReports, TransportExclusive, BeforeRun, OneOpen, Silent, PolledOpen,
        UpgradedOnce, Requesting, Awaited, LockHeld, Taken, Closed

(* Connect, from Run to its return or to the end of its clean-up.          *)
LEMMA ConnectPreserves == ASSUME IInv, Connect PROVE IInv'
<1>1. CASE ConnectRequest
  <2>1. CASE transport = "nil"
    BY <1>1, <2>1, CrashPreserves DEF ConnectRequest
  <2>2. CASE transport # "nil"
    <3>1. PICK l \in {"poll", "connected"} :
            /\ pc["connect"] = "request" /\ Goto("connect", l)
            /\ l = "poll" => transport = "polling"
            /\ UNCHANGED <<transport, gates, closing, queue, readers, first, wire, served>>
      BY <1>1, <2>2 DEF ConnectRequest
    <3>2. transport = "polling" => ~OpenPending /\ (first = "websocket" => served # {})
      BY <3>1 DEF IInv
    <3>3. Requesting'
      BY <3>1, <3>2
    <3> QED BY <3>1, <3>3 DEF IInv
  <2> QED BY <2>1, <2>2
<1>2. CASE ConnectFailStop
  <2>1. CASE transport = "nil"
    BY <1>2, <2>1, CrashPreserves DEF ConnectFailStop
  <2>2. CASE transport # "nil"
    <3>1. /\ pc["connect"] = "failStop" /\ Goto("connect", "failWait")
          /\ UNCHANGED <<transport, gates, closing, queue, reader, onClose, first, wire,
                         served>>
      BY <1>2, <2>2 DEF ConnectFailStop
    <3> QED BY <3>1 DEF IInv
  <2> QED BY <2>1, <2>2
<1>3. CASE ConnectSpawn \/ ConnectGate \/ ConnectPollFails
  BY <1>3 DEF IInv, ConnectSpawn, ConnectGate, ConnectPollFails
<1>4. CASE ConnectFailWait
  BY <1>4 DEF IInv, ConnectFailWait, AwaitTransport
<1>5. CASE ConnectFailClose
  <2>1. CASE messagesChan = "closed"
    BY <1>5, <2>1, CrashPreserves DEF ConnectFailClose, CloseMessages
  <2>2. CASE messagesChan # "closed"
    <3>1. /\ pc["connect"] = "failClose" /\ messagesChan' \in {"closed", "nil"}
          /\ Goto("connect", "failJoin")
          /\ UNCHANGED <<transport, gates, closing, messages, readers, first, wire, served>>
      BY <1>5, <2>2 DEF ConnectFailClose, CloseMessages
    <3>2. /\ DOMAIN pc' = Threads /\ pc'["connect"] = "failJoin"
          /\ \A th \in Threads : th # "connect" => pc'[th] = pc[th]
      BY <3>1 DEF IInv
    <3>3. NoReader /\ ~OpenPending
      BY <3>1 DEF IInv
    <3>4. Closed' /\ Awaited'
      BY <3>1, <3>2, <3>3
    <3> QED BY <3>1, <3>2, <3>4 DEF IInv
  <2> QED BY <2>1, <2>2
<1>6. CASE ConnectFailJoin
  BY <1>6 DEF IInv, ConnectFailJoin
<1> QED BY <1>1, <1>2, <1>3, <1>4, <1>5, <1>6, ConnectRunPreserves,
           ConnectPollOkPreserves DEF Connect

(* A Send changes nothing the invariant speaks of but wire.                *)
LEMMA SendPreserves ==
  ASSUME IInv, NEW s \in SendThreads, SendBegin(s) \/ Send(s) PROVE IInv'
<1>1. CASE SendBegin(s) \/ SendSnapshot(s) \/ SendWait(s)
  BY <1>1 DEF IInv, SendBegin, SendSnapshot, SendWait
<1> QED BY <1>1, WritePreserves DEF Send

(* Close takes the transport under the lock, waits and closes messages.    *)
LEMMA ClosePreserves ==
  ASSUME IInv, NEW c \in CloseThreads, CloseBegin(c) \/ Close(c) PROVE IInv'
<1>1. CASE CloseBegin(c) \/ CloseJoin(c)
  BY <1>1 DEF IInv, CloseBegin, CloseJoin
<1>2. CASE CloseTake(c)
  BY <1>2 DEF IInv, CloseTake
<1>3. CASE CloseStop(c)
  BY <1>3 DEF IInv, CloseStop, StopOk
<1>4. CASE CloseWait(c)
  BY <1>4 DEF IInv, CloseWait, AwaitTransport
<1>5. CASE CloseCloseMessages(c)
  <2>1. CASE messagesChan = "closed"
    BY <1>5, <2>1, CrashPreserves DEF CloseCloseMessages, CloseMessages
  <2>2. CASE messagesChan # "closed"
    <3>1. /\ pc[c] = "closeMessages" /\ messagesChan' \in {"closed", "nil"}
          /\ Goto(c, "join")
          /\ UNCHANGED <<transport, gates, closing, messages, readers, first, wire, served>>
      BY <1>5, <2>2 DEF CloseCloseMessages, CloseMessages
    <3>2. /\ DOMAIN pc' = Threads /\ pc'[c] = "join"
          /\ \A th \in Threads : th # c => pc'[th] = pc[th]
      BY <3>1 DEF IInv
    <3>3. pc'["connect"] = pc["connect"] /\ pc'["loop"] = pc["loop"]
      BY <3>2
    <3>4. Awaited' /\ Taken' /\ LockHeld' /\ Closed'
      BY <3>1, <3>2, <3>3 DEF IInv
    <3>5. BeforeRun'
      BY <3>1, <3>2, <3>3 DEF IInv
    <3> QED BY <3>1, <3>2, <3>3, <3>4, <3>5 DEF IInv
  <2> QED BY <2>1, <2>2
<1> QED BY <1>1, <1>2, <1>3, <1>4, <1>5 DEF Close

(* messageLoop, with the handshake and the upgrade.                        *)
LEMMA LoopPreserves == ASSUME IInv, messageLoop PROVE IInv'
<1>1. CASE LoopUpgraded \/ LoopHandlerDone \/ LoopExit
  BY <1>1 DEF IInv, LoopUpgraded, LoopHandlerDone, LoopExit
<1>2. CASE LoopClosePacket
  BY <1>2, TailOf DEF IInv, LoopClosePacket, LoopMayTake, NextPacket, Take
<1>3. CASE UpgradeStop
  <2>1. CASE transport = "nil"
    BY <1>3, <2>1, CrashPreserves DEF UpgradeStop
  <2>2. CASE transport # "nil"
    <3>1. /\ pc["loop"] = "upgLock"
          /\ UNCHANGED <<transport, closing, queue, reader, onClose, first, wire, served>>
      BY <1>3, <2>2 DEF UpgradeStop
    <3>2. \/ Goto("loop", "upgWait") /\ mu'
          \/ Goto("loop", "failGate") /\ UNCHANGED mu
      BY <1>3, <2>2 DEF UpgradeStop
    <3>3. /\ DOMAIN pc' = Threads /\ pc'["loop"] \in {"upgWait", "failGate"}
          /\ pc'["connect"] = pc["connect"] /\ \A c \in CloseThreads : pc'[c] = pc[c]
      BY <3>2 DEF IInv
    <3>4. Taken' /\ LockHeld' /\ Closed'
      BY <2>2, <3>1, <3>2, <3>3 DEF IInv
    <3>5. OpenPending /\ \A i \in DOMAIN messages : messages[i].type # "open"
      BY <3>1 DEF IInv
    <3>6. pc["connect"] \notin {"fresh", "run", "spawn"}
      BY <3>1 DEF IInv
    <3>7. OneOpen' /\ BeforeRun'
      BY <3>1, <3>3, <3>5, <3>6
    <3>8. Awaited'
      BY <3>1, <3>3 DEF IInv
    <3>9. UpgradedOnce' /\ Requesting'
      BY <3>1, <3>3, <3>5 DEF IInv
    <3> QED BY <3>1, <3>3, <3>4, <3>7, <3>8, <3>9 DEF IInv
  <2> QED BY <2>1, <2>2
<1>4. CASE UpgradeWait
  BY <1>4 DEF IInv, UpgradeWait, AwaitTransport
<1>5. CASE UpgradeProbeFails
  BY <1>5 DEF IInv, UpgradeProbeFails
<1>6. CASE OpenHandshakeGate
  <2>1. CASE waitHandshake = "nil"
    BY <1>6, <2>1, CrashPreserves DEF OpenHandshakeGate
  <2>2. CASE waitHandshake # "nil"
    <3>1. /\ pc["loop"] \in {"openGate", "failGate"}
          /\ UNCHANGED <<transport, mu, closing, queue, readers, first, wire, served>>
      BY <1>6, <2>2 DEF OpenHandshakeGate
    <3>2. /\ DOMAIN pc' = Threads /\ pc'["loop"] = "recv" /\ pc'["connect"] = pc["connect"]
          /\ \A c \in CloseThreads : pc'[c] = pc[c]
      BY <1>6, <2>2 DEF IInv, OpenHandshakeGate
    <3>3. OneOpen' /\ UpgradedOnce' /\ Requesting' /\ Awaited' /\ BeforeRun' /\ Closed'
      BY <3>1, <3>2 DEF IInv
    <3> QED BY <3>1, <3>2, <3>3 DEF IInv
  <2> QED BY <2>1, <2>2
<1> QED BY <1>1, <1>2, <1>3, <1>4, <1>5, <1>6, TakePreserves, UpgradeRunPreserves,
           WritePreserves DEF messageLoop

(* A reader that ends fills the channel it was given.                      *)
LEMMA ReaderPreserves ==
  ASSUME IInv, NEW t \in Transports, ReaderStops(t) \/ ReaderFails(t) PROVE IInv'
BY DEF IInv, ReaderStops, ReaderFails, ReaderEnds, Reading

(* Cancelling the context stops readers later, not at once.                *)
LEMMA CancelPreserves == ASSUME IInv, CancelContext PROVE IInv'
BY DEF IInv, CancelContext

(* Nothing changes.                                                        *)
LEMMA StutterPreserves == ASSUME IInv, UNCHANGED vars PROVE IInv'
BY DEF IInv, vars

HIDE DEF Shapes, ReaderReports, TransportExclusive, BeforeRun, OneOpen, Silent, PolledOpen,
         UpgradedOnce, Requesting, Awaited, LockHeld, Taken, Closed

(* IInv is inductive.                                                      *)
LEMMA StepPreserves == IInv /\ [Next]_vars => IInv'
<1> SUFFICES ASSUME IInv, [Next]_vars PROVE IInv'
  OBVIOUS
<1> QED BY StutterPreserves, ConnectBeginPreserves, ConnectPreserves, LoopPreserves,
           SendPreserves, ClosePreserves, ServerPreserves, ReaderPreserves,
           CancelPreserves DEF Next

(* In every execution IInv holds.                                          *)
THEOREM InvariantHolds == Spec => []IInv
BY InitIInv, StepPreserves, PTL DEF Spec

(* Two readers never feed messages at the same time: transportUpgrade      *)
(* starts the new transport only after the old one has reported its end.   *)
THEOREM OneReader == Spec => []TransportExclusive
<1>1. IInv => TransportExclusive
  BY DEF IInv
<1> QED BY <1>1, InvariantHolds, PTL

(* Whoever closes messages, Close or the clean-up of a failed Connect, has *)
(* waited for the last reader, and no upgrade starts another one later.    *)
THEOREM ReadersEndBeforeClose == Spec => []ReadersEndFirst
<1>1. IInv => ReadersEndFirst
  BY DEF IInv, Closed, ReadersEndFirst
<1> QED BY <1>1, InvariantHolds, PTL

=============================================================================
