------------------------- MODULE WebSocketTransport -------------------------
(***************************************************************************)
(* The websocket transport, engine.io/v4/client/transport/websocket, over  *)
(* websocket/native: wsReadLoop, which starts one goroutine per message to *)
(* wait in Receive, the hand-over through messageCh and errorCh, Stop, and *)
(* SendMessage, whose lock Close of the connection takes too.              *)
(*                                                                         *)
(* The engine client runs such a transport once.  Messages of the server   *)
(* are numbered in the order they are sent.                                *)
(***************************************************************************)
EXTENDS Naturals, Sequences, FiniteSets

CONSTANTS
  Senders,      \* goroutines that call SendMessage, each once
  MaxMessages,  \* bound on the messages the server sends
  MessageCap    \* capacity of the messages channel

ASSUME WebSocketAssumption == MaxMessages \in Nat /\ MessageCap \in Nat \ {0}

(* The goroutines that call Receive, one for each turn of the loop.        *)
Receivers == 1..(MaxMessages + 1)

VARIABLES
  conn,         \* ws.conn: nil, open or closed
  mu,           \* the goroutine that holds ws.mu: a sender, or "none"
  loop,         \* the goroutine of wsReadLoop
  turn,         \* turns of the loop so far
  receiver,     \* the goroutine of each turn
  got,          \* the message each has received
  messageCh,    \* values in messageCh
  errorCh,      \* a value is in errorCh
  held,         \* the message the loop has taken from messageCh
  stopPooling,  \* a value is in the channel of this name
  served,       \* messages the server has sent
  received,     \* messages Receive has returned
  forwarded,    \* the messages put into messages, in order
  consumed,     \* how many of them the engine has taken
  onClose,      \* the channel given to Run: empty or full
  sender,       \* the goroutines in SendMessage
  asked,        \* history: Stop was called
  ctxDone

channels == <<messageCh, errorCh, held>>
world == <<served, consumed>>
vars == <<conn, mu, loop, turn, receiver, got, channels, stopPooling, received,
          forwarded, onClose, sender, asked, ctxDone, world>>

LoopLabels == {"none", "failed", "spawn", "select", "forward", "report", "close", "done"}
ReceiverLabels == {"none", "receive", "message", "error", "done"}
SenderLabels == {"idle", "lock", "write", "stalled", "sent", "error"}

InFlight == {r \in Receivers : receiver[r] \in {"receive", "message", "error"}}

(* NewTransport.                                                           *)
Init ==
  /\ conn = "nil" /\ mu = "none" /\ loop = "none" /\ turn = 0
  /\ receiver = [r \in Receivers |-> "none"] /\ got = [r \in Receivers |-> 0]
  /\ messageCh = <<>> /\ errorCh = FALSE /\ held = 0
  /\ stopPooling = FALSE
  /\ served = 0 /\ received = 0 /\ forwarded = <<>> /\ consumed = 0
  /\ onClose = "empty" /\ sender = [s \in Senders |-> "idle"]
  /\ asked = FALSE /\ ctxDone = FALSE

-----------------------------------------------------------------------------
(* Run dials; a failed dial leaves no connection.                          *)
Run ==
  /\ loop = "none"
  /\ \/ conn' = "open" /\ loop' = "spawn"
     \/ conn' = "nil" /\ loop' = "failed"
  /\ UNCHANGED <<mu, turn, receiver, got, channels, stopPooling, received, forwarded,
                 onClose, sender, asked, ctxDone, world>>

(* Stop leaves a token unless there is one.                                *)
Stop ==
  /\ stopPooling' = TRUE /\ asked' = TRUE
  /\ UNCHANGED <<conn, mu, loop, turn, receiver, got, channels, received, forwarded,
                 onClose, sender, ctxDone, world>>

-----------------------------------------------------------------------------
(* wsReadLoop.                                                             *)

(* Mutant: a turn starts two goroutines.                                   *)
LoopSpawnTwice ==
  /\ loop = "spawn" /\ turn < MaxMessages
  /\ turn' = turn + 2
  /\ receiver' = [r \in Receivers |-> IF r \in {turn + 1, turn + 2} THEN "receive"
                                                                    ELSE receiver[r]]
  /\ loop' = "select"
  /\ UNCHANGED <<conn, mu, got, channels, stopPooling, received, forwarded, onClose,
                 sender, asked, ctxDone, world>>

LoopSpawn ==
  /\ loop = "spawn"
  /\ turn' = turn + 1
  /\ receiver' = [receiver EXCEPT ![turn + 1] = "receive"]
  /\ loop' = "select"
  /\ UNCHANGED <<conn, mu, got, channels, stopPooling, received, forwarded, onClose,
                 sender, asked, ctxDone, world>>

(* Both selects of the loop end it on the token and on a done context.     *)
Halts(labels) ==
  /\ loop \in labels /\ loop' = "report" /\ held' = 0
  /\ \/ stopPooling /\ stopPooling' = FALSE
     \/ ctxDone /\ UNCHANGED stopPooling
  /\ UNCHANGED <<conn, mu, turn, receiver, got, messageCh, errorCh, received, forwarded,
                 onClose, sender, asked, ctxDone, world>>

(* Mutant: a loop that waits for room in messages does not see Stop.       *)
LoopHaltsBetween == Halts({"select"})

LoopHalts == Halts({"select", "forward"})

LoopTakes ==
  /\ loop = "select" /\ messageCh # <<>>
  /\ held' = Head(messageCh) /\ messageCh' = Tail(messageCh)
  /\ loop' = "forward"
  /\ UNCHANGED <<conn, mu, turn, receiver, got, errorCh, stopPooling, received, forwarded,
                 onClose, sender, asked, ctxDone, world>>

(* Mutant: a queue without a bound.                                        *)
RoomUnbounded == TRUE

Room == Len(forwarded) - consumed < MessageCap

LoopForwards ==
  /\ loop = "forward" /\ Room
  /\ forwarded' = Append(forwarded, held) /\ held' = 0
  /\ loop' = "spawn"
  /\ UNCHANGED <<conn, mu, turn, receiver, got, messageCh, errorCh, stopPooling, received,
                 onClose, sender, asked, ctxDone, world>>

LoopError ==
  /\ loop = "select" /\ errorCh
  /\ errorCh' = FALSE /\ loop' = "report"
  /\ UNCHANGED <<conn, mu, turn, receiver, got, messageCh, held, stopPooling, received,
                 forwarded, onClose, sender, asked, ctxDone, world>>

(* Mutant: the loop ends without saying so.                                *)
LoopReportNothing ==
  /\ loop = "report" /\ loop' = "close"
  /\ UNCHANGED <<conn, mu, turn, receiver, got, channels, stopPooling, received,
                 forwarded, onClose, sender, asked, ctxDone, world>>

(* The report is a send that does not wait.                                *)
LoopReport ==
  /\ loop = "report" /\ loop' = "close"
  /\ onClose' = "full"
  /\ UNCHANGED <<conn, mu, turn, receiver, got, channels, stopPooling, received,
                 forwarded, sender, asked, ctxDone, world>>

(* Mutant: the connection is left open.                                    *)
LoopCloseNothing ==
  /\ loop = "close" /\ mu = "none"
  /\ loop' = "done"
  /\ UNCHANGED <<conn, mu, turn, receiver, got, channels, stopPooling, received,
                 forwarded, onClose, sender, asked, ctxDone, world>>

(* ws.Close waits for a writer to leave the lock.                          *)
LoopClose ==
  /\ loop = "close" /\ mu = "none"
  /\ conn' = "closed" /\ loop' = "done"
  /\ UNCHANGED <<mu, turn, receiver, got, channels, stopPooling, received, forwarded,
                 onClose, sender, asked, ctxDone, world>>

wsReadLoop ==
  \/ LoopSpawn \/ LoopHalts \/ LoopTakes \/ LoopForwards \/ LoopError
  \/ LoopReport \/ LoopClose

-----------------------------------------------------------------------------
(* The goroutine of a turn: Receive returns the next message, or an error  *)
(* when the connection breaks or has been closed.                          *)

Receive(r) ==
  /\ receiver[r] = "receive" /\ received < served /\ conn = "open"
  /\ received' = received + 1
  /\ got' = [got EXCEPT ![r] = received + 1]
  /\ receiver' = [receiver EXCEPT ![r] = "message"]
  /\ UNCHANGED <<conn, mu, loop, turn, channels, stopPooling, forwarded, onClose, sender,
                 asked, ctxDone, world>>

ReceiveTo(r, from, to) ==
  /\ receiver[r] = from
  /\ receiver' = [receiver EXCEPT ![r] = to]
  /\ UNCHANGED <<conn, mu, loop, turn, got, held, stopPooling, received, forwarded,
                 onClose, sender, asked, ctxDone, world>>

ReceiveFails(r) == ReceiveTo(r, "receive", "error") /\ UNCHANGED <<messageCh, errorCh>>
ReceiveClosed(r) ==
  conn = "closed" /\ ReceiveTo(r, "receive", "error") /\ UNCHANGED <<messageCh, errorCh>>

(* Both channels have one place.                                           *)
HandOver(r) ==
  \/ /\ messageCh = <<>> /\ ReceiveTo(r, "message", "done")
     /\ messageCh' = Append(messageCh, got[r]) /\ UNCHANGED errorCh
  \/ /\ ~errorCh /\ ReceiveTo(r, "error", "done")
     /\ errorCh' = TRUE /\ UNCHANGED messageCh

-----------------------------------------------------------------------------
(* SendMessage.                                                            *)

SendTo(s, from, to) ==
  /\ sender[s] = from
  /\ sender' = [sender EXCEPT ![s] = to]
  /\ UNCHANGED <<conn, loop, turn, receiver, got, channels, stopPooling, received,
                 forwarded, onClose, asked, ctxDone, world>>

SendBegin(s) == SendTo(s, "idle", IF conn = "nil" THEN "error" ELSE "lock") /\ UNCHANGED mu
SendLock(s) == mu = "none" /\ SendTo(s, "lock", "write") /\ mu' = s
SendWrite(s) ==
  /\ SendTo(s, "write", IF conn = "open" THEN "sent" ELSE "error") /\ mu' = "none"
SendFails(s) == SendTo(s, "write", "error") /\ mu' = "none"

(* A peer that does not read may keep a write waiting, with the lock held. *)
SendStalls(s) == conn = "open" /\ SendTo(s, "write", "stalled") /\ UNCHANGED mu

SendMessage(s) == SendLock(s) \/ SendWrite(s)

-----------------------------------------------------------------------------
(* The server and the engine client.                                       *)

Serve ==
  /\ served < MaxMessages /\ served' = served + 1
  /\ UNCHANGED <<conn, mu, loop, turn, receiver, got, channels, stopPooling, received,
                 forwarded, onClose, sender, asked, ctxDone, consumed>>

Consume ==
  /\ consumed < Len(forwarded) /\ consumed' = consumed + 1
  /\ UNCHANGED <<conn, mu, loop, turn, receiver, got, channels, stopPooling, received,
                 forwarded, onClose, sender, asked, ctxDone, served>>

ReceiveReport ==
  /\ onClose = "full" /\ onClose' = "empty"
  /\ UNCHANGED <<conn, mu, loop, turn, receiver, got, channels, stopPooling, received,
                 forwarded, sender, asked, ctxDone, world>>

CancelContext ==
  /\ ~ctxDone /\ ctxDone' = TRUE
  /\ UNCHANGED <<conn, mu, loop, turn, receiver, got, channels, stopPooling, received,
                 forwarded, onClose, sender, asked, world>>

-----------------------------------------------------------------------------
Next ==
  \/ Run \/ Stop \/ wsReadLoop
  \/ \E r \in Receivers : Receive(r) \/ ReceiveFails(r) \/ ReceiveClosed(r) \/ HandOver(r)
  \/ \E s \in Senders : SendBegin(s) \/ SendMessage(s) \/ SendFails(s) \/ SendStalls(s)
  \/ Serve \/ Consume \/ ReceiveReport \/ CancelContext

Spec == Init /\ [][Next]_vars

(* Goroutines run; the server may stay silent and the engine client need   *)
(* not take messages.                                                      *)
FairSpec ==
  /\ Spec /\ WF_vars(wsReadLoop)
  /\ \A r \in Receivers : WF_vars(Receive(r) \/ ReceiveClosed(r) \/ HandOver(r))
  /\ \A s \in Senders : WF_vars(SendMessage(s))

-----------------------------------------------------------------------------
(* Properties.                                                             *)

LoopOK ==
  /\ conn \in {"nil", "open", "closed"} /\ loop \in LoopLabels
  /\ turn \in 0..(MaxMessages + 1) /\ stopPooling \in BOOLEAN
  /\ onClose \in {"empty", "full"} /\ asked \in BOOLEAN /\ ctxDone \in BOOLEAN
ReceiversOK ==
  /\ receiver \in [Receivers -> ReceiverLabels] /\ got \in [Receivers -> 0..MaxMessages]
  /\ messageCh \in Seq(1..MaxMessages) /\ errorCh \in BOOLEAN /\ held \in 0..MaxMessages
QueueOK ==
  /\ served \in 0..MaxMessages /\ received \in 0..served
  /\ forwarded \in Seq(1..MaxMessages) /\ consumed \in 0..Len(forwarded)
  /\ Len(forwarded) - consumed <= MessageCap
SendersOK == mu \in Senders \cup {"none"} /\ sender \in [Senders -> SenderLabels]

(* Every variable keeps its type, and messages its capacity.               *)
TypeOK == LoopOK /\ ReceiversOK /\ QueueOK /\ SendersOK

Running == loop \in {"spawn", "select", "forward", "report"}

(* The loop as the engine client sees it.                                  *)
Reader == CASE loop \in {"none", "failed"} -> "idle"
            [] Running -> "running" [] OTHER -> "exited"

Contract == INSTANCE Transport WITH
  MayFail <- TRUE, reader <- Reader, stopReq <- asked, report <- onClose

(* The transport keeps its part of the Transport interface: however its    *)
(* loop ends, it has reported once, into a channel with room.              *)
KeepsContract == Contract!Spec

(* One goroutine waits in Receive at a time, and its hand-over finds a     *)
(* free place, also when the loop has gone (the comment in wsReadLoop).    *)
OneReceiver ==
  /\ Cardinality(InFlight) <= 1
  /\ \A r \in Receivers : /\ receiver[r] = "message" => messageCh = <<>>
                          /\ receiver[r] = "error" => ~errorCh

(* The engine gets the messages in the order the server sent them, without *)
(* a gap: goroutines of different turns never overtake each other.         *)
InOrder == \A i \in 1..Len(forwarded) : forwarded[i] = i

(* Stop ends the loop although the connection is silent, messages is full  *)
(* or a write is stalled.                                                  *)
StopEnds == (asked /\ Running) ~> ~Running

(* No goroutine stays behind in Receive: closing the connection ends it,   *)
(* unless a stalled write keeps Close out of the lock.                     *)
NoReceiverLeft ==
  (loop = "close") ~> (InFlight = {} \/ \E s \in Senders : sender[s] = "stalled")

=============================================================================
