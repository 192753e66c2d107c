---------------------------- MODULE EventDispatch ---------------------------
(***************************************************************************)
(* How the Socket.IO client hands incoming packets to the application,     *)
(* socket.io/v5/client: onMessage runs on the read loop of the engine,     *)
(* finds the namespace, opens its connection gate on a connect packet,     *)
(* takes a snapshot of the registered handlers and starts one goroutine    *)
(* for each (safeGo), while other goroutines register handlers with On and *)
(* OnAny.  What a goroutine calls goes through WrapCallback of the default *)
(* parser, which checks the arguments against the parameters.  Packets     *)
(* arrive as texts, which the two parsers of WireFormat read.              *)
(* Acknowledgements are the subject of SocketClient.                       *)
(***************************************************************************)
EXTENDS Naturals, Sequences, WireFormat

CONSTANTS
  Handlers,     \* handlers the application registers with On
  AnyHandlers,  \* handlers it registers with OnAny
  EventOf,      \* the event each of Handlers is registered for
  Params,       \* the parameters of each: "raw", "none", "one" or "notFunc"
  Namespaces,   \* namespace names
  DefaultNs,    \* the namespace of On, OnAny and Emit
  ServerSends,  \* the texts the server may send
  MaxPackets,   \* bound on their number
  MessageCap,   \* capacity of the buffer of the read loop (100)
  Stuck,        \* handlers that never return
  SampleMessages, \* messages RoundTrip is checked for
  SampleTexts     \* texts AcceptedHasBody is checked for

AllHandlers == Handlers \cup AnyHandlers
ASSUME HandlerAssumption ==
  /\ Handlers \cap AnyHandlers = {} /\ Stuck \subseteq AllHandlers
  /\ EventOf \in [Handlers -> JsonStrings]
  /\ Params \in [Handlers -> {"raw", "none", "one", "notFunc"}]
  /\ DefaultNs \in Namespaces
ASSUME PacketAssumption ==
  /\ \A text \in ServerSends : text \in Seq(Symbols)
  /\ MaxPackets \in Nat /\ MessageCap \in Nat \ {0}
ASSUME SampleAssumption ==
  /\ \A m \in SampleMessages : Sendable(m)
  /\ \A text \in SampleTexts : text \in Seq(Symbols)

VARIABLES
  handlers,     \* the handlers registered so far
  registeredAt, \* how many packets had been taken when each was registered
  namespaces,   \* c.namespaces
  connected,    \* the namespaces whose waitConnected is closed
  inbox,        \* texts buffered for the read loop
  arrived,      \* how many packets have arrived
  log,          \* the packets the read loop has read from them, in order
  loop,         \* where onMessage is: idle, gate or spawn
  started,      \* goroutines started, <<handler, packet number>>
  finished,     \* those that have ended
  called,       \* those in which the application's function was called
  crashed       \* a panic outside safeGo ended the process

vars == <<handlers, registeredAt, namespaces, connected, inbox, arrived, log, loop,
          started, finished, called, crashed>>

Init ==
  /\ handlers = {} /\ registeredAt = [h \in AllHandlers |-> 0]
  /\ namespaces = {DefaultNs} /\ connected = {}
  /\ inbox = <<>> /\ arrived = 0 /\ log = <<>> /\ loop = "idle"
  /\ started = [g \in AllHandlers \X (1..MaxPackets) |-> 0]
  /\ finished = {} /\ called = {}
  /\ crashed = FALSE

Current == log[Len(log)]

-----------------------------------------------------------------------------
(* Registration, at any time and from any goroutine.                       *)

On(h) ==
  /\ ~crashed /\ h \notin handlers
  /\ handlers' = handlers \cup {h}
  /\ registeredAt' = [registeredAt EXCEPT ![h] = Len(log)]
  /\ UNCHANGED <<namespaces, connected, inbox, arrived, log, loop, started, finished,
                 called, crashed>>

-----------------------------------------------------------------------------
(* The read loop.                                                          *)

(* Mutant: a buffer without a bound.                                       *)
ArriveUnbounded(p) ==
  /\ ~crashed /\ arrived < MaxPackets
  /\ inbox' = Append(inbox, p)
  /\ arrived' = arrived + 1
  /\ UNCHANGED <<handlers, registeredAt, namespaces, connected, log, loop, started,
                 finished, called, crashed>>

(* The engine buffers what the transport reads.                            *)
Arrive(p) ==
  /\ ~crashed /\ arrived < MaxPackets /\ Len(inbox) < MessageCap
  /\ inbox' = Append(inbox, p)
  /\ arrived' = arrived + 1
  /\ UNCHANGED <<handlers, registeredAt, namespaces, connected, log, loop, started,
                 finished, called, crashed>>

(* What handlePacket and onMessage read from a text.  One that a parser    *)
(* rejects, or that is no message of engine.io, is dropped.                *)
Unread == Message(255, Root)
Read(text) ==
  LET packet == EngineParse(text)
      msg == Parse(packet.value.data)
  IN IF packet.ok /\ packet.value.type = EngineMessage /\ msg.ok THEN msg.value ELSE Unread

Meaning == [text \in ServerSends |-> Read(text)]

(* The namespaces of the server are among those of the model.              *)
ASSUME NamespaceAssumption ==
  \A text \in ServerSends :
    Meaning[text].type = Connect => Meaning[text].ns \in Namespaces

(* Packets other than the connect packet that handlers can be for.         *)
ForHandlers(p) == p.type \in {Disconnect, Event, ConnectError}

(* onMessage finds the namespace; a connect packet creates it, anything    *)
(* else for an unknown namespace is dropped.  An acknowledgement goes its  *)
(* own way before that.                                                    *)
TakePacket ==
  /\ ~crashed /\ loop = "idle" /\ inbox # <<>>
  /\ inbox' = Tail(inbox)
  /\ log' = Append(log, Meaning[Head(inbox)])
  /\ LET p == Meaning[Head(inbox)]
     IN /\ namespaces' = IF p.type = Connect THEN namespaces \cup {p.ns} ELSE namespaces
        /\ \/ p.type = Connect /\ loop' = "gate"
           \/ ForHandlers(p) /\ p.ns \in namespaces /\ loop' = "spawn"
           \/ p.type # Connect /\ ~(ForHandlers(p) /\ p.ns \in namespaces) /\ UNCHANGED loop
  /\ UNCHANGED <<handlers, registeredAt, connected, arrived, started, finished, called,
                 crashed>>

(* An event packet of one byte has no Event.                               *)
BareEvent(p) == p.type = Event /\ p.event = <<>>

(* The key under which handlers are looked up: an event the server names   *)
(* "connect" finds those of the connect packet.                            *)
Key(p) == CASE p.type = Connect -> Name.connect
            [] p.type = Disconnect -> Name.disconnect
            [] p.type = ConnectError -> Name.error
            [] p.type = Event -> p.event[1].name

(* A handler is for a packet when it was registered for its event, and one *)
(* of OnAny for every event.  Only the default namespace has handlers.     *)
For(h, p) ==
  /\ p.type = Connect \/ ForHandlers(p)
  /\ p.ns = DefaultNs
  /\ ~BareEvent(p)
  /\ \/ h \in AnyHandlers /\ p.type = Event
     \/ h \in Handlers /\ EventOf[h] = Key(p)

(* Mutant: the handlers of the event hide those of OnAny.                  *)
ListeningNamedOnly(p) ==
  LET named == {h \in handlers \cap Handlers : For(h, p)}
  IN IF named # {} THEN named ELSE {h \in handlers : For(h, p)}

(* The snapshot of the registered handlers a packet is handed to.          *)
Listening(p) == {h \in handlers : For(h, p)}

(* Mutant: the connect handlers are started before the gate is opened.     *)
OpenGateLate ==
  LET mine == {g \in DOMAIN started : g[1] \in Listening(Current) /\ g[2] = Len(log)}
  IN /\ ~crashed /\ loop = "gate"
     /\ \/ /\ \E g \in mine : started[g] = 0
           /\ started' = [g \in DOMAIN started |-> IF g \in mine THEN 1 ELSE started[g]]
           /\ UNCHANGED <<connected, loop>>
        \/ /\ \A g \in mine : started[g] = 1
           /\ connected' = connected \cup {Current.ns} /\ loop' = "idle"
           /\ UNCHANGED started
     /\ UNCHANGED <<handlers, registeredAt, namespaces, inbox, arrived, log, finished,
                    called, crashed>>

(* handleConnect closes waitConnected before it starts any handler.        *)
OpenGate ==
  /\ ~crashed /\ loop = "gate"
  /\ connected' = connected \cup {Current.ns}
  /\ loop' = "spawn"
  /\ UNCHANGED <<handlers, registeredAt, namespaces, inbox, arrived, log, started,
                 finished, called, crashed>>

(* Mutant: the handlers run on the read loop.                              *)
DispatchInline ==
  /\ ~crashed /\ loop = "spawn" /\ Listening(Current) \cap Stuck = {}
  /\ started' = [g \in DOMAIN started |->
       IF g[1] \in Listening(Current) /\ g[2] = Len(log) THEN started[g] + 1 ELSE started[g]]
  /\ loop' = "idle"
  /\ UNCHANGED <<handlers, registeredAt, namespaces, connected, inbox, arrived, log,
                 finished, called, crashed>>

(* One goroutine for each handler of the snapshot.  A nil Event is         *)
(* dereferenced before any goroutine starts, a nil ErrorMessage after.     *)
Dispatch ==
  /\ ~crashed /\ loop = "spawn"
  /\ started' = [g \in DOMAIN started |->
       IF g[1] \in Listening(Current) /\ g[2] = Len(log) THEN started[g] + 1 ELSE started[g]]
  /\ crashed' = (BareEvent(Current) \/ (Current.type = ConnectError /\ Current.error = <<>>))
  /\ loop' = "idle"
  /\ UNCHANGED <<handlers, registeredAt, namespaces, connected, inbox, arrived, log,
                 finished, called>>

onMessage == TakePacket \/ OpenGate \/ Dispatch

-----------------------------------------------------------------------------
(* A goroutine of safeGo.                                                  *)

(* Connect, disconnect and error handlers are given msg.Payload, which the *)
(* default parser never sets: a nil that is no raw JSON.                   *)
Nil == 0
Arguments(p) == IF p.type = Event THEN p.event[1].args ELSE <<Nil>>
Convertible(v) == v \in JsonSymbols \ {Json.wrong}

(* What WrapCallback lets through to a function with these parameters.     *)
Callable(h, p) ==
  \/ h \in AnyHandlers
  \/ /\ h \in Handlers
     /\ \/ Params[h] \in {"raw", "none"}
        \/ /\ Params[h] = "one"
           /\ Arguments(p) # <<>> /\ Convertible(Head(Arguments(p)))

(* A function that was not one is a nil entry: calling it panics, and      *)
(* safeGo recovers.                                                        *)
Run(h, k) ==
  /\ ~crashed /\ started[<<h, k>>] > 0 /\ <<h, k>> \notin finished /\ h \notin Stuck
  /\ finished' = finished \cup {<<h, k>>}
  /\ called' = IF Callable(h, log[k]) THEN called \cup {<<h, k>>} ELSE called
  /\ UNCHANGED <<handlers, registeredAt, namespaces, connected, inbox, arrived, log, loop,
                 started, crashed>>

-----------------------------------------------------------------------------
Next ==
  \/ \E h \in AllHandlers : On(h)
  \/ \E p \in ServerSends : Arrive(p)
  \/ onMessage
  \/ \E h \in AllHandlers, k \in 1..MaxPackets : Run(h, k)

Spec == Init /\ [][Next]_vars

FairSpec ==
  /\ Spec /\ WF_vars(onMessage)
  /\ \A h \in AllHandlers, k \in 1..MaxPackets : WF_vars(Run(h, k))

-----------------------------------------------------------------------------
(* Properties.                                                             *)

(* Every variable keeps its type.                                          *)
TypeOK ==
  /\ handlers \subseteq AllHandlers
  /\ registeredAt \in [AllHandlers -> 0..MaxPackets]
  /\ DefaultNs \in namespaces /\ namespaces \subseteq Namespaces
  /\ connected \subseteq namespaces
  /\ inbox \in Seq(ServerSends) /\ Len(inbox) <= MessageCap
  /\ log \in Seq({Meaning[text] : text \in ServerSends})
  /\ Len(log) + Len(inbox) = arrived
  /\ arrived \in 0..MaxPackets
  /\ loop \in {"idle", "gate", "spawn"}
  /\ started \in [AllHandlers \X (1..MaxPackets) -> Nat]
  /\ called \subseteq finished /\ finished \subseteq DOMAIN started
  /\ crashed \in BOOLEAN

Dispatched(k) == k < Len(log) \/ (k = Len(log) /\ loop = "idle" /\ ~crashed)

(* A handler registered before the read loop takes a packet gets it in one *)
(* goroutine, whichever other handlers exist; one registered after the     *)
(* packet was dispatched does not get it.                                  *)
DispatchedOnce ==
  \A h \in handlers, k \in 1..Len(log) :
    /\ Dispatched(k) /\ k > registeredAt[h] =>
         started[<<h, k>>] = IF For(h, log[k]) THEN 1 ELSE 0
    /\ k < registeredAt[h] => started[<<h, k>>] = 0
    /\ started[<<h, k>>] <= 1

(* A connect handler may call Emit: the gate Emit waits at is open before  *)
(* the handler starts (README: Emit is safe "from inside a handler").      *)
ConnectHandlerMayEmit ==
  \A h \in handlers, k \in 1..Len(log) :
    started[<<h, k>>] > 0 /\ log[k].type = Connect => log[k].ns \in connected

(* A handler that never returns does not stall the read loop (README: a    *)
(* blocking handler "does not stall the read loop or other handlers").     *)
ReadLoopDrains == inbox # <<>> ~> (inbox = <<>> \/ crashed)

(* The codecs are functions of their input, so one state is enough to      *)
(* check them in.                                                          *)
AtStart == arrived = 0 /\ handlers = {}

(* A message the client can send is read back as it was sent, alone and in *)
(* front of another packet of the same polling payload: the namespace, the *)
(* id and the array never run into each other.  Only the payload of a      *)
(* connect packet is not read back.                                        *)
RoundTrip == AtStart => \A m \in SampleMessages : ReadBack(m)

(* Whatever the server sends, an event, acknowledgement or error that the  *)
(* parser accepts has its body, which onMessage goes on to use, unless the *)
(* packet is a single byte.                                                *)
AcceptedHasBody ==
  AtStart => \A text \in SampleTexts :
               LET parsed == Parse(text)
               IN parsed.ok /\ Len(text) > 1 => HasBody(parsed.value)

(* The handlers registered through Connect are called once the namespace   *)
(* is connected (README: "executed upon successful connection").           *)
ConnectCallbackCalled ==
  \A h \in Handlers, k \in 1..MaxPackets :
    (started[<<h, k>>] > 0 /\ log[k].type = Connect /\ h \notin Stuck)
      ~> <<h, k>> \in called

=============================================================================
