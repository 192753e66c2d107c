# A TLA+ model of go.socket.io

This directory specifies the concurrent core of the Go client for Socket.IO v5
over Engine.IO v4: the engine that owns the connection, its two transports, the
acknowledgement machinery of `Emit`, the dispatch of incoming packets to
handlers and the codecs in between. TLC checks the specifications on small
instances; TLAPS proves every safety property that a passing run checks for every
instance.

`PROJECT.json` lists the runs, the source lines each definition stands for, the
mutants that show each property can fail, the hazards and the theorems.

## 1. The system

| Component | Source | State | Operations |
|---|---|---|---|
| engine.io client | `engine.io/v4/client/client.go`, `constructor.go` | `transport`, `transportMu`, the gates `waitHandshake` and `waitUpgrade`, the channels `messages`, `messagesDone`, `transportClosed` | `Connect`, `messageLoop` / `handlePacket`, `handleHandshake`, `transportUpgrade`, `Send`, `Close`, `On` |
| transport interface | `engine.io/v4/client/dep.go` | one reader goroutine per transport, the channel given to `Run` | `Run`, `Stop`, `SendMessage`, `RequestHandshake`, `SetHandshake` |
| polling transport | `transport/polling/transport.go` | `handshakeDone`, `stopCh`, `stopPooling`, back-off, ping ticker | the interface, `pollingLoop`, `poll` |
| websocket transport | `transport/websocket/transport.go`, `websocket/native/ws.go` | the connection and its lock, `stopPooling`, `messageCh`, `errorCh` | the interface, `wsReadLoop`, `Dial`, `Send`, `Receive`, `Close` |
| socket.io emit and acks | `socket.io/v5/client/emitters.go`, `handlers.go` | `ackCounter`, `ackCallbacks`, one watcher per emit with a timeout | `Emit`, `sendPacketWithAckTimeout`, `handleAck` |
| socket.io dispatch | `socket.io/v5/client/handlers.go`, `client.go` | `namespaces`, handler lists, `waitConnected` | `On`, `OnAny`, `onMessage`, `safeGo` |
| parsers | `engine.io/v4/parser`, `socket.io/v5/parser/default` | none | `Parse`, `Serialize`, `WrapCallback` |

How they interact. `Connect` of the engine starts the reader of the first
transport and `messageLoop`. Readers put raw packets into `messages`;
`messageLoop` takes them one at a time. An open packet runs the handshake on
that goroutine, and with it possibly the upgrade: stop the polling reader, wait
for its value on `transportClosed`, run the websocket, send a probe. The answer
to the probe is another packet of `messageLoop`. `Send` (called by the
application and by the `afterConnect` hook in a goroutine of its own) waits at
two gates that only `messageLoop` opens. `Close` sets `transport` to nil under
the lock, stops the reader, waits for `transportClosed`, closes `messages` and
waits for `messageLoop`. Message packets go to `onMessage` of the Socket.IO
client on the same goroutine; it starts a goroutine for each handler or
acknowledgement callback. `Emit` waits for its namespace to be connected, stores
its callback under a fresh id and calls `Send`.

What is hard here:

* channels that are nil, open or closed, replaced while others wait on them, and
  whose close panics when done twice or under a sender;
* a lock held across a wait and a dial, and fields read without it;
* snapshots (`waitUpgrade` in `Send`, handlers in `onMessage`) that are stale
  when they are used;
* an upgrade that fails in any of its four steps, with others waiting for it;
* an acknowledgement that races the timer, the error of `Send`, its own
  duplicate, or the watcher that has given up;
* a one-slot channel whose only value can be taken by the wrong waiter;
* a polling transport that is used again: its stop state is remade field by
  field while a `Stop` may be under way, and its gate may be asked for before or
  after it exists;
* a goroutine per websocket message, which must neither overtake the previous one
  nor stay behind when the loop ends.

What makes each component correct: one reader at a time; nobody sends on closed
`messages`; a `Close` that returns leaves nothing running; no application packet
is written into an upgrade; `Send` and `Close` return; an emit is settled once,
by its own acknowledgement; every handler gets every packet once and none can
stop the read loop; a transport ends only for a reason and says so once; the
polling loop of a new session polls only behind the handshake; websocket messages
keep their order; what the serialiser writes the parser reads back.

## 2. The modules

| Module | Models | Kind |
|---|---|---|
| `EngineClient` | the engine client and its transports as it sees them | specification |
| `MCEngineClient` | upgrade lists for TLC | constants |
| `EngineClientProofs` | types of the engine client, one reader at a time, readers end before `messages` is closed | proofs |
| `EngineContractProofs` | the client uses its transports within their contract; `messages` is closed once, a returned `Close` leaves nothing running | proofs (refinement) |
| `EngineSendProofs` | when `Send` writes, and on which transport | proofs |
| `Transport` | what the `Transport` interface promises and asks for | abstract specification |
| `PollingTransport` | the polling transport, inside | specification, implements `Transport` |
| `PollingTransportProofs` | gate, stop state, bodies, types, the contract | proofs (refinement) |
| `WebSocketTransport` | the websocket transport and the native connection, inside | specification, implements `Transport` |
| `WebSocketTransportProofs` | order, one receiver, types, the contract | proofs (refinement) |
| `WireFormat` | the engine.io and the socket.io codec | operators |
| `WireFormatProofs` | what is sent is read back, what is accepted has its body | proofs |
| `SocketClient` | emits, the ack table, watchers, callback goroutines | specification |
| `SocketClientProofs` | settled once, routed, not lost, no blocked hand-over, no leak | proofs |
| `EventDispatch` | handlers, namespaces, the read loop and `safeGo` | specification |
| `EventDispatchProofs` | each handler gets each packet once, connected first, types, the promises of the codecs | proofs |
| `MCEventDispatch` | handlers, texts and messages for TLC | constants |

`EventDispatch` extends `WireFormat`; the other specifications stand alone. The
engine is joined to its transports by `Transport`: `PollingTransport` and
`WebSocketTransport` implement it (`KeepsContract`), and `EngineClient`, whose own
readers are one step each, stays within it for both (`UsesTransports`). So what
`EngineClient` assumes of a reader is what the detailed transports do.

### EngineClient

Each goroutine is a label in `pc`; a step ends at a lock, a channel operation, a
call into a transport or an unlocked read of a shared field. `Connect`,
`messageLoop`, `Send(s)` and `Close(c)` are the disjunctions of their steps.

* `transportClosed` is the index of one of three channels: the one of `NewClient`
  (never used by a transport), of `Connect` and of `transportUpgrade`.
  `closedChan` says whether each is empty, holds its one value, or is closed.
  `AwaitTransport` is the receive: it takes the value, or returns at once on a
  closed channel.
* `mu` is only recorded while `transportUpgrade` holds it: the other critical
  sections contain no wait and are single steps guarded by `~mu`. `sendPacket`
  takes no lock, as in the code.
* A reader is idle, running or exited. `Deliver` forwards a packet while there is
  room; `ReaderStops` is the end after `Stop` or cancellation, `ReaderFails` a
  websocket read error. The answer to the handshake poll is delivered by the
  goroutine of `Connect` (`ConnectPollOk`).
* A Go panic sets `crashed` and no goroutine steps afterwards. Reaching such a
  state is not hidden: liveness properties name it as an outcome, and
  `MessagesClosedOnce` and `NoNilTransport` are about it.
* The server is external: it opens the session once, answers a probe once, and
  sends a bounded number of pings, messages and close packets on the transport it
  considers current.
* `Faults` says which calls may fail, `SendFrom` and `CloseFrom` in which phases
  of the connection the application calls, `HandlerCloses` whether it registered
  a close handler that calls `Close`.

### Transport

Four variables: the reader is idle, running or exited; a `Stop` that concerns it
was called; the context is done; the channel given to `Run` is empty or full.
`Prepare` is the caller of `Run` bringing a new channel and, unless it shares that
of the session, a new context. `Run` is possible only when no reader runs, `End` only for a reason (`Stop`, the
context, or a read error where `MayFail`) and into an empty channel.

### PollingTransport

One label for each goroutine: the loop, the caller of `RequestHandshake`, the
caller of `Run`, each caller of `Stop`, and the engine inside `SetHandshake`.

* `Run` and `Stop` share `stopped`, `stopPooling`, `stopCh` and `stopOnce` without
  a lock, so each access is a step. `asked` remembers a `Stop` that concerns the
  present loop, `crossed` that a `Stop` overlapped a `Run`.
* `poll` is a request that is answered, fails or is cancelled, then a select that
  takes any ready case: room in `messages`, the closed `stopCh`, the context.
  `RequestHandshake` and the loop both run it; only the loop retries.
* `ReadLimit` and `TooLarge` are the payload limit in integers of bounded width.
  A body keeps its size and how much of it was read.
* The engine is the environment. It runs the transport again only when the loop
  has ended; it takes bodies out of `messages` and calls `SetHandshake` when one is
  the open packet.
* `purpose` says what a run is for. `Connect` opens a session, or comes back with
  the id of an earlier one (`resume`: `c.sid` is kept); either way it brings a new
  context and a new `messages` and then calls `RequestHandshake`, id or not. An
  `upgrade` shares the context and `messages` of the session. The request of
  `Connect` went to the old transport, or `messageLoop` was faster and the request
  goes to this one, possibly while its `Run` is still under way. With an id the
  gate is open from the start, so that in those runs the loop and the handshake
  poll do run side by side (section 5).

### WebSocketTransport

The loop starts one receiver goroutine per turn; the receiver waits in `Receive`
and hands over through `messageCh` or `errorCh`, one place each. `Stop` leaves a
token. After its report the loop closes the connection, for which it needs the
lock that a writer holds; a write may stall. Messages are numbers in the order
the server sent them, so order and gaps are visible in `forwarded`. The engine
runs such a transport once.

### WireFormat

Texts are sequences of bytes; each JSON value is one symbol above the bytes,
since the codecs look no further than brackets. `Serialize`, `Parse`,
`ParseEvent`, `EngineSerialize` and `EngineParse` follow the code's order of
checks, with byte subtraction modulo 256. An id is written by dividing it by ten
until nothing is left (`Quotients`, `Digits`) and read digit by digit (`Number`).
`Sendable` says which messages the client makes: a namespace starts with a slash
and has no comma or bracket, an id has at most `MaxAckDigits` digits, and only a
connect or disconnect packet has a payload, an object.

### SocketClient

Each member of `Emits` is one call of `Emit`. The right to answer it moves from
the table (`Register`) to a goroutine of `safeGo` (`HandleAck`) to the user's
callback or to the `done` channel of its watcher (`RunCallback`), whose select
takes any ready case (`WatchTimer`, `WatchDone`, `WatchCancelled`). Registration
comes before the send, so an answer may arrive before `Send` returns or although
it fails. Acknowledgements are late, repeated, malformed or missing.

### EventDispatch

Packets arrive as texts. `TakePacket` runs both parsers on one (`Read`); a text
that is rejected is dropped. `onMessage` then opens the gate of its namespace on
a connect packet, takes its snapshot of the handlers and starts their goroutines
(`Dispatch`) while `On` registers more. `Callable` is what `WrapCallback` lets through.

## 3. The runs

| Run | Expected | Question and answer |
|---|---|---|
| `engine_any` | pass | Every fault, every phase, both first transports, a close handler that closes. Two readers never run at once; `messages` is never closed under a reader; both transports are used within `Transport`. 0.53 million states. |
| `engine_upgrade` | pass | Two senders, the hook and two closers around an upgrade. `messages` is closed once; no `Send` that starts after the handshake writes into the upgrade or on the transport the server has left. |
| `engine_progress` | pass | With fair goroutines and a server that answers the probe: `Close` returns and leaves nothing running, `Send` returns, although dial, write or stop fail. |
| `polling_transport` | pass | Two uses of any purpose, two `Stop` calls at any step. In a run that opens a session the loop polls only behind the answer to the handshake poll; the gate opens whatever the order; `Stop` is not lost, closes `stopCh` once and ends the loop although the server holds the poll and `messages` is full; bodies are whole; the contract is kept. 0.47 million states. |
| `websocket_transport` | pass | Two messages, two writers, a connection that breaks or stalls. One receiver that never blocks, messages in order, `Stop` ends the loop, no goroutine stays behind, the contract is kept. 40 thousand states. |
| `socket_acks` | pass | Three emits, two acknowledgement packets: settled once, routed, not lost, never blocked, no leak; every emit with a timeout is settled; answers run callbacks. |
| `dispatch_any` | pass | Three handlers and an `OnAny` handler, one of which never returns and one that is not a function: each gets each packet once, a connect handler may emit, the read loop drains. In its first state the codecs are checked: each of 120 messages the serialiser accepts is written and read back, and all texts of up to five bytes over nine classes of byte are parsed. |
| `engine_early_send` | violation | the comment "so Send() sees both gates atomically": an early `Send` writes on the new websocket while the upgrade is still under way |
| `engine_close_after_failed_connect` | violation | "`Close()` - safe to call from any goroutine" |
| `engine_close_races_packet` | violation | "all public methods are goroutine-safe" |
| `engine_send_after_close` | violation | the comment "will see nil and fail fast" |
| `dispatch_connect_callback` | violation | "These callbacks will be executed upon successful connection" |

Bounds. One open packet and one upgrade are all the protocol has, so one sender
and one closer next to the hook and the close handler meet every pair of steps;
`engine_upgrade` has two of each because closing twice and mixing two writers
need two. `MessageCap` 1 makes the full buffer happen in `engine_any` and
`engine_progress`. `MaxServerPackets` 1 or 2 lets a ping, a message or a close
packet fall into every window of the upgrade and the shutdown. In `socket_acks`
two acknowledgements allow a duplicate, or a malformed and a good one, for one
id. `polling_transport` has two `Stop` calls and two runs, the least for a second
close and for a stop state that is reused; the limits 2 and 3 with bodies of 2 and
3 bytes and 3 as the largest integer are a body at the limit, one above it, and
the limit whose successor overflows (no limit at all, 0, is left to the theorem
`BodiesWhole`). `websocket_transport` has two messages, so that one can overtake
the other, and two writers, so that one can hold the lock while the other waits. `MaxAckDigits` is 2 instead of 18 so that an id of too many
digits is among the texts of five bytes. The theorems remove the bounds for the
safety properties they state.

Deadlock is not checked: a client whose calls have all returned, or which is
closed, rightly stops. Where nobody may wait for ever the runs check it as
liveness.

Fairness. Weak fairness of `Connect`, `messageLoop`, each `Send`, each `Close`
and the stopping of each reader (`FairSpec`): the Go scheduler runs a goroutine
that can run, and every call inside a step returns (dials, posts and Stop return
or fail; timers fire). Nothing obliges the application to call, a fault to
happen or the server to speak. `AnsweredSpec` adds a server that greets a
websocket client and answers a probe; without it no `Send` can be promised to
return after an upgrade. `SocketClient` and `EventDispatch` ask for weak fairness
of emits, callback goroutines, watchers and the read loop, not for
acknowledgements or packets. The transports ask for weak fairness of their own
goroutines and of a `Stop` or `Run` in progress: the server may hold a poll for
ever or stay silent, a write may stall, and nobody has to take messages.

Restrictions that matter. `engine_progress` calls `Close` only after `Connect`
returned nil and has neither a read fault nor a close handler that closes;
`engine_upgrade` calls `Send` only once the handshake gate is open and has no
write fault. Section 5 says what happens outside them.

## 4. The proofs

Assumptions on constants: `ThreadAssumption`, `ConfigAssumption`,
`EmitAssumption`, `PollingAssumption`, `WebSocketAssumption`, `HandlerAssumption`,
`PacketAssumption`, `NamespaceAssumption`, `WireAssumption` and
`SampleAssumption`. They say that the names of goroutines differ, that constants
have their types, that the namespaces the server names are in the set the types
mention, and that the sample messages are ones the client makes. No bound on
goroutines, packets, buffer size, runs, messages, texts or emits. Some theorems
about the engine need more of its callers and its network; what they need is a
premise in their statement: `CloseAfterConnect`, `SendAfterHandshake`,
`ReliableNetwork`.

`EngineClientProofs`, first part: `TypeCorrect`. The one hard step is that the
target of an upgrade is a transport: `UpgradeTarget` chooses the first hit of a
non-empty set of indices, which exists because the order on the naturals is
well-founded.

`EngineClientProofs`, second part: `OneReader` (`Spec => []TransportExclusive`) and
`ReadersEndBeforeClose` (`Spec => []ReadersEndFirst`). Neither property is
inductive. The argument:

1. a running reader reports to the very channel `transportClosed` refers to, and
   that channel is still empty (`ReaderReports`), so whoever receives from it
   knows that no reader runs (`Awaited`);
2. that stays so because nobody starts another reader meanwhile: the only starter
   is an upgrade, there is only one open packet (`OneOpen`, `Silent`,
   `PolledOpen`), so there is at most one upgrade, on a channel of its own that is
   still unused (`UpgradedOnce`);
3. an upgrade and a `Close` exclude each other through the lock (`LockHeld`,
   `Taken`), and an upgrade and the clean-up of a failed `Connect` exclude each
   other because the clean-up runs only when the open packet has not come
   (`Requesting`);
4. so once `messages` is closed no reader runs and no upgrade can start one
   (`Closed`).

The conjunction `IInv` was checked with TLC on the instance of `engine_any`
before it was proved. The proof has one lemma for packets entering `messages`,
one for packets leaving it, one for a transport that starts alone, and one for
each goroutine.

`SocketClientProofs`: `TypeCorrect`, `EmitSettledOnce`, `AcksRoutedToOwner`,
`NoAckLost`, `NoBlockedHandOver` and `NoLeakWhenSettled`. The invariant adds to
the types and to `RoutedToOwner` that an emit has no id before it registers
(`Staged`) and that the right to answer it is in one place
(`AnswerInOnePlace`, `AnswerKept`): the table, one goroutine, the channel, or
used up. With it, "at most once" is a count of one token.

`EngineContractProofs`, first part: `TransportsUsed`, that `EngineClient` implements
`Transport` twice. `OwnChannels` says that the two transports never share a report
channel; the channel of a running one being empty is `ReaderReports` of `IInv`.
Then each step of the client runs, stops, ends or empties one transport, or leaves
both alone.

`EngineContractProofs`, second part: `ClosedOnce` and `ShutdownClean`, under `CloseAfterConnect`
(every `Close` starts after `Connect` returned nil, none from the close handler).
Without it both fail, as section 5 says. On top of `IInv`, `KInv` says that one
`Close` at a time is past taking the transport (`OneTeardown`), that closed
`messages` were closed by a `Close` that is joining or has returned (`WhoClosed`),
and what the end of `messageLoop` and a joined `Close` imply (`LoopDone`,
`Joined`).

`EngineSendProofs`: `UpgradeFenced` and `SentWhereServed`. The first holds under
`SendAfterHandshake` (every `Send` starts when the handshake gate is open) with
every fault and both first transports; without the premise it fails, which is the
run `engine_early_send`. `SInv` says that the handshake gate opens once and that
by then the only open packet has been acted upon (`HandshakeOnce`), that every
`Send` in progress found it open (`SendersLate`), and so that its snapshot holds
the upgrade gate if that is shut (`Fenced`): the snapshot is never stale in the
way that matters. The second says more and needs more. `VInv` says for a client
that starts on polling: the websocket runs once, as the target of the upgrade
(`Upgrades`), and is stopped only after `Close` took it away (`StopsLast`); the
upgrade gate is shut from before `transport` changes until the upgrade packet is
on the wire (`Probing`); so a `Send` about to write holds polling only if the
probe has not been sent, and a running websocket only if the upgrade packet has
(`Writes`). A client that starts on a websocket and is offered polling shuts the
upgrade gate, and its probe goes where the server does not look for one, so the
gate never opens again and no `Send` follows it there (`FromWebsocket`). The
premise `ReliableNetwork` excludes failing writes and reads and a cancelled
context, not failing dials, stops or handshakes, and it is needed: with any one of
the three faults added to `EngineClient_upgrade.cfg`, TLC finds a `Send` that
writes where the server does not listen. When the upgrade packet cannot be
written, the gate opens although the server never switched.

`PollingTransportProofs`, in three independent groups. Gate, for runs of every
purpose: the loop is past its gate only when that is open (`Gated`), and in a run
that opens a session the gate is shut, `messages` is empty and nobody is in
`SetHandshake` until the handshake poll has delivered its answer (`Asking`). This
gives `HandshakePolledFirst` and `GateOpens`. Stop: what each stage of `Run` has already reset
(`Reset`), that a single `Stop` is between the flag and the token (`OneStop`) and
what a finished one leaves behind (`StopSeen`), which gives `StopKept`,
`ClosedOnce` and, with the reasons of a loop on its way out (`Reasons`), the
refinement `ContractKept`. Bodies: `BodiesInv`, whose core is that a body read up
to the limit without being rejected has been read whole, also where the sum
overflows; it gives `BodiesWhole` and the types.

`WebSocketTransportProofs`: the messages received so far are the forwarded ones
and at most one more, and that one is with the receiver, in `messageCh` or with
the loop (`BetweenTurns`, `InTurn`, `HoldsMessage`); a receiver in flight finds
both places free (`FreePlaces`). From it `MessagesInOrder`, `ReceiverAlone`,
`TypeCorrect` and the refinement `ContractKept`.

`EventDispatchProofs`: `Accounts` says for each handler and packet how many
goroutines there are before the packet is taken, between gate and dispatch, and
after; `InTime` that nobody is registered after a packet that is still to come.
From it `HandlersGetPackets` and `ConnectedFirst`, for any texts: the proofs use
nothing of the parsers. `ReadBackAlways` and `BodiesAlways` state the two
properties of the codecs for any samples; they follow from the next module.

`WireFormatProofs`: `SentIsReadBack`, `ParsedHasBody` and `FramedIsUnframed`, for
texts of any length. The first takes the packet apart in the order in which
`Parse` does: the comma behind a namespace is the first comma or bracket
(`CommaAt`), the digits of the id are all the digits in front, because a body
starts with a bracket (`WidthIs`), and the bracket that closes the array is the
first one, because nested values are symbols of their own (`EventRead`). The id
needs induction over its digits. The induction theorems of the library cannot be
instantiated here, so `UpTo` states induction for a set of numbers instead of a
predicate, from the existence of a least element, and `Recursion` that a function
on `0..N` may be defined step by step; with them `QuotientsAre` and `NumberIs`
unfold the two recursive functions and show that reading passes the quotients of
writing backwards.

TLC finds each of these inductive invariants true on the instance of its run as
well (`KInv` on that of `engine_progress`, `SInv` and `VInv` on that of
`engine_upgrade`).

Only model-checked: all liveness (`CloseReturns`, `SendReturns`, `EmitIsSettled`,
`AnswerRunsCallback`, `ReadLoopDrains`, `StopEnds` of both transports,
`NoReceiverLeft`), which is out of the prover's reach.

## 5. Disagreements with comments and documents

With a run:

* A `Send` that starts after `Connect` returned but before the open packet is
  handled reads `waitUpgrade` as nil. It wakes when the handshake gate opens,
  after the upgrade has been published, and writes on the new websocket while the
  upgrade is still under way.
* After a failed handshake request `Connect` has received the only value of
  `transportClosed`; `c.transport` is left in place, so a later `Close` waits for
  ever.
* `sendPacket` uses `c.transport` without lock or nil check. A ping handled while
  `Close` runs dereferences nil.
* A `Send` that starts after `Close` on a client whose gates never opened waits
  at them for ever; the nil transport is only looked at after the gates.
* `handleConnect` passes `msg.Payload`, which the parser never sets, so
  `WrapCallback` never calls a connect callback with one parameter.

In the model, without a run of their own:

* `Close` before `Connect` waits on the channel of `NewClient` for ever.
* `Close` while `Connect` waits for its handshake poll: the goroutine of
  `Connect` may then send on closed `messages`; its select also has the closed
  `stopCh` ready, so either may happen.
* On a websocket the open packet may be handled before `Connect` makes
  `waitHandshake`; closing the nil channel panics.
* A close handler runs on `messageLoop`; if it calls `Close`, neither returns.
* When the websocket dies between the probe and its answer nobody opens the
  upgrade gate, and the `Send` of the hook never returns.
* A malformed open packet leaves the handshake gate shut although `Connect`
  returned nil.
* The callbacks of an emit with a timeout run on the watcher, which does not
  recover from their panics.
* Handler goroutines pile up without a bound when handlers are slow.
* A `Stop` that overlaps a `Run` of the polling transport may be forgotten (the
  flag or the token is reset after it) or close `stopCh` twice (the sync.Once is
  remade after the channel). The engine overlaps the two when `Close` is called
  while `Connect` runs the transport, and when a client that started on a websocket
  is upgraded to polling before `Connect` asks for the handshake: the request may
  then reach the polling transport before its `Run` has stored `messages`, fail, and
  `Connect` stops the transport that `messageLoop` is running.
* The comment on `handshakeDone` (`polling/transport.go:47-50`) says that the loop
  "never issues a GET while RequestHandshake()'s own poll is in flight". That holds
  for a run that opens a session (`HandshakeFirst`). When `Run` is given a session
  id it opens the gate at once, while `Connect` calls `RequestHandshake` in any case
  (`client.go:90`): in a second `Connect` after the first context was cancelled, with
  `c.sid` kept, and in an upgrade to polling that overtakes the first `Connect`. The
  model reaches states in which both polls are in flight on one session.
* A polling payload of several packets is handled as one: the first is
  dispatched, whatever follows its array is dropped.
* An event or error packet of a single byte passes the parser without a body,
  which `onMessage` dereferences. `AcceptedHasBody` shows that no longer text does.
* A failed upgrade ends the handshake before the hook that sends the socket.io
  connect packet, so an `Emit` then waits for its namespace for ever.
* `Stop` ends a websocket loop at once, but the connection is closed only when a
  stalled write has left the lock; until then the receiver stays.

Seen in the code and outside the models: a POST of the polling transport reports
success whatever the status of the response; `WithTransport` alone leaves the
given transport out of `supportedTransports`, so it is never given the session
id.

## 6. Not modelled

* URLs, headers and the inside of JSON values; a custom payload parser.
* The ping ticker: it is reset and stopped, and nothing reads it.
* A second use of a websocket transport: the engine runs it once. (A token left
  by a late `Stop` would end the second loop at once.)
* A second `Connect` of one client in `EngineClient`. The polling module does model
  its `Run`, with the id that was kept and with a new context.
* Memory-model effects of the unlocked reads beyond reading an old or a new
  value; a data race on an interface value is not modelled further.
* `On` of the engine (handlers are constants of the model), options, logging,
  generated mocks, test scaffolding.

## 7. Plan

Done: the engine client, emits and dispatch; the transports, their contract and
the three refinements; the codecs; the proofs of section 4.

Left: the composition of the two clients, what a failed upgrade, a lost probe or a
`Close` means for an `Emit` in progress.
