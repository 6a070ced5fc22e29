# A TLA+ project for ropemother

ropemother is a Python library for message-oriented programs: publish and
subscribe, requests and replies, a capture record with history queries, an
in-process broker and a freestanding one that serves local processes over
sockets, each for threads and for asyncio tasks. These modules model the part
of it where threads, tasks, failing writes, restarts and the order of things
decide whether it works. TLC checks them on small instances; TLAPS proves some
of the results for every instance.

Source paths below are relative to `src/ropemother/`.

## The system

| Component | State it keeps | Operations | What makes it correct | Where |
|---|---|---|---|---|
| Broker core (`broker/directcore.py`, `subscription.py`) | symbol tables, registration list, receivers, bus and topic sequences, bindings | `bind_emitter`, `bind_subscription`, `register_*`, `emit_from`, `add_receiver`, `remove_receiver`, `set_capture_sink` | a message goes to exactly the matching subscriptions, after it was recorded; IDs are unambiguous and always registered | `DirectBrokerCore`, `CapturedBus`, `BrokerRaces` |
| Symbols, formats, selectors (`message/*`, `format/*`) | tables of IDs | `ensure_*_id`, selector matching, format resolution | one ID for a name, one name for an ID; client and broker resolve alike | `DirectBrokerCore`, `BrokerRaces`, `TypeFormats` |
| Capture control (`capture/controller.py`, `sink.py`, `memorysink.py`, `writer.py`, `bootstrap/*`) | capture state, sink, bootstrap buffer | write a record, activate a sink, flush the buffer, apply the policy | nothing recorded is lost or reordered, nothing delivered unrecorded, bounded before activation | `DirectBrokerCore` |
| In-process buses (`broker/direct.py`, `endpoints.py`, `dispatch.py`; `asyncdirect.py`, `asyncendpoints.py`) | a queue for each receiver, one condition or event for all | emit, `receive*`, `receive_from`, handlers | a message goes to one reader, once; no delivery missed by a waiting reader, under cancellation too | `LocalReceivers` |
| Transport session, broker side (`transport/session.py`, `sessionstate.py`, `endpointregistration.py`) | subscriptions, owners of requests, emitter bindings, registrations sent, delivery queue, targets | one handler for each frame, the delivery worker, `close` | deliveries are decodable, in order, once; replies reach their requester only; emissions are accepted as at the client | `TransportSession`, `SessionLifecycle`, `Endpoints` |
| Transport client (`transport/client.py`, `message/registrationtable.py`) | known registrations, held deliveries | register, subscribe, emit, receive | calls have an answer under way; nothing is lost while waiting for something else | `TransportSession`, `Endpoints` |
| Session runner (`transport/sessionrunner.py`, `socketconnection.py`) | stop flag, first error, two threads | `run`, `_run_deliveries`, `request_stop`, `join` | ends when it should, reports only real failures | `SessionLifecycle` |
| Asyncio transport (`transport/async*.py`) | delivery queue with waiters, two tasks, the send lock, the client's queues | as above, and cancellation | as above; results follow the deliveries they acknowledge; nobody waits for ever | `AsyncTransport` |
| Frames and connections (`transport/frames.py`, `codec.py`, `connection.py`, `socketframing.py`, `util/lengthprefixed.py`, ZeroMQ) | bytes not yet decoded | encode, decode, send, receive | the same frames come out, whatever the pieces and the senders | `FrameCodec`, `WireFormat` |
| Request and reply helpers (`client/request.py`, `asyncrequest.py`, `procedure.py`) | replies held for other calls, open requests, retired ones, batches | send, receive, cancel, reply, `handle*` | each reply to its caller, once; limits; no request forgotten | `RequestReply`, `Endpoints` |
| Endpoint factories and provisioner (`client/*endpoint*.py`) | what a creation has made so far | create a client, service, publisher, requester, responder | a refused creation leaves nothing behind; helpers' calls are answered or fail for a reason | `Endpoints` |
| History (`capture/history.py`, `historyservice.py`, `filehistory.py`, `filesink.py`, `jsonrecords.py`) | the capture file, its index, a registration table | append, `select`, `select_all` | pages are exact, names are right, paging ends | `MessageHistory` |
| Broker service and hosts (`service/*.py`) | sessions, listener, socket path, started/stopped/closed | `serve_forever`, `request_stop`, `close`, `start` | it stops when asked, reports failures, leaves no session, socket or path behind | `ServiceLifecycle` |
| Descriptors, environment, command line, demonstrations | none of their own | | | not modelled |

How they interact: a `TransportClient` exchanges frames with one
`BrokerTransportSession`, whose reader thread calls the shared
`DirectBrokerCore`; the core writes registrations and messages through the
`CaptureController` and calls each matching receiver's `deliver`, which for a
session means putting the message into that session's bounded queue from the
emitting session's thread; the session's worker thread empties the queue into
the socket. `MessageBusService.serve_forever` accepts connections, starts a
runner for each, and between two accepts lets the extensions, the history
service among them, answer what they have received. The asyncio service does
the same with tasks, whose calls into the core never await. Request, procedure
and history helpers are made of emitters and receivers of any of these buses by
the factories, or by the provisioner that the transport clients are.

What is hard: the core has no lock of its own, only the controller has; the
session's state is shared by its reader, its worker and every emitting thread;
registrations are sent once and overtake each other; closing a connection
provokes errors in the threads that use it; tasks are cancelled at any await;
two callers on one helper read each other's replies; writes of the record
raise; the capture file survives its broker; the client checks an emission
against an emitter's policy and the session against a table of its own.
PROJECT.json lists these hazards line by line with the properties that watch
them.

## The modules

Each module's VARIABLES name the attributes they stand for, each action the
method; PROJECT.json's `map` gives the lines of every definition.

**DirectBrokerCore** is the core with one caller inside at a time, as it runs
under asyncio or one thread. A call is a small program: `call.todo` holds the
symbols it has still to register, so that a raising capture write stops it
where the code stops, with the symbol already in its table. `captureState`,
`buffer` and `captured` are the controller, the bootstrap buffer and the sink;
`MaxSinkFailures` bounds the sink writes that raise. `Log` is the record as a
reader would see it, whichever of buffer and sink holds it.

**CapturedBus** is what the core promises: publish and record in one step, to
exactly the subscriptions that match; the record only grows.
`ImplementsCapturedBus` says that DirectBrokerCore implements it, through the
refinement mapping of `Bus`: registries, capture states and pending calls
vanish, the receiver list becomes each target's subscription.

**BrokerRaces** is the same core under the threaded service, one step for each
access to shared state that another thread's step may follow: read the table,
store, list, capture; walk the receiver list entry by entry; search and delete.
It keeps one kind of symbol and leaves capture states to DirectBrokerCore.

**LocalReceivers** is the receiving side of both in-process buses. `style`
says which one it is: between threads a step is one access to a queue or one
hold of the condition's lock, a task runs until it awaits. Emitters fill the
queues and notify; readers take batches or wait in `receive_from`, and a task
may be cancelled there.

**TransportSession** joins one client and its session: `requests` and `wire`
are the connection, `reader`, `worker` and `emitting` say where the threads
are. `sent` is what the session believes the client knows, `known` what it
does know. `owners` is the map from request to reply subscription, which an
emission fills before the core shows the request to anybody and a reply on any
other session's thread takes.

**SessionLifecycle** is how a session ends: the two loops of the runner, the
close of the channel under them, the overflow seen from the emitting thread.
Frames have no content there.

**AsyncTransport** is the asyncio session with its runner and its client.
`reader` and `worker` are the two tasks, a step what one does from one await to
the next; `line` is the channel's lock with those who wait for it in asyncio's
order, `waiting` the futures of emissions whose deliveries are still in the
queue. The socket takes `Room` frames before a send waits. The client registers,
subscribes, emits, receives from one or several receivers, and goes away; other
tasks emit; the service stops the session.

**FrameCodec** has the encoder and the decoder of each kind of frame, as
operators on records: what is JSON has no ID types and no optional values; and
the set of all frames, `TransportFrames`, as `frames.py` declares their fields.
**WireFormat** sends frames through them: the channel's lock, the length-prefixed
stream written and read in any pieces with headers as digits, sends cut off in
the middle, the end of the stream, blocking and nowait receives; or a medium of
whole frames, as ZeroMQ and the in-memory connection are.

**RequestReply** is the request helpers for threads and tasks. Callers share
one RequestClient: `pending`, `held` and `retired` are its tables, `replies` the
queue of the receiver all replies come to. Workers share one RequestService,
answer on their own or in the loop of a ProcedureService, whose batch an
exception drops. `overlapped` records that two callers were inside at once.

**TypeFormats** is how a type and format policy is made and what it resolves
to, and **Endpoints** the factories: each creation is the calls it consists of
(`CallsOf`), on a bus or over a transport, one of which may be refused because
the broker lacks a format. Clients then call and services answer, each emission
checked as the client's emitter and the session's table of bindings check it.

**MessageHistory** is the capture file and its reader: `log` are the lines,
`lineOpen` that the last has no end yet; a line can be written in two parts and
left unfinished; a restart appends to the same file with IDs and sequences
counted from 0. A selection refreshes the index and reads the page in two
steps, with writers in between, and select_all asks again with the cursor; its
requests and pages are captured into the file it reads. An exception ends the
broker, since the service runs in the accept loop.

**ServiceLifecycle** is the service around the sessions: the server's loop, its
stop and close by others at any point, the host, the socket and its path. A
session is one entity there, which ends as SessionLifecycle says.

The `MC` modules hold only constants and symmetry for TLC.

## What the runs check

| Run | Shows | Bounds |
|---|---|---|
| `capture_core` | types; the record can be interpreted (`CapturedInterpretable`), is ordered, is ahead of delivery; registry consistent; the core implements `CapturedBus` | two emitters, one of them registering as it emits; one receiver; a format registered on its own; two messages; one failing write; a buffer of 5 records, 1 byte |
| `threaded_routing` | capture before delivery; each message once to each receiver and to all that match unless one is removed meanwhile, each session's in order (`RoutedOnceInOrder`); an ID captured early is explained by a thread on its way | two threads, two receivers, two messages each |
| `local_receivers` | every message goes to one reader, once and in order, or is dropped by a call that raised; no waiting reader sleeps over a message | one emitter, two readers with a call each, two receivers, two messages, batches of two, exactly or at least; refused bounds |
| `session_delivery` | every delivery decodes, nothing is lost or reordered from the target to the receiver, racing replies reach only the requester that asked and the first always does, every call has exactly one answer under way | two topics, two other sessions that reply, one of them also publishing; three messages with one subscription, two with two |
| `session_lifecycle` | no invented failure, nothing left behind, emissions return, both threads end | one other session, a queue of 1, two targets |
| `async_session` | results follow the deliveries they acknowledge and registrations are in time (`FramesInTime`), nothing is lost or reordered, only real failures are reported, calls and sessions end | two topics, two subscriptions, one unlisted name, a queue of 2, a socket that takes 1 frame, two messages |
| `wire_format` | the frames that arrive are those sent, in the lock's order, up to one that was cut off; the end is told last | every kind of frame with the values easily mistaken (zero, none, empty), two senders, base 4, reads of up to 4 bytes, one cut-off send |
| `request_reply` | own replies only, once; callers that take turns lose no reply and never wait for one already held; the limits; each service request answered at most once and never forgotten | two callers and a worker, one caller and two workers, or one of each; two requests, two receives for a caller, one fault; limits that one or two requests reach |
| `endpoints` | session and client accept alike; a refused creation leaves nothing subscribed but in one case; each call that raises has one of four causes; every other call is answered | four plans for three connections: both transports, each bus; up to two helpers for each, three calls, four formats |
| `history` | no message gets a wrong name, pages are exact while the file is in sequence order, the broker ends only for a cause, select_all ends unless its pages outgrow what they take | two topics, two messages of one writer, one restart, pages of 0, 1 and 3, three pages |
| `service_lifecycle` | when serve_forever is over no socket, path or session is left unasked, failures are raised, a stop ends it | threads and tasks; one owner with three calls, two clients; a path that is free, taken or replaceable |
| `lost_registration` | the disagreement below | as `capture_core`, a buffer of 3 records, no failing write |

The bounds let each interesting case happen. The smallest counterexamples of
the mutants use one or two of everything: two symbols of a kind for an ID
clash, two receivers for a skipped one, a queue of 1 that is full with 1, a
request and two replies for a race, three messages and pages of 1 for a page
with a cursor on both sides. Every checked property has a mutant of the code's
model that violates it.

`MaxMessages`, in AsyncTransport `MaxEmissions`, counts all emissions of a run,
in MessageHistory those of the
writers for each run of the broker, and in TransportSession it depends on how
many subscriptions there are, since each message then has more ways to go.
`MaxSinkFailures`, `MaxFaults` and `MaxCancels` bound failures,
`MaxCalls`, `MaxReceives`, `MaxRequests`, `MaxQueries`, `MaxPages`,
`MaxRestarts`, `MaxTargets`, `MaxSubscriptions` and `MaxHelpers` what their
names say. Numbers in headers have two digits of base 4 in place of four bytes.
Symmetry is used only in runs that check invariants, for sets no definition
tells apart.

CHECK_DEADLOCK is off everywhere: all counters are bounded, and a program that
has used them up, a session that has ended, a client that waits for a message
nobody sends and a broker that is down may stop.

### Where the code and the documents disagree

`lost_registration` (`CapturedWithItsMeaning`), taken from README.md: a symbol
is in its table before its registration is captured; when that write raises,
nobody writes it again, and later messages are captured with an ID nobody can
read.

Other behaviour that a reader may not expect is in the models and is what the
passing properties except:

- The walk over the receiver list skips a receiver when another thread deletes
  an earlier one (`broker/directcore.py:760`): `EveryMatchGetsIt` asks for all
  receivers only where none was removed during the walk.
- Two threads that take the same table length give two names one ID
  (`message/symbols.py:155`): `EveryIdExplained` asks that the record explains
  an ID a message was captured with, not that no other name has it.
- The worker marks a registration as sent, the reader leaves it out of its
  result, and the client's new emitter raises until the worker's frame has been
  read (`transport/endpointregistration.py:43`): `EveryDeliveryDecodes` speaks
  of deliveries. Between tasks it cannot happen (`FramesInTime`).
- A session keeps emitters under topic, producer and type, and finds one for an
  unlisted type only when there is no such key
  (`transport/sessionstate.py:52`, `129`): an emitter can lose a type it was
  registered for to a later one, which `Agreed` excepts.
- The cursor is a sequence number, and a restarted broker appends to the same
  file with numbers that start again: `ExactInSequence` speaks of files in
  sequence order, `NeverMisnamed` of messages whose registration was written.
- select_all over all topics in pages of at most two never catches up with its
  own messages (`Outpaced`).
- Two callers at once on one request helper may wait for replies the other one
  holds; the properties with `~overlapped` speak of callers that take turns.
- The close of a service by another while a connection is in the server's hands
  leaves that session running (`overtaken`).
- `EndsClean` excepts sessions cut off by an overflow, which can leave a target
  in the core; an asyncio session whose reader is suspended in the socket when
  the overflow closes it ends only with a stop (`NobodyWaitsForEver`).
- A service whose reply formats the broker refuses has subscribed by then, and
  nobody has its receiver (`ReceiversOwned`).

### Fairness

All fairness is weak, and owed only by threads and tasks that the interpreter
schedules and that wait for nothing but what their step needs:

- SessionLifecycle: the reader, the worker, the thread inside `request_stop`
  and emissions in progress.
- AsyncTransport: the session's two tasks, and the client inside a call that
  reads frames.
- LocalReceivers: emissions and receive calls that have begun.
- ServiceLifecycle: the server, the calls of stop and close that have begun,
  the thread that joins, and the sessions.
- MessageHistory: a line once begun, the client's loop, and the broker's loop
  calling the history's handler; each choice between success and failure is
  left open.
- Endpoints: a program that serves calls its service's handle in a loop, also
  after it has raised.

Peers, new frames, new calls, failures, cancellations and stops come or do not.
A peer that stalls for ever is allowed, and a send to it blocks for ever unless
the connection is closed. DirectBrokerCore, BrokerRaces, TransportSession,
WireFormat and RequestReply have no fairness; that a client's call is answered
is stated there as an invariant, `AnswerUnderWay`.

## What is proved

The theorems hold for every value of the constants, from the `ASSUME`s of the
modules alone; each is proved from an inductive invariant that TLC has checked
on the run of its module.

| Module | Theorem | States |
|---|---|---|
| `DirectBrokerCore_proofs` | `TypeCorrect` | `[]TypeOK` |
| | `RegistryCorrect` | `[]RegistryConsistent` |
| | `CapturedReadable` | `[]CapturedInterpretable` |
| | `RecordGrows` | `LogOnlyGrows`, an action property |
| | `DeliveredWasRecorded` | `[]DeliveredIsRecorded` |
| | `RecordInOrder` | `[]RecordedInOrder` |
| | `ImplementsBus` | the refinement, `ImplementsCapturedBus` |
| `BrokerRaces_proofs` | `IdsExplained` | `[]EveryIdExplained` |
| | `CaptureComesFirst` | `[]CapturedBeforeDelivered` |
| | `RoutingSound` | `[]RoutedOnceInOrder` |
| | `AsyncFailuresAreReal` | `[]OnlyRealFailures` of AsyncTransport |
| | `FramesComeInTime` | `[]FramesInTime` of AsyncTransport |
| | `AsyncDeliveriesKeepOrder` | `[]NothingLostOrReordered` of AsyncTransport |
| `TransportSession_proofs` | `RepliesReachTheirOwner` | `[]RepliesFindTheirOwner` |
| | `DeliveriesDecode` | `[]EveryDeliveryDecodes` |
| | `DeliveriesKeepOrder` | `[]NothingLostOrReordered` |
| | `CallsGetOneAnswer` | `[]OneAnswer`, the counting part of `AnswerUnderWay` |
| `SessionLifecycle_proofs` | `FailuresAreReal` | `[]OnlyRealFailures` |
| | `LeavesNothing` | `[]EndsClean` |
| | `FramesTravel` | every frame decodes to itself |
| | `FrameRead` | the stream's decoder takes a frame when its bytes are there, and its bytes only |
| | `FramesArrive` | `[]FramesArriveAsSent` of WireFormat |
| | `EndIsLast` | `[]EndComesLast` of WireFormat |
| `ServiceLifecycle_proofs` | `NothingLeft` | `[]NothingLeftServing` |
| | `FailuresAreReported` | `[]FailuresReported` |
| | `HistoryNamesRight` | `[]NeverMisnamed` of MessageHistory |
| | `HistoryEndsForACause` | `[]EndsForACause` of MessageHistory |
| | `HistoryIsExact` | `[]ExactInSequence` of MessageHistory |
| `RequestReply_proofs` | `RepliesGivenOnce` | `[]OwnReplyOnce` |
| | `RequestsAnswered` | `[]RequestsAccountedFor` |
| | `LimitsHold` | `[]LimitsKept` |
| | `NobodyWaitsInVain` | `[]NobodyStranded` |
| | `RepliesKept` | `[]NoReplyLost` |
| `Endpoints_proofs` | `SessionsAcceptAlike` | `[]AcceptedAlike` |
| | `OwnReceivers` | `[]ReceiversOwned` |
| | `CausesKnown` | `[]FailuresExplained` |
| | `DefaultEmissionSupported` | an emission without arguments is one the emitter's policy supports, whatever the program lists |
| | `FrameKeepsPolicy` | the policy the broker makes from a client's frame is the client's own |
| | `ReceiversGiveOnceInOrder` | `[]GivenOnceInOrder` of LocalReceivers |

Four components are proved in the module of a neighbour, which extends both:
LocalReceivers with Endpoints, whose helpers read its receivers,
MessageHistory with ServiceLifecycle, whose accept loop calls it,
AsyncTransport with BrokerRaces, the core and a session where threads and tasks
interleave, and WireFormat with SessionLifecycle, whose threads read and write
such a connection. Their specifications are therefore called `ReceiversSpec`,
`HistorySpec`, `AsyncSpec` and `WireSpec`.

`SequenceLemmas` has what these proofs share: what an append, a tail, a removal
and a split do to a sequence, to its range, to its injectivity, and to `Ahead`,
the elements a walk has still before it; two queues one after the other;
sequences joined and cut; the least and the greatest of some numbers; and how
many members a set of places has up to one of them, which is how a message in a
queue is matched with one in a history.

What the constants are assumed to be: numbers are numbers; threads that play
different parts are different (`Reader`, the worker, the stopper, the emitting
threads); a request client has callers, finitely many, since the limit on
pending requests is exceeded by at most one for each caller but one; a plan
asks for helpers, publishers and emitters only, each for a known purpose, and
the format that a helper registers by default encodes what the helper sends,
as the formats of `client/*endpoint*.py` do (`HelpersAssumption`); in
AsyncTransport topics, unlisted names and the shared registration are different
symbols, and the queue and the socket have room for one (`AsyncAssumption`);
in WireFormat what is sent is frames, of any kind and with any fields, and the
base of a header's digits is at least two (`WireAssumption`).
BrokerRaces needs no assumption.

### The core

`TypeOK` is not inductive: a message takes the IDs of its names from the
tables, so they must be there. `BindingInv` adds that whatever an emitter or a
call in progress relies on is either in a table or still in `call.todo`, and
the two are proved together. `RegistryCorrect` needs that every ID lies below
the next one of its kind (`RegistryInv`): this is where the cardinality of the
table as the next ID is shown to be fresh. `CapturedReadable` needs
`CaptureInv`: the buffer is what the sink has plus what the flush has still to
write, every symbol in a table has its registration written or refused, and
the record is interpretable also while it moves from buffer to sink.
`RecordGrows` follows action by action, since only an append and the exchange
of buffer and sink touch `Log`. `DeliveredWasRecorded` follows from it
(`InboxRecorded`): what a receiver holds was in the record when it was
delivered, and the record keeps it.

`RecordInOrder` needs `OrderInv`: the bus and topic numbers of a recorded
message lie below the next ones (`Counted`, which also says that a topic keeps
the ID it is counted by), the record so far is in order (`Ordered`), and a sink
that came to an empty buffer has been handed registrations only while its
activation lasts (`LateSink`). `ImplementsBus` needs
`TargetsInv`: the list of receivers names no target twice, so that a search of
the list and a function from receivers to filters agree (`FilterIn`). Each
action of the core is then a step of CapturedBus or leaves its variables alone,
one lemma per action.

### The core between threads

`EveryIdExplained` speaks of what was captured; a message gets its ID earlier.
`ExplainedInv` therefore says the same of every entry of the table, of what a
thread has bound and of a message being emitted: its registration is in the
record or a thread is at one of the steps that put it there, which it cannot
leave otherwise. `CapturedInv` adds the position of the emitting thread.

`RoutingSound` rests on what a walk over a list that others change can rely
on. Since no target is in the list twice (`ListInv`), the places ahead of the
index never hold a target the walk has taken, however entries before it
disappear; and as long as none is removed, a target that is owed the message
is taken or ahead (`WalkInv`, with `Ahead`). For the order of one session's
messages, `OrderInv` compares each recorded and delivered message's number with
the one its sender is at, strictly while that one has still to be written or
delivered.

### Receivers

`GivenOnceInOrder` counts messages; its invariant is about places. A reader's
*stream* is what it was given and then what its call holds (`Nth`). `StreamsInv`
says that each place of a stream, and each dropped message, is one of the
messages taken from a queue, no two the same, those of one receiver in the order
they came, and that each message taken is in one of these places. `QueueIsRest`
says that a queue has what came into its receiver and was not taken, `PutOnce`
that no receiver gets a message twice, however threads put them. Every step of a
reader then takes some from the front of a queue to the end of its stream
(`Takes`), or keeps the beginning of its stream and drops the rest (`Cuts`), and
two lemmas do for all of them. That a call for a single message holds no more
than one, so that what it returns is all it holds, is part of the type
(`ReaderOK`). The counts follow since the three sets are disjoint parts of what
was taken.

### Sessions

The theorems about TransportSession rest on `CallInv`: a call that awaits a
result has at most one under way, no other call has one, and the client's one
frame is with the reader only when the reader is idle. `AnswerInv` is the other
half, that one is there; together they are `OneAnswer`.

`RepliesReachTheirOwner` needs to know what a thread holds between finding the
owner of a reply and deleting the entry (`TargetsInv`): a reply to a request of
that very subscription, although the entry may be gone by then. `AskedInv` says
that owners are those that asked; `AcceptedInv` that a request whose reply was
let through has no entry any more, from which it follows that there is no
second reply, and that one without a reply still has its entry.

`DeliveriesDecode` follows each registration from the moment it is marked
(`SentInv`): it is known to the client, in a registrations frame, in the
worker's hands, or *pending*: in the result that the reader is about to send or
that is on the connection. A delivery may be ahead of a pending result
(`WireInv`), and may be put aside (`HeldInv`); it is decoded only by a call
that awaits no result, and by `CallInv` nothing is pending then.

`DeliveriesKeepOrder` is nearly inductive as it stands, since it says of each
stretch of the way which places of `accepted` it has: first what was received,
then what is held, on the wire, with the worker, and in the queue, each by its
rank among those of its subscription. `FlowInv` adds that a call that receives
found nothing held, so that it overtakes nothing when it reads the wire.

`FailuresAreReal` needs that nobody closes the connection before one of the two
flags is set which tell the threads why (`StopInv`). `LeavesNothing` adds that
whoever asked for the stop first is about to close (`ClosingInv`), and that the
core's targets are in the reader's list, past its index once it removes them
(`CleanInv`).

### The asyncio session

Here a result may not overtake a delivery, nor a registration the frame that
relies on it, and what orders them is the line for the channel's lock. `Typed`
has, besides the types, who closed the connection (`EndInv`, from which
`AsyncFailuresAreReal` follows), who stands in the line (`LineInv`), and that a
call of the client has one frame or one answer under way (`AskInv`).

`FramesComeInTime` is two results. For the registrations, `SymbolsInv` follows
each one from the moment it is marked: it is known to the client, on the wire,
in the answer the reader is about to send, or in the worker's hands. What a
task's next frame needs and leaves out is with the client or on the wire
already, or with the other task, which is then ahead in the line. For the
deliveries, `AfterInv` says that what an emission queued for the session itself
is on its way while the reader waits for it, or among the entries it waits for,
and on its way when the reader stands in the line.

`AsyncDeliveriesKeepOrder` has the argument of `DeliveriesKeepOrder`, with
`Came` for what is received, held and on the wire, which is a beginning of what
was accepted whatever becomes of the session, and `Rest` for what is with the
delivery task and in its queue, as long as both ends are open (`ArrivalInv`).

### The wire

`FramesTravel` goes through the kinds of frames, field by field. A frame's bytes
and the ends of its parts are recursive functions; that they exist, and what
they are at each place (`ChunksExist`, `EndsExist`), is shown by looking at the
least number of parts at which it fails, since induction is out of reach.
`FrameRead` then compares the buffer with the bytes that were written, as far as
both go (`Agree`): the ends that the decoder finds are those of the encoder, up
to the first that the buffer does not reach.

Of a send, `SendInv` says that only the last that got the lock can be unfinished
and that it holds the lock until it is done or fails. `OnTheWay` divides the
sends into those that can still be read, the first `n`, which were finished
(`Finished`), and the rest, where one is under way or was cut off; the receiver
of the model reads nothing behind the latter, since anything may come of it. On
a stream, what is in
the buffer and in the pipe is the bytes of the finished frames that were not yet
received, one behind the other, and the first bytes of the next (`Flow`); on
messages the pipe is a queue of frames, which a close may cut short (`Queue`). A
step of the sender lengthens
this at its end and a step of the receiver takes the first frame from it or
moves bytes from the pipe to the buffer. `Arrived` adds that each frame received
is the one that was sent at its place, and `OnTheWay` that the end is told only
when all `n` have been received.

### The service

`NothingLeft` needs what links the one who stops to what the stop has still to
do (`StopInv`): once the stop is asked for the listener is closed or somebody
is about to close it, and once it is closed its path is free or somebody is
about to remove it, although two threads may both have found themselves the
first. The flag is read in one step and set in another, so who finds it set may
go on only because it stays set. That the server's walk reaches every runner
(`WalkInv`) holds since only the server adds to the list, before the walk;
that its wait finds each one ended or raises, since no runner is left unstarted
by then (`PlaceInv`: a session that is new is in the server's hands).

### History

`NamesInv` says that the table of names is made of the registrations that were
read, and of nothing else: a registration that would change a name ends the
broker before a message behind it is read, and `HistoryNamesRight` follows.
`EndedInv` adds to the causes that a broker that has ended answers nothing more.
`PagesInv` describes a client between two pages: while the file is in order,
what it has collected is what it wanted among the lines on its side of the
cursor, the cursor is the sequence number of a line it has collected, and the
first page of a descending query fixes where it began. `InGoodOrder` is the
hypothesis of `ExactInSequence`; a step may lose it, and then for good, which is
why the invariant is an implication.

### Requests

`OwnReplyOnce` needs that a request's number is new until its caller has
recorded it and out of the table once its reply was given out (`ResultInv`),
through the steps where another caller may be inside. For callers that take
turns, which `TurnInv` makes precise, `StrandedInv` says that whoever waits has
looked through the held replies, and `ReplyInv` that an answer is reachable
from the emission on, before the request is even in the table. `LimitsKept`
counts requests between the check and the record (`LimitInv`).
`RequestsAccountedFor` needs that a request no two workers replied to at once
is with one of them, who is the first (`AnswerInv`).

### Endpoints

`SessionsAcceptAlike` needs that the session's table says of each key what the
last emitter of the connection that lists the key's type at its place says, and
that every listed type has a key (`TableInv`): only then does a registration
that replaces keys take away no more than `Agreed` excepts. `TypeInv` carries
the types of the creations under way, and `FrameKeepsPolicy` makes the policy
in the table the emitter's own.

`OwnReceivers` follows a creation through its calls: what it has made so far is
what its plan's calls up to this one make (`PartsInv`). `CausesKnown` traces
every message to the emitter that sent it: a helper's calls are at its own
place, in a format its emitter supports, with a payload of its purpose
(`CallInv`), and whatever raises does so for one of the causes (`FaultInv`);
`HelpersAssumption` is what makes a default helper send something it can
encode.

### Only model-checked

- Liveness (`NothingHangs`, `WaitersReturn`, `NobodyWaitsForEver`, `StopEnds`,
  `CallsAnswered`, `SelectAllEnds`) and `ENABLED` (`ReaderGoesOn`, the other part
  of `AnswerUnderWay`), which the provers do not handle.
- What is abstracted in WireFormat: the widths of the headers' numbers. There a
  number's first digit has no bound; the code's are four and eight bytes wide.

## What is not modelled

- What a single format does to a payload (`format/portableformat.py`): a
  constant of Endpoints says which payloads each encodes. Malformed metadata
  and the generic serializers of `util`.
- Descriptors, URIs, environment variables, the command line, runtime
  directories: functions of their input.
- Calls of several tasks on one asyncio client: its own comment
  (`transport/asyncclient.py:79`) calls them undefined.
- In the threaded session and client, the frames that register a single type or
  format, `receive_from`, and clients that go away in a call: the same code as
  in AsyncTransport but for the awaits. In AsyncTransport, requests and the
  owners of replies: the same code as in TransportSession.
- Sequence numbers in BrokerRaces: that threads may capture theirs in another
  order than they took them is allowed in MessageHistory (any number of
  writers), where it is the case `ExactInSequence` excludes.
- A bootstrap policy consulted apart from the write it admits: a core never
  goes back to bootstrapping, so that a stale decision is the stricter one.
- Several history clients at once, and a capture file that shrinks.
- ZeroMQ's sockets and addresses: a third-party library.
- `playground.py`, a third of the repository's lines: demonstrations, which
  the library does not use.

## The plan

Done, in this order: DirectBrokerCore with CapturedBus, BrokerRaces,
TransportSession, SessionLifecycle, MessageHistory; then LocalReceivers,
RequestReply, ServiceLifecycle, AsyncTransport, FrameCodec with WireFormat,
TypeFormats with Endpoints.

Proved so far: the core and its refinement, the core between threads, the
in-process receivers, the threaded and the asyncio sessions, the wire format,
the service, the history, the requests, the endpoints: every invariant that a
run checks but `ReaderGoesOn`, the part of `AnswerUnderWay` that uses `ENABLED`.

Next models: an abstract request and reply service that RequestReply over
TransportSession implements; sequence numbers and the policy's decision in
BrokerRaces.
