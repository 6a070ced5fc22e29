---------------------------- MODULE AsyncTransport ----------------------------
(***************************************************************************)
(* ropemother/transport, asyncio: an AsyncBrokerTransportSession with its  *)
(* AsyncBrokerTransportSessionRunner, and the AsyncTransportClient at the  *)
(* other end of the socket.                                                *)
(*                                                                         *)
(* Two tasks of one event loop share the session: the reader, which is the *)
(* runner's task, and the delivery task, which sends what the delivery     *)
(* queue holds.  Emissions of other endpoints run in their own tasks and   *)
(* end in _deliver, which never waits.  A step below is what a task does   *)
(* from one await to the next.  Sends go through the channel's lock, which *)
(* asyncio.Lock grants in the order it was asked for.                      *)
(*                                                                         *)
(* A topic stands for the symbols of an endpoint or a message: one         *)
(* registration of its own, and one that all share.  A name is a message   *)
(* type or a payload format that an emitter did not list.  The client has  *)
(* one call under way at a time; its own code leaves more undefined.       *)
(***************************************************************************)
EXTENDS Naturals, Sequences, FiniteSets, SequencesExt

CONSTANTS Topics,
          Names,              \* unlisted message types and payload formats
          Shared,             \* the registration every topic's use needs
          Capacity,           \* _DELIVERY_QUEUE_CAPACITY
          Room,               \* frames the socket takes before a send waits
          MaxSubscriptions,   \* bound on the client's subscriptions
          MaxEmissions        \* bound on the messages emitted

ASSUME AsyncAssumption ==
  /\ Shared \notin Topics \cup Names /\ Topics \cap Names = {}
  /\ {Capacity, Room, MaxSubscriptions, MaxEmissions} \subseteq Nat \ {0}

VARIABLES
  requests,       \* frames on their way to the session
  wire,           \* frames on their way to the client
  line,           \* AsyncFrameChannel._send_lock: its holder, then who waits
  closed,         \* the session's end of the connection is closed
  gone,           \* the client's end is closed
  subscriptions,  \* _subscription_bindings
  targets,        \* _delivery_targets, as the core's receivers
  sent,           \* EndpointRegistrationView._sent_registrations
  queue,          \* _delivery_queue
  waiting,        \* _delivery_waiters that are not resolved
  stopped,        \* _delivery_stopped
  failure,        \* _delivery_error is set
  reader, worker, \* where the two tasks are
  error,          \* AsyncBrokerTransportSessionRunner._error
  nextId,         \* the core's next message ID
  accepted,       \* history: what each subscription's target put in the queue
  overflowed,     \* history: the delivery queue was full once
  call,           \* the client's call in progress
  known,          \* the client's registrations
  emitters,       \* the topics of the client's emitters
  held,           \* AsyncTransportClient._delivery_queues
  received,       \* what the client's receivers have returned
  undecoded       \* history: deliveries the client failed to decode

connection == <<requests, wire, line, closed, gone>>
session == <<subscriptions, targets, sent, queue, waiting, stopped, failure>>
tasks == <<reader, worker, error>>
history == <<nextId, accepted, overflowed>>
client == <<call, known, emitters, held, received, undecoded>>

asyncVars == <<connection, session, tasks, history, client>>

Subscriptions == 1..MaxSubscriptions

At(where) == [at |-> where]

Idle == [op |-> "idle"]

Ended == [op |-> "ended"]

Nothing == [s \in Subscriptions |-> <<>>]

AsyncInit ==
  /\ requests = <<>> /\ wire = <<>> /\ line = <<>>
  /\ closed = FALSE /\ gone = FALSE
  /\ subscriptions = <<>> /\ targets = {} /\ sent = {}
  /\ queue = <<>> /\ waiting = {}
  /\ stopped = FALSE /\ failure = FALSE
  /\ reader = At("receive") /\ worker = At("none") /\ error = "none"
  /\ nextId = 1 /\ accepted = Nothing /\ overflowed = FALSE
  /\ call = Idle /\ known = {} /\ emitters = {}
  /\ held = Nothing /\ received = Nothing /\ undecoded = {}

------------------------------------------------------------------------------
(* The client. *)

Message(topic, name) == [id |-> nextId, needs |-> {topic, Shared, name},
                         topic |-> topic]

Send(frame) == /\ ~gone
               /\ requests' = Append(requests, frame)

Quiet == UNCHANGED <<wire, line, closed, gone, session, tasks, history>>

ClientSubscribe(topic) ==
  /\ call = Idle
  /\ Len(subscriptions) < MaxSubscriptions
  /\ Send([kind |-> "subscribe", topic |-> topic])
  /\ call' = [op |-> "await"]
  /\ UNCHANGED <<known, emitters, held, received, undecoded>>
  /\ Quiet

ClientRegisterEmitter(topic) ==
  /\ call = Idle
  /\ topic \notin emitters
  /\ Send([kind |-> "register_emitter", topic |-> topic])
  /\ call' = [op |-> "await"]
  /\ UNCHANGED <<known, emitters, held, received, undecoded>>
  /\ Quiet

EmitFrame(topic, name) == [kind |-> "emit", topic |-> topic, name |-> name]

(***************************************************************************)
(* _emit_frame: a type or format without an ID is registered first, in a   *)
(* call of its own, and the emission follows its result.                   *)
(***************************************************************************)
ClientEmit(topic, name) ==
  /\ call = Idle
  /\ topic \in emitters
  /\ nextId <= MaxEmissions
  /\ IF name \in known
     THEN /\ Send(EmitFrame(topic, name))
          /\ call' = [op |-> "await"]
     ELSE /\ Send([kind |-> "register_name", name |-> name])
          /\ call' = [op |-> "register", topic |-> topic, name |-> name]
  /\ UNCHANGED <<known, emitters, held, received, undecoded>>
  /\ Quiet

(* _received_message_from_frame looks up the names of a delivery's IDs. *)
Decode(s, message) ==
  /\ received' = [received EXCEPT ![s] = Append(@, message.id)]
  /\ undecoded' = IF message.needs \subseteq known
                  THEN undecoded ELSE undecoded \cup {message.id}

(* _take_queued_delivery_from: the first of the receivers that holds one. *)
ClientTakeHeld(from) ==
  /\ call = Idle
  /\ \E s \in from :
       /\ held[s] # <<>>
       /\ \A r \in from : r < s => held[r] = <<>>
       /\ Decode(s, Head(held[s]))
       /\ held' = [held EXCEPT ![s] = Tail(@)]
  /\ UNCHANGED <<requests, call, known, emitters>>
  /\ Quiet

(* Mutant: receiving goes to the connection past the frames that are held. *)
ClientReceive_pastHeld(from) ==
  /\ call = Idle
  /\ call' = [op |-> "receive", from |-> from]
  /\ UNCHANGED <<requests, known, emitters, held, received, undecoded>>
  /\ Quiet

(***************************************************************************)
(* receive on one receiver, receive_from on several: nothing is held for   *)
(* any of them, so the call reads frames.                                  *)
(***************************************************************************)
ClientReceive(from) ==
  /\ call = Idle
  /\ \A s \in from : held[s] = <<>>
  /\ call' = [op |-> "receive", from |-> from]
  /\ UNCHANGED <<requests, known, emitters, held, received, undecoded>>
  /\ Quiet

(* receive_frame_nowait finds no frame, and the batch ends. *)
ClientStopsReceiving ==
  /\ call.op = "receive"
  /\ wire = <<>>
  /\ call' = Idle
  /\ UNCHANGED <<requests, known, emitters, held, received, undecoded>>
  /\ Quiet

(* The client's task reads a frame. *)
Reading(ops, frame) == /\ call.op \in ops /\ ~gone
                       /\ wire # <<>> /\ frame = Head(wire)
                       /\ wire' = Tail(wire)
                       /\ UNCHANGED <<line, closed, gone, session, tasks,
                                      history>>

Applies(frame) == known' = known \cup frame.registrations

Keeps(frame) ==
  held' = [held EXCEPT ![frame.subscription] = Append(@, frame.message)]

(***************************************************************************)
(* _receive_expected_frame: on the way to its result a call applies        *)
(* registrations and keeps deliveries for the receivers; an error frame    *)
(* makes it raise.                                                         *)
(***************************************************************************)
ClientReadExpected ==
  \E frame \in ToSet(wire) :
    /\ Reading({"await", "register"}, frame)
    /\ \/ /\ frame.kind = "registrations"
          /\ Applies(frame)
          /\ UNCHANGED <<requests, call, emitters, held>>
       \/ /\ frame.kind = "delivery"
          /\ Keeps(frame)
          /\ UNCHANGED <<requests, call, known, emitters>>
       \/ /\ frame.kind = "error"
          /\ call' = Idle
          /\ UNCHANGED <<requests, known, emitters, held>>
       \/ /\ frame.kind = "result"
          /\ Applies(frame)
          /\ emitters' = emitters \cup frame.emitter
          /\ IF call.op = "await"
             THEN call' = Idle /\ UNCHANGED requests
             ELSE IF closed
             THEN call' = Ended /\ UNCHANGED requests
             ELSE /\ Send(EmitFrame(call.topic, call.name))
                  /\ call' = [op |-> "await"]
          /\ UNCHANGED held
    /\ UNCHANGED <<received, undecoded>>

(* _handle_delivery_candidate: a delivery for one of the receivers ends it. *)
ClientReadCandidate ==
  \E frame \in ToSet(wire) :
    /\ Reading({"receive"}, frame)
    /\ \/ /\ frame.kind = "registrations"
          /\ Applies(frame)
          /\ UNCHANGED <<call, held, received, undecoded>>
       \/ /\ frame.kind = "delivery"
          /\ frame.subscription \in call.from
          /\ Decode(frame.subscription, frame.message)
          /\ call' = Idle
          /\ UNCHANGED <<known, held>>
       \/ /\ frame.kind = "delivery"
          /\ frame.subscription \notin call.from
          /\ Keeps(frame)
          /\ UNCHANGED <<call, known, received, undecoded>>
    /\ UNCHANGED <<requests, emitters>>

(* The broker's end is closed: the client's call raises. *)
ClientReadsEnd ==
  /\ call.op \in {"await", "register", "receive"}
  /\ closed /\ ~gone /\ wire = <<>>
  /\ call' = Ended
  /\ UNCHANGED <<requests, known, emitters, held, received, undecoded>>
  /\ Quiet

(* AsyncTransportClient.close, or the end of its process *)
ClientClose ==
  /\ ~gone
  /\ gone' = TRUE
  /\ wire' = <<>>
  /\ call' = Ended
  /\ UNCHANGED <<requests, line, closed, session, tasks, history, known,
                 emitters, held, received, undecoded>>

------------------------------------------------------------------------------
(* What closing does to the tasks. *)

(***************************************************************************)
(* AsyncSocketFrameConnection.close shuts the socket down and closes it in *)
(* one go, so the event loop drops the descriptor and never reports it: a  *)
(* task suspended in sock_recv or sock_sendall stays there, unless the     *)
(* loop had already seen its event.                                        *)
(***************************************************************************)
ReaderAfterClose ==
  LET suspended == \/ reader.at = "receive"
                   \/ /\ reader.at = "send"
                      /\ Head(line) = "reader"
                      /\ Len(wire) >= Room
  IN IF ~suspended THEN {reader}
     ELSE {At("stuck")} \cup
            (IF requests # <<>> \/ gone THEN {At("woken")} ELSE {})

Cancelled == IF worker.at \in {"none", "failed", "ended"} THEN worker
             ELSE At("ended")

(* A task asks for the lock once, so at most the reader is left. *)
WithoutWorker == IF "reader" \in ToSet(line) THEN <<"reader">> ELSE <<>>

(* Mutant: the waiters of the queued deliveries stay unresolved. *)
CloseSession_waitersKept ==
  /\ stopped' = TRUE
  /\ targets' = {}
  /\ waiting' = waiting
  /\ worker' = Cancelled

(* AsyncBrokerTransportSession.close *)
CloseSession ==
  /\ stopped' = TRUE
  /\ targets' = {}
  /\ waiting' = {}
  /\ worker' = Cancelled

(***************************************************************************)
(* The end of AsyncBrokerTransportSessionRunner.run: a failure of the      *)
(* delivery task is recorded unless there is an error already, and the     *)
(* connection and the session are closed.                                  *)
(***************************************************************************)
Finish(cause) ==
  /\ reader' = At("done")
  /\ error' = IF cause # "none" THEN cause
              ELSE IF failure THEN "delivery" ELSE "none"
  /\ closed' = TRUE
  /\ CloseSession
  /\ line' = <<>>

(* Mutant: an OSError counts whoever closed the connection. *)
Cause_always == "send"

(* An OSError counts only where nobody stopped the deliveries. *)
Cause == IF stopped THEN "none" ELSE "send"

------------------------------------------------------------------------------
(* _deliver, for each of the message's targets in turn. *)

Matching(topic) == {s \in targets : subscriptions[s] = topic}

(* The subscriptions of a set in their order: the core's list has them in it. *)
Lists(S) == {list \in [1..Cardinality(S) -> S] :
               \A i, j \in DOMAIN list : i < j => list[i] < list[j]}

Fits(topic) == Len(queue) + Cardinality(Matching(topic)) <= Capacity

Free == Capacity - Len(queue)

(* _AsyncTransportDeliveryTarget.deliver, for targets the queue has room for *)
Accept(taken, message) ==
  /\ queue' = queue \o [i \in DOMAIN taken |->
                          [subscription |-> taken[i], message |-> message]]
  /\ accepted' = [s \in Subscriptions |->
                    IF s \in ToSet(taken)
                    THEN Append(accepted[s], message.id) ELSE accepted[s]]

(***************************************************************************)
(* The targets get the message one after the other, as long as the queue   *)
(* has room; the first that finds it full closes the session and its       *)
(* connection, and the others are then stopped.                            *)
(***************************************************************************)
Deliver(message) ==
  \E list \in Lists(Matching(message.topic)) :
    IF Fits(message.topic)
    THEN /\ Accept(list, message)
         /\ waiting' = waiting \cup
                        [subscription : ToSet(list), message : {message}]
         /\ worker' = IF worker.at = "none" /\ list # <<>>
                      THEN At("get") ELSE worker
         /\ UNCHANGED <<targets, stopped, closed, overflowed, line>>
    ELSE /\ Accept(SubSeq(list, 1, Free), message)
         /\ CloseSession
         /\ closed' = TRUE
         /\ overflowed' = TRUE
         /\ line' = WithoutWorker

(* A task of the broker's process emits, for another endpoint. *)
OtherEmits(topic, name) ==
  /\ nextId <= MaxEmissions
  /\ Deliver(Message(topic, name))
  /\ nextId' = nextId + 1
  /\ IF Fits(topic) THEN UNCHANGED reader ELSE reader' \in ReaderAfterClose
  /\ UNCHANGED <<requests, wire, gone, subscriptions, sent, failure, error,
                 client>>

------------------------------------------------------------------------------
(* The reader: handle_next_frame. *)

Reads(kind) == /\ reader.at = "receive" /\ ~closed
               /\ requests # <<>> /\ Head(requests).kind = kind
               /\ requests' = Tail(requests)

Result(registrations, emitter, id) ==
  [kind |-> "result", registrations |-> registrations, emitter |-> emitter,
   id |-> id]

(* send_frame, up to the channel's lock *)
Answers(frame) ==
  /\ reader' = [at |-> "send", frame |-> frame]
  /\ line' = Append(line, "reader")

(* registrations_to_send marks as sent what the result is going to carry. *)
AnswersWith(needs, emitter) ==
  /\ sent' = sent \cup needs
  /\ Answers(Result(needs \ sent, emitter, 0))

HandleSubscribe ==
  /\ Reads("subscribe")
  /\ LET topic == Head(requests).topic
     IN /\ subscriptions' = Append(subscriptions, topic)
        /\ targets' = targets \cup {Len(subscriptions) + 1}
        /\ AnswersWith({topic, Shared}, {})
  /\ UNCHANGED <<wire, closed, gone, queue, waiting, stopped, failure, worker,
                 error, history, client>>

HandleRegisterEmitter ==
  /\ Reads("register_emitter")
  /\ LET topic == Head(requests).topic IN AnswersWith({topic, Shared}, {topic})
  /\ UNCHANGED <<wire, closed, gone, subscriptions, targets, queue, waiting,
                 stopped, failure, worker, error, history, client>>

(* RegisterMessageTypeFrame and RegisterPayloadFormatFrame *)
HandleRegisterName ==
  /\ Reads("register_name")
  /\ AnswersWith({Head(requests).name}, {})
  /\ UNCHANGED <<wire, closed, gone, subscriptions, targets, queue, waiting,
                 stopped, failure, worker, error, history, client>>

EmitResult == Result({}, {}, nextId)

(* Mutant: the result does not wait for the session's own deliveries. *)
HandleEmit_unwaited ==
  /\ Reads("emit")
  /\ nextId <= MaxEmissions
  /\ Fits(Head(requests).topic)
  /\ Deliver(Message(Head(requests).topic, Head(requests).name))
  /\ nextId' = nextId + 1
  /\ reader' = [at |-> "wait", entries |-> {}, frame |-> EmitResult]
  /\ UNCHANGED <<wire, gone, subscriptions, sent, failure, error, client>>

(***************************************************************************)
(* _handle_emit_frame: the emission, which may close this very session,    *)
(* and then a wait for everything the session has still to deliver.        *)
(***************************************************************************)
HandleEmit ==
  /\ Reads("emit")
  /\ nextId <= MaxEmissions
  /\ Deliver(Message(Head(requests).topic, Head(requests).name))
  /\ nextId' = nextId + 1
  /\ reader' = [at |-> "wait", entries |-> waiting', frame |-> EmitResult]
  /\ UNCHANGED <<wire, gone, subscriptions, sent, failure, error, client>>

Refusable == {"register_emitter", "register_name", "emit"}

(* Mutant: what is refused is not answered. *)
HandleRefused_silent ==
  /\ \E kind \in Refusable : Reads(kind)
  /\ UNCHANGED <<wire, line, closed, gone, session, reader, worker, error,
                 history, client>>

(***************************************************************************)
(* A format the broker does not have, an emitter it does not know, a reply *)
(* subscription that is not one, an error of the core: a                   *)
(* TransportErrorFrame says so.                                            *)
(***************************************************************************)
HandleRefused ==
  /\ \E kind \in Refusable : Reads(kind)
  /\ Answers([kind |-> "error"])
  /\ UNCHANGED <<wire, closed, gone, session, worker, error, history, client>>

(* bind_emitter or bind_subscription raises, which nothing catches here. *)
HandleRaises ==
  /\ \E kind \in {"register_emitter", "subscribe"} : Reads(kind)
  /\ Finish("core")
  /\ UNCHANGED <<wire, gone, subscriptions, sent, queue, failure, history,
                 client>>

(* _wait_for_delivery_tasks is over, and the result waits for the lock. *)
DeliveriesDone ==
  /\ reader.at = "wait"
  /\ reader.entries \cap waiting = {}
  /\ reader' = [at |-> "send", frame |-> reader.frame]
  /\ line' = Append(line, "reader")
  /\ UNCHANGED <<requests, wire, closed, gone, session, worker, error, history,
                 client>>

Holds(who) == line # <<>> /\ Head(line) = who

ReaderSends ==
  /\ reader.at = "send" /\ Holds("reader")
  /\ ~closed /\ ~gone /\ Len(wire) < Room
  /\ wire' = Append(wire, reader.frame)
  /\ line' = Tail(line)
  /\ reader' = At("receive")
  /\ UNCHANGED <<requests, closed, gone, session, worker, error, history,
                 client>>

(* A send on a closed connection, or to a client that is gone *)
ReaderSendFails ==
  /\ reader.at = "send" /\ Holds("reader")
  /\ closed \/ gone
  /\ Finish(Cause)
  /\ UNCHANGED <<requests, wire, gone, subscriptions, sent, queue, failure,
                 history, client>>

(* EOFError, or the error a closed descriptor gives to a task it woke *)
ReaderEnds ==
  /\ \/ reader.at = "receive" /\ ~closed /\ gone /\ requests = <<>>
     \/ reader.at = "woken"
  /\ Finish("none")
  /\ UNCHANGED <<requests, wire, gone, subscriptions, sent, queue, failure,
                 history, client>>

(***************************************************************************)
(* request_stop closes the connection and cancels the reader, which is     *)
(* then the next to run, and ends without an error of its own.             *)
(***************************************************************************)
RequestStop ==
  /\ reader.at # "done"
  /\ Finish("none")
  /\ UNCHANGED <<requests, wire, gone, subscriptions, sent, queue, failure,
                 history, client>>

------------------------------------------------------------------------------
(* The delivery task: _run_deliveries and _send_delivery_frame. *)

Registrations(names) == [kind |-> "registrations", registrations |-> names]

Delivery(entry) == [kind |-> "delivery", subscription |-> entry.subscription,
                    message |-> entry.message]

Takes(frames) ==
  /\ worker.at = "get"
  /\ queue # <<>>
  /\ queue' = Tail(queue)
  /\ sent' = sent \cup Head(queue).message.needs
  /\ worker' = [at |-> "send", entry |-> Head(queue), frames |-> frames]
  /\ line' = Append(line, "worker")
  /\ UNCHANGED <<requests, wire, closed, gone, subscriptions, targets, waiting,
                 stopped, failure, reader, error, history, client>>

(* Mutant: the delivery goes before the registrations it needs. *)
WorkerTakes_deliveryFirst ==
  /\ queue # <<>>
  /\ LET new == Head(queue).message.needs \ sent
     IN Takes(IF new = {} THEN <<Delivery(Head(queue))>>
              ELSE <<Delivery(Head(queue)), Registrations(new)>>)

WorkerTakes ==
  /\ queue # <<>>
  /\ LET new == Head(queue).message.needs \ sent
     IN Takes(IF new = {} THEN <<Delivery(Head(queue))>>
              ELSE <<Registrations(new), Delivery(Head(queue))>>)

(* Each of the two frames asks for the lock on its own. *)
WorkerSends ==
  /\ worker.at = "send" /\ Holds("worker")
  /\ ~closed /\ ~gone /\ Len(wire) < Room
  /\ wire' = Append(wire, Head(worker.frames))
  /\ IF Len(worker.frames) > 1
     THEN /\ worker' = [worker EXCEPT !.frames = Tail(@)]
          /\ line' = Append(Tail(line), "worker")
          /\ UNCHANGED waiting
     ELSE /\ worker' = At("get")
          /\ line' = Tail(line)
          /\ waiting' = waiting \ {worker.entry}
  /\ UNCHANGED <<requests, closed, gone, subscriptions, targets, sent, queue,
                 stopped, failure, reader, error, history, client>>

WorkerSendFails ==
  /\ worker.at = "send" /\ Holds("worker")
  /\ closed \/ gone
  /\ worker' = At("failed")
  /\ waiting' = waiting \ {worker.entry}
  /\ line' = Tail(line)
  /\ UNCHANGED <<requests, wire, closed, gone, subscriptions, targets, sent,
                 queue, stopped, failure, reader, error, history, client>>

(***************************************************************************)
(* _delivery_task_finished, the callback of the failed task.  Sends fail   *)
(* because the client is gone, and the loop reports that to the reader     *)
(* before it runs the callback.                                            *)
(***************************************************************************)
WorkerFinished ==
  /\ worker.at = "failed"
  /\ failure' = TRUE
  /\ stopped' = TRUE /\ targets' = {} /\ waiting' = {}
  /\ worker' = At("ended")
  /\ closed' = TRUE
  /\ reader' = IF reader.at = "receive" THEN At("woken") ELSE reader
  /\ UNCHANGED <<requests, wire, line, gone, subscriptions, sent, queue, error,
                 history, client>>

------------------------------------------------------------------------------
Selections == SUBSET DOMAIN subscriptions \ {{}}

ReaderStep ==
  \/ HandleSubscribe \/ HandleRegisterEmitter \/ HandleRegisterName
  \/ HandleEmit \/ HandleRefused \/ HandleRaises
  \/ DeliveriesDone \/ ReaderSends \/ ReaderSendFails \/ ReaderEnds

WorkerStep == WorkerTakes \/ WorkerSends \/ WorkerSendFails \/ WorkerFinished

ClientReads == ClientReadExpected \/ ClientReadCandidate \/ ClientReadsEnd

AsyncNext ==
  \/ \E topic \in Topics : \/ ClientSubscribe(topic)
                           \/ ClientRegisterEmitter(topic)
  \/ \E topic \in Topics, name \in Names \cup {Shared} :
       ClientEmit(topic, name) \/ OtherEmits(topic, name)
  \/ \E from \in Selections : ClientTakeHeld(from) \/ ClientReceive(from)
  \/ ClientReads \/ ClientStopsReceiving \/ ClientClose
  \/ ReaderStep \/ WorkerStep
  \/ RequestStop

(***************************************************************************)
(* The event loop runs every task that can run, and a client that waits    *)
(* reads what arrives.  Nothing makes a client call, close or stop         *)
(* waiting, or the service stop the session.                               *)
(***************************************************************************)
AsyncFairness ==
  /\ WF_asyncVars(ReaderStep)
  /\ WF_asyncVars(WorkerStep)
  /\ WF_asyncVars(ClientReads)

AsyncSpec == AsyncInit /\ [][AsyncNext]_asyncVars /\ AsyncFairness

------------------------------------------------------------------------------
OnWire(s) == {i \in DOMAIN wire : /\ wire[i].kind = "delivery"
                                  /\ wire[i].subscription = s}

HeldIds(s) == [i \in DOMAIN held[s] |-> held[s][i].id]

Arrived(s) == received[s] \o HeldIds(s)

(***************************************************************************)
(* Frames are in time.  The result of an emission never overtakes what the *)
(* emission delivers to the session's own subscriptions: a client whose    *)
(* emit() has returned finds its message in its receivers without another  *)
(* frame.  And each registration is sent once, by whichever task needs it  *)
(* first, yet every delivery decodes when its frame is read and every      *)
(* emitter the client has can look its IDs up: the lock's order keeps a    *)
(* result behind the registrations it leaves out.                          *)
(***************************************************************************)
ResultAfterDeliveries ==
  \A i \in DOMAIN wire : wire[i].kind = "result" /\ wire[i].id # 0 =>
    \A s \in Subscriptions : wire[i].id \in ToSet(accepted[s]) =>
      \/ wire[i].id \in ToSet(Arrived(s))
      \/ \E j \in 1..(i - 1) : /\ wire[j].kind = "delivery"
                               /\ wire[j].subscription = s
                               /\ wire[j].message.id = wire[i].id

RegistrationsInTime ==
  /\ undecoded = {}
  /\ \A topic \in emitters : {topic, Shared} \subseteq known

FramesInTime == ResultAfterDeliveries /\ RegistrationsInTime

(***************************************************************************)
(* What a subscription's target has queued reaches the client's receiver   *)
(* in order and without a gap, through the queue, the delivery task, the   *)
(* lock, the wire and the client's own queues, until the session ends; it  *)
(* then is a beginning of it.                                              *)
(***************************************************************************)
Rank(places, i) == Cardinality({j \in places : j <= i})

(* What came over the wire is a beginning of what was accepted. *)
ArrivesInOrder(s) ==
  /\ Len(Arrived(s)) + Cardinality(OnWire(s)) <= Len(accepted[s])
  /\ \A i \in DOMAIN Arrived(s) : accepted[s][i] = Arrived(s)[i]
  /\ \A i \in OnWire(s) :
       accepted[s][Len(Arrived(s)) + Rank(OnWire(s), i)] = wire[i].message.id

InWorker(s) == worker.at = "send" /\ worker.entry.subscription = s

InQueue(s) == {i \in DOMAIN queue : queue[i].subscription = s}

Taken(s) == Len(Arrived(s)) + Cardinality(OnWire(s))
              + (IF InWorker(s) THEN 1 ELSE 0)

(* The rest is with the delivery task and in its queue. *)
RestInOrder(s) ==
  /\ Len(accepted[s]) = Taken(s) + Cardinality(InQueue(s))
  /\ InWorker(s) => accepted[s][Taken(s)] = worker.entry.message.id
  /\ \A i \in InQueue(s) :
       accepted[s][Taken(s) + Rank(InQueue(s), i)] = queue[i].message.id

NothingLostOrReordered ==
  \A s \in Subscriptions :
    ArrivesInOrder(s) /\ (~gone /\ ~closed => RestInOrder(s))

(***************************************************************************)
(* What the runner reports as the session's failure is one: the core       *)
(* raised, or a send failed because the client was gone.  A full delivery  *)
(* queue and a stop close the connection under the reader, and are not.    *)
(***************************************************************************)
OnlyRealFailures == error \in {"none", "core"} \/ gone

(***************************************************************************)
(* A session whose connection either side has closed ends, and so does     *)
(* every call of the client.  The one session that only a stop can end is  *)
(* one whose reader was suspended in the socket when a full delivery queue *)
(* closed it: the descriptor is gone and no event wakes the reader.        *)
(***************************************************************************)
NobodyWaitsForEver ==
  /\ (closed \/ gone) ~> (reader.at = "done"
                            \/ (reader.at = "stuck" /\ overflowed))
  /\ (call.op \in {"await", "register"}) ~>
       (call.op \notin {"await", "register"})
==============================================================================
