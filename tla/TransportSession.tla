--------------------------- MODULE TransportSession ---------------------------
(***************************************************************************)
(* ropemother/transport: one BrokerTransportSession of the threaded        *)
(* service, with its TransportClient at the other end of the connection.   *)
(*                                                                         *)
(* Three kinds of thread work on the session's state without a lock: the   *)
(* reader, which answers the client's frames; the worker, which sends what *)
(* the delivery queue holds; and the publishers, the threads of other      *)
(* sessions whose emissions the core hands to this session's targets.      *)
(* Compact IDs are worth something to the client only with their           *)
(* registrations, and the session sends each registration once.            *)
(*                                                                         *)
(* A topic stands for the symbols of an endpoint or a message: one         *)
(* registration of its own, and one that all share (a format, say).  The   *)
(* connection lives and the delivery queue never fills; SessionLifecycle   *)
(* has what ends a session.                                                *)
(***************************************************************************)
EXTENDS Naturals, Sequences, FiniteSets, SequencesExt

CONSTANTS Topics,
          Shared,             \* the registration every topic's use needs
          Publishers,         \* threads of other sessions
          Operations,         \* what each of them emits: "publish", "reply"
          RequestOnly,        \* topics the client emits requests on
          MaxSubscriptions,   \* bound on the client's subscriptions
          MaxMessages,        \* bound on the messages emitted, by how many
                              \* subscriptions there are
          Reader              \* the reader, among the threads that emit

ASSUME ConstantsAssumption ==
  /\ Shared \notin Topics /\ Reader \notin Publishers
  /\ RequestOnly \subseteq Topics
  /\ Operations \in [Publishers -> SUBSET {"publish", "reply"}]
  /\ MaxSubscriptions \in Nat
  /\ MaxMessages \in [0..MaxSubscriptions -> Nat]

Emitters == Publishers \cup {Reader}

Needs(topic) == {topic, Shared}

VARIABLES
  requests,       \* frames on their way to the session
  wire,           \* frames on their way to the client
  subscriptions,  \* _subscription_bindings; a target of the core for each
  owners,         \* _request_reply_owners: message -> subscription
  sent,           \* EndpointRegistrationView._sent_registrations
  queue,          \* _delivery_queue
  reader, worker, \* where the two threads of the runner are
  emitting,       \* for each emitting thread, the emission in progress
  nextId,         \* the core's next message ID
  asked,          \* history: request -> its subscription (0: none)
  accepted,       \* history: what each subscription's target let through
  call,           \* the client's call in progress
  known,          \* the client's registrations
  bound,          \* the topics of the client's emitters
  held,           \* TransportClient._delivery_queues
  received,       \* what the client's receivers have returned
  undecoded       \* history: deliveries the client failed to decode

sessionVars == <<subscriptions, owners, sent>>
threadVars == <<reader, worker, emitting>>
historyVars == <<nextId, asked, accepted>>
clientVars == <<known, bound, held, received, undecoded>>

vars == <<requests, wire, queue, call, sessionVars, threadVars, historyVars,
          clientVars>>

Subscriptions == 1..MaxSubscriptions

Idle == [op |-> "idle"]

Nothing == [s \in Subscriptions |-> <<>>]

Init ==
  /\ requests = <<>> /\ wire = <<>> /\ queue = <<>>
  /\ subscriptions = <<>>
  /\ owners = [m \in {} |-> 0]
  /\ sent = {}
  /\ reader = Idle /\ worker = Idle
  /\ emitting = [e \in Emitters |-> Idle]
  /\ nextId = 1
  /\ asked = [m \in {} |-> 0]
  /\ accepted = Nothing
  /\ call = Idle
  /\ known = {} /\ bound = {}
  /\ held = Nothing /\ received = Nothing
  /\ undecoded = {}

With(map, key, value) ==
  [k \in DOMAIN map \cup {key} |-> IF k = key THEN value ELSE map[k]]

Without(map, key) == [k \in DOMAIN map \ {key} |-> map[k]]

CanEmit == nextId <= MaxMessages[Len(subscriptions)]

------------------------------------------------------------------------------
(***************************************************************************)
(* The client.  Each call that sends a frame then reads frames until the   *)
(* one it expects, so at most one request is under way.                    *)
(***************************************************************************)
Ask(frame) == /\ call = Idle
              /\ requests' = Append(requests, frame)
              /\ call' = [op |-> "await"]

ClientSubscribe(topic, requestReply) ==
  /\ Len(subscriptions) < MaxSubscriptions
  /\ Ask([kind |-> "subscribe", topic |-> topic, requestReply |-> requestReply])
  /\ UNCHANGED <<wire, queue, sessionVars, threadVars, historyVars, clientVars>>

ClientRegisterEmitter(topic) ==
  /\ topic \notin bound
  /\ Ask([kind |-> "register_emitter", topic |-> topic])
  /\ UNCHANGED <<wire, queue, sessionVars, threadVars, historyVars, clientVars>>

(***************************************************************************)
(* _emit_frame looks its IDs up among the client's registrations and       *)
(* raises where one is missing.  A request names the reply subscription    *)
(* of the requester that owns the emitter.                                 *)
(***************************************************************************)
ClientEmit(topic) ==
  /\ topic \in bound
  /\ Needs(topic) \subseteq known
  /\ CanEmit
  /\ \/ /\ topic \notin RequestOnly
        /\ Ask([kind |-> "emit", topic |-> topic, operation |-> "publish",
                replySubscription |-> 0])
     \/ /\ topic \in RequestOnly
        /\ \E s \in DOMAIN subscriptions :
             /\ subscriptions[s].requestReply
             /\ Ask([kind |-> "emit", topic |-> topic, operation |-> "request",
                     replySubscription |-> s])
  /\ UNCHANGED <<wire, queue, sessionVars, threadVars, historyVars, clientVars>>

(* _received_message_from_frame looks up the names of a delivery's IDs. *)
Decode(s, message) ==
  /\ received' = [received EXCEPT ![s] = Append(@, message)]
  /\ undecoded' = IF Needs(message.topic) \subseteq known
                  THEN undecoded ELSE undecoded \cup {message}

ClientTakeHeld(s) ==
  /\ call = Idle
  /\ held[s] # <<>>
  /\ Decode(s, Head(held[s]))
  /\ held' = [held EXCEPT ![s] = Tail(@)]
  /\ UNCHANGED <<requests, wire, queue, call, sessionVars, threadVars,
                 historyVars, known, bound>>

(* Mutant: receive() goes to the connection past the frames it holds. *)
ClientReceive_pastHeld(s) ==
  /\ call = Idle
  /\ s \in DOMAIN subscriptions
  /\ call' = [op |-> "receive", subscription |-> s]
  /\ UNCHANGED <<requests, wire, queue, sessionVars, threadVars, historyVars,
                 clientVars>>

(* receive() on a subscription whose client-side queue is empty *)
ClientReceive(s) ==
  /\ call = Idle
  /\ s \in DOMAIN subscriptions
  /\ held[s] = <<>>
  /\ call' = [op |-> "receive", subscription |-> s]
  /\ UNCHANGED <<requests, wire, queue, sessionVars, threadVars, historyVars,
                 clientVars>>

(* receive_nowait and receive_available return when no frame is there. *)
ClientStopsReceiving ==
  /\ call.op = "receive"
  /\ wire = <<>>
  /\ call' = Idle
  /\ UNCHANGED <<requests, wire, queue, sessionVars, threadVars, historyVars,
                 clientVars>>

(* The client waits for a result, or for a delivery, and reads a frame. *)
ClientReadFrame ==
  /\ call # Idle
  /\ wire # <<>>
  /\ wire' = Tail(wire)
  /\ LET frame == Head(wire)
     IN \/ /\ frame.kind = "registrations"
           /\ known' = known \cup frame.registrations
           /\ UNCHANGED <<call, bound, held, received, undecoded>>
        \/ /\ frame.kind = "delivery"
           /\ IF call = [op |-> "receive", subscription |-> frame.subscription]
              THEN /\ Decode(frame.subscription, frame.message)
                   /\ call' = Idle
                   /\ UNCHANGED held
              ELSE /\ held' = [held EXCEPT ![frame.subscription] =
                                 Append(@, frame.message)]
                   /\ UNCHANGED <<call, received, undecoded>>
           /\ UNCHANGED <<known, bound>>
        \/ /\ frame.kind = "result"
           /\ known' = known \cup frame.registrations
           /\ bound' = bound \cup frame.emitter
           /\ call' = Idle
           /\ UNCHANGED <<held, received, undecoded>>
  /\ UNCHANGED <<requests, queue, sessionVars, threadVars, historyVars>>

------------------------------------------------------------------------------
(* The core, as the session uses it: an ID, and the targets that match. *)

Matching(topic) == {s \in DOMAIN subscriptions : subscriptions[s].topic = topic}

Message(topic, operation, replyTo) ==
  [id |-> nextId, topic |-> topic, operation |-> operation, replyTo |-> replyTo]

(* An emission returns with the last of its targets. *)
To(targets, message) ==
  IF targets = {} THEN Idle
  ELSE [op |-> "deliver", message |-> message, targets |-> targets]

Emission(message) == To(Matching(message.topic), message)

(* They get the message in the order in which they have subscribed. *)
Target(e) == Min(emitting[e].targets)

Goes(e) == To(emitting[e].targets \ {Target(e)}, emitting[e].message)

------------------------------------------------------------------------------
(* The reader: handle_next_frame. *)

Result(emitter) ==
  [kind |-> "result", registrations |-> {}, emitter |-> emitter]

(* bind_subscription, add_subscription_binding and add_receiver *)
HandleSubscribe ==
  /\ reader = Idle
  /\ requests # <<>>
  /\ Head(requests).kind = "subscribe"
  /\ LET frame == Head(requests)
     IN /\ subscriptions' = Append(subscriptions,
             [topic |-> frame.topic, requestReply |-> frame.requestReply])
        /\ reader' = [op |-> "take", needs |-> Needs(frame.topic),
                      result |-> Result({})]
  /\ requests' = Tail(requests)
  /\ UNCHANGED <<wire, queue, owners, sent, worker, emitting, historyVars, call,
                 clientVars>>

HandleRegisterEmitter ==
  /\ reader = Idle
  /\ requests # <<>>
  /\ Head(requests).kind = "register_emitter"
  /\ reader' = [op |-> "take", needs |-> Needs(Head(requests).topic),
                result |-> Result({Head(requests).topic})]
  /\ requests' = Tail(requests)
  /\ UNCHANGED <<wire, queue, sessionVars, worker, emitting, historyVars, call,
                 clientVars>>

(* registrations_to_send marks as sent what the result is going to carry. *)
TakeForResult ==
  /\ reader.op = "take"
  /\ reader' = [op |-> "send",
                result |-> [reader.result EXCEPT !.registrations =
                                                   reader.needs \ sent]]
  /\ sent' = sent \cup reader.needs
  /\ UNCHANGED <<requests, wire, queue, subscriptions, owners, worker, emitting,
                 historyVars, call, clientVars>>

SendResult ==
  /\ reader.op = "send"
  /\ wire' = Append(wire, reader.result)
  /\ reader' = Idle
  /\ UNCHANGED <<requests, queue, sessionVars, worker, emitting, historyVars,
                 call, clientVars>>

(* Mutant: nobody becomes the owner of the replies. *)
HandleEmit_unowned ==
  /\ reader = Idle
  /\ requests # <<>>
  /\ Head(requests).kind = "emit"
  /\ LET frame == Head(requests)
     IN /\ emitting' = [emitting EXCEPT ![Reader] =
                          Emission(Message(frame.topic, frame.operation, 0))]
        /\ asked' = With(asked, nextId, frame.replySubscription)
  /\ UNCHANGED owners
  /\ nextId' = nextId + 1
  /\ reader' = [op |-> "emit"]
  /\ requests' = Tail(requests)
  /\ UNCHANGED <<wire, queue, subscriptions, sent, worker, accepted, call,
                 clientVars>>

(***************************************************************************)
(* begin_request_emit and emit_serialized_from.  The observer that makes   *)
(* the subscription the owner of the replies runs before any target sees   *)
(* the request, so no reply can come too early.                            *)
(***************************************************************************)
HandleEmit ==
  /\ reader = Idle
  /\ requests # <<>>
  /\ Head(requests).kind = "emit"
  /\ LET frame == Head(requests)
     IN /\ emitting' = [emitting EXCEPT ![Reader] =
                          Emission(Message(frame.topic, frame.operation, 0))]
        /\ asked' = With(asked, nextId, frame.replySubscription)
        /\ owners' = IF frame.replySubscription = 0 THEN owners
                     ELSE With(owners, nextId, frame.replySubscription)
  /\ nextId' = nextId + 1
  /\ reader' = [op |-> "emit"]
  /\ requests' = Tail(requests)
  /\ UNCHANGED <<wire, queue, subscriptions, sent, worker, accepted, call,
                 clientVars>>

(***************************************************************************)
(* The core refuses the emission before the observer runs (the bootstrap   *)
(* policy, or a capture write that raises, which uses up an ID); the frame *)
(* that says so ends the client's call as a result does.                   *)
(***************************************************************************)
HandleEmitRefused ==
  /\ reader = Idle
  /\ requests # <<>>
  /\ Head(requests).kind = "emit"
  /\ CanEmit
  /\ nextId' \in {nextId, nextId + 1}
  /\ wire' = Append(wire, Result({}))
  /\ requests' = Tail(requests)
  /\ UNCHANGED <<queue, sessionVars, threadVars, asked, accepted, call,
                 clientVars>>

(* Mutant: the emission ends without a result frame. *)
EmitReturns_silent ==
  /\ reader.op = "emit"
  /\ emitting[Reader] = Idle
  /\ reader' = Idle
  /\ UNCHANGED <<requests, wire, queue, sessionVars, worker, emitting,
                 historyVars, call, clientVars>>

(* finish_request_emit, and on to the EmitResultFrame *)
EmitReturns ==
  /\ reader.op = "emit"
  /\ emitting[Reader] = Idle
  /\ wire' = Append(wire, Result({}))
  /\ reader' = Idle
  /\ UNCHANGED <<requests, queue, sessionVars, worker, emitting, historyVars,
                 call, clientVars>>

------------------------------------------------------------------------------
(* Emissions of other sessions, and what every emission does here. *)

Publish(p, topic) ==
  /\ emitting[p] = Idle
  /\ CanEmit
  /\ \/ /\ "publish" \in Operations[p]
        /\ emitting' = [emitting EXCEPT ![p] =
                          Emission(Message(topic, "publish", 0))]
     \/ \E request \in {m \in DOMAIN asked : asked[m] # 0} :
          /\ "reply" \in Operations[p]
          /\ emitting' = [emitting EXCEPT ![p] =
                            Emission(Message(topic, "reply", request))]
  /\ nextId' = nextId + 1
  /\ UNCHANGED <<requests, wire, queue, sessionVars, reader, worker, asked,
                 accepted, call, clientVars>>

IsForOwner(s, message) ==
  subscriptions[s].requestReply /\ message.operation = "reply"

Enqueue(s, message) ==
  /\ queue' = Append(queue, [subscription |-> s, message |-> message])
  /\ accepted' = [accepted EXCEPT ![s] = Append(@, message)]

DeliverNext(e) ==
  /\ emitting[e].op = "deliver"
  /\ ~IsForOwner(Target(e), emitting[e].message)
  /\ Enqueue(Target(e), emitting[e].message)
  /\ emitting' = [emitting EXCEPT ![e] = Goes(e)]
  /\ UNCHANGED <<requests, wire, sessionVars, reader, worker, nextId, asked,
                 call, clientVars>>

(* Mutant: the owner is not compared with the subscription. *)
FindOwner_anyOwner(e) ==
  /\ emitting[e].op = "deliver"
  /\ LET s == Target(e)
         reply == emitting[e].message
     IN /\ IsForOwner(s, reply)
        /\ \/ /\ reply.replyTo \in DOMAIN owners
              /\ emitting' = [emitting EXCEPT ![e].op = "claim"]
           \/ /\ reply.replyTo \notin DOMAIN owners
              /\ emitting' = [emitting EXCEPT ![e] = Goes(e)]
  /\ UNCHANGED <<requests, wire, queue, sessionVars, reader, worker,
                 historyVars, call, clientVars>>

(* _accept_request_reply: owner = self._request_reply_owners.get(reply_to) *)
FindOwner(e) ==
  /\ emitting[e].op = "deliver"
  /\ LET s == Target(e)
         reply == emitting[e].message
         owned == reply.replyTo \in DOMAIN owners /\ owners[reply.replyTo] = s
     IN /\ IsForOwner(s, reply)
        /\ emitting' = IF owned THEN [emitting EXCEPT ![e].op = "claim"]
                       ELSE [emitting EXCEPT ![e] = Goes(e)]
  /\ UNCHANGED <<requests, wire, queue, sessionVars, reader, worker,
                 historyVars, call, clientVars>>

(* Mutant: a reply is let through and the entry of its owner stays. *)
ClaimReply_keepsOwner(e) ==
  /\ emitting[e].op = "claim"
  /\ Enqueue(Target(e), emitting[e].message)
  /\ emitting' = [emitting EXCEPT ![e] = Goes(e)]
  /\ UNCHANGED <<requests, wire, sessionVars, reader, worker, nextId, asked,
                 call, clientVars>>

(***************************************************************************)
(* del self._request_reply_owners[reply_to].  Where another thread has     *)
(* been faster, the KeyError goes up through the core into the emission    *)
(* of the session that replied, which ends there.                          *)
(***************************************************************************)
ClaimReply(e) ==
  /\ emitting[e].op = "claim"
  /\ LET reply == emitting[e].message
     IN \/ /\ reply.replyTo \in DOMAIN owners
           /\ owners' = Without(owners, reply.replyTo)
           /\ Enqueue(Target(e), reply)
           /\ emitting' = [emitting EXCEPT ![e] = Goes(e)]
        \/ /\ reply.replyTo \notin DOMAIN owners
           /\ emitting' = [emitting EXCEPT ![e] = [op |-> "failed"]]
           /\ UNCHANGED <<owners, queue, accepted>>
  /\ UNCHANGED <<requests, wire, subscriptions, sent, reader, worker, nextId,
                 asked, call, clientVars>>

------------------------------------------------------------------------------
(* The worker: _handle_next_delivery and _send_delivery_frame. *)

(* Nobody sees whether it has taken the item or not until it marks the     *)
(* registrations as sent.                                                  *)
WorkerTake ==
  /\ worker = Idle
  /\ queue # <<>>
  /\ LET needs == Needs(Head(queue).message.topic)
     IN /\ worker' = [op |-> "announce", item |-> Head(queue),
                      registrations |-> needs \ sent]
        /\ sent' = sent \cup needs
  /\ queue' = Tail(queue)
  /\ UNCHANGED <<requests, wire, subscriptions, owners, reader, emitting,
                 historyVars, call, clientVars>>

(* Mutant: the registrations follow the delivery that needs them. *)
WorkerAnnounce_afterwards ==
  /\ worker.op = "announce"
  /\ worker' = Idle
  /\ wire' = wire \o <<[kind |-> "delivery",
                        subscription |-> worker.item.subscription,
                        message |-> worker.item.message],
                       [kind |-> "registrations",
                        registrations |-> worker.registrations]>>
  /\ UNCHANGED <<requests, queue, sessionVars, reader, emitting, historyVars,
                 call, clientVars>>

WorkerAnnounce ==
  /\ worker.op = "announce"
  /\ worker' = [op |-> "send", item |-> worker.item]
  /\ wire' = IF worker.registrations = {} THEN wire
             ELSE Append(wire, [kind |-> "registrations",
                                registrations |-> worker.registrations])
  /\ UNCHANGED <<requests, queue, sessionVars, reader, emitting, historyVars,
                 call, clientVars>>

WorkerSend ==
  /\ worker.op = "send"
  /\ wire' = Append(wire, [kind |-> "delivery",
                           subscription |-> worker.item.subscription,
                           message |-> worker.item.message])
  /\ worker' = Idle
  /\ UNCHANGED <<requests, queue, sessionVars, reader, emitting, historyVars,
                 call, clientVars>>

------------------------------------------------------------------------------
ClientStep ==
  \/ \E topic \in Topics :
       \/ \E requestReply \in BOOLEAN : ClientSubscribe(topic, requestReply)
       \/ ClientRegisterEmitter(topic)
       \/ ClientEmit(topic)
  \/ \E s \in Subscriptions : ClientTakeHeld(s) \/ ClientReceive(s)
  \/ ClientStopsReceiving

ReaderStep == \/ HandleSubscribe
              \/ HandleRegisterEmitter
              \/ HandleEmit
              \/ HandleEmitRefused
              \/ TakeForResult
              \/ SendResult
              \/ EmitReturns

DeliverStep(e) == DeliverNext(e) \/ FindOwner(e) \/ ClaimReply(e)

WorkerStep == WorkerTake \/ WorkerAnnounce \/ WorkerSend

Next == \/ ClientStep
        \/ ClientReadFrame
        \/ ReaderStep
        \/ WorkerStep
        \/ \E e \in Emitters : DeliverStep(e)
        \/ \E p \in Publishers, topic \in Topics : Publish(p, topic)

Spec == Init /\ [][Next]_vars

------------------------------------------------------------------------------
(* Properties *)

(***************************************************************************)
(* The client never meets an ID it cannot name when it decodes a delivery, *)
(* although the reader may have marked the registration as sent and not    *)
(* have sent it: then the client waits for that very result, and decodes   *)
(* no delivery before it.                                                  *)
(***************************************************************************)
EveryDeliveryDecodes == undecoded = {}

(***************************************************************************)
(* What a subscription's target let through reaches the client's receiver  *)
(* in that order, without loss or repetition, over the delivery queue, the *)
(* worker, the connection and the client's own queues.                     *)
(***************************************************************************)
OnWire(s) == {i \in DOMAIN wire : /\ wire[i].kind = "delivery"
                                  /\ wire[i].subscription = s}

InWorker(s) == worker # Idle /\ worker.item.subscription = s

InQueue(s) == {i \in DOMAIN queue : queue[i].subscription = s}

(* Which one of the places is i, counted from the first? *)
Rank(places, i) == Cardinality({j \in places : j <= i})

Arrived(s) == received[s] \o held[s]

Sent(s) == Len(Arrived(s)) + Cardinality(OnWire(s))

Taken(s) == Sent(s) + (IF InWorker(s) THEN 1 ELSE 0)

InOrder(s) ==
  /\ Len(accepted[s]) = Taken(s) + Cardinality(InQueue(s))
  /\ \A i \in DOMAIN Arrived(s) : accepted[s][i] = Arrived(s)[i]
  /\ \A i \in OnWire(s) :
       accepted[s][Len(Arrived(s)) + Rank(OnWire(s), i)] = wire[i].message
  /\ InWorker(s) => accepted[s][Taken(s)] = worker.item.message
  /\ \A i \in InQueue(s) :
       accepted[s][Taken(s) + Rank(InQueue(s), i)] = queue[i].message

NothingLostOrReordered == \A s \in Subscriptions : InOrder(s)

(***************************************************************************)
(* A requester's reply subscription gets replies to its own requests only, *)
(* one for each, whoever else replies or listens; and the first reply to a *)
(* request is never turned away: its owner entry is there from the moment  *)
(* the request can be seen until a reply takes it.                         *)
(***************************************************************************)
Replies(s) == {i \in DOMAIN accepted[s] : accepted[s][i].operation = "reply"}

RequestOf(s, i) == accepted[s][i].replyTo

OnlyOwnReplies ==
  \A s \in DOMAIN subscriptions : subscriptions[s].requestReply =>
    /\ \A i \in Replies(s) : asked[RequestOf(s, i)] = s
    /\ \A i, j \in Replies(s) : RequestOf(s, i) = RequestOf(s, j) => i = j

Answered(request) ==
  \E i \in Replies(asked[request]) : RequestOf(asked[request], i) = request

OpenRequestsHaveOwners ==
  \A request \in DOMAIN asked :
    asked[request] # 0 /\ ~Answered(request) =>
      request \in DOMAIN owners /\ owners[request] = asked[request]

RepliesFindTheirOwner == OnlyOwnReplies /\ OpenRequestsHaveOwners

(***************************************************************************)
(* A call of the client that awaits a result has exactly one under way, in *)
(* its frame, in the reader or on the wire, and no other call has one: no  *)
(* result goes to the call after the one it answers.  The reader, which    *)
(* answers in the midst of other sessions' replies, can always go on.      *)
(***************************************************************************)
Results == {i \in DOMAIN wire : wire[i].kind = "result"}

UnderWay ==
  Len(requests) + Cardinality(Results) + (IF reader = Idle THEN 0 ELSE 1)

OneAnswer == UnderWay = IF call.op = "await" THEN 1 ELSE 0

ReaderGoesOn == reader # Idle => ENABLED (ReaderStep \/ DeliverStep(Reader))

AnswerUnderWay == OneAnswer /\ ReaderGoesOn

==============================================================================
