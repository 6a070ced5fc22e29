-------------------------- MODULE DirectBrokerCore --------------------------
(***************************************************************************)
(* ropemother/broker/directcore.py: the core every direct broker shares.   *)
(*                                                                         *)
(* The core gives compact IDs to the symbols its callers use, records      *)
(* every new ID and every message through the CaptureController, and       *)
(* delivers a message to the receivers whose subscription matches it.      *)
(*                                                                         *)
(* One caller is inside the core at a time.  That is how the core runs     *)
(* under AsyncDirectMessageBus and AsyncMessageBusService, whose calls     *)
(* into the core never await, and under a DirectMessageBus that one thread *)
(* uses; BrokerRaces models the sessions of the threaded service.  A call  *)
(* that registers symbols does so one symbol at a time and stops where a   *)
(* capture write raises, so the call is a program: "todo" holds what it    *)
(* has still to register or, for set_capture_sink, to write.               *)
(***************************************************************************)
EXTENDS Naturals, Sequences, FiniteSets, SequencesExt

CONSTANTS Topics,           \* topics, as sequences of their segments
          Producers,
          MsgTypes,
          Formats,          \* keys of portable formats
          EmitterConfigs,   \* the arguments of bind_emitter
          Filters,          \* the arguments of bind_subscription
          Receivers,        \* delivery targets, one for each subscription
          Operations,       \* bus operations, "publish" among them
          Sizes,            \* payload lengths in bytes
          LifecycleTopics,  \* roots of the topics the bootstrap policy admits
          LifecycleTypes,   \* message types the bootstrap policy admits
          MaxRecords,       \* BootstrapBufferLimits.max_records
          MaxPayloadBytes,  \* BootstrapBufferLimits.max_payload_bytes
          MaxSinkFailures,  \* bound on the sink writes that raise
          Registrable,      \* symbols registered outside a binding
          MaxMessages,      \* bound on the messages a behaviour builds
          NoMessage,        \* no message has been delivered
          NoFilter          \* a target without a subscription

Kinds == {"topic", "producer", "msg_type", "format"}

Symbol(kind, name) == [kind |-> kind, name |-> name]

Symbols == {Symbol("topic", n) : n \in Topics}
             \cup {Symbol("producer", n) : n \in Producers}
             \cup {Symbol("msg_type", n) : n \in MsgTypes}
             \cup {Symbol("format", n) : n \in Formats}

(***************************************************************************)
(* An emitter's type and format policy, already normalized: the listed     *)
(* types and formats in the order bind_emitter registers them, the pairs   *)
(* the policy supports, and allow_unlisted_type_formats.                   *)
(***************************************************************************)
EmitterConfig ==
  [topic : Topics, producer : Producers,
   types : Seq(MsgTypes), formats : Seq(Formats),
   supported : SUBSET (MsgTypes \X Formats), open : BOOLEAN]

(***************************************************************************)
(* A subscription: topic selectors (exact, or the whole subtree), and      *)
(* producers and types, where an empty sequence stands for None.           *)
(***************************************************************************)
Filter ==
  [topics : Seq([topic : Topics, tree : BOOLEAN]),
   producers : Seq(Producers), types : Seq(MsgTypes)]

ASSUME ConstantsAssumption ==
  /\ EmitterConfigs \subseteq EmitterConfig
  /\ Filters \subseteq Filter
  /\ MaxRecords \in Nat \ {0}
  /\ MaxPayloadBytes \in Nat
  /\ Sizes \subseteq Nat
  /\ MaxMessages \in Nat
  /\ MaxSinkFailures \in Nat
  /\ Registrable \subseteq {s \in Symbols : s.kind \in {"msg_type", "format"}}
  /\ NoFilter \notin Filters

------------------------------------------------------------------------------
(* Records: what a capture sink stores. *)

Registration(symbol, id) ==
  [record |-> "registration", symbol |-> symbol, id |-> id]

Registrations == [record : {"registration"}, symbol : Symbols, id : Nat]

(***************************************************************************)
(* BusMessage carries the readable names and the compact IDs; the captured *)
(* view keeps only the IDs and the received view only the names.           *)
(***************************************************************************)
Names == [topic : Topics, producer : Producers,
          msg_type : MsgTypes, format : Formats]

Messages == [record : {"message"}, names : Names, ids : [Kinds -> Nat],
             operation : Operations, size : Sizes,
             busSequence : Nat, topicSequence : Nat]

IsMessage(rec) == rec.record = "message"

SymbolOf(m, kind) == Symbol(kind, m.names[kind])

(* The registration a reader needs to turn one of m's IDs into its name. *)
RegistrationFor(m, kind) == Registration(SymbolOf(m, kind), m.ids[kind])

PayloadBytes(rec) == IF IsMessage(rec) THEN rec.size ELSE 0

------------------------------------------------------------------------------
VARIABLES
  ids,             \* the symbol and format tables: symbol -> ID
  registrations,   \* DirectBrokerCore._registrations
  captureState,    \* CaptureController._state
  buffer,          \* the bootstrap buffer's records, <<>> when there is none
  bufferBytes,     \* the bootstrap buffer's payload bytes
  captured,        \* what the attached capture sink has stored
  sinkFailures,    \* how many writes to the sink have raised
  busSequence,
  topicSequences,  \* topic ID -> next sequence
  receivers,       \* DirectBrokerCore._receivers
  opened,          \* delivery targets that have been in use
  emitters,        \* the bindings callers hold
  inbox,           \* the receivers' queues
  call,            \* the call in progress
  refused,         \* history: registrations whose capture write raised
  latest           \* history: the message delivered last

vars == <<ids, registrations, captureState, buffer, bufferBytes, captured,
          sinkFailures, busSequence, topicSequences, receivers, opened, emitters, inbox,
          call, refused, latest>>

registryVars == <<ids, registrations>>
captureVars == <<captureState, buffer, bufferBytes, captured, sinkFailures>>
sequenceVars == <<busSequence, topicSequences>>
endpointVars == <<receivers, opened, emitters>>

Idle == [op |-> "idle", todo |-> <<>>]

Calls ==
  [op : {"idle", "register"}, todo : Seq(Symbols)]
    \cup [op : {"bind_emitter"}, todo : Seq(Symbols), config : EmitterConfigs]
    \cup [op : {"bind_subscription"}, todo : Seq(Symbols),
          receiver : Receivers, filter : Filters]
    \cup [op : {"emit"}, todo : Seq(Symbols), names : Names,
          operation : Operations, size : Sizes]
    \cup [op : {"activate"}, todo : Seq(Registrations \cup Messages)]

CaptureStates == {"disabled", "waiting-for-sink", "bootstrapping",
                  "swapping", "active", "failed"}

(***************************************************************************)
(* The sink handed to the constructor is a set_capture_sink call made      *)
(* before any other, so a core starts in one of three states.              *)
(***************************************************************************)
Init ==
  /\ ids = [s \in {} |-> 0]
  /\ registrations = <<>>
  /\ captureState \in {"disabled", "waiting-for-sink", "bootstrapping"}
  /\ buffer = <<>>
  /\ bufferBytes = 0
  /\ captured = <<>>
  /\ sinkFailures = 0
  /\ busSequence = 0
  /\ topicSequences = [n \in {} |-> 0]
  /\ receivers = <<>>
  /\ opened = {}
  /\ emitters = {}
  /\ inbox = [r \in Receivers |-> <<>>]
  /\ call = Idle
  /\ refused = {}
  /\ latest = NoMessage

------------------------------------------------------------------------------
(* The capture controller. *)

(* BootstrapBuffer._append_record refuses a record beyond either limit. *)
BufferHasRoom(rec) == /\ Len(buffer) + 1 <= MaxRecords
                      /\ bufferBytes + PayloadBytes(rec) <= MaxPayloadBytes

(***************************************************************************)
(* A write through _current_writer: into the buffer while bootstrapping,   *)
(* into the sink once it is active.                                        *)
(***************************************************************************)
WriteRecord(rec) ==
  /\ \/ /\ captureState = "bootstrapping"
        /\ BufferHasRoom(rec)
        /\ buffer' = Append(buffer, rec)
        /\ bufferBytes' = bufferBytes + PayloadBytes(rec)
        /\ UNCHANGED captured
     \/ /\ captureState = "active"
        /\ captured' = Append(captured, rec)
        /\ UNCHANGED <<buffer, bufferBytes>>
  /\ UNCHANGED <<captureState, sinkFailures>>

(* A sink write may raise, at most MaxSinkFailures times in a behaviour. *)
SinkRaises == /\ sinkFailures < MaxSinkFailures
              /\ sinkFailures' = sinkFailures + 1

(* Mutant: the buffer appends the record before it checks its limits. *)
WriteRaises_kept(rec) ==
  /\ \/ /\ captureState = "bootstrapping" /\ ~BufferHasRoom(rec)
        /\ buffer' = Append(buffer, rec)
        /\ UNCHANGED sinkFailures
     \/ /\ captureState = "active" /\ SinkRaises
        /\ UNCHANGED buffer
  /\ UNCHANGED <<captureState, bufferBytes, captured>>

(* The write raises and stores nothing. *)
WriteRaises(rec) ==
  /\ \/ /\ \/ captureState = "bootstrapping" /\ ~BufferHasRoom(rec)
           \/ captureState \in {"swapping", "failed"}
        /\ UNCHANGED sinkFailures
     \/ captureState = "active" /\ SinkRaises
  /\ UNCHANGED <<captureState, buffer, bufferBytes, captured>>

(* _write_registration_record: nothing to do without capture or a sink. *)
WriteRegistration(reg) ==
  \/ /\ captureState \in {"disabled", "waiting-for-sink"}
     /\ UNCHANGED captureVars
  \/ WriteRecord(reg)

(* Mutant: a message goes out unrecorded while there is no sink. *)
WriteMessage_unrecorded(m) ==
  \/ captureState \in {"disabled", "waiting-for-sink"} /\ UNCHANGED captureVars
  \/ WriteRecord(m)

(* write_message_record: without a sink a message must not go out. *)
WriteMessage(m) ==
  \/ captureState = "disabled" /\ UNCHANGED captureVars
  \/ WriteRecord(m)

WriteMessageRaises(m) ==
  \/ captureState = "waiting-for-sink" /\ UNCHANGED captureVars
  \/ WriteRaises(m)

(***************************************************************************)
(* The record the bus keeps: the sink's, and before that the buffer's.     *)
(***************************************************************************)
Log == IF captureState = "active" THEN captured ELSE buffer

------------------------------------------------------------------------------
(* set_capture_sink *)

(* Mutant: a sink that arrives late is not told the earlier registrations. *)
BeginActivation_bufferOnly ==
  /\ call = Idle
  /\ captureState \in {"waiting-for-sink", "bootstrapping"}
  /\ call' = [op |-> "activate", todo |-> buffer]
  /\ captureState' = "swapping"
  /\ UNCHANGED <<registryVars, buffer, bufferBytes, captured, sinkFailures,
                 sequenceVars, endpointVars, inbox, refused, latest>>

BeginActivation ==
  /\ call = Idle
  /\ captureState \in {"waiting-for-sink", "bootstrapping"}
  /\ call' = [op |-> "activate",
              todo |-> IF captureState = "bootstrapping"
                       THEN buffer ELSE registrations]
  /\ captureState' = "swapping"
  /\ UNCHANGED <<registryVars, buffer, bufferBytes, captured, sinkFailures,
                 sequenceVars, endpointVars, inbox, refused, latest>>

(* begin_capture and flush_to hand the sink one record after another. *)
ActivationWrite ==
  /\ call.op = "activate"
  /\ call.todo # <<>>
  /\ captured' = Append(captured, Head(call.todo))
  /\ call' = [call EXCEPT !.todo = Tail(@)]
  /\ UNCHANGED <<registryVars, captureState, buffer, bufferBytes, sinkFailures,
                 sequenceVars, endpointVars, inbox, refused, latest>>

ActivationFails ==
  /\ call.op = "activate"
  /\ call.todo # <<>>
  /\ SinkRaises
  /\ captureState' = "failed"
  /\ call' = Idle
  /\ UNCHANGED <<registryVars, buffer, bufferBytes, captured, sequenceVars,
                 endpointVars, inbox, refused, latest>>

CompleteActivation ==
  /\ call.op = "activate"
  /\ call.todo = <<>>
  /\ captureState' = "active"
  /\ buffer' = <<>>
  /\ bufferBytes' = 0
  /\ call' = Idle
  /\ UNCHANGED <<registryVars, captured, sinkFailures, sequenceVars,
                 endpointVars, inbox, refused, latest>>

------------------------------------------------------------------------------
(* Registering symbols. *)

(* Mutant: the size is taken as the highest ID. *)
NextId_offByOne(kind) == Cardinality({s \in DOMAIN ids : s.kind = kind}) - 1

NextId(kind) == Cardinality({s \in DOMAIN ids : s.kind = kind})

Registering == {"register", "bind_emitter", "bind_subscription", "emit"}

(* ensure_*_id finds the symbol in its table. *)
SymbolKnown ==
  /\ call.op \in Registering
  /\ call.todo # <<>>
  /\ Head(call.todo) \in DOMAIN ids
  /\ call' = [call EXCEPT !.todo = Tail(@)]
  /\ UNCHANGED <<registryVars, captureVars, sequenceVars, endpointVars, inbox,
                 refused, latest>>

(* Mutant: the registration is listed only once its write has succeeded. *)
RegisterSymbol_listedLate ==
  /\ call.op \in Registering
  /\ call.todo # <<>>
  /\ LET symbol == Head(call.todo)
         id == NextId(symbol.kind)
         registration == Registration(symbol, id)
     IN /\ symbol \notin DOMAIN ids
        /\ ids' = [s \in DOMAIN ids \cup {symbol} |->
                     IF s = symbol THEN id ELSE ids[s]]
        /\ \/ /\ WriteRegistration(registration)
              /\ registrations' = Append(registrations, registration)
              /\ call' = [call EXCEPT !.todo = Tail(@)]
              /\ UNCHANGED refused
           \/ /\ WriteRaises(registration)
              /\ call' = Idle
              /\ refused' = refused \cup {registration}
              /\ UNCHANGED registrations
  /\ UNCHANGED <<sequenceVars, endpointVars, inbox, latest>>

(***************************************************************************)
(* A new symbol enters its table and the registration list before the      *)
(* registration is written to the capture controller.  If that write       *)
(* raises, the call ends there and the symbol stays in the table.          *)
(***************************************************************************)
RegisterSymbol ==
  /\ call.op \in Registering
  /\ call.todo # <<>>
  /\ LET symbol == Head(call.todo)
         id == NextId(symbol.kind)
         registration == Registration(symbol, id)
     IN /\ symbol \notin DOMAIN ids
        /\ ids' = [s \in DOMAIN ids \cup {symbol} |->
                     IF s = symbol THEN id ELSE ids[s]]
        /\ registrations' = Append(registrations, registration)
        /\ \/ /\ WriteRegistration(registration)
              /\ call' = [call EXCEPT !.todo = Tail(@)]
              /\ UNCHANGED refused
           \/ /\ WriteRaises(registration)
              /\ call' = Idle
              /\ refused' = refused \cup {registration}
  /\ UNCHANGED <<sequenceVars, endpointVars, inbox, latest>>

(* register_msg_type and register_payload_format *)
Register(symbol) ==
  /\ call = Idle
  /\ symbol \in Registrable
  /\ call' = [op |-> "register", todo |-> <<symbol>>]
  /\ UNCHANGED <<registryVars, captureVars, sequenceVars, endpointVars, inbox,
                 refused, latest>>

CompleteRegister ==
  /\ call.op = "register"
  /\ call.todo = <<>>
  /\ call' = Idle
  /\ UNCHANGED <<registryVars, captureVars, sequenceVars, endpointVars, inbox,
                 refused, latest>>

SymbolSeq(kind, names) == [i \in DOMAIN names |-> Symbol(kind, names[i])]

------------------------------------------------------------------------------
(* bind_emitter and bind_subscription *)

BindEmitter(config) ==
  /\ call = Idle
  /\ call' = [op |-> "bind_emitter", config |-> config,
              todo |-> <<Symbol("topic", config.topic),
                         Symbol("producer", config.producer)>>
                       \o SymbolSeq("msg_type", config.types)
                       \o SymbolSeq("format", config.formats)]
  /\ UNCHANGED <<registryVars, captureVars, sequenceVars, endpointVars, inbox,
                 refused, latest>>

CompleteBindEmitter ==
  /\ call.op = "bind_emitter"
  /\ call.todo = <<>>
  /\ emitters' = emitters \cup {call.config}
  /\ call' = Idle
  /\ UNCHANGED <<registryVars, captureVars, sequenceVars, receivers, opened,
                 inbox, refused, latest>>

BindSubscription(r, filter) ==
  /\ call = Idle
  /\ r \notin opened
  /\ call' = [op |-> "bind_subscription", receiver |-> r, filter |-> filter,
              todo |-> [i \in DOMAIN filter.topics |->
                          Symbol("topic", filter.topics[i].topic)]
                       \o SymbolSeq("producer", filter.producers)
                       \o SymbolSeq("msg_type", filter.types)]
  /\ UNCHANGED <<registryVars, captureVars, sequenceVars, endpointVars, inbox,
                 refused, latest>>

(* The caller passes the binding's subscription on to add_receiver. *)
AddReceiver ==
  /\ call.op = "bind_subscription"
  /\ call.todo = <<>>
  /\ receivers' = Append(receivers,
                         [filter |-> call.filter, target |-> call.receiver])
  /\ opened' = opened \cup {call.receiver}
  /\ call' = Idle
  /\ UNCHANGED <<registryVars, captureVars, sequenceVars, emitters, inbox,
                 refused, latest>>

(* remove_receiver drops the first entry that holds the target. *)
RemoveReceiver(r) ==
  /\ call = Idle
  /\ \E i \in DOMAIN receivers :
       /\ receivers[i].target = r
       /\ \A j \in 1..(i - 1) : receivers[j].target # r
       /\ receivers' = RemoveAt(receivers, i)
  /\ UNCHANGED <<registryVars, captureVars, sequenceVars, opened, emitters,
                 inbox, call, refused, latest>>

------------------------------------------------------------------------------
(* emit_from and emit_serialized_from *)

RangeOf(seq) == {seq[i] : i \in DOMAIN seq}

(***************************************************************************)
(* The type and format resolve to a pair the policy supports, or the call  *)
(* raises and changes nothing.  An open emitter may use a type or a format *)
(* it did not list; each is registered before the payload is serialized.   *)
(***************************************************************************)
Emit(config, msgType, format, operation, size) ==
  /\ call = Idle
  /\ config \in emitters
  /\ busSequence < MaxMessages
  /\ config.open \/ <<msgType, format>> \in config.supported
  /\ call' =
       [op |-> "emit", operation |-> operation, size |-> size,
        names |-> [topic |-> config.topic, producer |-> config.producer,
                   msg_type |-> msgType, format |-> format],
        todo |-> (IF msgType \in RangeOf(config.types)
                  THEN <<>> ELSE <<Symbol("msg_type", msgType)>>)
                 \o (IF format \in RangeOf(config.formats)
                     THEN <<>> ELSE <<Symbol("format", format)>>)]
  /\ UNCHANGED <<registryVars, captureVars, sequenceVars, endpointVars, inbox,
                 refused, latest>>

(* The format cannot encode, or decode, this payload. *)
SerializationFails ==
  /\ call.op = "emit"
  /\ call.todo = <<>>
  /\ call' = Idle
  /\ UNCHANGED <<registryVars, captureVars, sequenceVars, endpointVars, inbox,
                 refused, latest>>

(* _build_message *)
NextTopicSequence(topicId) ==
  IF topicId \in DOMAIN topicSequences THEN topicSequences[topicId] ELSE 0

(* Mutant: the topic's sequence is looked up under the producer's ID. *)
BuiltMessage_wrongKey ==
  [record |-> "message", names |-> call.names,
   ids |-> [kind \in Kinds |-> ids[Symbol(kind, call.names[kind])]],
   operation |-> call.operation, size |-> call.size,
   busSequence |-> busSequence,
   topicSequence |->
     NextTopicSequence(ids[Symbol("producer", call.names.producer)])]

BuiltMessage ==
  [record |-> "message", names |-> call.names,
   ids |-> [kind \in Kinds |-> ids[Symbol(kind, call.names[kind])]],
   operation |-> call.operation, size |-> call.size,
   busSequence |-> busSequence,
   topicSequence |-> NextTopicSequence(ids[Symbol("topic", call.names.topic)])]

(* A topic matches its own selector, and the selector of a tree it is in. *)
TopicMatches(selector, topic) ==
  \/ topic = selector.topic
  \/ selector.tree /\ IsStrictPrefix(selector.topic, topic)

Matches(filter, m) ==
  /\ filter.producers = <<>> \/ m.names.producer \in RangeOf(filter.producers)
  /\ filter.types = <<>> \/ m.names.msg_type \in RangeOf(filter.types)
  /\ \E selector \in RangeOf(filter.topics) :
       TopicMatches(selector, m.names.topic)

(* Mutant: a subscription is asked for its topics only. *)
MatchingReceivers_byTopic(m) ==
  {entry.target : entry \in
     {e \in RangeOf(receivers) :
        \E selector \in RangeOf(e.filter.topics) :
          TopicMatches(selector, m.names.topic)}}

MatchingReceivers(m) ==
  {entry.target : entry \in
     {e \in RangeOf(receivers) : Matches(e.filter, m)}}

(* LifecycleBootstrapPolicy.decide_message *)
PolicyAccepts(m) ==
  /\ m.operation = "publish"
  /\ \E root \in LifecycleTopics :
       TopicMatches([topic |-> root, tree |-> TRUE], m.names.topic)
  /\ m.names.msg_type \in LifecycleTypes

(* _ensure_bootstrap_message_allowed *)
BootstrapAllows(m) == captureState = "bootstrapping" => PolicyAccepts(m)

(***************************************************************************)
(* _deliver: the message takes its sequence numbers, passes the bootstrap  *)
(* policy, is written to the capture controller and goes to the receivers. *)
(* Where the policy or the write raises, the numbers stay used and nobody  *)
(* receives anything.                                                      *)
(***************************************************************************)
Deliver ==
  /\ call.op = "emit"
  /\ call.todo = <<>>
  /\ LET m == BuiltMessage
     IN /\ busSequence' = busSequence + 1
        /\ topicSequences' =
             [n \in DOMAIN topicSequences \cup {m.ids["topic"]} |->
                IF n = m.ids["topic"] THEN m.topicSequence + 1
                                      ELSE topicSequences[n]]
        /\ \/ /\ BootstrapAllows(m)
              /\ WriteMessage(m)
              /\ inbox' = [r \in Receivers |->
                             IF r \in MatchingReceivers(m)
                             THEN Append(inbox[r], m) ELSE inbox[r]]
              /\ latest' = m
           \/ /\ \/ ~BootstrapAllows(m) /\ UNCHANGED captureVars
                 \/ BootstrapAllows(m) /\ WriteMessageRaises(m)
              /\ UNCHANGED <<inbox, latest>>
  /\ call' = Idle
  /\ UNCHANGED <<registryVars, endpointVars, refused>>

(* A receiver's owner takes the next message from its queue. *)
Receive(r) ==
  /\ inbox[r] # <<>>
  /\ inbox' = [inbox EXCEPT ![r] = Tail(@)]
  /\ UNCHANGED <<registryVars, captureVars, sequenceVars, endpointVars, call,
                 refused, latest>>

------------------------------------------------------------------------------
CaptureStep == \/ BeginActivation
               \/ ActivationWrite
               \/ ActivationFails
               \/ CompleteActivation

BindStep ==
  \/ SymbolKnown
  \/ RegisterSymbol
  \/ \E symbol \in Registrable : Register(symbol)
  \/ CompleteRegister
  \/ \E config \in EmitterConfigs : BindEmitter(config)
  \/ CompleteBindEmitter
  \/ \E r \in Receivers, filter \in Filters : BindSubscription(r, filter)
  \/ AddReceiver
  \/ \E r \in Receivers : RemoveReceiver(r)

EmitStep ==
  \/ \E config \in EmitterConfigs, msgType \in MsgTypes, format \in Formats,
       operation \in Operations, size \in Sizes :
       Emit(config, msgType, format, operation, size)
  \/ SerializationFails
  \/ Deliver
  \/ \E r \in Receivers : Receive(r)

Next == CaptureStep \/ BindStep \/ EmitStep

Spec == Init /\ [][Next]_vars

------------------------------------------------------------------------------
(* Properties *)

TypeOK ==
  /\ DOMAIN ids \subseteq Symbols /\ IsFiniteSet(DOMAIN ids)
  /\ ids \in [DOMAIN ids -> Nat]
  /\ registrations \in Seq(Registrations)
  /\ captureState \in CaptureStates
  /\ buffer \in Seq(Registrations \cup Messages)
  /\ bufferBytes \in Nat
  /\ captured \in Seq(Registrations \cup Messages)
  /\ sinkFailures \in Nat
  /\ busSequence \in Nat
  /\ DOMAIN topicSequences \subseteq Nat
  /\ topicSequences \in [DOMAIN topicSequences -> Nat]
  /\ receivers \in Seq([filter : Filters, target : Receivers])
  /\ opened \subseteq Receivers
  /\ emitters \subseteq EmitterConfigs
  /\ inbox \in [Receivers -> Seq(Messages)]
  /\ call \in Calls
  /\ refused \subseteq Registrations
  /\ latest \in Messages \cup {NoMessage}

(***************************************************************************)
(* Whoever reads the sink's records in order can turn every ID of every    *)
(* message into the name its emitter used: the registration comes earlier, *)
(* except where the write of that very registration raised.  The same      *)
(* holds of the bootstrap buffer.  (DirectBrokerCore._capture_symbol_event *)
(* and CaptureController.activate_capture_sink.)                           *)
(***************************************************************************)
RecordedBefore(records, i, registration) ==
  \E j \in 1..(i - 1) : records[j] = registration

Interpretable(records, exceptions) ==
  \A i \in DOMAIN records : IsMessage(records[i]) =>
    \A kind \in Kinds :
      LET registration == RegistrationFor(records[i], kind)
      IN \/ RecordedBefore(records, i, registration)
         \/ registration \in exceptions

CapturedInterpretable == /\ Interpretable(captured, refused)
                         /\ Interpretable(buffer, refused)

(***************************************************************************)
(* The registration list gives each symbol one ID and each ID of a kind    *)
(* one symbol, and it agrees with the tables, so registrations_for always  *)
(* finds the record it looks for.                                          *)
(***************************************************************************)
IdsUnique ==
  \A s, t \in DOMAIN ids : s.kind = t.kind /\ ids[s] = ids[t] => s = t

RegistrationsMatchTables ==
  RangeOf(registrations) = {Registration(s, ids[s]) : s \in DOMAIN ids}

RegistryConsistent == IdsUnique /\ RegistrationsMatchTables

(***************************************************************************)
(* With capture on, a receiver never holds a message the record lacks:     *)
(* _deliver writes the message before it calls a receiver, and activation  *)
(* carries the buffered messages over.                                     *)
(***************************************************************************)
DeliveredIsRecorded ==
  captureState # "disabled" =>
    \A r \in Receivers : \A i \in DOMAIN inbox[r] :
      \E j \in DOMAIN Log : Log[j] = inbox[r][i]

(***************************************************************************)
(* The record lists messages in bus order, and a topic's messages in topic *)
(* order, through refused writes and the change from buffer to sink.       *)
(***************************************************************************)
RecordedInOrder ==
  \A j \in DOMAIN Log : \A i \in 1..(j - 1) :
    IsMessage(Log[i]) /\ IsMessage(Log[j]) =>
      /\ Log[i].busSequence < Log[j].busSequence
      /\ Log[i].names.topic = Log[j].names.topic =>
           Log[i].topicSequence < Log[j].topicSequence

(***************************************************************************)
(* Activating a sink loses, repeats and reorders nothing that was recorded *)
(* so far: the record as a reader would see it only ever grows at its end. *)
(***************************************************************************)
LogOnlyGrows == [][IsPrefix(Log, Log')]_vars

(***************************************************************************)
(* Every step is a step of CapturedBus or changes nothing it can see.      *)
(***************************************************************************)
SubscriptionOf(r) ==
  IF \E i \in DOMAIN receivers : receivers[i].target = r
  THEN receivers[CHOOSE i \in DOMAIN receivers : receivers[i].target = r].filter
  ELSE NoFilter

Bus == INSTANCE CapturedBus WITH
         capturing <- captureState # "disabled",
         log <- Log,
         subscription <- [r \in Receivers |-> SubscriptionOf(r)]

ImplementsCapturedBus == Bus!Spec

(***************************************************************************)
(* What README.md:203 says of capture: it records messages and the         *)
(* information needed to interpret them later.  The code does not keep     *)
(* this where a registration's write raises.                               *)
(***************************************************************************)
CapturedWithItsMeaning == Interpretable(captured, {})

==============================================================================
