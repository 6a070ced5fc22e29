------------------------------ MODULE Endpoints ------------------------------
(***************************************************************************)
(* The endpoint factories and the async provisioner: they make clients,    *)
(* services and publishers from register_emitter and subscribe, on the bus *)
(* itself or over a transport connection, and the program then calls them. *)
(*                                                                         *)
(* A creation is several calls, and any of them may be refused.  An        *)
(* emission is checked against the emitter's policy by the client, then by *)
(* the session against the policy it finds under the message's topic,      *)
(* producer and type; an emitter of the bus is checked once, against its   *)
(* own.  A place is a topic and a producer: a channel has one for its      *)
(* requests, one for its replies and one for events.                       *)
(*                                                                         *)
(* How callers wait for replies is RequestReply's; here a request ends     *)
(* when the service has replied, or has raised.                            *)
(***************************************************************************)
EXTENDS TypeFormats, FiniteSets, SequencesExt

CONSTANTS Connections, Channels,
          Plans,        \* the kinds of the connections, and what each makes
          Installed,    \* default_portable_format_registry
          Encodes,      \* for each format, the payloads it encodes
          Json, InvocationJson, Composite,
          RequestType, ReplyType, LifecycleTypes,
          MaxHelpers,   \* how many a plan has a connection make
          MaxCalls      \* bound on the calls of clients

Payloads == {"plain", "invocation", "selection", "page"}
Kinds == {"direct", "asyncDirect", "immediate", "transport", "asyncTransport"}
Places == Channels \X {"request", "reply", "events"}

ASSUME ConstantsAssumption ==
  /\ Encodes \in [Formats -> SUBSET Payloads]
  /\ {Json, InvocationJson, Composite} \subseteq Installed
  /\ Installed \subseteq Formats
  /\ {RequestType, ReplyType} \subseteq MsgTypes
  /\ LifecycleTypes \in Seq(MsgTypes)
  /\ MaxHelpers \in Nat /\ MaxCalls \in Nat

(* What a connection can be asked to make. *)
Specs == {spec \in [kind : {"client", "service", "publisher", "emitter"},
                    for : {"request", "history", "procedure", "lifecycle",
                           "reply", "events"},
                    channel : Channels, args : EmitterArguments] :
            spec.kind = "emitter"
              => spec.for \in {"request", "reply", "events"}}

ASSUME PlansAssumption ==
  \A p \in Plans : /\ p.kind \in [Connections -> Kinds]
                   /\ p.makes \in [Connections -> SUBSET Specs]

VARIABLES
  plan,
  formats,    \* the formats the broker's registry has
  known,      \* for each connection, the formats its client has
  emitters,   \* for each connection, the emitters registered, in order
  bindings,   \* for each transport connection, its session's bindings
  receivers,  \* of all connections, in order, each with its queue
  todo,       \* what each connection has not begun to make
  doing,      \* the creation a connection is in
  helpers,    \* what it has made
  calls,      \* history: the calls of clients
  answered,   \* history: the calls a service has replied to
  failed      \* history: calls that ended in an exception, and whose

creationVars == <<todo, doing, helpers>>
registrationVars == <<formats, known, emitters, bindings>>
historyVars == <<calls, answered, failed>>
vars == <<plan, registrationVars, receivers, creationVars, historyVars>>

------------------------------------------------------------------------------
(* What is made, with the arguments the helpers choose themselves *)

Unlisted == [t \in MsgTypes |-> <<>>]

Arguments(type, format, listed) ==
  [type |-> type, additional |-> {}, format |-> format,
   listed |-> listed, unlisted |-> FALSE]

Client(for, channel, format, listed) ==
  [kind |-> "client", for |-> for, channel |-> channel,
   args |-> Arguments(RequestType, format, listed)]

Service(for, channel, format, listed) ==
  [kind |-> "service", for |-> for, channel |-> channel,
   args |-> Arguments(ReplyType, format, listed)]

RequestClient(channel, listed) == Client("request", channel, Json, listed)
RequestService(channel, listed) == Service("request", channel, Json, listed)
HistoryClient(channel, listed) == Client("history", channel, Json, listed)
HistoryService(channel, listed) ==
  Service("history", channel, Composite, listed)
ProcedureClient(channel, listed) ==
  Client("procedure", channel, InvocationJson, listed)
ProcedureService(channel, listed) ==
  Service("procedure", channel, Json, listed)

LifecyclePublisher(channel) ==
  [kind |-> "publisher", for |-> "lifecycle", channel |-> channel,
   args |-> Arguments(LifecycleTypes[1], Json, Unlisted)]

(* A program's own register_emitter. *)
PlainEmitter(channel, side, args) ==
  [kind |-> "emitter", for |-> side, channel |-> channel, args |-> args]

------------------------------------------------------------------------------
(* The calls of a creation *)

Registration(place, args) ==
  [op |-> "register", place |-> place, args |-> args]
Subscription(place) == [op |-> "subscribe", place |-> place]

(* Mutant: subscribed to the replies before there is an emitter. *)
RequesterCalls_subscribeFirst(spec) ==
  <<Subscription(<<spec.channel, "reply">>),
    Registration(<<spec.channel, "request">>, spec.args)>>

(* EndpointFactoryBase.create_requester *)
RequesterCalls(spec) ==
  <<Registration(<<spec.channel, "request">>, spec.args),
    Subscription(<<spec.channel, "reply">>)>>

(* EndpointFactoryBase.create_responder *)
ResponderCalls(spec) ==
  <<Subscription(<<spec.channel, "request">>),
    Registration(<<spec.channel, "reply">>, spec.args)>>

(* The provisioner has these calls a second time, each one awaited. *)
ProvisionedRequesterCalls(spec) ==
  <<Registration(<<spec.channel, "request">>, spec.args),
    Subscription(<<spec.channel, "reply">>)>>

ProvisionedResponderCalls(spec) ==
  <<Subscription(<<spec.channel, "request">>),
    Registration(<<spec.channel, "reply">>, spec.args)>>

(* An emitter for each type. *)
PublisherCalls(spec) ==
  [i \in DOMAIN LifecycleTypes |->
     Registration(<<spec.channel, "events">>,
                  [spec.args EXCEPT !.type = LifecycleTypes[i]])]

Provisioned(c) == plan.kind[c] \in {"immediate", "asyncTransport"}

CallsOf(c, spec) ==
  CASE spec.kind = "client" /\ ~Provisioned(c) -> RequesterCalls(spec)
    [] spec.kind = "client" /\ Provisioned(c) ->
         ProvisionedRequesterCalls(spec)
    [] spec.kind = "service" /\ ~Provisioned(c) -> ResponderCalls(spec)
    [] spec.kind = "service" /\ Provisioned(c) ->
         ProvisionedResponderCalls(spec)
    [] spec.kind = "publisher" -> PublisherCalls(spec)
    [] spec.kind = "emitter" ->
         <<Registration(<<spec.channel, spec.for>>, spec.args)>>

------------------------------------------------------------------------------
Transport == {c \in Connections :
                plan.kind[c] \in {"transport", "asyncTransport"}}

Idle == [step |-> 0]

Init ==
  /\ plan \in Plans
  /\ formats = Installed
  /\ known = [c \in Connections |-> Installed]
  /\ emitters = [c \in Connections |-> <<>>]
  /\ bindings = [c \in Connections |-> <<>>]
  /\ receivers = <<>>
  /\ todo = plan.makes
  /\ doing = [c \in Connections |-> Idle]
  /\ helpers = [c \in Connections |-> <<>>]
  /\ calls = <<>> /\ answered = {} /\ failed = {}

(* MessageBus.install_format, by the program that has the bus. *)
InstallFormat ==
  \E f \in plan.installs \ formats :
    /\ formats' = formats \cup {f}
    /\ UNCHANGED <<plan, known, emitters, bindings, receivers, creationVars,
                   historyVars>>

BeginCreation(c) ==
  /\ doing[c] = Idle
  /\ \E spec \in todo[c] :
       /\ todo' = [todo EXCEPT ![c] = @ \ {spec}]
       /\ doing' = [doing EXCEPT ![c] = [step |-> 1, spec |-> spec,
                                         emitter |-> 0, receiver |-> 0]]
  /\ UNCHANGED <<plan, registrationVars, receivers, helpers, historyVars>>

CurrentCall(c) == CallsOf(c, doing[c].spec)[doing[c].step]

Asks(c, op) == /\ doing[c] # Idle
               /\ doing[c].step <= Len(CallsOf(c, doing[c].spec))
               /\ CurrentCall(c).op = op

CallDone(c, emitter, receiver) ==
  doing' = [doing EXCEPT ![c] = [doing[c] EXCEPT !.step = @ + 1,
                                                 !.emitter = emitter,
                                                 !.receiver = receiver]]

AddEmitter(c, place, policy) ==
  /\ emitters' = [emitters EXCEPT
                    ![c] = Append(@, [place |-> place, policy |-> policy])]
  /\ CallDone(c, Len(emitters[c]) + 1, doing[c].receiver)

(* DirectBrokerCore.bind_emitter: the broker takes in what it lists. *)
RegisterLocally(c) ==
  /\ Asks(c, "register")
  /\ LET policy == Normalize(CurrentCall(c).args)
     IN /\ formats' = formats \cup FormatsOf(policy)
        /\ AddEmitter(c, CurrentCall(c).place, policy)
  /\ UNCHANGED <<plan, known, bindings, receivers, todo, helpers, historyVars>>

RegisterDirect(c) ==
  plan.kind[c] \in {"direct", "asyncDirect"} /\ RegisterLocally(c)

RegisterImmediate(c) == plan.kind[c] = "immediate" /\ RegisterLocally(c)

(* Mutant: an emitter is found by its own type only. *)
Bind_ownType(bound, place, policy) ==
  [k \in DOMAIN bound \cup {<<place, policy.type>>} |->
     IF k = <<place, policy.type>> THEN policy ELSE bound[k]]

(* TransportSessionState.add_emitter_binding *)
Bind(bound, place, policy) ==
  LET keys == {<<place, t>> : t \in Listed(policy)}
  IN [k \in DOMAIN bound \cup keys |-> IF k \in keys THEN policy ELSE bound[k]]

(* The client takes in the formats before it asks. *)
TakesIn(c, policy) == known' = [known EXCEPT ![c] = @ \cup FormatsOf(policy)]

RegisterOverTransport(c) ==
  /\ c \in Transport /\ Asks(c, "register")
  /\ LET call == CurrentCall(c)
         policy == Normalize(call.args)
         asked == Normalize(FrameArguments(call.args))
     IN /\ FormatsOf(asked) \subseteq formats
        /\ TakesIn(c, policy)
        /\ bindings' = [bindings EXCEPT ![c] = Bind(@, call.place, asked)]
        /\ AddEmitter(c, call.place, policy)
  /\ UNCHANGED <<plan, formats, receivers, todo, helpers, historyVars>>

(* The broker lacks a format: the call raises, and the creation ends.  A   *)
(* service has subscribed by then, and nobody has its receiver.            *)
RegisterRefused(c) ==
  /\ c \in Transport /\ Asks(c, "register")
  /\ LET policy == Normalize(CurrentCall(c).args)
         receiver == doing[c].receiver
     IN /\ ~ FormatsOf(policy) \subseteq formats
        /\ TakesIn(c, policy)
        /\ doing' = [doing EXCEPT ![c] = Idle]
        /\ receivers' = IF receiver = 0 THEN receivers
                        ELSE [receivers EXCEPT ![receiver].owner = "nobody"]
  /\ UNCHANGED <<plan, formats, emitters, bindings, todo, helpers,
                 historyVars>>

Subscribe(c) ==
  /\ Asks(c, "subscribe")
  /\ receivers' = Append(receivers, [conn |-> c, place |-> CurrentCall(c).place,
                                     owner |-> "making", queue |-> <<>>])
  /\ CallDone(c, doing[c].emitter, Len(receivers) + 1)
  /\ UNCHANGED <<plan, registrationVars, todo, helpers, historyVars>>

Made(c) == doing[c] # Idle /\ doing[c].step > Len(CallsOf(c, doing[c].spec))

Hand(c) ==
  LET made == doing[c]
  IN /\ Made(c)
     /\ helpers' = [helpers EXCEPT
                      ![c] = Append(@, [spec |-> made.spec,
                                        emitter |-> made.emitter,
                                        receiver |-> made.receiver,
                                        batch |-> <<>>])]
     /\ receivers' = IF made.receiver = 0 THEN receivers
                     ELSE [receivers EXCEPT ![made.receiver].owner = "helper"]
     /\ doing' = [doing EXCEPT ![c] = Idle]
     /\ UNCHANGED <<plan, registrationVars, todo, historyVars>>

(* MessageEndpointFactory._make_requester and its likes *)
HandHelper(c) == plan.kind[c] \in {"direct", "transport"} /\ Hand(c)

(* AsyncMessageEndpointFactory's *)
HandAsyncHelper(c) == plan.kind[c] = "asyncDirect" /\ Hand(c)

(* The provisioner makes its helpers without asking a factory. *)
HandProvisionedHelper(c) == Provisioned(c) /\ Hand(c)

------------------------------------------------------------------------------
(* Emissions *)

(* Mutant: an emitter that takes any type is found by its own type only. *)
AnyBinding_none(c, place) == {}

AnyBinding(c, place) ==
  {k \in DOMAIN bindings[c] : k[1] = place /\ bindings[c][k].unlisted}

(* TransportSessionState.emitter_binding_for_frame: the one under the      *)
(* message's key, or else any at its place that takes every type.          *)
Found(c, place, t) ==
  IF <<place, t>> \in DOMAIN bindings[c] THEN {bindings[c][<<place, t>>]}
  ELSE {bindings[c][k] : k \in AnyBinding(c, place)}

(* _handle_emit_frame and emit_serialized_from *)
SessionAccepts(c, place, t, f) ==
  /\ f \in formats
  /\ \E policy \in Found(c, place, t) : Supports(policy, t, f)

(* The emitter, and behind it the session. *)
Accepts(c, e, t, f) ==
  /\ Supports(emitters[c][e].policy, t, f)
  /\ c \in Transport => SessionAccepts(c, emitters[c][e].place, t, f)

(* What an emission without a type goes out in. *)
FormatFor(policy, f) ==
  ResolveFormat(policy, ResolveType(policy, Default), f)

Emits(c, e, f, payload) ==
  LET policy == emitters[c][e].policy
  IN /\ Accepts(c, e, policy.type, FormatFor(policy, f))
     /\ payload \in Encodes[FormatFor(policy, f)]

(* Mutant: a history helper leaves the format to its emitter too. *)
ChosenFormat_emitters(spec) == Default

(* History helpers name their format with each emission, others let their  *)
(* emitter choose.                                                         *)
ChosenFormat(spec) ==
  IF spec.for = "history" THEN spec.args.format ELSE Default

RequestPayload(spec) ==
  CASE spec.for = "procedure" -> "invocation"
    [] spec.for = "history" -> "selection"
    [] spec.for = "request" -> "plain"

ReplyPayload(spec) == IF spec.for = "history" THEN "page" ELSE "plain"

Sends(spec) ==
  IF spec.kind = "client" THEN RequestPayload(spec) ELSE ReplyPayload(spec)

(* The format a helper registers by itself encodes what it sends. *)
ASSUME HelpersAssumption ==
  \A p \in Plans : \A c \in Connections : \A spec \in p.makes[c] :
    spec.kind \in {"client", "service"} =>
      /\ spec.for \in {"request", "history", "procedure"}
      /\ Sends(spec) \in Encodes[spec.args.format]

IsHelper(c, h, kind) ==
  h \in DOMAIN helpers[c] /\ helpers[c][h].spec.kind = kind

Failure(at, id, culprit) == [at |-> at, id |-> id, culprit |-> culprit]

(* ProcedureClient.call, HistoryClient.send, RequestClient.send *)
CallClient(c, h) ==
  LET helper == helpers[c][h]
      spec == helper.spec
      policy == emitters[c][helper.emitter].policy
      id == Len(calls) + 1
      call == [id |-> id, payload |-> RequestPayload(spec),
               format |-> FormatFor(policy, ChosenFormat(spec))]
  IN /\ IsHelper(c, h, "client")
     /\ Len(calls) < MaxCalls
     /\ calls' = Append(calls, call)
     /\ \/ /\ Emits(c, helper.emitter, ChosenFormat(spec), call.payload)
           /\ receivers' =
                [i \in DOMAIN receivers |->
                   IF receivers[i].place = <<spec.channel, "request">>
                   THEN [receivers[i] EXCEPT !.queue = Append(@, call)]
                   ELSE receivers[i]]
           /\ UNCHANGED failed
        \/ /\ ~Emits(c, helper.emitter, ChosenFormat(spec), call.payload)
           /\ failed' = failed \cup {Failure(<<c, h>>, id, id)}
           /\ UNCHANGED receivers
     /\ UNCHANGED <<plan, registrationVars, creationVars, answered>>

------------------------------------------------------------------------------
(* The loop of a service *)

Readable(c, m) == c \in Transport => m.format \in known[c]

(* Mutant: what is left after max_count is dropped. *)
Left_none(queue, n) == <<>>

Left(queue, n) == SubSeq(queue, n + 1, Len(queue))

(* A transport client decodes what it took, in order, before it returns *)
(* any of it.                                                           *)
FirstUnreadable(c, taken, i) ==
  /\ ~Readable(c, taken[i])
  /\ \A j \in 1..(i - 1) : Readable(c, taken[j])

(* handle takes one request, handle_many some, handle_available all. *)
TakeRequests(c, h) ==
  /\ IsHelper(c, h, "service")
  /\ helpers[c][h].batch = <<>>
  /\ LET r == helpers[c][h].receiver
         queue == receivers[r].queue
     IN \E n \in 1..Len(queue) :
          LET taken == SubSeq(queue, 1, n)
          IN /\ receivers' = [receivers EXCEPT ![r].queue = Left(@, n)]
             /\ \/ /\ \A m \in Range(taken) : Readable(c, m)
                   /\ helpers' = [helpers EXCEPT ![c][h].batch = taken]
                   /\ UNCHANGED failed
                \/ /\ \E first \in 1..n :
                        /\ FirstUnreadable(c, taken, first)
                        /\ failed' = failed \cup
                             {Failure(<<c, h>>, m.id, taken[first].id) :
                                m \in Range(taken)}
                   /\ UNCHANGED helpers
  /\ UNCHANGED <<plan, registrationVars, todo, doing, calls, answered>>

(* ensure_procedure_invocation, message_history_selection_from_record *)
Understands(spec, m) ==
  \/ spec.for = "request"
  \/ spec.for = "procedure" /\ m.payload = "invocation"
  \/ spec.for = "history" /\ m.payload = "selection"

Answers(c, h, m) ==
  LET helper == helpers[c][h]
  IN /\ Understands(helper.spec, m)
     /\ Emits(c, helper.emitter, ChosenFormat(helper.spec),
              ReplyPayload(helper.spec))

HandleNext(c, h) ==
  LET batch == helpers[c][h].batch
  IN /\ IsHelper(c, h, "service")
     /\ batch # <<>>
     /\ Answers(c, h, Head(batch))
     /\ answered' = answered \cup {Head(batch).id}
     /\ helpers' = [helpers EXCEPT ![c][h].batch = Tail(@)]
     /\ UNCHANGED <<plan, registrationVars, receivers, todo, doing, calls,
                    failed>>

(* A request or its reply raises: the rest of the batch is let go with it. *)
HandleRaises(c, h) ==
  LET batch == helpers[c][h].batch
  IN /\ IsHelper(c, h, "service")
     /\ batch # <<>>
     /\ ~Answers(c, h, Head(batch))
     /\ failed' = failed \cup {Failure(<<c, h>>, m.id, Head(batch).id) :
                                 m \in Range(batch)}
     /\ helpers' = [helpers EXCEPT ![c][h].batch = <<>>]
     /\ UNCHANGED <<plan, registrationVars, receivers, todo, doing, calls,
                    answered>>

------------------------------------------------------------------------------
Create(c) == \/ BeginCreation(c)
             \/ RegisterDirect(c)
             \/ RegisterImmediate(c)
             \/ RegisterOverTransport(c)
             \/ RegisterRefused(c)
             \/ Subscribe(c)
             \/ HandHelper(c)
             \/ HandAsyncHelper(c)
             \/ HandProvisionedHelper(c)

Serve(c, h) == TakeRequests(c, h) \/ HandleNext(c, h) \/ HandleRaises(c, h)

Next == \/ InstallFormat
        \/ \E c \in Connections : Create(c)
        \/ \E c \in Connections, h \in 1..MaxHelpers :
             CallClient(c, h) \/ Serve(c, h)

(* A service's program calls handle in a loop, also after it has raised. *)
Fairness == \A c \in Connections, h \in 1..MaxHelpers : WF_vars(Serve(c, h))

Spec == Init /\ [][Next]_vars /\ Fairness

------------------------------------------------------------------------------
(***************************************************************************)
(* Both sides of a connection agree.  The session keeps no emitters but a  *)
(* table by topic, producer and type, in which a later registration        *)
(* replaces an earlier one.  So what an emitter may send, in a format the  *)
(* broker has, the session takes too, unless another emitter of that       *)
(* connection at that place lists the type without the format, or, for a   *)
(* type it does not list, later ones have replaced all it does list.  And  *)
(* the session never takes what none of them was registered for            *)
(* (transport/sessionstate.py add_emitter_binding,                         *)
(* emitter_binding_for_frame; message/typeformats.py).                     *)
(***************************************************************************)
AtPlace(c, place) == {e \in DOMAIN emitters[c] : emitters[c][e].place = place}

Agreed(c, e, t, f) ==
  LET emitter == emitters[c][e]
      others == AtPlace(c, emitter.place)
  IN /\ \A other \in others :
          \/ t \notin Listed(emitters[c][other].policy)
          \/ Supports(emitters[c][other].policy, t, f)
     /\ \/ t \in Listed(emitter.policy)
        \/ \E listed \in Listed(emitter.policy) :
             \A other \in others :
               other > e => listed \notin Listed(emitters[c][other].policy)

AcceptedAlike ==
  \A c \in Transport : \A e \in DOMAIN emitters[c] :
    LET emitter == emitters[c][e]
    IN \A t \in MsgTypes, f \in formats :
         /\ Supports(emitter.policy, t, f) /\ Agreed(c, e, t, f)
              => SessionAccepts(c, emitter.place, t, f)
         /\ SessionAccepts(c, emitter.place, t, f)
              => \E other \in AtPlace(c, emitter.place) :
                   Supports(emitters[c][other].policy, t, f)

(***************************************************************************)
(* A creation that is refused leaves nothing subscribed, but for a service *)
(* whose reply formats the broker did not have: its receiver takes in      *)
(* requests until the connection ends.  Every other receiver is its        *)
(* helper's, at the place the helper is for (client/endpointfactorybase.py *)
(* create_requester, create_responder; the provisioner's).                 *)
(***************************************************************************)
BeganService(c, place) ==
  \E spec \in plan.makes[c] \ todo[c] :
    /\ spec.kind = "service"
    /\ place = <<spec.channel, "request">>
    /\ ~ FormatsOf(Normalize(spec.args)) \subseteq Installed

ReceiversOwned ==
  /\ \A r \in DOMAIN receivers :
       receivers[r].owner = "nobody" =>
         /\ receivers[r].conn \in Transport
         /\ BeganService(receivers[r].conn, receivers[r].place)
  /\ \A c \in Connections : \A h \in DOMAIN helpers[c] :
       LET helper == helpers[c][h]
           side == IF helper.spec.kind = "client" THEN "reply" ELSE "request"
       IN helper.spec.kind \in {"client", "service"} =>
            /\ receivers[helper.receiver].conn = c
            /\ receivers[helper.receiver].owner = "helper"
            /\ receivers[helper.receiver].place = <<helper.spec.channel, side>>

(***************************************************************************)
(* A call that raises, at the client or at the service, has one of these   *)
(* causes: the request is of another kind than the service; its format is  *)
(* not one that every client has; the program listed, before the helper's  *)
(* own format, one that does not encode its payload; or its connection has *)
(* another emitter at the same place.  Helpers made with their defaults    *)
(* and alone at their places never raise.  A call that was not at fault    *)
(* failed because it was taken together with one that was                  *)
(* (client/request.py ProcedureService.handle_many, capture/               *)
(* historyservice.py HistoryService, transport/client.py _emit_frame).     *)
(***************************************************************************)
AtFault(c, h, id) ==
  LET helper == helpers[c][h]
      spec == helper.spec
      policy == Normalize(spec.args)
      side == IF spec.kind = "client" THEN "request" ELSE "reply"
  IN \/ spec.kind = "service" /\ ~Understands(spec, calls[id])
     \/ spec.kind = "service" /\ calls[id].format \notin Installed
     \/ /\ spec.for # "history"
        /\ spec.args.listed[policy.type] # <<>>
        /\ Sends(spec) \notin Encodes[spec.args.listed[policy.type][1]]
     \/ Cardinality(AtPlace(c, <<spec.channel, side>>)) > 1

FailuresExplained ==
  \A x \in failed : AtFault(x.at[1], x.at[2], x.culprit)

(***************************************************************************)
(* A request that has reached a service which is there to take it is       *)
(* answered, or somebody's exception ended it: taking several requests at  *)
(* once, and handling them one by one, leaves none in between              *)
(* (client/request.py ProcedureService.handle_available, handle_many).     *)
(***************************************************************************)
Waits(id) ==
  \E r \in DOMAIN receivers :
    /\ receivers[r].owner = "helper"
    /\ \E m \in Range(receivers[r].queue) : m.id = id

CallsAnswered ==
  \A id \in 1..MaxCalls :
    Waits(id) ~> id \in answered \/ \E x \in failed : x.id = id
==============================================================================
