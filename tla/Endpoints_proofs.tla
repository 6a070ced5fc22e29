--------------------------- MODULE Endpoints_proofs ---------------------------
(***************************************************************************)
(* For any connections, plans, formats and types: a transport session      *)
(* accepts what its client's emitters may send, and no more                *)
(* (AcceptedAlike); a helper's receivers are its own (ReceiversOwned); and *)
(* a call raises for the causes that are known only (FailuresExplained).   *)
(*                                                                         *)
(* AcceptedAlike is about the session's table: under each key it holds the *)
(* policy of the last emitter of its connection that lists the key's type  *)
(* at the key's place, and every type an emitter lists has a key.          *)
(* ReceiversOwned follows what a creation has made so far.  For            *)
(* FailuresExplained every message is traced to the emitter that sent it,  *)
(* and with it the format it is in and the payload it carries.             *)
(*                                                                         *)
(* The second half is about the receivers those helpers read on a bus in   *)
(* their own process, whatever threads or tasks share them                 *)
(* (LocalReceivers): GivenOnceInOrder is an invariant.                     *)
(***************************************************************************)
EXTENDS Endpoints, LocalReceivers, SequenceLemmas, FiniteSetTheorems

------------------------------------------------------------------------------
(* What any arguments give. *)

(***************************************************************************)
(* normalize_type_format_policy makes a policy.                            *)
(***************************************************************************)
LEMMA NormalizeType ==
  ASSUME NEW args \in EmitterArguments
  PROVE  Normalize(args) \in Policies
BY DEF Normalize, EmitterArguments, Policies, WithFormat

(* The formats of an emitter's own type. *)
LEMMA OwnFormats ==
  ASSUME NEW args \in EmitterArguments
  PROVE  LET own == Normalize(args).formats[args.type]
         IN /\ args.type \in MsgTypes /\ Normalize(args).type = args.type
            /\ own \in Seq(Formats) /\ own # <<>>
            /\ args.format \in Range(own) /\ own[1] \in Range(own)
            /\ own[1] = IF args.listed[args.type] = <<>> THEN args.format
                        ELSE args.listed[args.type][1]
            /\ ResolveFormat(Normalize(args), args.type, Default) = own[1]
<1> DEFINE own == Normalize(args).formats[args.type]
           listed == args.listed[args.type]
<1>1. args.type \in MsgTypes /\ listed \in Seq(Formats) /\ args.format \in Formats
  BY DEF EmitterArguments
<1>2. own = WithFormat(listed, args.format) /\ Normalize(args).type = args.type
  BY <1>1 DEF Normalize
<1>3. own \in Seq(Formats)
  BY <1>1, NormalizeType DEF Policies
<1>4. /\ args.format \in Range(own)
      /\ own[1] = IF listed = <<>> THEN args.format ELSE listed[1]
  <2>1. CASE args.format \in Range(listed)
    BY <1>2, <2>1, RangeOfEmpty DEF WithFormat
  <2>2. CASE args.format \notin Range(listed)
    <3>1. own = Append(listed, args.format)
      BY <1>2, <2>2 DEF WithFormat
    <3>2. Range(own) = Range(listed) \cup {args.format}
      BY <1>1, <3>1, RangeOfAppended
    <3> HIDE DEF own, listed
    <3> QED BY <1>1, <3>1, <3>2
  <2> QED BY <2>1, <2>2
<1>5. own # <<>>
  BY <1>4, RangeOfEmpty
<1>6. own[1] \in Range(own)
  <2>1. 1 \in DOMAIN own
    BY <1>3, <1>5
  <2> QED BY <2>1 DEF Range
<1>7. ResolveFormat(Normalize(args), args.type, Default) = own[1]
  BY <1>1, <1>5 DEF ResolveFormat, Listed
<1> QED BY <1>1, <1>2, <1>3, <1>4, <1>5, <1>6, <1>7

(***************************************************************************)
(* Whatever a program lists, an emission without arguments (the emitter's  *)
(* type, and the format that type resolves to) is one its policy supports, *)
(* and so is the emitter's own format: a registration never makes an       *)
(* emitter that cannot emit by default.                                    *)
(***************************************************************************)
THEOREM DefaultEmissionSupported ==
  ASSUME NEW args \in EmitterArguments
  PROVE  LET policy == Normalize(args)
             t == ResolveType(policy, Default)
         IN /\ Supports(policy, t, ResolveFormat(policy, t, Default))
            /\ Supports(policy, t, args.format)
<1> DEFINE policy == Normalize(args)
<1>1. ResolveType(policy, Default) = args.type
  BY OwnFormats DEF ResolveType
<1> HIDE DEF policy
<1> QED BY <1>1, OwnFormats DEF Supports, policy

(***************************************************************************)
(* The policy the broker makes from a client's frame is the client's own,  *)
(* with the same formats in the same order: neither side supports what the *)
(* other does not, and a type resolves to the same default on both.        *)
(***************************************************************************)
THEOREM FrameKeepsPolicy ==
  ASSUME NEW args \in EmitterArguments
  PROVE  Normalize(FrameArguments(args)) = Normalize(args)
<1> DEFINE policy == Normalize(args)
           again == FrameArguments(args)
<1>1. /\ args.listed \in [MsgTypes -> Seq(Formats)]
      /\ args.format \in Formats
  BY DEF EmitterArguments
<1>2. /\ again.type = args.type /\ again.additional = args.additional
      /\ again.format = args.format /\ again.unlisted = args.unlisted
      /\ again.listed = policy.formats
  BY DEF FrameArguments, EmitterArguments
<1>3. ASSUME NEW list \in Seq(Formats)
      PROVE  WithFormat(WithFormat(list, args.format), args.format)
               = WithFormat(list, args.format)
  <2>1. CASE args.format \in Range(list)
    BY <2>1 DEF WithFormat
  <2>2. CASE args.format \notin Range(list)
    <3> DEFINE longer == Append(list, args.format)
    <3>1. Len(longer) \in DOMAIN longer /\ longer[Len(longer)] = args.format
      BY <1>1
    <3>2. args.format \in Range(longer)
      BY <3>1 DEF Range
    <3> QED BY <2>2, <3>2 DEF WithFormat
  <2> QED BY <2>1, <2>2
<1>4. ASSUME NEW t \in MsgTypes
      PROVE  Normalize(again).formats[t] = policy.formats[t]
  <2>1. args.listed[t] \in Seq(Formats)
    BY <1>1
  <2>2. CASE t \in {args.type} \cup args.additional
    <3>1. policy.formats[t] = WithFormat(args.listed[t], args.format)
      BY <2>2 DEF Normalize
    <3>2. Normalize(again).formats[t]
            = WithFormat(policy.formats[t], args.format)
      BY <1>2, <2>2 DEF Normalize
    <3> QED BY <1>3, <2>1, <3>1, <3>2
  <2>3. CASE t \notin {args.type} \cup args.additional
    BY <1>2, <2>3 DEF Normalize
  <2> QED BY <2>2, <2>3
<1>5. Normalize(again).formats = policy.formats
  BY <1>4 DEF Normalize
<1> QED BY <1>2, <1>5 DEF Normalize

------------------------------------------------------------------------------
(* What a session accepts. *)

Entries == [place : Places, policy : Policies]

IsCreation(made) ==
  /\ DOMAIN made = {"step", "spec", "emitter", "receiver"}
  /\ made.step \in Nat \ {0}
  /\ made.spec \in Specs

TypeInv == /\ plan \in Plans
           /\ emitters \in [Connections -> Seq(Entries)]
           /\ bindings = [c \in Connections |-> bindings[c]]
           /\ todo \in [Connections -> SUBSET Specs]
           /\ doing = [c \in Connections |-> doing[c]]
           /\ \A c \in Connections : doing[c] # Idle => IsCreation(doing[c])

(* Emitter e is the last of the list that is found under key k. *)
Latest(list, k, e) ==
  /\ e \in DOMAIN list
  /\ list[e].place = k[1]
  /\ k[2] \in Listed(list[e].policy)
  /\ \A other \in DOMAIN list :
       other > e /\ list[other].place = k[1]
         => k[2] \notin Listed(list[other].policy)

IsTable(table, list) ==
  /\ DOMAIN table \subseteq Places \X MsgTypes
  /\ \A k \in DOMAIN table :
       \E e \in DOMAIN list : Latest(list, k, e) /\ table[k] = list[e].policy
  /\ \A e \in DOMAIN list : \A t \in Listed(list[e].policy) :
       <<list[e].place, t>> \in DOMAIN table

TableInv == \A c \in Transport : IsTable(bindings[c], emitters[c])

IInv == TypeInv /\ TableInv

------------------------------------------------------------------------------
(* A registration adds to both the list and the table. *)

LEMMA BindKeepsTable ==
  ASSUME NEW table, NEW list \in Seq(Entries), IsTable(table, list),
         NEW place \in Places, NEW policy \in Policies
  PROVE  IsTable(Bind(table, place, policy),
                 Append(list, [place |-> place, policy |-> policy]))
<1> DEFINE entry == [place |-> place, policy |-> policy]
           longer == Append(list, entry)
           keys == {<<place, t>> : t \in Listed(policy)}
           bound == Bind(table, place, policy)
<1>1. entry \in Entries
  BY DEF Entries
<1>2. /\ longer \in Seq(Entries)
      /\ Len(longer) = Len(list) + 1 /\ Len(list) \in Nat
      /\ DOMAIN longer = 1..Len(longer) /\ DOMAIN list = 1..Len(list)
      /\ longer[Len(longer)] = entry
      /\ \A e \in DOMAIN list : longer[e] = list[e]
  BY <1>1
<1>3. /\ DOMAIN bound = DOMAIN table \cup keys
      /\ \A k \in keys : bound[k] = policy
      /\ \A k \in DOMAIN table \ keys : bound[k] = table[k]
  BY DEF Bind
<1>4. ASSUME NEW k \in DOMAIN bound
      PROVE  \E e \in DOMAIN longer :
               Latest(longer, k, e) /\ bound[k] = longer[e].policy
  <2>1. CASE k \in keys
    <3>1. k[1] = place /\ k[2] \in Listed(policy)
      BY <2>1
    <3>2. Latest(longer, k, Len(longer))
      BY <1>2, <3>1 DEF Latest
    <3>3. bound[k] = longer[Len(longer)].policy
      BY <1>2, <1>3, <2>1
    <3> QED BY <1>2, <3>2, <3>3
  <2>2. CASE k \notin keys
    <3>1. k \in DOMAIN table
      BY <1>3, <2>2
    <3>2. PICK e \in DOMAIN list :
            Latest(list, k, e) /\ table[k] = list[e].policy
      BY <3>1 DEF IsTable
    <3>3. k \in Places \X MsgTypes
      BY <3>1 DEF IsTable
    <3>4. ~(k[1] = place /\ k[2] \in Listed(policy))
      BY <2>2, <3>3
    <3>5. Latest(longer, k, e)
      BY <1>2, <3>2, <3>4 DEF Latest
    <3> QED BY <1>2, <1>3, <2>2, <3>1, <3>2, <3>5
  <2> QED BY <2>1, <2>2
<1>5. ASSUME NEW e \in DOMAIN longer, NEW t \in Listed(longer[e].policy)
      PROVE  <<longer[e].place, t>> \in DOMAIN bound
  <2>1. CASE e \in DOMAIN list
    BY <1>2, <1>3, <2>1 DEF IsTable
  <2>2. CASE e = Len(longer)
    BY <1>2, <1>3, <2>2
  <2> QED BY <1>2, <2>1, <2>2
<1>6. DOMAIN bound \subseteq Places \X MsgTypes
  BY <1>3 DEF IsTable, Listed
<1> QED BY <1>4, <1>5, <1>6 DEF IsTable

(* The session looks in a table for what its client's emitters may send. *)
LEMMA TableAgrees ==
  ASSUME TypeInv, NEW c \in Transport, IsTable(bindings[c], emitters[c]),
         NEW e \in DOMAIN emitters[c], NEW t \in MsgTypes, NEW f \in formats
  PROVE  LET emitter == emitters[c][e]
         IN /\ Supports(emitter.policy, t, f) /\ Agreed(c, e, t, f)
                 => SessionAccepts(c, emitter.place, t, f)
            /\ SessionAccepts(c, emitter.place, t, f)
                 => \E other \in AtPlace(c, emitter.place) :
                      Supports(emitters[c][other].policy, t, f)
<1> DEFINE emitter == emitters[c][e]
           place == emitter.place
           table == bindings[c]
           list == emitters[c]
<1>1. DOMAIN list \subseteq Nat
  BY DEF TypeInv, Transport
<1>2. ASSUME Supports(emitter.policy, t, f), Agreed(c, e, t, f)
      PROVE  SessionAccepts(c, place, t, f)
  <2>1. CASE <<place, t>> \in DOMAIN table
    <3>1. PICK other \in DOMAIN list :
            /\ Latest(list, <<place, t>>, other)
            /\ table[<<place, t>>] = list[other].policy
      BY <2>1 DEF IsTable
    <3>2. other \in AtPlace(c, place) /\ t \in Listed(list[other].policy)
      BY <3>1 DEF Latest, AtPlace
    <3>3. Supports(list[other].policy, t, f)
      BY <1>2, <3>2 DEF Agreed
    <3>4. Found(c, place, t) = {list[other].policy}
      BY <2>1, <3>1 DEF Found
    <3> QED BY <3>3, <3>4 DEF SessionAccepts
  <2>2. CASE <<place, t>> \notin DOMAIN table
    <3>1. t \notin Listed(emitter.policy)
      BY <2>2 DEF IsTable
    <3>2. emitter.policy.unlisted
      <4>1. emitter.policy.formats[t] = <<>>
        BY <3>1 DEF Listed
      <4>2. Range(<<>>) = {}
        BY DEF Range
      <4> QED BY <1>2, <4>1, <4>2 DEF Supports
    <3>3. PICK listed \in Listed(emitter.policy) :
            \A other \in AtPlace(c, place) :
              other > e => listed \notin Listed(list[other].policy)
      BY <1>2, <3>1 DEF Agreed
    <3>4. <<place, listed>> \in DOMAIN table
      BY <3>3 DEF IsTable
    <3>5. PICK other \in DOMAIN list :
            /\ Latest(list, <<place, listed>>, other)
            /\ table[<<place, listed>>] = list[other].policy
      BY <3>4 DEF IsTable
    <3>6. other \in AtPlace(c, place)
      BY <3>5 DEF Latest, AtPlace
    <3>7. ~(other > e)
      BY <3>3, <3>5, <3>6 DEF Latest
    <3>8. ~(e > other)
      BY <3>3, <3>5 DEF Latest
    <3>9. other = e
      BY <1>1, <3>7, <3>8
    <3>10. <<place, listed>> \in AnyBinding(c, place)
      BY <3>2, <3>4, <3>5, <3>9 DEF AnyBinding
    <3>11. emitter.policy \in Found(c, place, t)
      BY <2>2, <3>5, <3>9, <3>10 DEF Found
    <3> QED BY <1>2, <3>11 DEF SessionAccepts
  <2> QED BY <2>1, <2>2
<1>3. ASSUME SessionAccepts(c, place, t, f)
      PROVE  \E other \in AtPlace(c, place) :
               Supports(list[other].policy, t, f)
  <2>1. PICK policy \in Found(c, place, t) : Supports(policy, t, f)
    BY <1>3 DEF SessionAccepts
  <2>2. PICK k \in DOMAIN table : k[1] = place /\ table[k] = policy
    <3>1. CASE <<place, t>> \in DOMAIN table
      BY <2>1, <3>1 DEF Found
    <3>2. CASE <<place, t>> \notin DOMAIN table
      BY <2>1, <3>2 DEF Found, AnyBinding
    <3> QED BY <3>1, <3>2
  <2>3. PICK other \in DOMAIN list :
          Latest(list, k, other) /\ table[k] = list[other].policy
    BY <2>2 DEF IsTable
  <2>4. other \in AtPlace(c, place)
    BY <2>2, <2>3 DEF Latest, AtPlace
  <2> QED BY <2>1, <2>2, <2>3, <2>4
<1> QED BY <1>2, <1>3

------------------------------------------------------------------------------
(* What a creation asks for. *)

LEMMA PlanType ==
  ASSUME TypeInv
  PROVE  /\ plan.kind \in [Connections -> Kinds]
         /\ LifecycleTypes \in Seq(MsgTypes)
BY PlansAssumption, ConstantsAssumption DEF TypeInv

LEMMA CallType ==
  ASSUME TypeInv, NEW c \in Connections, Asks(c, "register")
  PROVE  /\ CurrentCall(c).place \in Places
         /\ CurrentCall(c).args \in EmitterArguments
         /\ Normalize(CurrentCall(c).args) \in Policies
<1> DEFINE spec == doing[c].spec
           step == doing[c].step
           issued == CurrentCall(c)
<1> SUFFICES issued.place \in Places /\ issued.args \in EmitterArguments
  BY NormalizeType
<1>1. /\ step \in Nat \ {0} /\ spec \in Specs
      /\ step <= Len(CallsOf(c, spec))
      /\ issued.op = "register"
  BY DEF TypeInv, Asks, IsCreation
<1>2. /\ spec.kind \in {"client", "service", "publisher", "emitter"}
      /\ spec.channel \in Channels /\ spec.args \in EmitterArguments
      /\ spec.kind = "emitter" => spec.for \in {"request", "reply", "events"}
  BY <1>1 DEF Specs
<1>3. CASE spec.kind = "client"
  <2>1. CallsOf(c, spec) =
          <<Registration(<<spec.channel, "request">>, spec.args),
            Subscription(<<spec.channel, "reply">>)>>
    BY <1>3 DEF CallsOf, RequesterCalls, ProvisionedRequesterCalls
  <2>2. issued = Registration(<<spec.channel, "request">>, spec.args)
    BY <1>1, <2>1 DEF CurrentCall, Registration, Subscription
  <2> QED BY <1>2, <2>2 DEF Registration, Places
<1>4. CASE spec.kind = "service"
  <2>1. CallsOf(c, spec) =
          <<Subscription(<<spec.channel, "request">>),
            Registration(<<spec.channel, "reply">>, spec.args)>>
    BY <1>4 DEF CallsOf, ResponderCalls, ProvisionedResponderCalls
  <2>2. issued = Registration(<<spec.channel, "reply">>, spec.args)
    BY <1>1, <2>1 DEF CurrentCall, Registration, Subscription
  <2> QED BY <1>2, <2>2 DEF Registration, Places
<1>5. CASE spec.kind = "publisher"
  <2> DEFINE args(i) == [spec.args EXCEPT !.type = LifecycleTypes[i]]
  <2>1. CallsOf(c, spec) = PublisherCalls(spec)
    BY <1>5 DEF CallsOf
  <2>2. LifecycleTypes \in Seq(MsgTypes)
    BY ConstantsAssumption
  <2>3. step \in DOMAIN LifecycleTypes
    <3>1. PublisherCalls(spec) =
            [i \in 1..Len(LifecycleTypes) |->
               Registration(<<spec.channel, "events">>, args(i))]
      BY <2>2 DEF PublisherCalls
    <3>2. Len(PublisherCalls(spec)) = Len(LifecycleTypes)
      BY <2>2, <3>1
    <3> QED BY <1>1, <2>1, <2>2, <3>2
  <2>4. issued = Registration(<<spec.channel, "events">>, args(step))
    BY <2>1, <2>3 DEF CurrentCall, PublisherCalls
  <2>5. args(step) \in EmitterArguments
    <3>1. LifecycleTypes[step] \in MsgTypes
      BY <2>2, <2>3
    <3> QED BY <1>2, <3>1 DEF EmitterArguments
  <2> QED BY <1>2, <2>4, <2>5 DEF Registration, Places
<1>6. CASE spec.kind = "emitter"
  <2>1. CallsOf(c, spec) =
          <<Registration(<<spec.channel, spec.for>>, spec.args)>>
    BY <1>6 DEF CallsOf
  <2>2. issued = Registration(<<spec.channel, spec.for>>, spec.args)
    BY <1>1, <2>1 DEF CurrentCall
  <2> QED BY <1>2, <1>6, <2>2 DEF Registration, Places
<1> QED BY <1>2, <1>3, <1>4, <1>5, <1>6

------------------------------------------------------------------------------
(* Steps that register nothing. *)

LEMMA CreationStep ==
  ASSUME TypeInv, NEW c \in Connections, doing[c] # Idle,
         NEW STATE emitter, NEW STATE receiver,
         CallDone(c, emitter, receiver)
  PROVE  /\ doing' = [d \in Connections |-> doing'[d]]
         /\ \A d \in Connections : doing'[d] # Idle => IsCreation(doing'[d])
<1>1. IsCreation(doing[c])
  BY DEF TypeInv
<1>2. doing = [d \in Connections |-> doing[d]]
  BY DEF TypeInv
<1>3. PICK made : /\ made = [doing[c] EXCEPT !.step = doing[c].step + 1,
                                             !.emitter = emitter,
                                             !.receiver = receiver]
                  /\ doing' = [doing EXCEPT ![c] = made]
  BY DEF CallDone
<1>4. IsCreation(made)
  <2>1. DOMAIN made = DOMAIN doing[c]
    BY <1>3
  <2>2. made.step = doing[c].step + 1 /\ made.spec = doing[c].spec
    BY <1>1, <1>3 DEF IsCreation
  <2> QED BY <1>1, <2>1, <2>2 DEF IsCreation
<1>5. /\ doing'[c] = made
      /\ \A d \in Connections \ {c} : doing'[d] = doing[d]
      /\ doing' = [d \in Connections |-> doing'[d]]
  BY <1>2, <1>3
<1> QED BY <1>4, <1>5 DEF TypeInv

LEMMA NothingRegistered ==
  ASSUME IInv, plan' \in Plans, plan' = plan, emitters' = emitters,
         bindings' = bindings
  PROVE  TableInv' /\ emitters' \in [Connections -> Seq(Entries)]
         /\ bindings' = [c \in Connections |-> bindings'[c]]
BY DEF IInv, TypeInv, TableInv, Transport

LEMMA InitIInv == Init => IInv
<1> SUFFICES ASSUME Init PROVE IInv
  OBVIOUS
<1>1. plan.makes \in [Connections -> SUBSET Specs]
  BY PlansAssumption DEF Init
<1>2. TypeInv
  BY <1>1 DEF Init, TypeInv
<1>3. TableInv
  <2> SUFFICES ASSUME NEW c \in Transport
               PROVE  IsTable(bindings[c], emitters[c])
    BY DEF TableInv
  <2>1. bindings[c] = <<>> /\ emitters[c] = <<>>
    BY DEF Init, Transport
  <2>2. DOMAIN <<>> = {}
    OBVIOUS
  <2> QED BY <2>1, <2>2 DEF IsTable
<1> QED BY <1>2, <1>3 DEF IInv

LEMMA NextIInv == IInv /\ [Next]_vars => IInv'
<1> SUFFICES ASSUME IInv, [Next]_vars PROVE IInv'
  OBVIOUS
<1> USE DEF IInv
<1>1. CASE InstallFormat
  BY <1>1, NothingRegistered DEF InstallFormat, creationVars, TypeInv
<1>2. ASSUME NEW c \in Connections, BeginCreation(c) PROVE IInv'
  <2>1. /\ plan' = plan /\ emitters' = emitters /\ bindings' = bindings
    BY <1>2 DEF BeginCreation, registrationVars
  <2>2. PICK spec \in todo[c] :
          /\ todo' = [todo EXCEPT ![c] = @ \ {spec}]
          /\ doing' = [doing EXCEPT ![c] = [step |-> 1, spec |-> spec,
                                            emitter |-> 0, receiver |-> 0]]
    BY <1>2 DEF BeginCreation
  <2>3. spec \in Specs
    BY <2>2 DEF TypeInv
  <2>4. IsCreation([step |-> 1, spec |-> spec, emitter |-> 0, receiver |-> 0])
    BY <2>3 DEF IsCreation
  <2>5. TypeInv'
    BY <2>1, <2>2, <2>4 DEF TypeInv
  <2> QED BY <2>1, <2>5, NothingRegistered DEF TypeInv
<1>3. ASSUME NEW c \in Connections, RegisterLocally(c), c \notin Transport
      PROVE  IInv'
  <2> DEFINE issued == CurrentCall(c)
             policy == Normalize(issued.args)
             entry == [place |-> issued.place, policy |-> policy]
  <2>1. /\ plan' = plan /\ bindings' = bindings /\ todo' = todo
        /\ emitters' = [emitters EXCEPT ![c] = Append(@, entry)]
        /\ CallDone(c, Len(emitters[c]) + 1, doing[c].receiver)
        /\ doing[c] # Idle /\ Asks(c, "register")
    BY <1>3 DEF RegisterLocally, AddEmitter, Asks
  <2>2. entry \in Entries
    BY <2>1, CallType DEF Entries
  <2>3. TypeInv'
    BY <2>1, <2>2, CreationStep DEF TypeInv
  <2>4. TableInv'
    BY <1>3, <2>1 DEF TableInv, Transport, TypeInv
  <2> QED BY <2>3, <2>4
<1>4. ASSUME NEW c \in Connections, RegisterOverTransport(c) PROVE IInv'
  <2> DEFINE issued == CurrentCall(c)
             policy == Normalize(issued.args)
             entry == [place |-> issued.place, policy |-> policy]
  <2>1. /\ plan' = plan /\ todo' = todo
        /\ emitters' = [emitters EXCEPT ![c] = Append(@, entry)]
        /\ bindings' = [bindings EXCEPT
             ![c] = Bind(@, issued.place, Normalize(FrameArguments(issued.args)))]
        /\ CallDone(c, Len(emitters[c]) + 1, doing[c].receiver)
        /\ doing[c] # Idle /\ Asks(c, "register") /\ c \in Transport
    BY <1>4 DEF RegisterOverTransport, AddEmitter, Asks
  <2>2. /\ issued.place \in Places /\ policy \in Policies
        /\ Normalize(FrameArguments(issued.args)) = policy
    BY <2>1, CallType, FrameKeepsPolicy
  <2>3. entry \in Entries
    BY <2>2 DEF Entries
  <2>4. TypeInv'
    <3>1. emitters' \in [Connections -> Seq(Entries)]
      BY <2>1, <2>3 DEF TypeInv
    <3>2. bindings' = [d \in Connections |-> bindings'[d]]
      BY <2>1 DEF TypeInv
    <3>3. /\ doing' = [d \in Connections |-> doing'[d]]
          /\ \A d \in Connections : doing'[d] # Idle => IsCreation(doing'[d])
      BY <2>1, CreationStep
    <3> QED BY <2>1, <3>1, <3>2, <3>3 DEF TypeInv
  <2>5. ASSUME NEW d \in Transport PROVE IsTable(bindings'[d], emitters'[d])
    <3>1. CASE d = c
      <4>1. IsTable(bindings[c], emitters[c]) /\ emitters[c] \in Seq(Entries)
        BY <2>1 DEF TableInv, TypeInv, Transport
      <4>2. IsTable(Bind(bindings[c], issued.place, policy),
                    Append(emitters[c], entry))
        BY <2>2, <4>1, BindKeepsTable
      <4>3. /\ bindings'[c] = Bind(bindings[c], issued.place, policy)
            /\ emitters'[c] = Append(emitters[c], entry)
        BY <2>1, <2>2 DEF TypeInv
      <4> QED BY <3>1, <4>2, <4>3
    <3>2. CASE d # c
      BY <2>1, <3>2 DEF TableInv, TypeInv, Transport
    <3> QED BY <3>1, <3>2
  <2>6. TableInv'
    BY <2>1, <2>5 DEF TableInv, Transport
  <2> QED BY <2>4, <2>6
<1>5. ASSUME NEW c \in Connections, RegisterRefused(c) PROVE IInv'
  <2>1. /\ plan' = plan /\ emitters' = emitters /\ bindings' = bindings
        /\ todo' = todo /\ doing' = [doing EXCEPT ![c] = Idle]
    BY <1>5 DEF RegisterRefused
  <2> QED BY <2>1, NothingRegistered DEF TypeInv
<1>6. ASSUME NEW c \in Connections, Subscribe(c) PROVE IInv'
  <2>1. /\ plan' = plan /\ emitters' = emitters /\ bindings' = bindings
        /\ todo' = todo /\ doing[c] # Idle
        /\ CallDone(c, doing[c].emitter, Len(receivers) + 1)
    BY <1>6 DEF Subscribe, Asks, registrationVars
  <2>2. TypeInv'
    BY <2>1, CreationStep DEF TypeInv
  <2> QED BY <2>1, <2>2, NothingRegistered DEF TypeInv
<1>7. ASSUME NEW c \in Connections, Hand(c) PROVE IInv'
  <2>1. /\ plan' = plan /\ emitters' = emitters /\ bindings' = bindings
        /\ todo' = todo /\ doing' = [doing EXCEPT ![c] = Idle]
    BY <1>7 DEF Hand, registrationVars
  <2> QED BY <2>1, NothingRegistered DEF TypeInv
<1>8. ASSUME NEW c \in Connections, NEW h \in 1..MaxHelpers,
             CallClient(c, h) \/ Serve(c, h)
      PROVE  IInv'
  <2>1. /\ plan' = plan /\ emitters' = emitters /\ bindings' = bindings
        /\ todo' = todo /\ doing' = doing
    BY <1>8 DEF CallClient, Serve, TakeRequests, HandleNext, HandleRaises,
                registrationVars, creationVars
  <2> QED BY <2>1, NothingRegistered DEF TypeInv
<1>9. CASE UNCHANGED vars
  BY <1>9, NothingRegistered
     DEF vars, registrationVars, creationVars, TypeInv
<1>10. ASSUME NEW c \in Connections, Create(c) PROVE IInv'
  <2>1. RegisterDirect(c) => c \notin Transport /\ RegisterLocally(c)
    BY DEF RegisterDirect, Transport
  <2>2. RegisterImmediate(c) => c \notin Transport /\ RegisterLocally(c)
    BY DEF RegisterImmediate, Transport
  <2>3. HandHelper(c) \/ HandAsyncHelper(c) \/ HandProvisionedHelper(c)
          => Hand(c)
    BY DEF HandHelper, HandAsyncHelper, HandProvisionedHelper
  <2> QED BY <1>2, <1>3, <1>4, <1>5, <1>6, <1>7, <1>10, <2>1, <2>2, <2>3
          DEF Create
<1> QED BY <1>1, <1>8, <1>9, <1>10 DEF Next

(***************************************************************************)
(* Whatever the formats, types and emitters of a program are, a transport  *)
(* session accepts what its client's emitters may send as AcceptedAlike    *)
(* says, and nothing none of them was registered for.                      *)
(***************************************************************************)
THEOREM SessionsAcceptAlike == Spec => []AcceptedAlike
<1>1. IInv => AcceptedAlike
  <2> SUFFICES ASSUME IInv, NEW c \in Transport, NEW e \in DOMAIN emitters[c],
                      NEW t \in MsgTypes, NEW f \in formats
               PROVE  LET emitter == emitters[c][e]
                      IN /\ Supports(emitter.policy, t, f)
                            /\ Agreed(c, e, t, f)
                              => SessionAccepts(c, emitter.place, t, f)
                         /\ SessionAccepts(c, emitter.place, t, f)
                              => \E other \in AtPlace(c, emitter.place) :
                                   Supports(emitters[c][other].policy, t, f)
    BY DEF AcceptedAlike
  <2>1. TypeInv /\ IsTable(bindings[c], emitters[c])
    BY DEF IInv, TableInv
  <2> QED BY <2>1, TableAgrees
<1> QED BY <1>1, InitIInv, NextIInv, PTL DEF Spec

------------------------------------------------------------------------------
(* What a connection has made, and is making. *)

CallRecords == [id : Nat, payload : Payloads, format : Formats]

ReceiverRecords == [conn : Connections, place : Places,
                    owner : {"making", "helper", "nobody"}, queue : Seq(CallRecords)]

Helpers == [spec : Specs, emitter : Nat, receiver : Nat, batch : Seq(CallRecords)]

IsPair(spec) == spec.kind \in {"client", "service"}

EmitSide(spec) == <<spec.channel, IF spec.kind = "client" THEN "request" ELSE "reply">>
TakeSide(spec) == <<spec.channel, IF spec.kind = "client" THEN "reply" ELSE "request">>

HasEmitter(list, e, spec) ==
  /\ e \in DOMAIN list
  /\ list[e] = [place |-> EmitSide(spec), policy |-> Normalize(spec.args)]

HasReceiver(list, r, c, owner, spec) ==
  /\ r \in DOMAIN list
  /\ list[r].conn = c /\ list[r].owner = owner /\ list[r].place = TakeSide(spec)

(* A creation has what its first calls have given it: a client's emitter   *)
(* comes before its receiver, a service's behind it.                       *)
CreationFits(c, made, list, taking) ==
  LET spec == made.spec
      client == spec.kind = "client"
  IN /\ made.emitter \in Nat /\ made.receiver \in Nat
     /\ IsPair(spec) /\ made.step > (IF client THEN 1 ELSE 2)
          => HasEmitter(list, made.emitter, spec)
     /\ IF IsPair(spec) /\ made.step > (IF client THEN 2 ELSE 1)
          THEN HasReceiver(taking, made.receiver, c, "making", spec)
          ELSE made.receiver = 0

HelperFits(c, helper, list, taking) ==
  IsPair(helper.spec) =>
    /\ HasEmitter(list, helper.emitter, helper.spec)
    /\ HasReceiver(taking, helper.receiver, c, "helper", helper.spec)

PartsType ==
  /\ Installed \subseteq formats
  /\ known = [c \in Connections |-> known[c]]
  /\ \A c \in Connections : Installed \subseteq known[c]
  /\ receivers \in Seq(ReceiverRecords)
  /\ helpers \in [Connections -> Seq(Helpers)]
  /\ calls \in Seq(CallRecords)
  /\ \A c \in Connections : \A e \in DOMAIN emitters[c] :
       FormatsOf(emitters[c][e].policy) \subseteq formats

PartsInv ==
  /\ \A c \in Connections : todo[c] \subseteq plan.makes[c]
  /\ \A c \in Connections : doing[c] # Idle =>
       /\ doing[c].spec \in plan.makes[c] \ todo[c]
       /\ CreationFits(c, doing[c], emitters[c], receivers)
  /\ \A c \in Connections : \A h \in DOMAIN helpers[c] :
       /\ helpers[c][h].spec \in plan.makes[c]
       /\ HelperFits(c, helpers[c][h], emitters[c], receivers)
  /\ \A r \in DOMAIN receivers : receivers[r].owner = "nobody" =>
       /\ receivers[r].conn \in Transport
       /\ BeganService(receivers[r].conn, receivers[r].place)

(* What waits, or is in a batch, is a call as its client made it. *)
IsCall(m, list) == m.id \in DOMAIN list /\ list[m.id] = m

CallInv ==
  /\ \A i \in DOMAIN calls : calls[i].id = i
  /\ \A r \in DOMAIN receivers : \A m \in Range(receivers[r].queue) : IsCall(m, calls)
  /\ \A c \in Connections : \A h \in DOMAIN helpers[c] :
       \A m \in Range(helpers[c][h].batch) : IsCall(m, calls)

FaultInv ==
  \A x \in failed :
    /\ x.at[1] \in Connections /\ x.at[2] \in DOMAIN helpers[x.at[1]]
    /\ x.culprit \in DOMAIN calls /\ AtFault(x.at[1], x.at[2], x.culprit)

(* A step changes the receivers of the connections of S that are making    *)
(* something, adds receivers, and leaves the owners of all others.         *)
Keeps(old, new, S) ==
  /\ DOMAIN old \subseteq DOMAIN new
  /\ \A r \in DOMAIN old :
       /\ new[r].conn = old[r].conn /\ new[r].place = old[r].place
       /\ \/ new[r].owner = old[r].owner
          \/ old[r].conn \in S /\ old[r].owner = "making"

Grows(old, new) == DOMAIN old \subseteq DOMAIN new /\ \A i \in DOMAIN old : new[i] = old[i]

SameHelper(old, new) ==
  new.spec = old.spec /\ new.emitter = old.emitter /\ new.receiver = old.receiver

LEMMA FitsKept ==
  ASSUME NEW c, NEW list, NEW longer, Grows(list, longer),
         NEW old, NEW new, NEW S, Keeps(old, new, S)
  PROVE  /\ \A x, y : HelperFits(c, x, list, old) /\ SameHelper(x, y)
                        => HelperFits(c, y, longer, new)
         /\ c \notin S =>
              \A x : CreationFits(c, x, list, old) => CreationFits(c, x, longer, new)
<1>1. \A e, spec : HasEmitter(list, e, spec) => HasEmitter(longer, e, spec)
  BY DEF HasEmitter, Grows
<1>2. \A r, spec : HasReceiver(old, r, c, "helper", spec)
                     => HasReceiver(new, r, c, "helper", spec)
  BY DEF HasReceiver, Keeps
<1>3. c \notin S => \A r, spec : HasReceiver(old, r, c, "making", spec)
                                   => HasReceiver(new, r, c, "making", spec)
  BY DEF HasReceiver, Keeps
<1>4. \A x, y : HelperFits(c, x, list, old) /\ SameHelper(x, y)
                  => HelperFits(c, y, longer, new)
  BY <1>1, <1>2 DEF HelperFits, SameHelper
<1>5. c \notin S => \A x : CreationFits(c, x, list, old) => CreationFits(c, x, longer, new)
  BY <1>1, <1>3 DEF CreationFits
<1> QED BY <1>4, <1>5

(* What a step must show: only of what it makes, and of who it lets go. *)
LEMMA PartsKept ==
  ASSUME PartsInv, plan' = plan, NEW S \in SUBSET Connections,
         \A d \in Connections : todo'[d] \subseteq todo[d] /\ Grows(emitters[d], emitters'[d]),
         \A d \in Connections \ S : doing'[d] = doing[d] /\ todo'[d] = todo[d],
         Keeps(receivers, receivers', S),
         \A d \in Connections : \A h \in DOMAIN helpers[d] :
           h \in DOMAIN helpers'[d] /\ SameHelper(helpers[d][h], helpers'[d][h]),
         \A d \in S : doing'[d] # Idle =>
           /\ doing'[d].spec \in plan.makes[d] \ todo'[d]
           /\ CreationFits(d, doing'[d], emitters'[d], receivers'),
         \A d \in Connections : \A h \in DOMAIN helpers'[d] \ DOMAIN helpers[d] :
           /\ helpers'[d][h].spec \in plan.makes[d]
           /\ HelperFits(d, helpers'[d][h], emitters'[d], receivers'),
         \A r \in DOMAIN receivers' : receivers'[r].owner = "nobody" =>
           \/ r \in DOMAIN receivers /\ receivers[r].owner = "nobody"
           \/ /\ receivers'[r].conn \in Transport
              /\ BeganService(receivers'[r].conn, receivers'[r].place)
  PROVE  PartsInv'
<1>1. \A d \in Connections : todo'[d] \subseteq plan'.makes[d]
  BY DEF PartsInv
<1>2. ASSUME NEW d \in Connections, doing'[d] # Idle
      PROVE  /\ doing'[d].spec \in plan'.makes[d] \ todo'[d]
             /\ CreationFits(d, doing'[d], emitters'[d], receivers')
  <2>1. CASE d \in S
    BY <1>2, <2>1
  <2>2. CASE d \notin S
    <3>1. /\ doing[d].spec \in plan.makes[d] \ todo[d]
          /\ CreationFits(d, doing[d], emitters[d], receivers)
      BY <1>2, <2>2 DEF PartsInv
    <3>2. \A x : CreationFits(d, x, emitters[d], receivers)
                   => CreationFits(d, x, emitters'[d], receivers')
      BY <2>2, FitsKept
    <3> QED BY <2>2, <3>1, <3>2
  <2> QED BY <2>1, <2>2
<1>3. ASSUME NEW d \in Connections, NEW h \in DOMAIN helpers'[d]
      PROVE  /\ helpers'[d][h].spec \in plan'.makes[d]
             /\ HelperFits(d, helpers'[d][h], emitters'[d], receivers')
  <2>1. CASE h \in DOMAIN helpers[d]
    <3>1. /\ helpers[d][h].spec \in plan.makes[d]
          /\ HelperFits(d, helpers[d][h], emitters[d], receivers)
          /\ SameHelper(helpers[d][h], helpers'[d][h])
      BY <2>1 DEF PartsInv
    <3>2. \A x, y : HelperFits(d, x, emitters[d], receivers) /\ SameHelper(x, y)
                      => HelperFits(d, y, emitters'[d], receivers')
      BY FitsKept
    <3> QED BY <3>1, <3>2 DEF SameHelper
  <2> QED BY <2>1
<1>4. ASSUME NEW r \in DOMAIN receivers', receivers'[r].owner = "nobody"
      PROVE  /\ receivers'[r].conn \in Transport'
             /\ BeganService(receivers[r].conn, receivers[r].place)'
  <2>1. Transport' = Transport
    BY DEF Transport
  <2>2. \E d : /\ d = receivers'[r].conn /\ d \in Transport
               /\ BeganService(d, receivers'[r].place)
    <3>1. CASE r \in DOMAIN receivers /\ receivers[r].owner = "nobody"
      <4>1. /\ receivers[r].conn \in Transport
            /\ BeganService(receivers[r].conn, receivers[r].place)
        BY <3>1 DEF PartsInv
      <4> QED BY <3>1, <4>1 DEF Keeps
    <3> QED BY <1>4, <3>1
  <2>3. PICK spec \in plan.makes[receivers'[r].conn] \ todo[receivers'[r].conn] :
          /\ spec.kind = "service" /\ receivers'[r].place = <<spec.channel, "request">>
          /\ ~ FormatsOf(Normalize(spec.args)) \subseteq Installed
    BY <2>2 DEF BeganService
  <2>4. receivers'[r].conn \in Connections
    BY <2>2 DEF Transport
  <2> QED BY <2>1, <2>2, <2>3, <2>4 DEF BeganService
<1> QED BY <1>1, <1>2, <1>3, <1>4 DEF PartsInv

(* Which call of a creation is which. *)
LEMMA CallShape ==
  ASSUME TypeInv, NEW c \in Connections, doing[c] # Idle
  PROVE  /\ doing[c].spec \in Specs /\ doing[c].step \in Nat \ {0}
         /\ Asks(c, "register") /\ IsPair(doing[c].spec) =>
              /\ doing[c].step = (IF doing[c].spec.kind = "client" THEN 1 ELSE 2)
              /\ CurrentCall(c).place = EmitSide(doing[c].spec)
              /\ CurrentCall(c).args = doing[c].spec.args
         /\ Asks(c, "subscribe") =>
              /\ IsPair(doing[c].spec)
              /\ doing[c].step = (IF doing[c].spec.kind = "client" THEN 2 ELSE 1)
              /\ CurrentCall(c).place = TakeSide(doing[c].spec)
              /\ TakeSide(doing[c].spec) \in Places
         /\ Made(c) /\ IsPair(doing[c].spec) => doing[c].step > 2
<1> DEFINE spec == doing[c].spec
           step == doing[c].step
           issued == CurrentCall(c)
<1>1. step \in Nat \ {0} /\ spec \in Specs
  BY DEF TypeInv, IsCreation
<1>2. /\ spec.kind \in {"client", "service", "publisher", "emitter"}
      /\ spec.channel \in Channels
  BY <1>1 DEF Specs
<1>3. \A op : Asks(c, op) => step <= Len(CallsOf(c, spec)) /\ issued.op = op
  BY DEF Asks
<1>4. Made(c) => step > Len(CallsOf(c, spec))
  BY DEF Made
<1>5. CASE spec.kind = "client"
  <2> DEFINE first == Registration(EmitSide(spec), spec.args)
             second == Subscription(TakeSide(spec))
  <2>1. CallsOf(c, spec) = <<first, second>>
    BY <1>5 DEF CallsOf, RequesterCalls, ProvisionedRequesterCalls, EmitSide, TakeSide
  <2>2. /\ first.op = "register" /\ first.place = EmitSide(spec)
        /\ first.args = spec.args
        /\ second.op = "subscribe" /\ second.place = TakeSide(spec)
    BY DEF Registration, Subscription
  <2> HIDE DEF first, second
  <2>3. Len(CallsOf(c, spec)) = 2
    BY <2>1
  <2>4. step = 1 => issued = first
    BY <2>1 DEF CurrentCall
  <2>5. step = 2 => issued = second
    BY <2>1 DEF CurrentCall
  <2>6. TakeSide(spec) \in Places
    BY <1>2, <1>5 DEF TakeSide, Places
  <2> QED BY <1>1, <1>3, <1>4, <1>5, <2>2, <2>3, <2>4, <2>5, <2>6 DEF IsPair
<1>6. CASE spec.kind = "service"
  <2> DEFINE first == Subscription(TakeSide(spec))
             second == Registration(EmitSide(spec), spec.args)
  <2>1. CallsOf(c, spec) = <<first, second>>
    BY <1>6 DEF CallsOf, ResponderCalls, ProvisionedResponderCalls, EmitSide, TakeSide
  <2>2. /\ second.op = "register" /\ second.place = EmitSide(spec)
        /\ second.args = spec.args
        /\ first.op = "subscribe" /\ first.place = TakeSide(spec)
    BY DEF Registration, Subscription
  <2> HIDE DEF first, second
  <2>3. Len(CallsOf(c, spec)) = 2
    BY <2>1
  <2>4. step = 1 => issued = first
    BY <2>1 DEF CurrentCall
  <2>5. step = 2 => issued = second
    BY <2>1 DEF CurrentCall
  <2>6. TakeSide(spec) \in Places
    BY <1>2, <1>6 DEF TakeSide, Places
  <2> QED BY <1>1, <1>3, <1>4, <1>6, <2>2, <2>3, <2>4, <2>5, <2>6 DEF IsPair
<1>7. CASE spec.kind = "publisher"
  <2>1. LifecycleTypes \in Seq(MsgTypes)
    BY ConstantsAssumption
  <2>2. CallsOf(c, spec) = PublisherCalls(spec)
    BY <1>7 DEF CallsOf
  <2>3. /\ Len(PublisherCalls(spec)) = Len(LifecycleTypes)
        /\ \A i \in 1..Len(LifecycleTypes) : PublisherCalls(spec)[i].op = "register"
    <3>1. PublisherCalls(spec) =
            [i \in 1..Len(LifecycleTypes) |->
               Registration(<<spec.channel, "events">>,
                            [spec.args EXCEPT !.type = LifecycleTypes[i]])]
      BY <2>1 DEF PublisherCalls
    <3> QED BY <2>1, <3>1 DEF Registration
  <2>4. ~Asks(c, "subscribe")
    <3>1. SUFFICES ASSUME Asks(c, "subscribe") PROVE FALSE
      OBVIOUS
    <3>2. step \in 1..Len(LifecycleTypes) /\ issued.op = "subscribe"
      BY <1>1, <1>3, <2>1, <2>2, <2>3, <3>1
    <3> QED BY <2>2, <2>3, <3>2 DEF CurrentCall
  <2> QED BY <1>1, <1>7, <2>4 DEF IsPair
<1>8. CASE spec.kind = "emitter"
  <2> DEFINE first == Registration(<<spec.channel, spec.for>>, spec.args)
  <2>1. CallsOf(c, spec) = <<first>>
    BY <1>8 DEF CallsOf
  <2>2. first.op = "register"
    BY DEF Registration
  <2> HIDE DEF first
  <2>3. Asks(c, "subscribe") => step = 1
    BY <1>1, <1>3, <2>1
  <2>4. step = 1 => issued = first
    BY <2>1 DEF CurrentCall
  <2>5. ~Asks(c, "subscribe")
    BY <1>3, <2>2, <2>3, <2>4
  <2> QED BY <1>1, <1>8, <2>5 DEF IsPair
<1> QED BY <1>2, <1>5, <1>6, <1>7, <1>8

LEMMA OwnerSet ==
  ASSUME NEW list \in Seq(ReceiverRecords), NEW r \in DOMAIN list,
         NEW o \in {"making", "helper", "nobody"}, NEW new,
         new = [list EXCEPT ![r].owner = o]
  PROVE  /\ new \in Seq(ReceiverRecords) /\ DOMAIN new = DOMAIN list
         /\ \A k \in DOMAIN list : /\ new[k].conn = list[k].conn
                                   /\ new[k].place = list[k].place
                                   /\ new[k].queue = list[k].queue
         /\ new[r].owner = o
         /\ \A k \in DOMAIN list \ {r} : new[k].owner = list[k].owner
<1> DEFINE x == [list[r] EXCEPT !.owner = o]
<1>1. list[r] \in ReceiverRecords
  OBVIOUS
<1>2. /\ x \in ReceiverRecords /\ x.owner = o /\ x.conn = list[r].conn
      /\ x.place = list[r].place /\ x.queue = list[r].queue
  BY <1>1 DEF ReceiverRecords
<1>3. new = [list EXCEPT ![r] = x]
  OBVIOUS
<1> HIDE DEF x
<1> QED BY <1>2, <1>3

(* Only a queue, and only a batch, is another. *)
OtherQueue(list, new, r, q) ==
  /\ new \in Seq(ReceiverRecords) /\ DOMAIN new = DOMAIN list
  /\ \A k \in DOMAIN list : /\ new[k].conn = list[k].conn
                            /\ new[k].place = list[k].place
                            /\ new[k].owner = list[k].owner
  /\ new[r].queue = q
  /\ \A k \in DOMAIN list \ {r} : new[k].queue = list[k].queue

OtherBatch(table, new, c, h, b) ==
  /\ new \in [Connections -> Seq(Helpers)]
  /\ \A d \in Connections : DOMAIN new[d] = DOMAIN table[d]
  /\ \A d \in Connections : \A k \in DOMAIN table[d] :
       /\ SameHelper(table[d][k], new[d][k])
       /\ \/ new[d][k].batch = table[d][k].batch
          \/ d = c /\ k = h /\ new[d][k].batch = b

LEMMA QueueSet ==
  ASSUME NEW list \in Seq(ReceiverRecords), NEW r \in DOMAIN list, NEW q \in Seq(CallRecords),
         NEW new, new = [list EXCEPT ![r].queue = q]
  PROVE  OtherQueue(list, new, r, q)
<1> DEFINE x == [list[r] EXCEPT !.queue = q]
<1>1. list[r] \in ReceiverRecords
  OBVIOUS
<1>2. /\ x \in ReceiverRecords /\ x.queue = q /\ x.conn = list[r].conn
      /\ x.place = list[r].place /\ x.owner = list[r].owner
  BY <1>1 DEF ReceiverRecords
<1>3. new = [list EXCEPT ![r] = x]
  OBVIOUS
<1> HIDE DEF x
<1> QED BY <1>2, <1>3 DEF OtherQueue

LEMMA BatchSet ==
  ASSUME NEW table \in [Connections -> Seq(Helpers)], NEW c \in Connections,
         NEW h \in DOMAIN table[c], NEW b \in Seq(CallRecords),
         NEW new, new = [table EXCEPT ![c][h].batch = b]
  PROVE  OtherBatch(table, new, c, h, b)
<1> DEFINE x == [table[c][h] EXCEPT !.batch = b]
           list == [table[c] EXCEPT ![h] = x]
<1>1. table[c] \in Seq(Helpers) /\ table[c][h] \in Helpers
  OBVIOUS
<1>2. x \in Helpers /\ x.batch = b /\ SameHelper(table[c][h], x)
  BY <1>1 DEF Helpers, SameHelper
<1>3. new = [table EXCEPT ![c] = list]
  OBVIOUS
<1> HIDE DEF x
<1>4. /\ list \in Seq(Helpers) /\ DOMAIN list = DOMAIN table[c]
      /\ list[h] = x /\ \A k \in DOMAIN table[c] \ {h} : list[k] = table[c][k]
  BY <1>1, <1>2
<1> HIDE DEF list
<1>5. /\ new \in [Connections -> Seq(Helpers)] /\ new[c] = list
      /\ \A d \in Connections \ {c} : new[d] = table[d]
  BY <1>3, <1>4
<1> QED BY <1>2, <1>4, <1>5 DEF SameHelper, OtherBatch

------------------------------------------------------------------------------
(* The steps of a creation. *)

LEMMA Done ==
  ASSUME TypeInv, NEW c \in Connections, doing[c] # Idle,
         NEW STATE emitter, NEW STATE receiver, CallDone(c, emitter, receiver)
  PROVE  /\ doing'[c].step = doing[c].step + 1 /\ doing'[c].spec = doing[c].spec
         /\ doing'[c].emitter = emitter /\ doing'[c].receiver = receiver
         /\ \A d \in Connections \ {c} : doing'[d] = doing[d]
<1>1. IsCreation(doing[c]) /\ doing = [d \in Connections |-> doing[d]]
  BY DEF TypeInv
<1>2. PICK made : /\ made = [doing[c] EXCEPT !.step = doing[c].step + 1,
                                             !.emitter = emitter,
                                             !.receiver = receiver]
                  /\ doing' = [doing EXCEPT ![c] = made]
  BY DEF CallDone
<1>3. /\ made.step = doing[c].step + 1 /\ made.spec = doing[c].spec
      /\ made.emitter = emitter /\ made.receiver = receiver
  BY <1>1, <1>2 DEF IsCreation
<1> QED BY <1>1, <1>2, <1>3

LEMMA GrowsAppended ==
  ASSUME NEW S, NEW list \in Seq(S), NEW e \in S
  PROVE  /\ Grows(list, list) /\ Grows(list, Append(list, e))
         /\ DOMAIN Append(list, e) = DOMAIN list \cup {Len(list) + 1}
         /\ Len(list) + 1 \notin DOMAIN list /\ Len(list) + 1 \in Nat \ {0}
         /\ Append(list, e)[Len(list) + 1] = e
<1>1. /\ Len(list) \in Nat /\ DOMAIN list = 1..Len(list)
      /\ DOMAIN Append(list, e) = 1..(Len(list) + 1)
      /\ \A i \in 1..Len(list) : Append(list, e)[i] = list[i]
      /\ Append(list, e)[Len(list) + 1] = e
  BY Appended
<1> QED BY <1>1 DEF Grows

LEMMA BeginParts ==
  ASSUME IInv, PartsType, PartsInv, NEW c \in Connections, BeginCreation(c)
  PROVE  PartsType' /\ PartsInv'
<1>1. /\ UNCHANGED <<plan, registrationVars, receivers, helpers, historyVars>>
      /\ \E spec \in todo[c] :
           /\ todo' = [todo EXCEPT ![c] = @ \ {spec}]
           /\ doing' = [doing EXCEPT ![c] = [step |-> 1, spec |-> spec,
                                             emitter |-> 0, receiver |-> 0]]
  BY DEF BeginCreation
<1>2. PartsType'
  BY <1>1 DEF PartsType, registrationVars, historyVars
<1>3. PICK spec \in todo[c] :
        /\ todo' = [todo EXCEPT ![c] = @ \ {spec}]
        /\ doing' = [doing EXCEPT ![c] = [step |-> 1, spec |-> spec,
                                          emitter |-> 0, receiver |-> 0]]
  BY <1>1
<1>4. /\ todo'[c] = todo[c] \ {spec} /\ doing'[c].spec = spec /\ doing'[c].step = 1
      /\ doing'[c].emitter = 0 /\ doing'[c].receiver = 0
      /\ \A d \in Connections \ {c} : doing'[d] = doing[d] /\ todo'[d] = todo[d]
  BY <1>3 DEF IInv, TypeInv
<1>5. spec \in plan.makes[c] \ todo'[c]
  BY <1>3, <1>4 DEF PartsInv
<1>6. CreationFits(c, doing'[c], emitters'[c], receivers')
  BY <1>4 DEF CreationFits
<1>7. /\ \A d \in Connections : Grows(emitters[d], emitters'[d])
      /\ Keeps(receivers, receivers', {c})
      /\ \A d \in Connections : \A h \in DOMAIN helpers[d] :
           h \in DOMAIN helpers'[d] /\ SameHelper(helpers[d][h], helpers'[d][h])
  BY <1>1 DEF Grows, Keeps, SameHelper, registrationVars
<1>8. \A d \in Connections : todo'[d] \subseteq todo[d]
  BY <1>4
<1> QED BY <1>1, <1>2, <1>4, <1>5, <1>6, <1>7, <1>8, PartsKept

LEMMA RegisterParts ==
  ASSUME IInv, PartsType, PartsInv, NEW c \in Connections,
         RegisterLocally(c) \/ RegisterOverTransport(c)
  PROVE  PartsType' /\ PartsInv'
<1> DEFINE issued == CurrentCall(c)
           policy == Normalize(issued.args)
           entry == [place |-> issued.place, policy |-> policy]
           spec == doing[c].spec
<1>1. /\ UNCHANGED <<plan, receivers, todo, helpers, calls>>
      /\ emitters' = [emitters EXCEPT ![c] = Append(@, entry)]
      /\ CallDone(c, Len(emitters[c]) + 1, doing[c].receiver)
      /\ doing[c] # Idle /\ Asks(c, "register")
  BY DEF RegisterLocally, RegisterOverTransport, AddEmitter, Asks, historyVars
<1>2. /\ issued.place \in Places /\ policy \in Policies
      /\ Normalize(FrameArguments(issued.args)) = policy
  BY <1>1, CallType, FrameKeepsPolicy DEF IInv
<1>3. /\ formats \subseteq formats' /\ FormatsOf(policy) \subseteq formats'
      /\ known' = [d \in Connections |-> known'[d]]
      /\ \A d \in Connections : known[d] \subseteq known'[d]
  <2>1. CASE RegisterLocally(c)
    BY <2>1 DEF RegisterLocally, PartsType
  <2>2. CASE RegisterOverTransport(c)
    <3>1. FormatsOf(policy) \subseteq formats /\ formats' = formats /\ TakesIn(c, policy)
      BY <1>2, <2>2 DEF RegisterOverTransport
    <3> QED BY <3>1 DEF TakesIn, PartsType
  <2> QED BY <2>1, <2>2
<1>4. /\ emitters[c] \in Seq(Entries) /\ entry \in Entries
      /\ emitters'[c] = Append(emitters[c], entry)
      /\ \A d \in Connections \ {c} : emitters'[d] = emitters[d]
  BY <1>1, <1>2 DEF IInv, TypeInv, Entries
<1>5. /\ Grows(emitters[c], emitters'[c])
      /\ DOMAIN emitters'[c] = DOMAIN emitters[c] \cup {Len(emitters[c]) + 1}
      /\ emitters'[c][Len(emitters[c]) + 1] = entry
      /\ Len(emitters[c]) + 1 \in Nat
  BY <1>4, GrowsAppended
<1>6. PartsType'
  <2>1. ASSUME NEW d \in Connections, NEW e \in DOMAIN emitters'[d]
        PROVE  FormatsOf(emitters'[d][e].policy) \subseteq formats'
    <3>1. CASE d = c /\ e = Len(emitters[c]) + 1
      BY <1>3, <1>5, <3>1
    <3>2. CASE ~(d = c /\ e = Len(emitters[c]) + 1)
      <4>1. e \in DOMAIN emitters[d] /\ emitters'[d][e] = emitters[d][e]
        BY <1>4, <1>5, <2>1, <3>2 DEF Grows
      <4> QED BY <1>3, <4>1 DEF PartsType
    <3> QED BY <3>1, <3>2
  <2> QED BY <1>1, <1>3, <2>1 DEF PartsType
<1>7. /\ doing'[c].step = doing[c].step + 1 /\ doing'[c].spec = spec
      /\ doing'[c].emitter = Len(emitters[c]) + 1
      /\ doing'[c].receiver = doing[c].receiver
      /\ \A d \in Connections \ {c} : doing'[d] = doing[d]
  BY <1>1, Done DEF IInv
<1>8. /\ spec \in plan.makes[c] \ todo[c]
      /\ CreationFits(c, doing[c], emitters[c], receivers)
  BY <1>1 DEF PartsInv
<1>9. CreationFits(c, doing'[c], emitters'[c], receivers')
  <2>1. doing[c].step \in Nat \ {0}
    BY <1>1, CallShape DEF IInv
  <2>2. CASE IsPair(spec)
    <3>1. /\ doing[c].step = (IF spec.kind = "client" THEN 1 ELSE 2)
          /\ issued.place = EmitSide(spec) /\ issued.args = spec.args
      BY <1>1, <2>2, CallShape DEF IInv
    <3>2. HasEmitter(emitters'[c], Len(emitters[c]) + 1, spec)
      BY <1>5, <3>1 DEF HasEmitter
    <3> QED BY <1>1, <1>5, <1>7, <1>8, <2>2, <3>1, <3>2 DEF CreationFits
  <2>3. CASE ~IsPair(spec)
    BY <1>5, <1>7, <1>8, <2>3 DEF CreationFits
  <2> QED BY <2>2, <2>3
<1>10. /\ \A d \in Connections : Grows(emitters[d], emitters'[d])
       /\ Keeps(receivers, receivers', {c})
       /\ \A d \in Connections : \A h \in DOMAIN helpers[d] :
            h \in DOMAIN helpers'[d] /\ SameHelper(helpers[d][h], helpers'[d][h])
  BY <1>1, <1>4, <1>5 DEF Grows, Keeps, SameHelper
<1> QED BY <1>1, <1>6, <1>7, <1>8, <1>9, <1>10, PartsKept

LEMMA RefuseParts ==
  ASSUME IInv, PartsType, PartsInv, NEW c \in Connections, RegisterRefused(c)
  PROVE  PartsType' /\ PartsInv'
<1> DEFINE policy == Normalize(CurrentCall(c).args)
           spec == doing[c].spec
           r == doing[c].receiver
<1>1. /\ UNCHANGED <<plan, formats, emitters, todo, helpers, calls>>
      /\ doing' = [doing EXCEPT ![c] = Idle]
      /\ c \in Transport /\ Asks(c, "register") /\ doing[c] # Idle
      /\ ~ FormatsOf(policy) \subseteq formats
      /\ TakesIn(c, policy)
      /\ receivers' = IF r = 0 THEN receivers
                      ELSE [receivers EXCEPT ![r].owner = "nobody"]
  BY DEF RegisterRefused, Asks, historyVars
<1>2. /\ spec \in plan.makes[c] \ todo[c]
      /\ CreationFits(c, doing[c], emitters[c], receivers)
  BY <1>1 DEF PartsInv
<1>3. \A d \in Connections \ {c} : doing'[d] = doing[d]
  BY <1>1 DEF IInv, TypeInv
<1>4. doing'[c] = Idle
  BY <1>1 DEF IInv, TypeInv
<1>5. /\ receivers' \in Seq(ReceiverRecords) /\ Keeps(receivers, receivers', {c})
      /\ \A k \in DOMAIN receivers' : receivers'[k].owner = "nobody" =>
           \/ k \in DOMAIN receivers /\ receivers[k].owner = "nobody"
           \/ /\ receivers'[k].conn \in Transport
              /\ BeganService(receivers'[k].conn, receivers'[k].place)
  <2>1. CASE r = 0
    BY <1>1, <2>1 DEF PartsType, Keeps
  <2>2. CASE r # 0
    <3>1. /\ IsPair(spec) /\ HasReceiver(receivers, r, c, "making", spec)
          /\ spec.kind # "client" /\ CurrentCall(c).args = spec.args
      <4>1. IsPair(spec)
        BY <1>2, <2>2 DEF CreationFits
      <4>2. HasReceiver(receivers, r, c, "making", spec)
            /\ doing[c].step > (IF spec.kind = "client" THEN 2 ELSE 1)
        BY <1>2, <2>2 DEF CreationFits
      <4>3. /\ doing[c].step = (IF spec.kind = "client" THEN 1 ELSE 2)
            /\ CurrentCall(c).args = spec.args
        BY <1>1, <4>1, CallShape DEF IInv
      <4> QED BY <4>1, <4>2, <4>3
    <3>2. r \in DOMAIN receivers /\ receivers \in Seq(ReceiverRecords)
      BY <3>1 DEF HasReceiver, PartsType
    <3>3. /\ receivers' \in Seq(ReceiverRecords) /\ DOMAIN receivers' = DOMAIN receivers
          /\ \A k \in DOMAIN receivers : /\ receivers'[k].conn = receivers[k].conn
                                         /\ receivers'[k].place = receivers[k].place
          /\ \A k \in DOMAIN receivers \ {r} : receivers'[k].owner = receivers[k].owner
      BY <1>1, <2>2, <3>2, OwnerSet
    <3>4. BeganService(c, TakeSide(spec))
      <4>1. ~ FormatsOf(Normalize(spec.args)) \subseteq Installed
        BY <1>1, <3>1 DEF PartsType
      <4>2. spec.kind = "service" /\ TakeSide(spec) = <<spec.channel, "request">>
        BY <3>1 DEF IsPair, TakeSide
      <4> QED BY <1>2, <4>1, <4>2 DEF BeganService
    <3> QED BY <1>1, <3>1, <3>3, <3>4 DEF Keeps, HasReceiver
  <2> QED BY <2>1, <2>2
<1>6. PartsType'
  <2>1. /\ known' = [d \in Connections |-> known'[d]]
        /\ \A d \in Connections : Installed \subseteq known'[d]
    BY <1>1 DEF TakesIn, PartsType
  <2> QED BY <1>1, <1>5, <2>1 DEF PartsType
<1>7. /\ \A d \in Connections : Grows(emitters[d], emitters'[d])
      /\ \A d \in Connections : \A h \in DOMAIN helpers[d] :
           h \in DOMAIN helpers'[d] /\ SameHelper(helpers[d][h], helpers'[d][h])
  BY <1>1 DEF Grows, SameHelper
<1>8. /\ plan' = plan /\ {c} \in SUBSET Connections
      /\ \A d \in Connections : todo'[d] \subseteq todo[d]
      /\ \A d \in Connections \ {c} : doing'[d] = doing[d] /\ todo'[d] = todo[d]
      /\ \A d \in Connections : DOMAIN helpers'[d] \ DOMAIN helpers[d] = {}
      /\ \A d \in {c} : doing'[d] = Idle
  BY <1>1, <1>3, <1>4
<1> HIDE DEF policy, spec, r
<1> QED BY <1>5, <1>6, <1>7, <1>8, PartsKept

LEMMA SubscribeParts ==
  ASSUME IInv, PartsType, PartsInv, NEW c \in Connections, Subscribe(c)
  PROVE  PartsType' /\ PartsInv'
<1> DEFINE spec == doing[c].spec
           entry == [conn |-> c, place |-> CurrentCall(c).place,
                     owner |-> "making", queue |-> <<>>]
           r == Len(receivers) + 1
<1>1. /\ UNCHANGED <<plan, formats, known, emitters, todo, helpers, calls>>
      /\ receivers' = Append(receivers, entry)
      /\ CallDone(c, doing[c].emitter, r)
      /\ Asks(c, "subscribe") /\ doing[c] # Idle
  BY DEF Subscribe, Asks, registrationVars, historyVars
<1>2. /\ IsPair(spec) /\ doing[c].step = (IF spec.kind = "client" THEN 2 ELSE 1)
      /\ CurrentCall(c).place = TakeSide(spec) /\ TakeSide(spec) \in Places
  BY <1>1, CallShape DEF IInv
<1>3. entry \in ReceiverRecords /\ receivers \in Seq(ReceiverRecords)
  BY <1>2 DEF ReceiverRecords, PartsType
<1>4. /\ Grows(receivers, receivers') /\ receivers' \in Seq(ReceiverRecords)
      /\ DOMAIN receivers' = DOMAIN receivers \cup {r}
      /\ receivers'[r] = entry /\ r \in Nat \ {0}
  BY <1>1, <1>3, GrowsAppended
<1>5. /\ doing'[c].step = doing[c].step + 1 /\ doing'[c].spec = spec
      /\ doing'[c].emitter = doing[c].emitter /\ doing'[c].receiver = r
      /\ \A d \in Connections \ {c} : doing'[d] = doing[d]
  BY <1>1, Done DEF IInv
<1>6. /\ spec \in plan.makes[c] \ todo[c]
      /\ CreationFits(c, doing[c], emitters[c], receivers)
  BY <1>1 DEF PartsInv
<1>7. HasReceiver(receivers', r, c, "making", spec)
  BY <1>2, <1>4 DEF HasReceiver
<1>8. CreationFits(c, doing'[c], emitters'[c], receivers')
  BY <1>1, <1>2, <1>4, <1>5, <1>6, <1>7 DEF CreationFits
<1>9. PartsType'
  BY <1>1, <1>4 DEF PartsType
<1>10. /\ plan' = plan /\ {c} \in SUBSET Connections
       /\ \A d \in Connections : todo'[d] \subseteq todo[d] /\ Grows(emitters[d], emitters'[d])
       /\ \A d \in Connections \ {c} : doing'[d] = doing[d] /\ todo'[d] = todo[d]
       /\ \A d \in Connections : \A h \in DOMAIN helpers[d] :
            h \in DOMAIN helpers'[d] /\ SameHelper(helpers[d][h], helpers'[d][h])
       /\ \A d \in Connections : DOMAIN helpers'[d] \ DOMAIN helpers[d] = {}
       /\ \A d \in {c} : doing'[d].spec \in plan.makes[d] \ todo'[d]
  BY <1>1, <1>5, <1>6 DEF Grows, SameHelper
<1>11. /\ Keeps(receivers, receivers', {c})
       /\ \A k \in DOMAIN receivers' : receivers'[k].owner = "nobody" =>
            k \in DOMAIN receivers /\ receivers[k].owner = "nobody"
  BY <1>4 DEF Grows, Keeps
<1> HIDE DEF spec, entry, r
<1> QED BY <1>8, <1>9, <1>10, <1>11, PartsKept

LEMMA HandParts ==
  ASSUME IInv, PartsType, PartsInv, NEW c \in Connections, Hand(c)
  PROVE  PartsType' /\ PartsInv'
<1> DEFINE made == doing[c]
           spec == doing[c].spec
           r == doing[c].receiver
           helper == [spec |-> spec, emitter |-> made.emitter,
                      receiver |-> r, batch |-> <<>>]
           n == Len(helpers[c]) + 1
<1>1. /\ UNCHANGED <<plan, formats, known, emitters, todo, calls>>
      /\ Made(c) /\ doing[c] # Idle
      /\ helpers' = [helpers EXCEPT ![c] = Append(@, helper)]
      /\ receivers' = IF r = 0 THEN receivers
                      ELSE [receivers EXCEPT ![r].owner = "helper"]
      /\ doing' = [doing EXCEPT ![c] = Idle]
  BY DEF Hand, Made, registrationVars, historyVars
<1>2. /\ spec \in plan.makes[c] \ todo[c]
      /\ CreationFits(c, made, emitters[c], receivers)
  BY <1>1 DEF PartsInv
<1>3. spec \in Specs /\ (IsPair(spec) => made.step > 2)
      /\ made.emitter \in Nat /\ r \in Nat /\ made.step \in Nat
  <2>1. spec \in Specs /\ (IsPair(spec) => made.step > 2) /\ made.step \in Nat
    BY <1>1, CallShape DEF IInv
  <2>2. made.emitter \in Nat /\ r \in Nat
    BY <1>2 DEF CreationFits
  <2> QED BY <2>1, <2>2
<1>4. helper \in Helpers /\ helpers[c] \in Seq(Helpers)
  <2>1. helper \in Helpers
    BY <1>3 DEF Helpers
  <2>2. helpers \in [Connections -> Seq(Helpers)]
    BY DEF PartsType
  <2> QED BY <2>1, <2>2
<1>5. /\ Append(helpers[c], helper) \in Seq(Helpers)
      /\ Grows(helpers[c], Append(helpers[c], helper))
      /\ DOMAIN Append(helpers[c], helper) = DOMAIN helpers[c] \cup {n}
      /\ Append(helpers[c], helper)[n] = helper
  BY <1>4, GrowsAppended, Appended
<1>6. /\ helpers' \in [Connections -> Seq(Helpers)]
      /\ helpers'[c] = Append(helpers[c], helper)
      /\ \A d \in Connections \ {c} : helpers'[d] = helpers[d]
  BY <1>1, <1>5 DEF PartsType
<1>7. /\ doing'[c] = Idle
      /\ \A d \in Connections \ {c} : doing'[d] = doing[d]
  BY <1>1 DEF IInv, TypeInv
<1>8. /\ receivers' \in Seq(ReceiverRecords) /\ Keeps(receivers, receivers', {c})
      /\ \A k \in DOMAIN receivers' : receivers'[k].owner = "nobody" =>
           k \in DOMAIN receivers /\ receivers[k].owner = "nobody"
      /\ HelperFits(c, helper, emitters'[c], receivers')
  <2>1. CASE ~IsPair(spec)
    <3>1. r = 0
      BY <1>2, <2>1 DEF CreationFits
    <3> QED BY <1>1, <2>1, <3>1 DEF PartsType, Keeps, HelperFits
  <2>2. CASE IsPair(spec)
    <3>1. /\ HasReceiver(receivers, r, c, "making", spec)
          /\ HasEmitter(emitters[c], made.emitter, spec)
      BY <1>2, <1>3, <2>2 DEF CreationFits
    <3>2. r \in DOMAIN receivers /\ receivers \in Seq(ReceiverRecords) /\ r # 0
      BY <3>1 DEF HasReceiver, PartsType
    <3>3. /\ receivers' \in Seq(ReceiverRecords) /\ DOMAIN receivers' = DOMAIN receivers
          /\ receivers'[r].owner = "helper"
          /\ \A k \in DOMAIN receivers : /\ receivers'[k].conn = receivers[k].conn
                                         /\ receivers'[k].place = receivers[k].place
          /\ \A k \in DOMAIN receivers \ {r} : receivers'[k].owner = receivers[k].owner
      BY <1>1, <3>2, OwnerSet
    <3>4. HasReceiver(receivers', r, c, "helper", spec)
      BY <3>1, <3>3 DEF HasReceiver
    <3>5. Keeps(receivers, receivers', {c})
      BY <3>1, <3>3 DEF Keeps, HasReceiver
    <3>6. HelperFits(c, helper, emitters'[c], receivers')
      BY <1>1, <3>1, <3>4 DEF HelperFits
    <3> QED BY <3>3, <3>5, <3>6
  <2> QED BY <2>1, <2>2
<1>9. PartsType'
  BY <1>1, <1>6, <1>8 DEF PartsType
<1>10. /\ plan' = plan /\ {c} \in SUBSET Connections
       /\ \A d \in Connections : todo'[d] \subseteq todo[d] /\ Grows(emitters[d], emitters'[d])
       /\ \A d \in Connections \ {c} : doing'[d] = doing[d] /\ todo'[d] = todo[d]
       /\ \A d \in {c} : doing'[d] = Idle
  BY <1>1, <1>7 DEF Grows
<1>11. /\ \A d \in Connections : \A h \in DOMAIN helpers[d] :
            h \in DOMAIN helpers'[d] /\ SameHelper(helpers[d][h], helpers'[d][h])
       /\ \A d \in Connections : \A h \in DOMAIN helpers'[d] \ DOMAIN helpers[d] :
            /\ helpers'[d][h].spec \in plan.makes[d]
            /\ HelperFits(d, helpers'[d][h], emitters'[d], receivers')
  <2>1. ASSUME NEW d \in Connections, NEW h \in DOMAIN helpers[d]
        PROVE  h \in DOMAIN helpers'[d] /\ helpers'[d][h] = helpers[d][h]
    BY <1>5, <1>6 DEF Grows
  <2>2. ASSUME NEW d \in Connections, NEW h \in DOMAIN helpers'[d] \ DOMAIN helpers[d]
        PROVE  d = c /\ helpers'[d][h] = helper
    BY <1>5, <1>6
  <2>3. helper.spec \in plan.makes[c]
    BY <1>2
  <2> HIDE DEF helper
  <2> QED BY <1>8, <2>1, <2>2, <2>3 DEF SameHelper
<1> HIDE DEF made, spec, r, helper, n
<1> QED BY <1>8, <1>9, <1>10, <1>11, PartsKept

------------------------------------------------------------------------------
(* Calls and replies. *)

(* What a pair's emitter sends is in a format, chosen by its policy. *)
LEMMA FormatChosen ==
  ASSUME IInv, PartsInv, NEW c \in Connections, NEW h \in DOMAIN helpers[c],
         IsPair(helpers[c][h].spec)
  PROVE  LET spec == helpers[c][h].spec
         IN FormatFor(Normalize(spec.args), ChosenFormat(spec)) \in Formats
<1> DEFINE spec == helpers[c][h].spec
           policy == Normalize(spec.args)
<1>1. spec \in plan.makes[c]
  BY DEF PartsInv
<1>2. plan \in Plans /\ spec \in Specs
  BY <1>1, PlansAssumption DEF IInv, TypeInv
<1>3. spec.args \in EmitterArguments
  BY <1>2 DEF Specs
<1>4. policy \in Policies /\ policy.type = spec.args.type /\ spec.args.format \in Formats
      /\ policy.format = spec.args.format
  BY <1>3, NormalizeType DEF EmitterArguments, Normalize
<1> HIDE DEF policy
<1>5. policy.type \in MsgTypes /\ policy.formats[policy.type] \in Seq(Formats)
      /\ policy.format \in Formats
  BY <1>4 DEF Policies
<1>6. policy.type \in Listed(policy) => policy.formats[policy.type][1] \in Formats
  BY <1>5 DEF Listed
<1>7. ResolveType(policy, Default) = policy.type
  BY DEF ResolveType
<1>8. ResolveFormat(policy, policy.type, Default) \in Formats
  BY <1>5, <1>6 DEF ResolveFormat
<1>9. ResolveFormat(policy, policy.type, spec.args.format) \in Formats
  BY <1>4, <1>8 DEF ResolveFormat
<1> QED BY <1>7, <1>8, <1>9 DEF FormatFor, ChosenFormat, policy

LEMMA CallParts ==
  ASSUME IInv, PartsType, PartsInv, NEW c \in Connections, NEW h, CallClient(c, h)
  PROVE  PartsType' /\ PartsInv'
<1> DEFINE helper == helpers[c][h]
           spec == helper.spec
           issued == [id |-> Len(calls) + 1, payload |-> RequestPayload(spec),
                      format |-> FormatFor(emitters[c][helper.emitter].policy,
                                           ChosenFormat(spec))]
           reached == {i \in DOMAIN receivers :
                         receivers[i].place = <<spec.channel, "request">>}
<1>1. /\ UNCHANGED <<plan, formats, known, emitters, todo, doing, helpers>>
      /\ h \in DOMAIN helpers[c] /\ spec.kind = "client"
      /\ calls' = Append(calls, issued)
      /\ \/ UNCHANGED receivers
         \/ receivers' = [i \in DOMAIN receivers |->
                            IF receivers[i].place = <<spec.channel, "request">>
                            THEN [receivers[i] EXCEPT !.queue = Append(@, issued)]
                            ELSE receivers[i]]
  BY DEF CallClient, IsHelper, registrationVars, creationVars
<1>2. spec \in plan.makes[c] /\ HelperFits(c, helper, emitters[c], receivers)
  BY <1>1 DEF PartsInv
<1>3. emitters[c][helper.emitter].policy = Normalize(spec.args) /\ IsPair(spec)
  <2>1. IsPair(spec)
    BY <1>1 DEF IsPair
  <2>2. HasEmitter(emitters[c], helper.emitter, spec)
    BY <1>2, <2>1 DEF HelperFits
  <2> QED BY <2>1, <2>2 DEF HasEmitter
<1>4. issued.format \in Formats
  BY <1>1, <1>3, FormatChosen
<1>5. spec.for \in {"request", "history", "procedure"}
  BY <1>1, <1>2, HelpersAssumption DEF IInv, TypeInv
<1>6. issued \in CallRecords /\ calls \in Seq(CallRecords)
  BY <1>4, <1>5 DEF PartsType, CallRecords, Payloads, RequestPayload
<1> HIDE DEF issued
<1>7. calls' \in Seq(CallRecords)
  BY <1>1, <1>6
<1>8. /\ receivers' \in Seq(ReceiverRecords) /\ DOMAIN receivers' = DOMAIN receivers
      /\ \A i \in DOMAIN receivers : /\ receivers'[i].conn = receivers[i].conn
                                     /\ receivers'[i].place = receivers[i].place
                                     /\ receivers'[i].owner = receivers[i].owner
  <2>1. CASE UNCHANGED receivers
    BY <2>1 DEF PartsType
  <2>2. CASE receivers' = [i \in DOMAIN receivers |->
                             IF receivers[i].place = <<spec.channel, "request">>
                             THEN [receivers[i] EXCEPT !.queue = Append(@, issued)]
                             ELSE receivers[i]]
    <3>1. receivers \in Seq(ReceiverRecords)
      BY DEF PartsType
    <3>2. ASSUME NEW i \in DOMAIN receivers
          PROVE  /\ receivers'[i] \in ReceiverRecords
                 /\ receivers'[i].conn = receivers[i].conn
                 /\ receivers'[i].place = receivers[i].place
                 /\ receivers'[i].owner = receivers[i].owner
      <4>1. receivers[i] \in ReceiverRecords
        BY <3>1
      <4>2. Append(receivers[i].queue, issued) \in Seq(CallRecords)
        BY <1>6, <4>1 DEF ReceiverRecords
      <4> QED BY <2>2, <4>1, <4>2 DEF ReceiverRecords
    <3>3. DOMAIN receivers' = 1..Len(receivers) /\ Len(receivers) \in Nat
          /\ receivers' = [i \in 1..Len(receivers) |-> receivers'[i]]
      BY <2>2, <3>1
    <3>4. receivers' \in Seq(ReceiverRecords)
      BY <3>1, <3>2, <3>3
    <3> QED BY <2>2, <3>2, <3>4
  <2> QED BY <1>1, <2>1, <2>2
<1>9. PartsType'
  BY <1>1, <1>7, <1>8 DEF PartsType
<1>10. /\ \A d \in Connections : Grows(emitters[d], emitters'[d])
       /\ Keeps(receivers, receivers', {})
       /\ \A d \in Connections : \A k \in DOMAIN helpers[d] :
            k \in DOMAIN helpers'[d] /\ SameHelper(helpers[d][k], helpers'[d][k])
  BY <1>1, <1>8 DEF Grows, Keeps, SameHelper
<1> HIDE DEF helper, spec
<1> QED BY <1>1, <1>8, <1>9, <1>10, PartsKept

(* A service moves calls from its own receiver to its batch, and drops some. *)
LEMMA ServeKeeps ==
  ASSUME IInv, PartsType, PartsInv, NEW c \in Connections, NEW h, Serve(c, h)
  PROVE  /\ UNCHANGED <<plan, formats, known, emitters, todo, doing, calls>>
         /\ h \in DOMAIN helpers[c] /\ helpers[c][h].spec.kind = "service"
         /\ helpers[c][h].receiver \in DOMAIN receivers
         /\ receivers' \in Seq(ReceiverRecords) /\ DOMAIN receivers' = DOMAIN receivers
         /\ \A k \in DOMAIN receivers :
              /\ receivers'[k].conn = receivers[k].conn
              /\ receivers'[k].place = receivers[k].place
              /\ receivers'[k].owner = receivers[k].owner
              /\ Range(receivers'[k].queue) \subseteq Range(receivers[k].queue)
         /\ helpers' \in [Connections -> Seq(Helpers)]
         /\ \A d \in Connections : DOMAIN helpers'[d] = DOMAIN helpers[d]
         /\ \A d \in Connections : \A k \in DOMAIN helpers[d] :
              /\ SameHelper(helpers[d][k], helpers'[d][k])
              /\ \/ Range(helpers'[d][k].batch) \subseteq Range(helpers[d][k].batch)
                 \/ Range(helpers'[d][k].batch)
                      \subseteq Range(receivers[helpers[c][h].receiver].queue)
<1> DEFINE helper == helpers[c][h]
           r == helper.receiver
<1>1. /\ UNCHANGED <<plan, formats, known, emitters, todo, doing, calls>>
      /\ h \in DOMAIN helpers[c] /\ helper.spec.kind = "service"
  BY DEF Serve, TakeRequests, HandleNext, HandleRaises, IsHelper, registrationVars
<1>2. r \in DOMAIN receivers
  BY <1>1 DEF PartsInv, HelperFits, HasReceiver, IsPair
<1>3. receivers \in Seq(ReceiverRecords)
  BY DEF PartsType
<1>4. helpers \in [Connections -> Seq(Helpers)]
  BY DEF PartsType
<1>5. receivers[r] \in ReceiverRecords /\ helper \in Helpers
  BY <1>1, <1>2, <1>3, <1>4
<1>6. receivers[r].queue \in Seq(CallRecords) /\ helper.batch \in Seq(CallRecords)
  BY <1>5 DEF ReceiverRecords, Helpers
<1>7. CASE TakeRequests(c, h)
  <2>1. PICK n \in 1..Len(receivers[r].queue) :
          /\ receivers' = [receivers EXCEPT ![r].queue = Left(receivers[r].queue, n)]
          /\ \/ helpers' = [helpers EXCEPT ![c][h].batch = SubSeq(receivers[r].queue, 1, n)]
             \/ UNCHANGED helpers
    BY <1>2, <1>3, <1>7 DEF TakeRequests
  <2> DEFINE taken == SubSeq(receivers[r].queue, 1, n)
             left == Left(receivers[r].queue, n)
  <2>2. /\ taken \in Seq(CallRecords) /\ left \in Seq(CallRecords)
        /\ Range(receivers[r].queue) = Range(taken) \cup Range(left)
    BY <1>6, Split DEF Left
  <2> HIDE DEF taken, left, r, helper
  <2>3. OtherQueue(receivers, receivers', r, left)
    <3>1. receivers' = [receivers EXCEPT ![r].queue = left]
      BY <2>1 DEF left
    <3>2. left \in Seq(CallRecords)
      BY <2>2
    <3> QED BY <1>2, <1>3, <3>1, <3>2, QueueSet
  <2>4. CASE UNCHANGED helpers
    BY <1>1, <1>2, <1>3, <2>2, <2>3, <1>4, <2>4
       DEF SameHelper, OtherQueue, r, helper
  <2>5. CASE helpers' = [helpers EXCEPT ![c][h].batch = taken]
    <3>1. OtherBatch(helpers, helpers', c, h, taken)
      <4>1. taken \in Seq(CallRecords)
        BY <2>2
      <4>2. h \in DOMAIN helpers[c]
        BY <1>1
      <4> QED BY <1>4, <2>5, <4>1, <4>2, BatchSet
    <3> QED BY <1>1, <1>2, <2>2, <2>3, <3>1
         DEF OtherQueue, OtherBatch, r, helper
  <2> QED BY <2>1, <2>4, <2>5 DEF taken
<1>8. CASE HandleNext(c, h) \/ HandleRaises(c, h)
  <2> HIDE DEF r, helper
  <2>1. PICK b : /\ b \in {Tail(helper.batch), <<>>}
                 /\ helpers' = [helpers EXCEPT ![c][h].batch = b]
                 /\ helper.batch # <<>> /\ UNCHANGED receivers
    BY <1>1, <1>4, <1>8 DEF HandleNext, HandleRaises, helper
  <2>2. b \in Seq(CallRecords) /\ Range(b) \subseteq Range(helper.batch)
    <3>1. PICK batch : batch = helper.batch
      OBVIOUS
    <3>2. batch \in Seq(CallRecords) /\ batch # <<>> /\ b \in {Tail(batch), <<>>}
      BY <1>6, <2>1, <3>1
    <3>3. Range(batch) = {Head(batch)} \cup Range(Tail(batch)) /\ Tail(batch) \in Seq(CallRecords)
      BY <3>2, RangeOfHeadAndTail, HeadAndTail
    <3>4. Range(<<>>) = {} /\ <<>> \in Seq(CallRecords)
      BY RangeOfEmpty
    <3> QED BY <3>1, <3>2, <3>3, <3>4
  <2>3. OtherBatch(helpers, helpers', c, h, b)
    <3>1. b \in Seq(CallRecords)
      BY <2>2
    <3>2. h \in DOMAIN helpers[c]
      BY <1>1
    <3>3. helpers' = [helpers EXCEPT ![c][h].batch = b]
      BY <2>1
    <3> QED BY <1>4, <3>1, <3>2, <3>3, BatchSet
  <2> QED BY <1>1, <1>2, <1>3, <2>1, <2>2, <2>3
         DEF OtherBatch, r, helper
<1> QED BY <1>7, <1>8 DEF Serve

LEMMA ServeParts ==
  ASSUME IInv, PartsType, PartsInv, NEW c \in Connections, NEW h, Serve(c, h)
  PROVE  PartsType' /\ PartsInv'
<1>1. /\ UNCHANGED <<plan, formats, known, emitters, todo, doing, calls>>
      /\ receivers' \in Seq(ReceiverRecords) /\ DOMAIN receivers' = DOMAIN receivers
      /\ \A k \in DOMAIN receivers :
           /\ receivers'[k].conn = receivers[k].conn
           /\ receivers'[k].place = receivers[k].place
           /\ receivers'[k].owner = receivers[k].owner
      /\ helpers' \in [Connections -> Seq(Helpers)]
      /\ \A d \in Connections : DOMAIN helpers'[d] = DOMAIN helpers[d]
      /\ \A d \in Connections : \A k \in DOMAIN helpers[d] :
           SameHelper(helpers[d][k], helpers'[d][k])
  BY ServeKeeps
<1>2. PartsType'
  BY <1>1 DEF PartsType
<1>3. /\ \A d \in Connections : Grows(emitters[d], emitters'[d])
      /\ Keeps(receivers, receivers', {})
      /\ \A d \in Connections : DOMAIN helpers'[d] \ DOMAIN helpers[d] = {}
  BY <1>1 DEF Grows, Keeps
<1> QED BY <1>1, <1>2, <1>3, PartsKept

LEMMA InitParts == Init => PartsType /\ PartsInv
<1> SUFFICES ASSUME Init PROVE PartsType /\ PartsInv
  OBVIOUS
<1>1. /\ formats = Installed /\ known = [c \in Connections |-> Installed]
      /\ receivers = <<>> /\ helpers = [c \in Connections |-> <<>>] /\ calls = <<>>
      /\ emitters = [c \in Connections |-> <<>>] /\ todo = plan.makes
      /\ doing = [c \in Connections |-> Idle]
  BY DEF Init
<1>2. DOMAIN <<>> = {}
  OBVIOUS
<1>3. PartsType
  BY <1>1, <1>2 DEF PartsType
<1>4. PartsInv
  BY <1>1, <1>2 DEF PartsInv
<1> QED BY <1>3, <1>4

LEMMA NextParts ==
  ASSUME IInv, PartsType, PartsInv, [Next]_vars
  PROVE  PartsType' /\ PartsInv'
<1>1. CASE InstallFormat \/ UNCHANGED vars
  <2>1. /\ UNCHANGED <<plan, known, emitters, receivers, todo, doing, helpers, calls>>
        /\ formats \subseteq formats'
    BY <1>1 DEF InstallFormat, vars, registrationVars, creationVars, historyVars
  <2>2. PartsType'
    BY <2>1 DEF PartsType
  <2>3. PartsInv'
    <3>1. /\ \A d \in Connections : Grows(emitters[d], emitters'[d])
          /\ Keeps(receivers, receivers', {})
          /\ \A d \in Connections : \A k \in DOMAIN helpers[d] :
               k \in DOMAIN helpers'[d] /\ SameHelper(helpers[d][k], helpers'[d][k])
      BY <2>1 DEF Grows, Keeps, SameHelper
    <3> QED BY <2>1, <3>1, PartsKept
  <2> QED BY <2>2, <2>3
<1>2. ASSUME NEW c \in Connections, Create(c)
      PROVE  PartsType' /\ PartsInv'
  <2>1. RegisterDirect(c) \/ RegisterImmediate(c) => RegisterLocally(c)
    BY DEF RegisterDirect, RegisterImmediate
  <2>2. HandHelper(c) \/ HandAsyncHelper(c) \/ HandProvisionedHelper(c) => Hand(c)
    BY DEF HandHelper, HandAsyncHelper, HandProvisionedHelper
  <2> QED BY <1>2, <2>1, <2>2, BeginParts, RegisterParts, RefuseParts,
             SubscribeParts, HandParts DEF Create
<1>3. ASSUME NEW c \in Connections, NEW h \in 1..MaxHelpers, CallClient(c, h) \/ Serve(c, h)
      PROVE  PartsType' /\ PartsInv'
  BY <1>3, CallParts, ServeParts
<1> QED BY <1>1, <1>2, <1>3 DEF Next

(***************************************************************************)
(* Whatever is made, by however many connections at once and whichever     *)
(* registrations are refused: every receiver a helper has is its own and   *)
(* at the helper's place, and one that nobody has was subscribed by a      *)
(* service that asked for a format of its own.                             *)
(***************************************************************************)
THEOREM OwnReceivers == Spec => []ReceiversOwned
<1>1. PartsInv => ReceiversOwned
  BY DEF PartsInv, ReceiversOwned, HelperFits, HasReceiver, IsPair, TakeSide
<1> DEFINE Inv == IInv /\ PartsType /\ PartsInv
<1>2. Init => Inv
  BY InitIInv, InitParts
<1>3. Inv /\ [Next]_vars => Inv'
  BY NextIInv, NextParts
<1> QED BY <1>1, <1>2, <1>3, PTL DEF Spec

------------------------------------------------------------------------------
(* Why a pair's emission is refused. *)

(* What is at fault about a helper itself, whatever is asked of it. *)
HelperAtFault(c, spec) ==
  \/ /\ spec.for # "history"
     /\ spec.args.listed[spec.args.type] # <<>>
     /\ Sends(spec) \notin Encodes[spec.args.listed[spec.args.type][1]]
  \/ Cardinality(AtPlace(c, EmitSide(spec))) > 1

LEMMA PlaceFinite ==
  ASSUME NEW list \in Seq(Entries), NEW place
  PROVE  IsFiniteSet({e \in DOMAIN list : list[e].place = place})
<1> DEFINE here == {e \in DOMAIN list : list[e].place = place}
<1>1. DOMAIN list = 1..Len(list) /\ Len(list) \in Nat
  OBVIOUS
<1>2. IsFiniteSet(1..Len(list))
  BY <1>1, FS_Interval
<1>3. here \subseteq 1..Len(list)
  BY <1>1
<1> QED BY <1>2, <1>3, FS_Subset

(* One that is alone at its place is the only one in the set. *)
LEMMA Alone ==
  ASSUME NEW S, IsFiniteSet(S), NEW e \in S, ~ Cardinality(S) > 1
  PROVE  S = {e}
<1>1. Cardinality(S) \in Nat
  BY FS_CardinalityType
<1>2. ASSUME NEW other \in S, other # e
      PROVE  FALSE
  <2>1. IsFiniteSet({e}) /\ Cardinality({e}) = 1
    BY FS_Singleton
  <2>2. Cardinality({e} \cup {other}) = Cardinality({e}) + 1
    BY <1>2, <2>1, FS_AddElement
  <2>3. {e} \cup {other} \subseteq S
    BY <1>2
  <2>4. Cardinality({e} \cup {other}) <= Cardinality(S)
    BY <2>3, FS_Subset
  <2> QED BY <1>1, <2>1, <2>2, <2>4
<1> QED BY <1>2

LEMMA HelperEmits ==
  ASSUME IInv, PartsType, PartsInv, NEW c \in Connections, NEW h \in DOMAIN helpers[c],
         IsPair(helpers[c][h].spec), ~ HelperAtFault(c, helpers[c][h].spec)
  PROVE  LET spec == helpers[c][h].spec
         IN Emits(c, helpers[c][h].emitter, ChosenFormat(spec), Sends(spec))
<1> DEFINE spec == helpers[c][h].spec
           args == spec.args
           e == helpers[c][h].emitter
           policy == Normalize(args)
           own == policy.formats[args.type]
           f == FormatFor(policy, ChosenFormat(spec))
<1>1. spec \in plan.makes[c] /\ HasEmitter(emitters[c], e, spec)
  BY DEF PartsInv, HelperFits
<1>2. /\ spec.kind \in {"client", "service"}
      /\ spec.for \in {"request", "history", "procedure"}
      /\ Sends(spec) \in Encodes[args.format]
  BY <1>1, HelpersAssumption DEF IInv, TypeInv, IsPair
<1>3. args \in EmitterArguments
  <2>1. spec \in Specs
    BY <1>1, PlansAssumption DEF IInv, TypeInv
  <2> QED BY <2>1 DEF Specs
<1>4. /\ args.type \in MsgTypes /\ policy.type = args.type
      /\ own \in Seq(Formats) /\ own # <<>>
      /\ args.format \in Range(own) /\ own[1] \in Range(own)
      /\ own[1] = IF args.listed[args.type] = <<>> THEN args.format
                  ELSE args.listed[args.type][1]
      /\ ResolveFormat(policy, args.type, Default) = own[1]
  BY <1>3, OwnFormats
<1>5. args.format # Default
  BY <1>3, DefaultAssumption DEF EmitterArguments
<1>6. f = IF spec.for = "history" THEN args.format ELSE own[1]
  <2>1. ResolveType(policy, Default) = args.type
    BY <1>4 DEF ResolveType
  <2> HIDE DEF policy
  <2> QED BY <1>4, <1>5, <2>1 DEF FormatFor, ChosenFormat, ResolveFormat
<1> HIDE DEF f
<1>7. Sends(spec) \in Encodes[f]
  BY <1>2, <1>4, <1>6 DEF HelperAtFault
<1>8. f \in Range(own)
  BY <1>4, <1>6
<1>9. e \in DOMAIN emitters[c] /\ emitters[c][e].policy = policy
      /\ emitters[c][e].place = EmitSide(spec)
  BY <1>1 DEF HasEmitter
<1> HIDE DEF policy
<1>10. Supports(policy, args.type, f)
  BY <1>8 DEF Supports
<1>11. f \in formats
  <2>1. f \in FormatsOf(policy)
    BY <1>4, <1>8 DEF FormatsOf
  <2> QED BY <1>9, <2>1 DEF PartsType
<1>12. AtPlace(c, EmitSide(spec)) = {e}
  <2>1. e \in AtPlace(c, EmitSide(spec))
    BY <1>9 DEF AtPlace
  <2>2. IsFiniteSet(AtPlace(c, EmitSide(spec)))
    BY PlaceFinite DEF AtPlace, IInv, TypeInv
  <2>3. ~ Cardinality(AtPlace(c, EmitSide(spec))) > 1
    BY DEF HelperAtFault
  <2> QED BY <2>1, <2>2, <2>3, Alone
<1>13. Agreed(c, e, args.type, f)
  <2>1. args.type \in Listed(policy)
    BY <1>4 DEF Listed
  <2> QED BY <1>9, <1>10, <1>12, <2>1 DEF Agreed
<1>14. c \in Transport => SessionAccepts(c, EmitSide(spec), args.type, f)
  <2> SUFFICES ASSUME c \in Transport PROVE SessionAccepts(c, EmitSide(spec), args.type, f)
    OBVIOUS
  <2>1. TypeInv /\ IsTable(bindings[c], emitters[c])
    BY DEF IInv, TableInv
  <2> QED BY <1>4, <1>9, <1>10, <1>11, <1>13, <2>1, TableAgrees
<1>15. Accepts(c, e, args.type, f)
  BY <1>9, <1>10, <1>14 DEF Accepts
<1> QED BY <1>4, <1>7, <1>9, <1>15 DEF Emits, f

------------------------------------------------------------------------------
(* What a step leaves as it was. *)

LEMMA StepGrows ==
  ASSUME IInv, PartsType, PartsInv, [Next]_vars
  PROVE  /\ plan' = plan
         /\ \A d \in Connections : Grows(emitters[d], emitters'[d])
         /\ Grows(calls, calls')
         /\ \A d \in Connections : \A h \in DOMAIN helpers[d] :
              h \in DOMAIN helpers'[d] /\ SameHelper(helpers[d][h], helpers'[d][h])
<1> DEFINE Rest == /\ plan' = plan /\ Grows(calls, calls')
                   /\ \A d \in Connections : Grows(emitters[d], emitters'[d])
           Same == \A d \in Connections : \A h \in DOMAIN helpers[d] :
                     h \in DOMAIN helpers'[d] /\ SameHelper(helpers[d][h], helpers'[d][h])
<1>1. UNCHANGED helpers => Same
  BY DEF SameHelper
<1>2. UNCHANGED <<plan, calls, emitters>> => Rest
  BY DEF Grows
<1> HIDE DEF Rest, Same
<1>3. CASE InstallFormat \/ UNCHANGED vars
  BY <1>1, <1>2, <1>3 DEF Rest, Same, InstallFormat, vars, registrationVars, creationVars, historyVars
<1>4. ASSUME NEW c \in Connections, BeginCreation(c) \/ RegisterRefused(c) \/ Subscribe(c)
      PROVE  Rest /\ Same
  BY <1>1, <1>2, <1>4 DEF BeginCreation, RegisterRefused, Subscribe, registrationVars, historyVars
<1>5. ASSUME NEW c \in Connections, RegisterLocally(c) \/ RegisterOverTransport(c)
      PROVE  Rest /\ Same
  <2> DEFINE entry == [place |-> CurrentCall(c).place, policy |-> Normalize(CurrentCall(c).args)]
  <2>1. /\ UNCHANGED <<plan, helpers, calls>> /\ Asks(c, "register")
        /\ emitters' = [emitters EXCEPT ![c] = Append(@, entry)]
    BY <1>5 DEF RegisterLocally, RegisterOverTransport, AddEmitter, historyVars
  <2>2. entry \in Entries
    BY <2>1, CallType DEF IInv, Entries
  <2>3. emitters \in [Connections -> Seq(Entries)]
    BY DEF IInv, TypeInv
  <2> HIDE DEF entry
  <2>4. Grows(emitters[c], Append(emitters[c], entry))
    BY <2>2, <2>3, GrowsAppended
  <2>5. \A d \in Connections : Grows(emitters[d], emitters'[d])
    BY <2>1, <2>3, <2>4 DEF Grows
  <2> QED BY <1>1, <2>1, <2>5 DEF Rest, Grows
<1>6. ASSUME NEW c \in Connections, Hand(c)
      PROVE  Rest /\ Same
  <2> DEFINE helper == [spec |-> doing[c].spec, emitter |-> doing[c].emitter,
                        receiver |-> doing[c].receiver, batch |-> <<>>]
  <2>1. /\ UNCHANGED <<plan, emitters, calls>> /\ doing[c] # Idle
        /\ helpers' = [helpers EXCEPT ![c] = Append(@, helper)]
    BY <1>6 DEF Hand, Made, registrationVars, historyVars
  <2>2. helper \in Helpers
    <3>1. CreationFits(c, doing[c], emitters[c], receivers)
      BY <2>1 DEF PartsInv
    <3>2. doing[c].emitter \in Nat /\ doing[c].receiver \in Nat
      BY <3>1 DEF CreationFits
    <3>3. doing[c].spec \in Specs
      BY <2>1, CallShape DEF IInv
    <3> QED BY <3>2, <3>3 DEF Helpers
  <2>3. helpers \in [Connections -> Seq(Helpers)]
    BY DEF PartsType
  <2> HIDE DEF helper
  <2>4. Grows(helpers[c], Append(helpers[c], helper))
    BY <2>2, <2>3, GrowsAppended
  <2>5. Same
    BY <2>1, <2>3, <2>4 DEF Same, Grows, SameHelper
  <2> QED BY <1>2, <2>1, <2>5
<1>7. ASSUME NEW c \in Connections, NEW h, CallClient(c, h)
      PROVE  Rest /\ Same
  <2>1. PICK issued : calls' = Append(calls, issued)
    BY <1>7 DEF CallClient
  <2>2. UNCHANGED <<plan, emitters, helpers>>
    BY <1>7 DEF CallClient, registrationVars, creationVars
  <2>3. calls \in Seq(CallRecords)
    BY DEF PartsType
  <2>4. Grows(calls, calls')
    <3>1. /\ DOMAIN Append(calls, issued) = 1..(Len(calls) + 1)
          /\ DOMAIN calls = 1..Len(calls) /\ Len(calls) \in Nat
          /\ \A i \in 1..Len(calls) : Append(calls, issued)[i] = calls[i]
      BY <2>3
    <3> QED BY <2>1, <3>1 DEF Grows
  <2> QED BY <1>1, <2>2, <2>4 DEF Rest, Grows
<1>8. ASSUME NEW c \in Connections, NEW h, Serve(c, h)
      PROVE  Rest /\ Same
  <2>1. /\ UNCHANGED <<plan, emitters, calls>>
        /\ \A d \in Connections : DOMAIN helpers'[d] = DOMAIN helpers[d]
        /\ \A d \in Connections : \A k \in DOMAIN helpers[d] :
             SameHelper(helpers[d][k], helpers'[d][k])
    BY <1>8, ServeKeeps
  <2> QED BY <1>2, <2>1 DEF Same
<1>9. ASSUME NEW c \in Connections, Create(c)
      PROVE  Rest /\ Same
  <2>1. RegisterDirect(c) \/ RegisterImmediate(c) => RegisterLocally(c)
    BY DEF RegisterDirect, RegisterImmediate
  <2>2. HandHelper(c) \/ HandAsyncHelper(c) \/ HandProvisionedHelper(c) => Hand(c)
    BY DEF HandHelper, HandAsyncHelper, HandProvisionedHelper
  <2> QED BY <1>4, <1>5, <1>6, <1>9, <2>1, <2>2 DEF Create
<1> QED BY <1>3, <1>7, <1>8, <1>9 DEF Next, Rest, Same

------------------------------------------------------------------------------
(* The calls that wait. *)

(* A call that waits after a step waited before it, or was made by it. *)
LEMMA CallsKept ==
  ASSUME CallInv, Grows(calls, calls'),
         \A i \in DOMAIN calls' : calls'[i].id = i,
         \A r \in DOMAIN receivers' : \A m \in Range(receivers'[r].queue) :
           \/ r \in DOMAIN receivers /\ m \in Range(receivers[r].queue)
           \/ IsCall(m, calls'),
         \A d \in Connections : \A h \in DOMAIN helpers'[d] :
           \A m \in Range(helpers'[d][h].batch) :
             \/ h \in DOMAIN helpers[d] /\ m \in Range(helpers[d][h].batch)
             \/ IsCall(m, calls)
  PROVE  CallInv'
<1>1. \A m : IsCall(m, calls) => IsCall(m, calls')
  BY DEF IsCall, Grows
<1>2. \A r \in DOMAIN receivers' : \A m \in Range(receivers'[r].queue) : IsCall(m, calls')
  BY <1>1 DEF CallInv
<1>3. \A d \in Connections : \A h \in DOMAIN helpers'[d] :
        \A m \in Range(helpers'[d][h].batch) : IsCall(m, calls')
  BY <1>1 DEF CallInv
<1> QED BY <1>2, <1>3 DEF CallInv

(* A refused creation and a helper that is made change only an owner. *)
LEMMA OwnerCalls ==
  ASSUME IInv, PartsType, PartsInv, NEW c \in Connections, doing[c] # Idle,
         NEW o \in {"making", "helper", "nobody"},
         receivers' = IF doing[c].receiver = 0 THEN receivers
                      ELSE [receivers EXCEPT ![doing[c].receiver].owner = o]
  PROVE  /\ DOMAIN receivers' = DOMAIN receivers
         /\ \A k \in DOMAIN receivers : receivers'[k].queue = receivers[k].queue
<1>1. CASE doing[c].receiver = 0
  BY <1>1
<1>2. CASE doing[c].receiver # 0
  <2>1. CreationFits(c, doing[c], emitters[c], receivers)
    BY DEF PartsInv
  <2>2. HasReceiver(receivers, doing[c].receiver, c, "making", doing[c].spec)
    BY <1>2, <2>1 DEF CreationFits
  <2>3. doing[c].receiver \in DOMAIN receivers /\ receivers \in Seq(ReceiverRecords)
    BY <2>2 DEF HasReceiver, PartsType
  <2>4. PICK r : r = doing[c].receiver
    OBVIOUS
  <2>5. receivers' = [receivers EXCEPT ![r].owner = o] /\ r \in DOMAIN receivers
    BY <1>2, <2>3, <2>4
  <2> QED BY <2>3, <2>5, OwnerSet
<1> QED BY <1>1, <1>2

LEMMA CallCalls ==
  ASSUME IInv, PartsType, PartsInv, CallInv,
         NEW c \in Connections, NEW h, CallClient(c, h)
  PROVE  CallInv'
<1> DEFINE spec == helpers[c][h].spec
           n == Len(calls) + 1
<1>1. PICK issued : /\ issued.id = n
                    /\ calls' = Append(calls, issued) /\ UNCHANGED helpers
                    /\ \/ UNCHANGED receivers
                       \/ receivers' = [i \in DOMAIN receivers |->
                              IF receivers[i].place = <<spec.channel, "request">>
                              THEN [receivers[i] EXCEPT !.queue = Append(@, issued)]
                              ELSE receivers[i]]
  BY DEF CallClient, creationVars
<1>2. /\ calls \in Seq(CallRecords) /\ receivers \in Seq(ReceiverRecords)
      /\ calls' \in Seq(CallRecords)
  BY CallParts DEF PartsType
<1>3. /\ DOMAIN calls = 1..Len(calls) /\ Len(calls) \in Nat
      /\ DOMAIN calls' = DOMAIN calls \cup {n} /\ n \notin DOMAIN calls
      /\ \A i \in DOMAIN calls : calls'[i] = calls[i]
      /\ calls'[n] = issued
  BY <1>1, <1>2
<1>4. issued \in CallRecords
  <2>1. n \in DOMAIN calls' /\ calls'[n] = issued
    BY <1>3
  <2>2. calls' \in Seq(CallRecords)
    BY <1>2
  <2> HIDE DEF n
  <2>3. calls'[n] \in CallRecords
    BY <2>1, <2>2
  <2> QED BY <2>1, <2>3
<1>5. IsCall(issued, calls') /\ Grows(calls, calls')
  BY <1>1, <1>3 DEF IsCall, Grows
<1>6. \A i \in DOMAIN calls' : calls'[i].id = i
  BY <1>1, <1>3 DEF CallInv
<1>7. ASSUME NEW r \in DOMAIN receivers', NEW m \in Range(receivers'[r].queue)
      PROVE  \/ r \in DOMAIN receivers /\ m \in Range(receivers[r].queue)
             \/ IsCall(m, calls')
  <2>1. CASE UNCHANGED receivers
    BY <1>7, <2>1
  <2>2. CASE receivers' = [i \in DOMAIN receivers |->
                            IF receivers[i].place = <<spec.channel, "request">>
                            THEN [receivers[i] EXCEPT !.queue = Append(@, issued)]
                            ELSE receivers[i]]
    <3>1. r \in DOMAIN receivers
      BY <2>2
    <3>2. receivers[r] \in ReceiverRecords
      BY <1>2, <3>1
    <3>3. receivers[r].queue \in Seq(CallRecords)
      BY <3>2 DEF ReceiverRecords
    <3>4. \/ receivers'[r].queue = receivers[r].queue
          \/ receivers'[r].queue = Append(receivers[r].queue, issued)
      BY <2>2, <3>1, <3>2 DEF ReceiverRecords
    <3>5. Range(Append(receivers[r].queue, issued)) = Range(receivers[r].queue) \cup {issued}
      BY <1>4, <3>3, RangeOfAppended
    <3> QED BY <1>5, <1>7, <3>1, <3>4, <3>5
  <2> QED BY <1>1, <2>1, <2>2
<1> QED BY <1>1, <1>5, <1>6, <1>7, CallsKept

LEMMA NextCalls ==
  ASSUME IInv, PartsType, PartsInv, CallInv, [Next]_vars
  PROVE  CallInv'
<1>1. UNCHANGED <<receivers, helpers, calls>> => CallInv'
  BY DEF CallInv
<1>2. Grows(calls, calls)
  BY DEF Grows
<1>3. CASE InstallFormat \/ UNCHANGED vars
  BY <1>1, <1>3 DEF InstallFormat, vars, creationVars, historyVars
<1>4. ASSUME NEW c \in Connections,
             BeginCreation(c) \/ RegisterLocally(c) \/ RegisterOverTransport(c)
      PROVE  CallInv'
  BY <1>1, <1>4 DEF BeginCreation, RegisterLocally, RegisterOverTransport, historyVars
<1>5. ASSUME NEW c \in Connections, RegisterRefused(c)
      PROVE  CallInv'
  <2>1. /\ UNCHANGED <<helpers, calls>> /\ doing[c] # Idle
        /\ receivers' = IF doing[c].receiver = 0 THEN receivers
                        ELSE [receivers EXCEPT ![doing[c].receiver].owner = "nobody"]
    BY <1>5 DEF RegisterRefused, Asks, historyVars
  <2>2. /\ DOMAIN receivers' = DOMAIN receivers
        /\ \A k \in DOMAIN receivers : receivers'[k].queue = receivers[k].queue
    BY <2>1, OwnerCalls
  <2> QED BY <2>1, <2>2 DEF CallInv
<1>6. ASSUME NEW c \in Connections, Subscribe(c)
      PROVE  CallInv'
  <2> DEFINE entry == [conn |-> c, place |-> CurrentCall(c).place,
                       owner |-> "making", queue |-> <<>>]
             r == Len(receivers) + 1
  <2>1. /\ UNCHANGED <<helpers, calls>> /\ receivers' = Append(receivers, entry)
        /\ Asks(c, "subscribe") /\ doing[c] # Idle
    BY <1>6 DEF Subscribe, Asks, historyVars
  <2>2. entry \in ReceiverRecords
    <3>1. CurrentCall(c).place \in Places
      BY <2>1, CallShape DEF IInv
    <3> QED BY <3>1 DEF ReceiverRecords
  <2>3. receivers \in Seq(ReceiverRecords)
    BY DEF PartsType
  <2>4. /\ DOMAIN receivers' = DOMAIN receivers \cup {r}
        /\ receivers'[r].queue = <<>>
        /\ \A k \in DOMAIN receivers : receivers'[k] = receivers[k]
    <3> HIDE DEF entry
    <3>1. /\ DOMAIN receivers' = DOMAIN receivers \cup {r}
          /\ receivers'[r] = entry
          /\ \A k \in DOMAIN receivers : receivers'[k] = receivers[k]
      BY <2>1, <2>2, <2>3, GrowsAppended DEF Grows
    <3>2. entry.queue = <<>>
      BY DEF entry
    <3> QED BY <3>1, <3>2
  <2> HIDE DEF r
  <2> QED BY <2>1, <2>4, RangeOfEmpty DEF CallInv
<1>7. ASSUME NEW c \in Connections, Hand(c)
      PROVE  CallInv'
  <2> DEFINE helper == [spec |-> doing[c].spec, emitter |-> doing[c].emitter,
                        receiver |-> doing[c].receiver, batch |-> <<>>]
             n == Len(helpers[c]) + 1
  <2>1. /\ UNCHANGED calls /\ doing[c] # Idle
        /\ helpers' = [helpers EXCEPT ![c] = Append(@, helper)]
        /\ receivers' = IF doing[c].receiver = 0 THEN receivers
                        ELSE [receivers EXCEPT ![doing[c].receiver].owner = "helper"]
    BY <1>7 DEF Hand, Made, historyVars
  <2>2. /\ DOMAIN receivers' = DOMAIN receivers
        /\ \A k \in DOMAIN receivers : receivers'[k].queue = receivers[k].queue
    BY <2>1, OwnerCalls
  <2>3. helpers \in [Connections -> Seq(Helpers)]
    BY DEF PartsType
  <2> HIDE DEF helper
  <2>4. helpers'[c] = Append(helpers[c], helper)
        /\ \A d \in Connections \ {c} : helpers'[d] = helpers[d]
    BY <2>1, <2>3
  <2>5. ASSUME NEW d \in Connections, NEW h \in DOMAIN helpers'[d],
               NEW m \in Range(helpers'[d][h].batch)
        PROVE  h \in DOMAIN helpers[d] /\ m \in Range(helpers[d][h].batch)
    <3>1. CASE d # c
      BY <2>4, <2>5, <3>1
    <3>2. CASE d = c
      <4>1. /\ DOMAIN helpers'[c] = DOMAIN helpers[c] \cup {n} /\ helpers'[c][n] = helper
            /\ \A k \in DOMAIN helpers[c] : helpers'[c][k] = helpers[c][k]
        <5>1. helpers[c] \in Seq(Helpers)
          BY <2>3
        <5> QED BY <2>4, <5>1
      <4>2. Range(helper.batch) = {}
        BY RangeOfEmpty DEF helper
      <4> QED BY <2>5, <3>2, <4>1, <4>2
    <3> QED BY <3>1, <3>2
  <2>6. \A i \in DOMAIN calls' : calls'[i].id = i
    BY <2>1 DEF CallInv
  <2>7. \A r \in DOMAIN receivers' : \A m \in Range(receivers'[r].queue) :
          r \in DOMAIN receivers /\ m \in Range(receivers[r].queue)
    BY <2>2
  <2> QED BY <1>2, <2>1, <2>5, <2>6, <2>7, CallsKept
<1>8. ASSUME NEW c \in Connections, NEW h, Serve(c, h)
      PROVE  CallInv'
  <2>1. /\ UNCHANGED calls /\ helpers[c][h].receiver \in DOMAIN receivers
        /\ DOMAIN receivers' = DOMAIN receivers
        /\ \A k \in DOMAIN receivers : Range(receivers'[k].queue) \subseteq Range(receivers[k].queue)
        /\ \A d \in Connections : DOMAIN helpers'[d] = DOMAIN helpers[d]
        /\ \A d \in Connections : \A k \in DOMAIN helpers[d] :
             \/ Range(helpers'[d][k].batch) \subseteq Range(helpers[d][k].batch)
             \/ Range(helpers'[d][k].batch)
                  \subseteq Range(receivers[helpers[c][h].receiver].queue)
    BY <1>8, ServeKeeps
  <2>2. \A m \in Range(receivers[helpers[c][h].receiver].queue) : IsCall(m, calls)
    BY <2>1 DEF CallInv
  <2>3. \A i \in DOMAIN calls' : calls'[i].id = i
    BY <2>1 DEF CallInv
  <2> QED BY <1>2, <2>1, <2>2, <2>3, CallsKept
<1>9. ASSUME NEW c \in Connections, Create(c)
      PROVE  CallInv'
  <2>1. RegisterDirect(c) \/ RegisterImmediate(c) => RegisterLocally(c)
    BY DEF RegisterDirect, RegisterImmediate
  <2>2. HandHelper(c) \/ HandAsyncHelper(c) \/ HandProvisionedHelper(c) => Hand(c)
    BY DEF HandHelper, HandAsyncHelper, HandProvisionedHelper
  <2> QED BY <1>4, <1>5, <1>6, <1>7, <1>9, <2>1, <2>2 DEF Create
<1> QED BY <1>3, <1>8, <1>9, CallCalls DEF Next

------------------------------------------------------------------------------
(* Whose failure it is. *)

LEMMA FaultOfHelper ==
  ASSUME IInv, PartsType, PartsInv, NEW c \in Connections, NEW h \in DOMAIN helpers[c],
         IsPair(helpers[c][h].spec), HelperAtFault(c, helpers[c][h].spec), NEW id
  PROVE  AtFault(c, h, id)
<1>1. Normalize(helpers[c][h].spec.args).type = helpers[c][h].spec.args.type
  BY DEF Normalize
<1> QED BY <1>1 DEF HelperAtFault, AtFault, EmitSide

(* A fault stays one: emitters are only added, and calls are not changed. *)
LEMMA FaultStays ==
  ASSUME IInv, IInv', PartsType, PartsInv, [Next]_vars,
         NEW c \in Connections, NEW h \in DOMAIN helpers[c], NEW id, AtFault(c, h, id),
         id \in DOMAIN calls \/ helpers[c][h].spec.kind = "client"
  PROVE  /\ AtFault(c, h, id)' /\ h \in DOMAIN helpers'[c]
         /\ id \in DOMAIN calls => id \in DOMAIN calls'
<1> DEFINE spec == helpers[c][h].spec
           place == <<spec.channel, IF spec.kind = "client" THEN "request" ELSE "reply">>
<1>1. /\ Grows(emitters[c], emitters'[c]) /\ Grows(calls, calls')
      /\ h \in DOMAIN helpers'[c] /\ SameHelper(helpers[c][h], helpers'[c][h])
  BY StepGrows
<1>2. /\ helpers'[c][h].spec = spec
      /\ id \in DOMAIN calls => calls'[id] = calls[id] /\ id \in DOMAIN calls'
  BY <1>1 DEF Grows, SameHelper
<1>3. \A p : Cardinality(AtPlace(c, p)) > 1 => Cardinality(AtPlace(c, p)') > 1
  <2> TAKE p
  <2>1. IsFiniteSet(AtPlace(c, p))
    <3>1. emitters[c] \in Seq(Entries)
      BY DEF IInv, TypeInv
    <3> QED BY <3>1, PlaceFinite DEF AtPlace
  <2>2. IsFiniteSet(AtPlace(c, p)')
    <3>1. emitters'[c] \in Seq(Entries)
      BY DEF IInv, TypeInv
    <3> QED BY <3>1, PlaceFinite DEF AtPlace
  <2>3. AtPlace(c, p) \subseteq AtPlace(c, p)'
    BY <1>1 DEF AtPlace, Grows
  <2>4. Cardinality(AtPlace(c, p)) <= Cardinality(AtPlace(c, p)')
    BY <2>2, <2>3, FS_Subset
  <2> QED BY <2>1, <2>2, <2>4, FS_CardinalityType
<1> QED BY <1>1, <1>2, <1>3 DEF AtFault

LEMMA CallFault ==
  ASSUME IInv, IInv', PartsType, PartsInv, [Next]_vars,
         NEW c \in Connections, NEW h, CallClient(c, h), NEW x \in failed' \ failed
  PROVE  /\ x.at = <<c, h>> /\ h \in DOMAIN helpers'[c]
         /\ x.culprit \in DOMAIN calls' /\ AtFault(c, h, x.culprit)'
<1> DEFINE helper == helpers[c][h]
           spec == helper.spec
           n == Len(calls) + 1
<1>1. /\ h \in DOMAIN helpers[c] /\ spec.kind = "client"
      /\ \E issued : calls' = Append(calls, issued)
      /\ ~ Emits(c, helper.emitter, ChosenFormat(spec), RequestPayload(spec))
      /\ x = Failure(<<c, h>>, n, n)
  BY DEF CallClient, IsHelper
<1>2. RequestPayload(spec) = Sends(spec) /\ IsPair(spec)
  BY <1>1 DEF Sends, IsPair
<1>3. HelperAtFault(c, spec)
  BY <1>1, <1>2, HelperEmits
<1>4. PICK id : id = n
  OBVIOUS
<1>5. AtFault(c, h, id)' /\ h \in DOMAIN helpers'[c]
  <2>1. AtFault(c, h, id)
    BY <1>1, <1>2, <1>3, FaultOfHelper
  <2> QED BY <1>1, <2>1, FaultStays
<1>6. x.at = <<c, h>> /\ x.culprit = id
  BY <1>1, <1>4 DEF Failure
<1>7. n \in DOMAIN calls'
  <2>1. calls \in Seq(CallRecords)
    BY DEF PartsType
  <2> QED BY <1>1, <2>1
<1> QED BY <1>4, <1>5, <1>6, <1>7

LEMMA ServeFault ==
  ASSUME IInv, IInv', PartsType, PartsInv, CallInv, [Next]_vars,
         NEW c \in Connections, NEW h, Serve(c, h), NEW x \in failed' \ failed
  PROVE  /\ x.at = <<c, h>> /\ h \in DOMAIN helpers'[c]
         /\ x.culprit \in DOMAIN calls' /\ AtFault(c, h, x.culprit)'
<1> DEFINE helper == helpers[c][h]
           spec == helper.spec
           r == helper.receiver
<1>1. /\ h \in DOMAIN helpers[c] /\ spec.kind = "service" /\ r \in DOMAIN receivers
  BY ServeKeeps
<1>2. IsPair(spec) /\ receivers[r].queue \in Seq(CallRecords) /\ helper.batch \in Seq(CallRecords)
  <2>1. receivers[r] \in ReceiverRecords /\ helper \in Helpers
    BY <1>1 DEF PartsType
  <2> QED BY <1>1, <2>1 DEF IsPair, ReceiverRecords, Helpers
<1>3. \E m : /\ IsCall(m, calls) /\ x.at = <<c, h>> /\ x.culprit = m.id
             /\ AtFault(c, h, m.id)
  <2>1. CASE TakeRequests(c, h)
    <3>1. PICK n \in 1..Len(receivers[r].queue) : \E first \in 1..n :
            /\ FirstUnreadable(c, SubSeq(receivers[r].queue, 1, n), first)
            /\ failed' = failed \cup
                 {Failure(<<c, h>>, m.id, SubSeq(receivers[r].queue, 1, n)[first].id) :
                    m \in Range(SubSeq(receivers[r].queue, 1, n))}
      BY <2>1 DEF TakeRequests
    <3> DEFINE taken == SubSeq(receivers[r].queue, 1, n)
    <3>2. /\ taken \in Seq(CallRecords) /\ Len(taken) = n /\ DOMAIN taken = 1..n
          /\ Range(taken) \subseteq Range(receivers[r].queue)
      <4>1. Range(taken) \subseteq Range(receivers[r].queue)
        BY <1>2, Split
      <4>2. n \in Nat /\ n <= Len(receivers[r].queue) /\ Len(receivers[r].queue) \in Nat
        <5>1. receivers[r].queue \in Seq(CallRecords) /\ n \in 1..Len(receivers[r].queue)
          BY <1>2
        <5> HIDE DEF r
        <5>2. Len(receivers[r].queue) \in Nat
          BY ONLY <5>1, LenProperties
        <5> QED BY ONLY <5>1, <5>2
      <4> QED BY <1>2, <4>1, <4>2, SubSeqProperties
    <3>3. PICK first \in 1..n :
            /\ FirstUnreadable(c, taken, first)
            /\ failed' = failed \cup {Failure(<<c, h>>, m.id, taken[first].id) :
                                        m \in Range(taken)}
      BY <3>1
    <3> HIDE DEF taken
    <3>4. PICK m : m = taken[first]
      OBVIOUS
    <3>5. m \in Range(receivers[r].queue)
      BY <3>2, <3>4 DEF Range
    <3>6. IsCall(m, calls)
      BY <1>1, <3>5 DEF CallInv
    <3>7. c \in Transport /\ m.format \notin Installed
      BY <3>3, <3>4 DEF FirstUnreadable, Readable, PartsType
    <3>8. x.at = <<c, h>> /\ x.culprit = m.id
      BY <3>3, <3>4 DEF Failure
    <3>9. AtFault(c, h, m.id)
      BY <1>1, <3>6, <3>7 DEF AtFault, IsCall
    <3> QED BY <3>6, <3>8, <3>9
  <2>2. CASE HandleNext(c, h)
    BY <2>2 DEF HandleNext
  <2>3. CASE HandleRaises(c, h)
    <3> DEFINE head == Head(helper.batch)
    <3>1. /\ helper.batch # <<>> /\ ~ Answers(c, h, head)
          /\ failed' = failed \cup {Failure(<<c, h>>, m.id, head.id) :
                                      m \in Range(helper.batch)}
      BY <2>3 DEF HandleRaises
    <3>2. head \in Range(helper.batch)
      BY <1>2, <3>1, RangeOfHeadAndTail
    <3> HIDE DEF head
    <3>3. IsCall(head, calls)
      BY <1>1, <3>2 DEF CallInv
    <3>4. x.at = <<c, h>> /\ x.culprit = head.id
      BY <3>1 DEF Failure
    <3>5. AtFault(c, h, head.id)
      <4>1. CASE ~ Understands(spec, head)
        BY <1>1, <3>3, <4>1 DEF AtFault, IsCall
      <4>2. CASE Understands(spec, head)
        <5>1. ~ Emits(c, helper.emitter, ChosenFormat(spec), Sends(spec))
          BY <1>1, <3>1, <4>2 DEF Answers, Sends
        <5>2. HelperAtFault(c, spec)
          BY <1>1, <1>2, <5>1, HelperEmits
        <5> QED BY <1>1, <1>2, <5>2, FaultOfHelper
      <4> QED BY <4>1, <4>2
    <3> QED BY <3>3, <3>4, <3>5
  <2> QED BY <2>1, <2>2, <2>3 DEF Serve
<1>4. PICK m : /\ IsCall(m, calls) /\ x.at = <<c, h>> /\ x.culprit = m.id
               /\ AtFault(c, h, m.id)
  BY <1>3
<1>5. PICK id : id = m.id
  OBVIOUS
<1>6. id \in DOMAIN calls /\ AtFault(c, h, id)
  BY <1>4, <1>5 DEF IsCall
<1>7. AtFault(c, h, id)' /\ h \in DOMAIN helpers'[c] /\ id \in DOMAIN calls'
  BY <1>1, <1>6, FaultStays
<1> QED BY <1>4, <1>5, <1>7

LEMMA NextFaults ==
  ASSUME IInv, IInv', PartsType, PartsInv, CallInv, FaultInv, [Next]_vars
  PROVE  FaultInv'
<1>1. ASSUME NEW x \in failed
      PROVE  /\ x.at[1] \in Connections /\ x.at[2] \in DOMAIN helpers'[x.at[1]]
             /\ x.culprit \in DOMAIN calls' /\ AtFault(x.at[1], x.at[2], x.culprit)'
  <2>1. PICK c, h, id : c = x.at[1] /\ h = x.at[2] /\ id = x.culprit
    OBVIOUS
  <2>2. /\ c \in Connections /\ h \in DOMAIN helpers[c]
        /\ id \in DOMAIN calls /\ AtFault(c, h, id)
    BY <2>1 DEF FaultInv
  <2>3. AtFault(c, h, id)' /\ h \in DOMAIN helpers'[c] /\ id \in DOMAIN calls'
    BY <2>2, FaultStays
  <2> QED BY <2>1, <2>2, <2>3
<1>2. ASSUME NEW x \in failed' \ failed
      PROVE  /\ x.at[1] \in Connections /\ x.at[2] \in DOMAIN helpers'[x.at[1]]
             /\ x.culprit \in DOMAIN calls' /\ AtFault(x.at[1], x.at[2], x.culprit)'
  <2>1. ~ (InstallFormat \/ UNCHANGED vars)
    BY <1>2 DEF InstallFormat, vars, historyVars
  <2>2. ASSUME NEW c \in Connections PROVE ~ Create(c)
    BY <1>2 DEF Create, BeginCreation, RegisterDirect, RegisterImmediate, RegisterLocally,
                RegisterOverTransport, RegisterRefused, Subscribe, HandHelper,
                HandAsyncHelper, HandProvisionedHelper, Hand, historyVars
  <2>3. PICK c \in Connections, h \in 1..MaxHelpers : CallClient(c, h) \/ Serve(c, h)
    BY <2>1, <2>2 DEF Next
  <2>4. /\ x.at = <<c, h>> /\ h \in DOMAIN helpers'[c]
        /\ x.culprit \in DOMAIN calls' /\ AtFault(c, h, x.culprit)'
    BY <1>2, <2>3, CallFault, ServeFault
  <2>5. x.at[1] = c /\ x.at[2] = h
    BY <2>4
  <2>6. AtFault(x.at[1], x.at[2], x.culprit)'
    BY <2>4, <2>5
  <2> QED BY <2>4, <2>5, <2>6
<1> QED BY <1>1, <1>2 DEF FaultInv

(***************************************************************************)
(* Whatever formats, payloads and helpers a program has: a call raises for *)
(* one of the causes FailuresExplained names, and for no other.  In        *)
(* particular a helper made with its defaults and alone at its place never *)
(* raises, on the bus or over a transport connection.                      *)
(***************************************************************************)
THEOREM CausesKnown == Spec => []FailuresExplained
<1>1. FaultInv => FailuresExplained
  BY DEF FaultInv, FailuresExplained
<1> DEFINE Inv == IInv /\ PartsType /\ PartsInv /\ CallInv /\ FaultInv
<1>2. Init => Inv
  <2>1. Init => CallInv /\ FaultInv
    <3> SUFFICES ASSUME Init PROVE CallInv /\ FaultInv
      OBVIOUS
    <3>1. /\ receivers = <<>> /\ helpers = [c \in Connections |-> <<>>]
          /\ calls = <<>> /\ failed = {}
      BY DEF Init
    <3> QED BY <3>1 DEF CallInv, FaultInv
  <2> QED BY <2>1, InitIInv, InitParts
<1>3. Inv /\ [Next]_vars => Inv'
  BY NextIInv, NextParts, NextCalls, NextFaults
<1> QED BY <1>1, <1>2, <1>3, PTL DEF Spec

------------------------------------------------------------------------------
(***************************************************************************)
(* The receivers behind the core's targets (LocalReceivers): what comes    *)
(* into one is given once and in order, whoever reads it.                  *)
(***************************************************************************)

InCall == {"get", "handle"}
InFrom == {"enter", "look", "waiting"}

ReadCalls == [kind : {"none", "batch", "handled", "from"}, from : Seq(Receivers),
              batch : [min : Nat, max : Nat, single : BOOLEAN]]

(* How far a reader is with its call *)
ReaderOK(x) ==
  /\ pc[x] \notin InCall => messages[x] = <<>>
  /\ pc[x] \in InCall \cup InFrom => call[x].kind # "none" /\ call[x].from # <<>>
  /\ pc[x] \in InCall => Len(messages[x]) <= call[x].batch.max
  /\ call[x].batch.min <= call[x].batch.max
  /\ call[x].batch.single => call[x].batch.max = 1

ReceiversType ==
  /\ subscribed \subseteq Receivers
  /\ queue \in [Receivers -> Seq(Nat)] /\ delivered \in [Receivers -> Seq(Nat)]
  /\ pc \in [Emitters \cup Readers ->
               {"idle", "put", "notify"} \cup InCall \cup InFrom]
  /\ matching \in [Emitters -> SUBSET Receivers] /\ message \in [Emitters -> Nat]
  /\ emitted \in Nat
  /\ call \in [Readers -> ReadCalls] /\ messages \in [Readers -> Seq(Nat)]
  /\ turn \in [Readers -> Nat \ {0}]
  /\ given \in [Readers -> Seq(Receivers \X Nat)]
  /\ dropped \subseteq Receivers \X Nat
  /\ \A x \in Readers : ReaderOK(x)

(* No receiver gets a message twice. *)
PutOnce ==
  /\ \A r \in Receivers : \A i \in DOMAIN delivered[r] :
       /\ delivered[r][i] <= emitted
       /\ \A j \in DOMAIN delivered[r] : delivered[r][i] = delivered[r][j] => i = j
  /\ \A e \in Emitters :
       /\ message[e] <= emitted
       /\ \A r \in matching[e] :
            /\ \A i \in DOMAIN delivered[r] : delivered[r][i] # message[e]
            /\ \A f \in Emitters \ {e} : r \in matching[f] => message[f] # message[e]

(* How many messages of r have been taken: the queue has the others. *)
Taken(r) == Len(delivered[r]) - Len(queue[r])

QueueIsRest ==
  \A r \in Receivers :
    /\ Len(queue[r]) <= Len(delivered[r])
    /\ \A i \in DOMAIN queue[r] : queue[r][i] = delivered[r][Taken(r) + i]

(***************************************************************************)
(* What a reader has taken and not dropped, in order: what it was given,   *)
(* and then what its call holds.                                           *)
(***************************************************************************)
StreamLen(x) == Len(given[x]) + Len(messages[x])

Nth(x, k) == IF k <= Len(given[x]) THEN given[x][k]
             ELSE <<Source(x), messages[x][k - Len(given[x])]>>

Came(r, i) == <<r, delivered[r][i]>>

StreamsInv ==
  /\ \A x \in Readers : \A k \in 1..StreamLen(x) :
       \E r \in Receivers : \E i \in 1..Taken(r) : Nth(x, k) = Came(r, i)
  /\ \A x \in Readers : \A k, l \in 1..StreamLen(x) :
       k < l => \A r \in Receivers : \A i, j \in 1..Taken(r) :
         Nth(x, k) = Came(r, i) /\ Nth(x, l) = Came(r, j) => i < j
  /\ \A x, y \in Readers : x # y =>
       \A k \in 1..StreamLen(x), l \in 1..StreamLen(y) : Nth(x, k) # Nth(y, l)
  /\ \A d \in dropped :
       /\ \E r \in Receivers : \E i \in 1..Taken(r) : d = Came(r, i)
       /\ \A x \in Readers : \A k \in 1..StreamLen(x) : Nth(x, k) # d
  /\ \A r \in Receivers : \A i \in 1..Taken(r) :
       \/ Came(r, i) \in dropped
       \/ \E x \in Readers : \E k \in 1..StreamLen(x) : Nth(x, k) = Came(r, i)

------------------------------------------------------------------------------
(* Lists that are taken and given *)

LEMMA TaggedOnto ==
  ASSUME NEW g \in Seq(Receivers \X Nat), NEW r \in Receivers, NEW list \in Seq(Nat)
  PROVE  LET longer == g \o [i \in DOMAIN list |-> <<r, list[i]>>]
         IN /\ longer \in Seq(Receivers \X Nat) /\ Len(longer) = Len(g) + Len(list)
            /\ Len(g) \in Nat /\ Len(list) \in Nat
            /\ \A k \in 1..Len(g) : longer[k] = g[k]
            /\ \A k \in 1..Len(list) : longer[Len(g) + k] = <<r, list[k]>>
<1> DEFINE tagged == [i \in DOMAIN list |-> <<r, list[i]>>]
           longer == g \o tagged
<1>1. /\ Len(g) \in Nat /\ Len(list) \in Nat /\ DOMAIN list = 1..Len(list)
      /\ \A i \in DOMAIN list : list[i] \in Nat
  BY LenProperties
<1>2. tagged \in [1..Len(list) -> Receivers \X Nat]
  BY <1>1
<1>3. /\ tagged \in Seq(Receivers \X Nat) /\ Len(tagged) = Len(list)
      /\ \A k \in 1..Len(list) : tagged[k] = <<r, list[k]>>
  BY <1>1, <1>2
<1> HIDE DEF tagged
<1>4. /\ longer \in Seq(Receivers \X Nat) /\ Len(longer) = Len(g) + Len(tagged)
      /\ \A k \in 1..(Len(g) + Len(tagged)) :
           longer[k] = IF k <= Len(g) THEN g[k] ELSE tagged[k - Len(g)]
  <2>1. longer \in Seq(Receivers \X Nat)
    BY <1>3, ConcatProperties
  <2>2. Len(longer) = Len(g) + Len(tagged)
    BY <1>3, ConcatProperties
  <2>3. \A k \in 1..(Len(g) + Len(tagged)) :
          longer[k] = IF k <= Len(g) THEN g[k] ELSE tagged[k - Len(g)]
    BY <1>3, ConcatProperties
  <2> QED BY <2>1, <2>2, <2>3
<1> HIDE DEF longer
<1>5. \A k \in 1..Len(g) : longer[k] = g[k]
  BY <1>1, <1>3, <1>4
<1>6. ASSUME NEW k \in 1..Len(list) PROVE longer[Len(g) + k] = <<r, list[k]>>
  <2>1. Len(g) + k \in 1..(Len(g) + Len(tagged)) /\ ~(Len(g) + k <= Len(g))
        /\ (Len(g) + k) - Len(g) = k
    BY <1>1, <1>3
  <2> QED BY <1>3, <1>4, <2>1
<1> QED BY <1>1, <1>3, <1>4, <1>5, <1>6 DEF longer, tagged

LEMMA RestOf ==
  ASSUME NEW q \in Seq(Nat), NEW n \in 0..Len(q)
  PROVE  /\ SubSeq(q, n + 1, Len(q)) \in Seq(Nat)
         /\ Len(SubSeq(q, n + 1, Len(q))) = Len(q) - n
         /\ \A k \in 1..(Len(q) - n) : SubSeq(q, n + 1, Len(q))[k] = q[n + k]
<1> DEFINE rest == SubSeq(q, n + 1, Len(q))
<1>1. Len(q) \in Nat /\ n \in Nat /\ n <= Len(q) /\ \A i \in 1..Len(q) : q[i] \in Nat
  BY LenProperties
<1>2. \A i \in (n + 1)..Len(q) : q[i] \in Nat
  BY <1>1
<1>3. /\ rest \in Seq(Nat)
      /\ Len(rest) = IF n + 1 <= Len(q) THEN Len(q) - (n + 1) + 1 ELSE 0
      /\ \A k \in 1..(Len(q) - (n + 1) + 1) : rest[k] = q[n + 1 + k - 1]
  BY <1>1, <1>2, SubSeqProperties
<1>4. Len(q) - (n + 1) + 1 = Len(q) - n /\ \A k \in 1..(Len(q) - n) : n + 1 + k - 1 = n + k
  BY <1>1
<1> HIDE DEF rest
<1>5. Len(rest) = Len(q) - n
  BY <1>1, <1>3
<1>6. rest \in Seq(Nat) /\ \A k \in 1..(Len(q) - n) : rest[k] = q[n + k]
  BY <1>3, <1>4
<1> QED BY <1>5, <1>6 DEF rest

LEMMA TakenOnto ==
  ASSUME NEW m \in Seq(Nat), NEW q \in Seq(Nat), NEW n \in 0..Len(q)
  PROVE  /\ m \o SubSeq(q, 1, n) \in Seq(Nat)
         /\ Len(m \o SubSeq(q, 1, n)) = Len(m) + n
         /\ \A k \in 1..Len(m) : (m \o SubSeq(q, 1, n))[k] = m[k]
         /\ \A k \in 1..n : (m \o SubSeq(q, 1, n))[Len(m) + k] = q[k]
<1> DEFINE first == SubSeq(q, 1, n)
           longer == m \o first
<1>1. /\ Len(m) \in Nat /\ Len(q) \in Nat /\ n \in Nat
      /\ \A i \in 1..n : q[i] \in Nat
  BY LenProperties
<1>2. /\ first \in Seq(Nat) /\ Len(first) = n /\ \A k \in 1..n : first[k] = q[k]
  BY <1>1, SubSeqProperties
<1> HIDE DEF first
<1>3. /\ longer \in Seq(Nat) /\ Len(longer) = Len(m) + Len(first)
      /\ \A k \in 1..(Len(m) + Len(first)) :
           longer[k] = IF k <= Len(m) THEN m[k] ELSE first[k - Len(m)]
  BY <1>2, ConcatProperties
<1> HIDE DEF longer
<1>4. \A k \in 1..Len(m) : longer[k] = m[k]
  BY <1>1, <1>2, <1>3
<1>5. ASSUME NEW k \in 1..n PROVE longer[Len(m) + k] = q[k]
  <2>1. Len(m) + k \in 1..(Len(m) + Len(first)) /\ ~(Len(m) + k <= Len(m))
        /\ (Len(m) + k) - Len(m) = k
    BY <1>1, <1>2
  <2> QED BY <1>2, <1>3, <2>1
<1> QED BY <1>2, <1>3, <1>4, <1>5 DEF longer, first

------------------------------------------------------------------------------
(* What a reader's step may do to what was taken *)

Others(x) == \A y \in Readers \ {x} :
  /\ pc'[y] = pc[y] /\ call'[y] = call[y]
  /\ messages'[y] = messages[y] /\ given'[y] = given[y]

(* It goes on, gives what it has, or drops what is behind place n. *)
Cuts(x, n) ==
  /\ n \in 0..StreamLen(x) /\ queue' = queue
  /\ StreamLen(x)' = n /\ \A k \in 1..n : Nth(x, k)' = Nth(x, k)
  /\ dropped' = dropped \cup {Nth(x, k) : k \in (n + 1)..StreamLen(x)}

(* It takes the first n messages of the queue of r. *)
Takes(x, r, n) ==
  /\ r \in Receivers /\ n \in 0..Len(queue[r]) /\ dropped' = dropped
  /\ queue' = [queue EXCEPT ![r] = SubSeq(@, n + 1, Len(@))]
  /\ StreamLen(x)' = StreamLen(x) + n
  /\ \A k \in 1..StreamLen(x) : Nth(x, k)' = Nth(x, k)
  /\ \A k \in 1..n : \A l : l = StreamLen(x) + k => Nth(x, l)' = <<r, queue[r][k]>>

LEMMA ReceiverSizes ==
  ASSUME ReceiversType
  PROVE  /\ \A x \in Readers : /\ StreamLen(x) \in Nat /\ Len(given[x]) \in Nat
                               /\ Len(messages[x]) \in Nat
         /\ \A r \in Receivers :
              /\ Len(queue[r]) \in Nat /\ Len(delivered[r]) \in Nat
              /\ DOMAIN queue[r] = 1..Len(queue[r])
              /\ DOMAIN delivered[r] = 1..Len(delivered[r])
              /\ queue[r] \in Seq(Nat) /\ delivered[r] \in Seq(Nat)
BY LenProperties DEF ReceiversType, StreamLen

LEMMA OthersKeep ==
  ASSUME NEW x, Others(x), NEW y \in Readers \ {x}
  PROVE  StreamLen(y)' = StreamLen(y) /\ \A k : Nth(y, k)' = Nth(y, k)
BY DEF Others, StreamLen, Nth, Source

LEMMA TakenSize ==
  ASSUME ReceiversType, QueueIsRest, NEW r \in Receivers
  PROVE  /\ Taken(r) \in Nat /\ Taken(r) <= Len(delivered[r])
         /\ Taken(r) + Len(queue[r]) = Len(delivered[r])
<1>1. /\ Len(queue[r]) \in Nat /\ Len(delivered[r]) \in Nat
      /\ Len(queue[r]) <= Len(delivered[r])
  BY ReceiverSizes DEF QueueIsRest
<1>2. \A m, n \in Nat : n <= m => m - n \in Nat /\ m - n <= m /\ (m - n) + n = m
  OBVIOUS
<1>3. Taken(r) = Len(delivered[r]) - Len(queue[r])
  BY DEF Taken
<1> QED BY <1>1, <1>2, <1>3

LEMMA CameOnce ==
  ASSUME ReceiversType, PutOnce, NEW r \in Receivers, NEW s \in Receivers,
         NEW i \in 1..Len(delivered[r]), NEW j \in 1..Len(delivered[s]),
         Came(r, i) = Came(s, j)
  PROVE  r = s /\ i = j
<1>1. r = s /\ delivered[r][i] = delivered[s][j]
  BY DEF Came
<1> QED BY <1>1, ReceiverSizes DEF PutOnce

LEMMA TakenOnce ==
  ASSUME ReceiversType, PutOnce, QueueIsRest, NEW r \in Receivers, NEW s \in Receivers,
         NEW i \in 1..Taken(r), NEW j \in 1..Taken(s), Came(r, i) = Came(s, j)
  PROVE  r = s /\ i = j
<1>1. i \in 1..Len(delivered[r]) /\ j \in 1..Len(delivered[s])
  BY TakenSize, ReceiverSizes
<1> QED BY <1>1, CameOnce

(* The places of one reader hold different messages. *)
LEMMA StreamOnce ==
  ASSUME ReceiversType, QueueIsRest, StreamsInv, NEW x \in Readers,
         NEW k \in 1..StreamLen(x), NEW l \in 1..StreamLen(x), k < l
  PROVE  Nth(x, k) # Nth(x, l)
<1> SUFFICES ASSUME Nth(x, k) = Nth(x, l) PROVE FALSE
  OBVIOUS
<1>1. PICK r \in Receivers : \E i \in 1..Taken(r) : Nth(x, k) = Came(r, i)
  BY DEF StreamsInv
<1>2. PICK i \in 1..Taken(r) : Nth(x, k) = Came(r, i)
  BY <1>1
<1>3. i < i
  <2>1. Nth(x, k) = Came(r, i) /\ Nth(x, l) = Came(r, i)
    BY <1>2
  <2> QED BY <2>1 DEF StreamsInv
<1>4. i \in Nat
  BY TakenSize
<1> QED BY <1>3, <1>4

LEMMA CutKeeps ==
  ASSUME ReceiversType, QueueIsRest, StreamsInv, delivered' = delivered,
         NEW x \in Readers, NEW n, Others(x), Cuts(x, n)
  PROVE  QueueIsRest' /\ StreamsInv'
<1>1. QueueIsRest'
  BY DEF Cuts, QueueIsRest, Taken
<1>2. (\A r : Taken(r)' = Taken(r)) /\ (\A r, i : Came(r, i)' = Came(r, i))
  BY DEF Cuts, Taken, Came
<1>3. \A y \in Readers : /\ StreamLen(y) \in Nat /\ StreamLen(y)' \in Nat
                         /\ StreamLen(y)' <= StreamLen(y)
                         /\ \A k \in 1..StreamLen(y)' : Nth(y, k)' = Nth(y, k)
  <2> SUFFICES ASSUME NEW y \in Readers
               PROVE  /\ StreamLen(y) \in Nat /\ StreamLen(y)' \in Nat
                      /\ StreamLen(y)' <= StreamLen(y)
                      /\ \A k \in 1..StreamLen(y)' : Nth(y, k)' = Nth(y, k)
    OBVIOUS
  <2>1. StreamLen(y) \in Nat
    BY ReceiverSizes
  <2>2. CASE y = x
    BY <2>1, <2>2 DEF Cuts
  <2>3. CASE y # x
    BY <2>1, <2>3, OthersKeep
  <2> QED BY <2>2, <2>3
<1>4. \A y \in Readers : \A k \in 1..StreamLen(y)' : k \in 1..StreamLen(y)
  BY <1>3
<1>5. \A y \in Readers : \A k \in 1..StreamLen(y)' :
        \E r \in Receivers : \E i \in 1..Taken(r)' : Nth(y, k)' = Came(r, i)'
  BY <1>2, <1>3, <1>4 DEF StreamsInv
<1>6. \A y \in Readers : \A k, l \in 1..StreamLen(y)' :
        k < l => \A r \in Receivers : \A i, j \in 1..Taken(r)' :
          Nth(y, k)' = Came(r, i)' /\ Nth(y, l)' = Came(r, j)' => i < j
  BY <1>2, <1>3, <1>4 DEF StreamsInv
<1>7. \A y, z \in Readers : y # z =>
        \A k \in 1..StreamLen(y)', l \in 1..StreamLen(z)' : Nth(y, k)' # Nth(z, l)'
  BY <1>3, <1>4 DEF StreamsInv
<1>8. ASSUME NEW d \in dropped'
      PROVE  /\ \E r \in Receivers : \E i \in 1..Taken(r)' : d = Came(r, i)'
             /\ \A y \in Readers : \A k \in 1..StreamLen(y)' : Nth(y, k)' # d
  <2>1. CASE d \in dropped
    BY <1>2, <1>3, <1>4, <2>1 DEF StreamsInv
  <2>2. CASE d \notin dropped
    <3>1. PICK l \in (n + 1)..StreamLen(x) : d = Nth(x, l)
      BY <2>2 DEF Cuts
    <3>2. l \in 1..StreamLen(x) /\ n \in Nat /\ l > n
      BY <1>3 DEF Cuts
    <3>3. ASSUME NEW y \in Readers, NEW k \in 1..StreamLen(y)' PROVE Nth(y, k)' # d
      <4>1. Nth(y, k)' = Nth(y, k) /\ k \in 1..StreamLen(y)
        BY <1>3, <1>4
      <4>2. CASE y # x
        BY <3>1, <3>2, <4>1, <4>2 DEF StreamsInv
      <4>3. CASE y = x
        <5>1. k < l
          BY <3>2, <4>3 DEF Cuts
        <5> QED BY <3>1, <3>2, <4>1, <4>3, <5>1, StreamOnce
      <4> QED BY <4>2, <4>3
    <3> QED BY <1>2, <3>1, <3>2, <3>3 DEF StreamsInv
  <2> QED BY <2>1, <2>2
<1>9. ASSUME NEW r \in Receivers, NEW i \in 1..Taken(r)'
      PROVE  \/ Came(r, i)' \in dropped'
             \/ \E y \in Readers : \E k \in 1..StreamLen(y)' : Nth(y, k)' = Came(r, i)'
  <2>1. CASE Came(r, i) \in dropped
    BY <1>2, <2>1 DEF Cuts
  <2>2. CASE Came(r, i) \notin dropped
    <3>1. PICK y \in Readers : \E k \in 1..StreamLen(y) : Nth(y, k) = Came(r, i)
      BY <1>2, <2>2 DEF StreamsInv
    <3>2. PICK k \in 1..StreamLen(y) : Nth(y, k) = Came(r, i)
      BY <3>1
    <3>3. CASE k \in 1..StreamLen(y)'
      BY <1>2, <1>3, <3>2, <3>3
    <3>4. CASE k \notin 1..StreamLen(y)'
      <4>1. y = x
        BY <3>4, OthersKeep
      <4>2. k \in (n + 1)..StreamLen(x)
        BY <1>3, <3>4, <4>1 DEF Cuts
      <4> QED BY <1>2, <3>2, <4>1, <4>2 DEF Cuts
    <3> QED BY <3>3, <3>4
  <2> QED BY <2>1, <2>2
<1>10. StreamsInv'
  BY <1>5, <1>6, <1>7, <1>8, <1>9 DEF StreamsInv
<1> QED BY <1>1, <1>10

LEMMA TakeKeeps ==
  ASSUME ReceiversType, PutOnce, QueueIsRest, StreamsInv, delivered' = delivered,
         NEW x \in Readers, NEW r, NEW n, Others(x), Takes(x, r, n)
  PROVE  QueueIsRest' /\ StreamsInv'
<1>1. /\ r \in Receivers /\ n \in Nat /\ n <= Len(queue[r]) /\ dropped' = dropped
      /\ queue' = [queue EXCEPT ![r] = SubSeq(queue[r], n + 1, Len(queue[r]))]
  BY ReceiverSizes DEF Takes
<1>2. /\ Len(queue'[r]) = Len(queue[r]) - n
      /\ \A k \in 1..(Len(queue[r]) - n) : queue'[r][k] = queue[r][n + k]
      /\ DOMAIN queue'[r] = 1..(Len(queue[r]) - n)
      /\ \A s \in Receivers \ {r} : queue'[s] = queue[s]
  <2>1. queue \in [Receivers -> Seq(Nat)]
    BY DEF ReceiversType
  <2>2. queue'[r] = SubSeq(queue[r], n + 1, Len(queue[r]))
        /\ \A s \in Receivers \ {r} : queue'[s] = queue[s]
    BY <1>1, <2>1
  <2>3. n \in 0..Len(queue[r])
    BY <1>1, ReceiverSizes
  <2>4. /\ queue'[r] \in Seq(Nat) /\ Len(queue'[r]) = Len(queue[r]) - n
        /\ \A k \in 1..(Len(queue[r]) - n) : queue'[r][k] = queue[r][n + k]
    BY <1>1, <2>2, <2>3, ReceiverSizes, RestOf
  <2> QED BY <2>2, <2>4, LenProperties
<1>3. /\ \A s, i : Came(s, i)' = Came(s, i)
      /\ Taken(r) \in Nat /\ Taken(r)' = Taken(r) + n
      /\ \A s \in Receivers \ {r} : Taken(s)' = Taken(s)
  <2>1. Taken(r) \in Nat /\ Len(queue[r]) \in Nat /\ Len(delivered[r]) \in Nat
    BY <1>1, ReceiverSizes, TakenSize
  <2>2. Len(delivered[r]) - (Len(queue[r]) - n) = (Len(delivered[r]) - Len(queue[r])) + n
    BY <1>1, <2>1
  <2> QED BY <1>2, <2>1, <2>2 DEF Came, Taken
<1>4. \A s \in Receivers : /\ Taken(s) \in Nat /\ Taken(s)' \in Nat
                           /\ \A i \in 1..Taken(s) : i \in 1..Taken(s)'
  BY <1>1, <1>3, TakenSize
<1>5. ASSUME NEW k \in 1..n
      PROVE  <<r, queue[r][k]>> = Came(r, Taken(r) + k) /\ Taken(r) + k \in 1..Taken(r)'
  <2>1. k \in DOMAIN queue[r]
    BY <1>1, ReceiverSizes
  <2>2. queue[r][k] = delivered[r][Taken(r) + k]
    BY <1>1, <2>1 DEF QueueIsRest
  <2>3. Taken(r) + k \in 1..Taken(r)'
    BY <1>1, <1>3
  <2> QED BY <2>2, <2>3 DEF Came
<1>6. QueueIsRest'
  <2> SUFFICES ASSUME NEW s \in Receivers
               PROVE  /\ Len(queue'[s]) <= Len(delivered[s])
                      /\ \A i \in DOMAIN queue'[s] :
                           queue'[s][i] = delivered[s][Taken(s)' + i]
    BY DEF QueueIsRest
  <2>1. CASE s # r
    BY <1>2, <1>3, <2>1 DEF QueueIsRest
  <2>2. CASE s = r
    <3>1. Len(queue[r]) \in Nat /\ Len(delivered[r]) \in Nat
          /\ Len(queue[r]) <= Len(delivered[r])
      BY <1>1, ReceiverSizes DEF QueueIsRest
    <3>2. Len(queue[r]) - n <= Len(delivered[r])
      BY <1>1, <3>1
    <3>3. ASSUME NEW i \in 1..(Len(queue[r]) - n)
          PROVE  queue'[r][i] = delivered[r][Taken(r)' + i]
      <4>1. n + i \in DOMAIN queue[r]
        BY <1>1, <3>1, ReceiverSizes
      <4>2. queue[r][n + i] = delivered[r][Taken(r) + (n + i)]
        BY <1>1, <4>1 DEF QueueIsRest
      <4>3. Taken(r) + (n + i) = Taken(r)' + i
        BY <1>1, <1>3
      <4> QED BY <1>2, <4>2, <4>3
    <3> QED BY <1>2, <2>2, <3>2, <3>3
  <2> QED BY <2>1, <2>2
<1>7. /\ StreamLen(x) \in Nat /\ StreamLen(x)' = StreamLen(x) + n
      /\ \A k \in 1..StreamLen(x) : Nth(x, k)' = Nth(x, k)
      /\ \A k \in 1..n : \A l : l = StreamLen(x) + k => Nth(x, l)' = Came(r, Taken(r) + k)
  BY <1>5, ReceiverSizes DEF Takes
<1>8. \A y \in Readers \ {x} : /\ StreamLen(y)' = StreamLen(y)
                               /\ \A k : Nth(y, k)' = Nth(y, k)
  BY OthersKeep
(* A place is one there was or one of the new; a message is at one place. *)
<1> DEFINE Old(y, k) == k \in 1..StreamLen(y) /\ Nth(y, k)' = Nth(y, k)
           New(y, k, m) == /\ y = x /\ m \in 1..n /\ k = StreamLen(x) + m
                           /\ Nth(y, k)' = Came(r, Taken(r) + m)
           At(e, s, i) == s \in Receivers /\ i \in 1..Taken(s)' /\ e = Came(s, i)
<1>9. \A y \in Readers : \A k \in 1..StreamLen(y)' : Old(y, k) \/ \E m : New(y, k, m)
  <2> SUFFICES ASSUME NEW y \in Readers, NEW k \in 1..StreamLen(y)'
               PROVE  Old(y, k) \/ \E m : New(y, k, m)
    OBVIOUS
  <2>1. CASE y # x
    BY <1>8, <2>1
  <2>2. CASE y = x /\ k \in 1..StreamLen(x)
    BY <1>7, <2>2
  <2>3. CASE y = x /\ k \notin 1..StreamLen(x)
    <3> DEFINE m == k - StreamLen(x)
    <3>1. m \in 1..n /\ k = StreamLen(x) + m
      BY <1>1, <1>7, <2>3
    <3> HIDE DEF m
    <3>2. New(y, k, m)
      BY <1>7, <2>3, <3>1
    <3> QED BY <3>2
  <2> QED BY <2>1, <2>2, <2>3
<1>10. \A y \in Readers : \A k : Old(y, k) =>
         \E s, i : At(Nth(y, k)', s, i) /\ i \in 1..Taken(s)
  BY <1>4 DEF StreamsInv
<1>11. \A y, k, m : New(y, k, m) =>
         /\ At(Nth(y, k)', r, Taken(r) + m) /\ y = x /\ k = StreamLen(x) + m
         /\ m \in 1..n /\ Taken(r) + m \notin 1..Taken(r)
  BY <1>1, <1>3, <1>5
<1>12. ASSUME NEW e, NEW s, NEW i, NEW t, NEW j, At(e, s, i), At(e, t, j)
       PROVE  s = t /\ i = j
  <2>1. \A u \in Receivers : \A k \in 1..Taken(u)' : k \in 1..Len(delivered[u])
    <3> SUFFICES ASSUME NEW u \in Receivers, NEW k \in 1..Taken(u)'
                 PROVE  k \in 1..Len(delivered[u])
      OBVIOUS
    <3>1. CASE u # r
      BY <1>3, <3>1, TakenSize, ReceiverSizes
    <3>2. CASE u = r
      <4>1. Taken(r) + Len(queue[r]) = Len(delivered[r]) /\ Len(queue[r]) \in Nat
        BY <1>1, TakenSize, ReceiverSizes
      <4> QED BY <1>1, <1>3, <3>2, <4>1
    <3> QED BY <3>1, <3>2
  <2>2. i \in 1..Len(delivered[s]) /\ j \in 1..Len(delivered[t])
    BY <1>12, <2>1
  <2>3. s \in Receivers /\ t \in Receivers /\ Came(s, i) = Came(t, j)
    BY <1>12
  <2> QED BY <2>2, <2>3, CameOnce
<1>13. \A s \in Receivers : \A i \in 1..Taken(s)' : At(Came(s, i), s, i)
  OBVIOUS
<1>14. \A e, s, i : At(e, s, i) => s \in Receivers /\ i \in 1..Taken(s)' /\ e = Came(s, i)
  OBVIOUS
<1>15. \A y, k : Old(y, k) => k \in 1..StreamLen(y) /\ Nth(y, k)' = Nth(y, k)
  OBVIOUS
<1> HIDE DEF Old, New, At
<1>16. \A y \in Readers : \A k \in 1..StreamLen(y)' :
         \E s \in Receivers : \E i \in 1..Taken(s)' : Nth(y, k)' = Came(s, i)
  BY <1>9, <1>10, <1>11, <1>14
<1>17. ASSUME NEW y \in Readers, NEW k \in 1..StreamLen(y)', NEW l \in 1..StreamLen(y)',
              k < l, NEW s \in Receivers, NEW i \in 1..Taken(s)', NEW j \in 1..Taken(s)',
              Nth(y, k)' = Came(s, i), Nth(y, l)' = Came(s, j)
       PROVE  i < j
  <2>1. At(Nth(y, k)', s, i) /\ At(Nth(y, l)', s, j)
    BY <1>13, <1>17
  <2>2. CASE Old(y, k) /\ Old(y, l)
    <3>1. i \in 1..Taken(s) /\ j \in 1..Taken(s)
      BY <1>10, <1>12, <2>1, <2>2
    <3>2. /\ k \in 1..StreamLen(y) /\ l \in 1..StreamLen(y)
          /\ Nth(y, k) = Came(s, i) /\ Nth(y, l) = Came(s, j)
      BY <1>17, <1>15, <2>2
    <3> QED BY <1>17, <3>1, <3>2 DEF StreamsInv
  <2>3. ASSUME NEW m, Old(y, k), New(y, l, m) PROVE i < j
    <3>1. i \in 1..Taken(s)
      BY <1>10, <1>12, <2>1, <2>3
    <3>2. s = r /\ j = Taken(r) + m /\ m \in 1..n
      BY <1>11, <1>12, <2>1, <2>3
    <3> QED BY <1>1, <1>3, <3>1, <3>2
  <2>4. ASSUME NEW m, NEW p, New(y, k, m), New(y, l, p) PROVE i < j
    <3>1. i = Taken(r) + m /\ k = StreamLen(x) + m /\ m \in 1..n
      BY <1>11, <1>12, <2>1, <2>4
    <3>2. j = Taken(r) + p /\ l = StreamLen(x) + p /\ p \in 1..n
      BY <1>11, <1>12, <2>1, <2>4
    <3> QED BY <1>1, <1>3, <1>7, <1>17, <3>1, <3>2
  <2>5. ASSUME NEW m, New(y, k, m) PROVE ~Old(y, l)
    <3>1. y = x /\ k = StreamLen(x) + m /\ m \in 1..n
      BY <1>11, <2>5
    <3> QED BY <1>1, <1>7, <1>17, <1>15, <3>1
  <2> QED BY <1>9, <2>2, <2>3, <2>4, <2>5
<1>18. ASSUME NEW y \in Readers, NEW z \in Readers, y # z,
              NEW k \in 1..StreamLen(y)', NEW l \in 1..StreamLen(z)'
       PROVE  Nth(y, k)' # Nth(z, l)'
  <2>1. CASE Old(y, k) /\ Old(z, l)
    BY <1>18, <1>15, <2>1 DEF StreamsInv
  <2>2. ASSUME NEW m, New(y, k, m), Old(z, l) PROVE Nth(y, k)' # Nth(z, l)'
    BY <1>10, <1>11, <1>12, <2>2
  <2>3. ASSUME NEW m, Old(y, k), New(z, l, m) PROVE Nth(y, k)' # Nth(z, l)'
    BY <1>10, <1>11, <1>12, <2>3
  <2>4. \A m, p : ~(New(y, k, m) /\ New(z, l, p))
    BY <1>11, <1>18
  <2> QED BY <1>9, <2>1, <2>2, <2>3, <2>4
<1>19. ASSUME NEW d \in dropped'
       PROVE  /\ \E s \in Receivers : \E i \in 1..Taken(s)' : d = Came(s, i)
              /\ \A y \in Readers : \A k \in 1..StreamLen(y)' : Nth(y, k)' # d
  <2>1. d \in dropped
    BY <1>1, <1>19
  <2>2. PICK s \in Receivers : \E i \in 1..Taken(s) : d = Came(s, i)
    BY <2>1 DEF StreamsInv
  <2>3. PICK i \in 1..Taken(s) : d = Came(s, i)
    BY <2>2
  <2>4. i \in 1..Taken(s)' /\ At(d, s, i)
    BY <1>13, <1>4, <2>3
  <2>5. ASSUME NEW y \in Readers, NEW k \in 1..StreamLen(y)' PROVE Nth(y, k)' # d
    <3>1. CASE Old(y, k)
      BY <1>15, <2>1, <3>1 DEF StreamsInv
    <3>2. ASSUME NEW m, New(y, k, m) PROVE Nth(y, k)' # d
      BY <1>11, <1>12, <2>3, <2>4, <3>2
    <3> QED BY <1>9, <3>1, <3>2
  <2> QED BY <2>3, <2>4, <2>5
<1>20. ASSUME NEW s \in Receivers, NEW i \in 1..Taken(s)'
       PROVE  \/ Came(s, i) \in dropped'
              \/ \E y \in Readers : \E k \in 1..StreamLen(y)' : Nth(y, k)' = Came(s, i)
  <2>1. CASE i \in 1..Taken(s)
    <3>1. CASE Came(s, i) \in dropped
      BY <1>1, <3>1
    <3>2. CASE Came(s, i) \notin dropped
      <4>1. PICK y \in Readers : \E k \in 1..StreamLen(y) : Nth(y, k) = Came(s, i)
        BY <2>1, <3>2 DEF StreamsInv
      <4>2. PICK k \in 1..StreamLen(y) : Nth(y, k) = Came(s, i)
        BY <4>1
      <4>3. k \in 1..StreamLen(y)' /\ Nth(y, k)' = Nth(y, k)
        BY <1>1, <1>7, <1>8, <4>2
      <4> QED BY <4>2, <4>3
    <3> QED BY <3>1, <3>2
  <2>2. CASE i \notin 1..Taken(s)
    <3> DEFINE m == i - Taken(r)
               l == StreamLen(x) + m
    <3>1. s = r
      BY <1>3, <2>2
    <3>2. m \in 1..n /\ i = Taken(r) + m
      BY <1>1, <1>3, <2>2, <3>1
    <3>3. l \in 1..StreamLen(x)' /\ l = StreamLen(x) + m
      BY <1>1, <1>7, <3>2
    <3> HIDE DEF m, l
    <3>4. \A k : k = l => Nth(x, k)' = Came(r, Taken(r) + m)
      BY <1>7, <3>2, <3>3
    <3>5. \E k \in 1..StreamLen(x)' : Nth(x, k)' = Came(s, i)
      BY <3>1, <3>2, <3>3, <3>4
    <3> QED BY <3>5
  <2> QED BY <2>1, <2>2
<1>21. StreamsInv'
  BY <1>3, <1>16, <1>17, <1>18, <1>19, <1>20 DEF StreamsInv
<1> QED BY <1>6, <1>21

(* What comes in behind the queue changes nothing of that. *)
LEMMA PutKeeps ==
  ASSUME StreamsInv, UNCHANGED <<call, messages, given, dropped>>,
         \A r \in Receivers : /\ Taken(r)' = Taken(r)
                              /\ \A i \in 1..Taken(r) : delivered'[r][i] = delivered[r][i]
  PROVE  StreamsInv'
<1>1. \A r \in Receivers : /\ Taken(r)' = Taken(r)
                           /\ \A i \in 1..Taken(r) : Came(r, i)' = Came(r, i)
  BY DEF Came
<1>2. (\A x : StreamLen(x)' = StreamLen(x)) /\ (\A x, k : Nth(x, k)' = Nth(x, k))
  BY DEF StreamLen, Nth, Source
<1> QED BY <1>1, <1>2 DEF StreamsInv

------------------------------------------------------------------------------
(* The emitters *)

ReceiversInv == ReceiversType /\ PutOnce /\ QueueIsRest /\ StreamsInv

ReaderLabels == {"idle", "put", "notify"} \cup InCall \cup InFrom

ReadersStay ==
  /\ UNCHANGED <<call, messages, given, turn, dropped>>
  /\ \A x \in Readers : pc'[x] = pc[x]

LEMMA EmitterTyped ==
  ASSUME ReceiversType, ReadersStay, subscribed' \subseteq Receivers,
         queue' \in [Receivers -> Seq(Nat)], delivered' \in [Receivers -> Seq(Nat)],
         pc' \in [Emitters \cup Readers -> ReaderLabels],
         matching' \in [Emitters -> SUBSET Receivers], message' \in [Emitters -> Nat],
         emitted' \in Nat
  PROVE  ReceiversType'
<1>1. \A x \in Readers : ReaderOK(x)'
  BY DEF ReceiversType, ReadersStay, ReaderOK
<1> QED BY <1>1 DEF ReceiversType, ReadersStay, ReaderLabels

LEMMA EmitterAlone ==
  ASSUME ReceiversType, NEW e \in Emitters,
         NEW label \in {"idle", "put", "notify"}, Goto(e, label)
  PROVE  /\ pc' \in [Emitters \cup Readers -> ReaderLabels]
         /\ \A x \in Readers : pc'[x] = pc[x]
<1>1. pc' = [pc EXCEPT ![e] = label] /\ e \notin Readers
  BY ReceiversAssumption DEF Goto
<1>2. pc \in [Emitters \cup Readers -> ReaderLabels] /\ label \in ReaderLabels
  BY DEF ReceiversType, ReaderLabels
<1> QED BY <1>1, <1>2

LEMMA QueuesGrow ==
  ASSUME ReceiversType, QueueIsRest, StreamsInv,
         UNCHANGED <<call, messages, given, dropped>>,
         \A r \in Receivers :
           \/ queue'[r] = queue[r] /\ delivered'[r] = delivered[r]
           \/ \E m \in Nat : /\ queue'[r] = Append(queue[r], m)
                             /\ delivered'[r] = Append(delivered[r], m)
  PROVE  QueueIsRest' /\ StreamsInv'
<1>1. ASSUME NEW r \in Receivers
      PROVE  /\ Taken(r)' = Taken(r)
             /\ \A i \in 1..Taken(r) : delivered'[r][i] = delivered[r][i]
             /\ Len(queue'[r]) <= Len(delivered'[r])
             /\ \A i \in DOMAIN queue'[r] : queue'[r][i] = delivered'[r][Taken(r)' + i]
  <2>1. /\ Len(queue[r]) \in Nat /\ Len(delivered[r]) \in Nat
        /\ Len(queue[r]) <= Len(delivered[r])
        /\ queue[r] \in Seq(Nat) /\ delivered[r] \in Seq(Nat)
        /\ DOMAIN queue[r] = 1..Len(queue[r])
        /\ \A i \in DOMAIN queue[r] : queue[r][i] = delivered[r][Taken(r) + i]
    BY <1>1, ReceiverSizes DEF QueueIsRest
  <2>2. Taken(r) \in Nat /\ Taken(r) <= Len(delivered[r])
        /\ Taken(r) + Len(queue[r]) = Len(delivered[r])
    BY <1>1, TakenSize
  <2>3. CASE queue'[r] = queue[r] /\ delivered'[r] = delivered[r]
    BY <2>1, <2>3 DEF Taken
  <2>4. CASE \E m \in Nat : /\ queue'[r] = Append(queue[r], m)
                            /\ delivered'[r] = Append(delivered[r], m)
    <3>1. PICK m \in Nat : /\ queue'[r] = Append(queue[r], m)
                           /\ delivered'[r] = Append(delivered[r], m)
      BY <2>4
    <3>2. /\ Len(queue'[r]) = Len(queue[r]) + 1
          /\ DOMAIN queue'[r] = 1..(Len(queue[r]) + 1)
          /\ \A i \in 1..Len(queue[r]) : queue'[r][i] = queue[r][i]
          /\ queue'[r][Len(queue[r]) + 1] = m
      BY <2>1, <3>1, Appended
    <3>3. /\ Len(delivered'[r]) = Len(delivered[r]) + 1
          /\ \A i \in 1..Len(delivered[r]) : delivered'[r][i] = delivered[r][i]
          /\ delivered'[r][Len(delivered[r]) + 1] = m
      BY <2>1, <3>1, Appended
    <3>4. Taken(r)' = Taken(r)
      <4>1. (Len(delivered[r]) + 1) - (Len(queue[r]) + 1)
              = Len(delivered[r]) - Len(queue[r])
        BY <2>1
      <4> QED BY <3>2, <3>3, <4>1 DEF Taken
    <3>5. \A i \in 1..Taken(r) : i \in 1..Len(delivered[r])
      BY <2>1, <2>2
    <3>6. ASSUME NEW i \in 1..Len(queue[r])
          PROVE  queue'[r][i] = delivered'[r][Taken(r) + i]
      <4>1. Taken(r) + i \in 1..Len(delivered[r])
        <5>1. \A a, b, d \in Nat : 1 <= d /\ d <= b => a + d \in 1..(a + b)
          OBVIOUS
        <5>2. i \in Nat /\ 1 <= i /\ i <= Len(queue[r])
          BY <2>1, <3>6
        <5>3. Taken(r) + i \in 1..(Taken(r) + Len(queue[r]))
          BY <2>1, <2>2, <5>1, <5>2
        <5> QED BY <2>2, <5>3
      <4> QED BY <2>1, <3>2, <3>3, <4>1
    <3>7. queue'[r][Len(queue[r]) + 1] = delivered'[r][Taken(r) + (Len(queue[r]) + 1)]
      <4>1. Taken(r) + (Len(queue[r]) + 1) = Len(delivered[r]) + 1
        <5>1. \A a, b \in Nat : a + (b + 1) = (a + b) + 1
          OBVIOUS
        <5>2. Taken(r) + (Len(queue[r]) + 1) = (Taken(r) + Len(queue[r])) + 1
          BY <2>1, <2>2, <5>1
        <5> QED BY <2>2, <5>2, Zenon
      <4> QED BY <3>2, <3>3, <4>1
    <3>8. \A i \in DOMAIN queue'[r] : i \in 1..Len(queue[r]) \/ i = Len(queue[r]) + 1
      BY <2>1, <3>2
    <3>9. Len(queue'[r]) <= Len(delivered'[r])
      BY <2>1, <3>2, <3>3
    <3>10. \A i \in DOMAIN queue'[r] : queue'[r][i] = delivered'[r][Taken(r) + i]
      BY <3>6, <3>7, <3>8
    <3>11. \A i \in 1..Taken(r) : delivered'[r][i] = delivered[r][i]
      BY <3>3, <3>5
    <3> QED BY <3>4, <3>9, <3>10, <3>11
  <2> QED BY <1>1, <2>3, <2>4
<1>2. StreamsInv'
  BY <1>1, PutKeeps
<1> QED BY <1>1, <1>2 DEF QueueIsRest

(* Nothing but the place of an emitter or the list of receivers changes. *)
LEMMA IdleEmitter ==
  ASSUME ReceiversInv, ReadersStay, subscribed' \subseteq Receivers,
         UNCHANGED <<queue, delivered, matching, message, emitted>>,
         pc' \in [Emitters \cup Readers -> ReaderLabels]
  PROVE  ReceiversInv'
<1>1. ReceiversType'
  BY EmitterTyped DEF ReceiversInv, ReceiversType
<1>2. PutOnce'
  BY DEF ReceiversInv, PutOnce
<1>3. QueueIsRest' /\ StreamsInv'
  BY QueuesGrow DEF ReceiversInv, ReadersStay
<1> QED BY <1>1, <1>2, <1>3 DEF ReceiversInv

LEMMA EmitKeeps ==
  ASSUME ReceiversInv, NEW e \in Emitters, Emit(e)
  PROVE  ReceiversInv'
<1>1. /\ queue' = queue /\ delivered' = delivered /\ subscribed' = subscribed
      /\ UNCHANGED <<call, messages, given, turn, dropped>>
      /\ emitted' = emitted + 1 /\ message' = [message EXCEPT ![e] = emitted + 1]
      /\ \E matched \in SUBSET subscribed : matching' = [matching EXCEPT ![e] = matched]
      /\ Goto(e, "put")
  BY DEF Emit, busVars, readerVars, resultVars
<1>2. /\ emitted \in Nat /\ emitted + 1 \in Nat /\ message \in [Emitters -> Nat]
      /\ matching \in [Emitters -> SUBSET Receivers] /\ subscribed \subseteq Receivers
  BY DEF ReceiversInv, ReceiversType
<1>3. /\ pc' \in [Emitters \cup Readers -> ReaderLabels]
      /\ \A x \in Readers : pc'[x] = pc[x]
  BY <1>1, EmitterAlone DEF ReceiversInv
<1>4. message' \in [Emitters -> Nat] /\ matching' \in [Emitters -> SUBSET Receivers]
  BY <1>1, <1>2
<1>5. ReceiversType'
  BY <1>1, <1>2, <1>3, <1>4, EmitterTyped DEF ReceiversInv, ReceiversType, ReadersStay
<1>6. /\ message'[e] = emitted + 1
      /\ \A f \in Emitters \ {e} : message'[f] = message[f] /\ matching'[f] = matching[f]
  BY <1>1, <1>2
<1>7. PutOnce'
  <2>1. \A r \in Receivers : \A i \in DOMAIN delivered[r] :
          delivered[r][i] \in Nat /\ delivered[r][i] <= emitted
    BY ReceiverSizes DEF ReceiversInv, PutOnce
  <2>2. \A f \in Emitters : message[f] \in Nat /\ message[f] <= emitted
    BY <1>2 DEF ReceiversInv, PutOnce
  <2>3. \A m \in Nat : m <= emitted => m <= emitted + 1 /\ m # emitted + 1
    BY <1>2
  <2>4. \A r \in Receivers : \A i \in DOMAIN delivered'[r] :
          /\ delivered'[r][i] <= emitted'
          /\ \A j \in DOMAIN delivered'[r] : delivered'[r][i] = delivered'[r][j] => i = j
    BY <1>1, <2>1, <2>3 DEF ReceiversInv, PutOnce
  <2>5. ASSUME NEW f \in Emitters, NEW r \in matching'[f]
        PROVE  /\ \A i \in DOMAIN delivered'[r] : delivered'[r][i] # message'[f]
               /\ \A g \in Emitters \ {f} : r \in matching'[g] => message'[g] # message'[f]
    <3>1. r \in Receivers
      BY <1>4, <2>5
    <3>2. CASE f = e
      BY <1>1, <1>6, <2>1, <2>2, <2>3, <3>1, <3>2
    <3>3. CASE f # e
      BY <1>1, <1>6, <2>2, <2>3, <2>5, <3>1, <3>3 DEF ReceiversInv, PutOnce
    <3> QED BY <3>2, <3>3
  <2>6. \A f \in Emitters : message'[f] <= emitted'
    BY <1>1, <1>2, <1>6, <2>2, <2>3
  <2> QED BY <2>4, <2>5, <2>6 DEF PutOnce
<1>8. QueueIsRest' /\ StreamsInv'
  BY <1>1, QueuesGrow DEF ReceiversInv
<1> QED BY <1>5, <1>7, <1>8 DEF ReceiversInv

LEMMA DeliverPutKeeps ==
  ASSUME ReceiversInv, NEW e \in Emitters, DeliverPut(e)
  PROVE  ReceiversInv'
<1>1. PICK r \in matching[e] :
        /\ queue' = [queue EXCEPT ![r] = Append(@, message[e])]
        /\ delivered' = [delivered EXCEPT ![r] = Append(@, message[e])]
        /\ matching' = [matching EXCEPT ![e] = @ \ {r}]
  BY DEF DeliverPut, Put
<1>2. /\ subscribed' = subscribed /\ emitted' = emitted /\ message' = message
      /\ UNCHANGED <<call, messages, given, turn, dropped>>
      /\ Goto(e, "notify")
  BY DEF DeliverPut, busVars, readerVars, resultVars
<1>3. /\ message \in [Emitters -> Nat] /\ matching \in [Emitters -> SUBSET Receivers]
      /\ queue \in [Receivers -> Seq(Nat)] /\ delivered \in [Receivers -> Seq(Nat)]
      /\ r \in Receivers /\ message[e] \in Nat
  BY DEF ReceiversInv, ReceiversType
<1>4. /\ pc' \in [Emitters \cup Readers -> ReaderLabels]
      /\ \A x \in Readers : pc'[x] = pc[x]
  BY <1>2, EmitterAlone DEF ReceiversInv
<1>5. /\ queue'[r] = Append(queue[r], message[e])
      /\ delivered'[r] = Append(delivered[r], message[e])
      /\ \A s \in Receivers \ {r} : queue'[s] = queue[s] /\ delivered'[s] = delivered[s]
      /\ matching'[e] = matching[e] \ {r}
      /\ \A f \in Emitters \ {e} : matching'[f] = matching[f]
      /\ queue' \in [Receivers -> Seq(Nat)] /\ delivered' \in [Receivers -> Seq(Nat)]
      /\ matching' \in [Emitters -> SUBSET Receivers]
  BY <1>1, <1>3
<1>6. ReceiversType'
  BY <1>2, <1>3, <1>4, <1>5, EmitterTyped DEF ReceiversInv, ReceiversType, ReadersStay
<1>7. QueueIsRest' /\ StreamsInv'
  BY <1>2, <1>3, <1>5, QueuesGrow DEF ReceiversInv
<1>8. PutOnce'
  <2>1. /\ DOMAIN delivered[r] = 1..Len(delivered[r]) /\ Len(delivered[r]) \in Nat
        /\ DOMAIN delivered'[r] = 1..(Len(delivered[r]) + 1)
        /\ \A i \in 1..Len(delivered[r]) : delivered'[r][i] = delivered[r][i]
        /\ delivered'[r][Len(delivered[r]) + 1] = message[e]
    BY <1>3, <1>5, Appended
  <2>2. \A i \in DOMAIN delivered'[r] :
          i \in DOMAIN delivered[r] \/ i = Len(delivered[r]) + 1
    BY <2>1
  <2>3. \A i \in DOMAIN delivered[r] : delivered[r][i] # message[e]
    BY DEF ReceiversInv, PutOnce
  <2>4. ASSUME NEW s \in Receivers, NEW i \in DOMAIN delivered'[s]
        PROVE  /\ delivered'[s][i] <= emitted'
               /\ \A j \in DOMAIN delivered'[s] : delivered'[s][i] = delivered'[s][j] => i = j
    <3>1. CASE s # r
      <4>1. delivered'[s] = delivered[s] /\ i \in DOMAIN delivered[s]
        BY <1>5, <2>4, <3>1
      <4>2. /\ delivered[s][i] <= emitted
            /\ \A j \in DOMAIN delivered[s] : delivered[s][i] = delivered[s][j] => i = j
        BY <4>1 DEF ReceiversInv, PutOnce
      <4> QED BY <1>2, <4>1, <4>2
    <3>2. CASE s = r
      BY <1>2, <2>1, <2>2, <2>3, <2>4, <3>2 DEF ReceiversInv, PutOnce
    <3> QED BY <3>1, <3>2
  <2>5. ASSUME NEW f \in Emitters, NEW s \in matching'[f]
        PROVE  /\ \A i \in DOMAIN delivered'[s] : delivered'[s][i] # message[f]
               /\ \A g \in Emitters \ {f} : s \in matching'[g] => message[g] # message[f]
    <3>1. /\ s \in matching[f] /\ s \in Receivers /\ (f = e => s # r)
          /\ \A g \in Emitters : s \in matching'[g] => s \in matching[g]
      BY <1>3, <1>5, <2>5
    <3>2. \A g \in Emitters \ {f} : s \in matching'[g] => message[g] # message[f]
      BY <3>1 DEF ReceiversInv, PutOnce
    <3>3. CASE s # r
      <4>1. delivered'[s] = delivered[s]
        BY <1>5, <3>1, <3>3
      <4>2. \A i \in DOMAIN delivered[s] : delivered[s][i] # message[f]
        BY <3>1 DEF ReceiversInv, PutOnce
      <4> QED BY <3>2, <4>1, <4>2
    <3>4. CASE s = r
      <4>1. message[f] # message[e]
        BY <3>1, <3>4 DEF ReceiversInv, PutOnce
      <4>2. \A i \in DOMAIN delivered[r] : delivered[r][i] # message[f]
        BY <3>1, <3>4 DEF ReceiversInv, PutOnce
      <4> QED BY <2>1, <2>2, <3>2, <3>4, <4>1, <4>2
    <3> QED BY <3>3, <3>4
  <2> QED BY <1>2, <2>4, <2>5 DEF ReceiversInv, PutOnce
<1> QED BY <1>6, <1>7, <1>8 DEF ReceiversInv

LEMMA AsyncEmitKeeps ==
  ASSUME ReceiversInv, NEW e \in Emitters, AsyncEmit(e)
  PROVE  ReceiversInv'
<1>1. PICK matched \in SUBSET subscribed : PutAll(matched, emitted + 1)
  BY DEF AsyncEmit
<1>2. /\ subscribed' = subscribed /\ emitted' = emitted + 1 /\ message' = message
      /\ matching' = matching /\ pc' = pc
      /\ UNCHANGED <<call, messages, given, turn, dropped>>
  BY DEF AsyncEmit, busVars, readerVars, resultVars
<1>3. /\ message \in [Emitters -> Nat] /\ matching \in [Emitters -> SUBSET Receivers]
      /\ queue \in [Receivers -> Seq(Nat)] /\ delivered \in [Receivers -> Seq(Nat)]
      /\ emitted \in Nat /\ emitted + 1 \in Nat
      /\ pc \in [Emitters \cup Readers -> ReaderLabels]
  BY DEF ReceiversInv, ReceiversType, ReaderLabels
<1>4. /\ queue' \in [Receivers -> Seq(Nat)] /\ delivered' \in [Receivers -> Seq(Nat)]
      /\ \A r \in matched \cap Receivers :
           /\ queue'[r] = Append(queue[r], emitted + 1)
           /\ delivered'[r] = Append(delivered[r], emitted + 1)
      /\ \A r \in Receivers \ matched : queue'[r] = queue[r] /\ delivered'[r] = delivered[r]
  <2>1. /\ queue' = [r \in Receivers |->
                       IF r \in matched THEN Append(queue[r], emitted + 1) ELSE queue[r]]
        /\ delivered' = [r \in Receivers |->
                           IF r \in matched THEN Append(delivered[r], emitted + 1)
                                            ELSE delivered[r]]
    BY <1>1 DEF PutAll
  <2>2. \A r \in Receivers : /\ Append(queue[r], emitted + 1) \in Seq(Nat)
                             /\ Append(delivered[r], emitted + 1) \in Seq(Nat)
    BY <1>3
  <2> QED BY <1>3, <2>1, <2>2
<1>5. ReceiversType'
  BY <1>2, <1>3, <1>4, EmitterTyped DEF ReceiversInv, ReceiversType, ReadersStay
<1>6. QueueIsRest' /\ StreamsInv'
  <2>1. \A r \in Receivers :
          \/ queue'[r] = queue[r] /\ delivered'[r] = delivered[r]
          \/ \E m \in Nat : /\ queue'[r] = Append(queue[r], m)
                            /\ delivered'[r] = Append(delivered[r], m)
    BY <1>3, <1>4
  <2> QED BY <1>2, <2>1, QueuesGrow DEF ReceiversInv
<1>7. PutOnce'
  <2>1. \A m \in Nat : m <= emitted => m <= emitted + 1 /\ m # emitted + 1
    BY <1>3
  <2>2. \A f \in Emitters : message[f] \in Nat /\ message[f] <= emitted
    BY <1>3 DEF ReceiversInv, PutOnce
  <2>3. ASSUME NEW r \in Receivers
        PROVE  /\ \A i \in DOMAIN delivered'[r] :
                    /\ delivered'[r][i] <= emitted'
                    /\ \A j \in DOMAIN delivered'[r] :
                         delivered'[r][i] = delivered'[r][j] => i = j
               /\ \A i \in DOMAIN delivered'[r] :
                    \/ delivered'[r][i] = emitted + 1
                    \/ i \in DOMAIN delivered[r] /\ delivered'[r][i] = delivered[r][i]
    <3>1. /\ \A i \in DOMAIN delivered[r] : /\ delivered[r][i] \in Nat
                                            /\ delivered[r][i] <= emitted
          /\ \A i, j \in DOMAIN delivered[r] : delivered[r][i] = delivered[r][j] => i = j
      BY <2>3, ReceiverSizes DEF ReceiversInv, PutOnce
    <3>2. CASE r \notin matched
      BY <1>2, <1>4, <2>1, <2>3, <3>1, <3>2
    <3>3. CASE r \in matched
      <4>1. /\ DOMAIN delivered[r] = 1..Len(delivered[r]) /\ Len(delivered[r]) \in Nat
            /\ DOMAIN delivered'[r] = 1..(Len(delivered[r]) + 1)
            /\ \A i \in 1..Len(delivered[r]) : delivered'[r][i] = delivered[r][i]
            /\ delivered'[r][Len(delivered[r]) + 1] = emitted + 1
        <5> DEFINE m == emitted + 1
        <5>1. delivered[r] \in Seq(Nat) /\ delivered'[r] = Append(delivered[r], m) /\ m \in Nat
          BY <1>3, <1>4, <2>3, <3>3
        <5> HIDE DEF m
        <5>2. /\ DOMAIN delivered[r] = 1..Len(delivered[r]) /\ Len(delivered[r]) \in Nat
              /\ DOMAIN delivered'[r] = 1..(Len(delivered[r]) + 1)
              /\ \A i \in 1..Len(delivered[r]) : delivered'[r][i] = delivered[r][i]
              /\ delivered'[r][Len(delivered[r]) + 1] = m
          BY <5>1, Appended
        <5> QED BY <5>2 DEF m
      <4>2. \A i \in DOMAIN delivered'[r] :
              \/ i = Len(delivered[r]) + 1 /\ delivered'[r][i] = emitted + 1
              \/ i \in DOMAIN delivered[r] /\ delivered'[r][i] = delivered[r][i]
        BY <4>1
      <4>3. \A i \in DOMAIN delivered'[r] : delivered'[r][i] <= emitted'
        <5> SUFFICES ASSUME NEW i \in DOMAIN delivered'[r]
                     PROVE  delivered'[r][i] <= emitted + 1
          BY <1>2
        <5>1. CASE delivered'[r][i] = emitted + 1
          BY <1>3, <5>1
        <5>2. CASE i \in DOMAIN delivered[r] /\ delivered'[r][i] = delivered[r][i]
          BY <2>1, <3>1, <5>2
        <5> QED BY <4>2, <5>1, <5>2
      <4>4. \A i, j \in DOMAIN delivered'[r] :
              delivered'[r][i] = delivered'[r][j] => i = j
        BY <2>1, <3>1, <4>2
      <4> QED BY <4>2, <4>3, <4>4
    <3> QED BY <3>2, <3>3
  <2>4. ASSUME NEW f \in Emitters, NEW r \in matching[f]
        PROVE  /\ \A i \in DOMAIN delivered'[r] : delivered'[r][i] # message[f]
               /\ \A g \in Emitters \ {f} : r \in matching[g] => message[g] # message[f]
    <3>1. r \in Receivers
      BY <1>3, <2>4
    <3> QED BY <2>1, <2>2, <2>3, <2>4, <3>1 DEF ReceiversInv, PutOnce
  <2>5. \A f \in Emitters : message'[f] <= emitted'
    BY <1>2, <2>1, <2>2
  <2> QED BY <1>2, <2>3, <2>4, <2>5 DEF PutOnce
<1> QED BY <1>5, <1>6, <1>7 DEF ReceiversInv

LEMMA OtherEmitterSteps ==
  ASSUME ReceiversInv,
         \/ \E r \in Receivers : DirectSubscribe(r) \/ AsyncSubscribe(r)
         \/ \E e \in Emitters : EmitReturns(e) \/ NotifyDelivery(e)
  PROVE  ReceiversInv'
<1>1. pc \in [Emitters \cup Readers -> ReaderLabels] /\ subscribed \subseteq Receivers
  BY DEF ReceiversInv, ReceiversType, ReaderLabels
<1>2. ASSUME NEW r \in Receivers, DirectSubscribe(r) \/ AsyncSubscribe(r)
      PROVE  ReceiversInv'
  BY <1>1, <1>2, IdleEmitter
     DEF DirectSubscribe, AsyncSubscribe, AddReceiver, emitterVars, readerVars,
         resultVars, ReadersStay
<1>3. ASSUME NEW e \in Emitters, EmitReturns(e) \/ NotifyDelivery(e)
      PROVE  ReceiversInv'
  <2>1. /\ UNCHANGED <<subscribed, queue, delivered, matching, message, emitted>>
        /\ UNCHANGED <<call, messages, given, turn, dropped>>
        /\ Goto(e, "idle") \/ Goto(e, "put")
    BY <1>3 DEF EmitReturns, NotifyDelivery, busVars, emitterVars, readerVars,
                resultVars
  <2>2. /\ pc' \in [Emitters \cup Readers -> ReaderLabels]
        /\ \A x \in Readers : pc'[x] = pc[x]
    BY <1>3, <2>1, EmitterAlone DEF ReceiversInv
  <2> QED BY <1>1, <2>1, <2>2, IdleEmitter DEF ReadersStay
<1> QED BY <1>2, <1>3

------------------------------------------------------------------------------
(* The readers *)

LEMMA ReaderTyped ==
  ASSUME ReceiversType, NEW x \in Readers, Others(x), ReaderOK(x)',
         UNCHANGED <<subscribed, delivered, matching, message, emitted>>,
         queue' \in [Receivers -> Seq(Nat)],
         pc' \in [Emitters \cup Readers -> ReaderLabels],
         call' \in [Readers -> ReadCalls], messages' \in [Readers -> Seq(Nat)],
         turn' \in [Readers -> Nat \ {0}],
         given' \in [Readers -> Seq(Receivers \X Nat)],
         dropped' \subseteq Receivers \X Nat
  PROVE  ReceiversType'
<1>1. \A y \in Readers \ {x} : ReaderOK(y)'
  BY DEF ReceiversType, Others, ReaderOK
<1> QED BY <1>1 DEF ReceiversType, ReaderLabels

LEMMA ReaderKeeps ==
  ASSUME ReceiversInv, NEW x \in Readers, Others(x), ReceiversType',
         UNCHANGED <<delivered, matching, message, emitted>>,
         (\E n : Cuts(x, n)) \/ (\E r, n : Takes(x, r, n))
  PROVE  ReceiversInv'
<1>1. PutOnce'
  BY DEF ReceiversInv, PutOnce
<1>2. QueueIsRest' /\ StreamsInv'
  BY CutKeeps, TakeKeeps DEF ReceiversInv
<1> QED BY <1>1, <1>2 DEF ReceiversInv

LEMMA ReaderParts ==
  ASSUME ReceiversType
  PROVE  /\ pc \in [Emitters \cup Readers -> ReaderLabels]
         /\ call \in [Readers -> ReadCalls] /\ messages \in [Readers -> Seq(Nat)]
         /\ given \in [Readers -> Seq(Receivers \X Nat)]
         /\ turn \in [Readers -> Nat \ {0}] /\ queue \in [Receivers -> Seq(Nat)]
         /\ dropped \subseteq Receivers \X Nat
         /\ \A x \in Readers :
              /\ ReaderOK(x) /\ call[x].from \in Seq(Receivers)
              /\ pc[x] \in InCall \cup InFrom => Source(x) \in Receivers
<1>1. \A x \in Readers : ReaderOK(x) /\ call[x].from \in Seq(Receivers)
  BY DEF ReceiversType, ReadCalls
<1>2. ASSUME NEW x \in Readers, pc[x] \in InCall \cup InFrom
      PROVE  Source(x) \in Receivers
  <2>1. call[x].from # <<>>
    BY <1>1, <1>2 DEF ReaderOK
  <2> QED BY <1>1, <2>1, HeadAndTail DEF Source
<1> QED BY <1>1, <1>2 DEF ReceiversType, ReaderLabels

LEMMA GivenOn ==
  ASSUME ReceiversType, NEW x \in Readers, NEW r \in Receivers, NEW list \in Seq(Nat),
         Give(x, r, list)
  PROVE  /\ given' \in [Readers -> Seq(Receivers \X Nat)]
         /\ \A y \in Readers \ {x} : given'[y] = given[y]
         /\ Len(given'[x]) = Len(given[x]) + Len(list)
         /\ \A k \in 1..Len(given[x]) : given'[x][k] = given[x][k]
         /\ \A k \in 1..Len(list) : \A l : l = Len(given[x]) + k =>
              given'[x][l] = <<r, list[k]>>
<1> DEFINE longer == given[x] \o [i \in DOMAIN list |-> <<r, list[i]>>]
<1>1. given' = [given EXCEPT ![x] = longer]
  BY DEF Give
<1>2. given \in [Readers -> Seq(Receivers \X Nat)] /\ given[x] \in Seq(Receivers \X Nat)
  BY ReaderParts
<1>3. /\ longer \in Seq(Receivers \X Nat) /\ Len(longer) = Len(given[x]) + Len(list)
      /\ \A k \in 1..Len(given[x]) : longer[k] = given[x][k]
      /\ \A k \in 1..Len(list) : longer[Len(given[x]) + k] = <<r, list[k]>>
  BY <1>2, TaggedOnto
<1> HIDE DEF longer
<1>4. /\ given' \in [Readers -> Seq(Receivers \X Nat)] /\ given'[x] = longer
      /\ \A y \in Readers \ {x} : given'[y] = given[y]
  BY <1>1, <1>2, <1>3
<1> QED BY <1>3, <1>4

LEMMA CallEnded ==
  ASSUME ReceiversType, NEW x \in Readers, EndCall(x)
  PROVE  /\ pc' \in [Emitters \cup Readers -> ReaderLabels]
         /\ call' \in [Readers -> ReadCalls] /\ messages' \in [Readers -> Seq(Nat)]
         /\ messages'[x] = <<>> /\ ReaderOK(x)'
         /\ \A y \in Readers \ {x} : /\ pc'[y] = pc[y] /\ call'[y] = call[y]
                                     /\ messages'[y] = messages[y]
<1>1. NoCall \in ReadCalls /\ NoCall.batch.max = 1 /\ NoCall.batch.min = 1
  BY DEF NoCall, Receive, ReadCalls
<1>2. /\ pc' = [pc EXCEPT ![x] = "idle"] /\ call' = [call EXCEPT ![x] = NoCall]
      /\ messages' = [messages EXCEPT ![x] = <<>>]
  BY DEF EndCall, Goto
<1>3. /\ pc'[x] = "idle" /\ call'[x] = NoCall /\ messages'[x] = <<>>
      /\ \A y \in Readers \ {x} : /\ pc'[y] = pc[y] /\ call'[y] = call[y]
                                  /\ messages'[y] = messages[y]
  BY <1>2, ReaderParts
<1>4. /\ pc' \in [Emitters \cup Readers -> ReaderLabels]
      /\ call' \in [Readers -> ReadCalls] /\ messages' \in [Readers -> Seq(Nat)]
  BY <1>1, <1>2, ReaderParts DEF ReaderLabels
<1>5. ReaderOK(x)'
  BY <1>1, <1>3 DEF ReaderOK, InCall, InFrom
<1> QED BY <1>3, <1>4, <1>5

(* Where a reader is, while its call and what it holds stay the same *)
LEMMA ReaderGoes ==
  ASSUME ReceiversType, NEW x \in Readers, NEW label \in ReaderLabels, Goto(x, label),
         label \in InCall => pc[x] \in InCall,
         label \in InFrom => pc[x] \in InFrom,
         UNCHANGED <<call, messages, given>>,
         label \notin InCall => messages[x] = <<>>
  PROVE  /\ pc' \in [Emitters \cup Readers -> ReaderLabels]
         /\ Others(x) /\ ReaderOK(x)'
<1>1. pc' = [pc EXCEPT ![x] = label]
  BY DEF Goto
<1>2. /\ pc' \in [Emitters \cup Readers -> ReaderLabels] /\ pc'[x] = label
      /\ \A y \in Readers \ {x} : pc'[y] = pc[y]
  BY <1>1, ReaderParts
<1>3. ReaderOK(x)
  BY ReaderParts
<1> QED BY <1>2, <1>3 DEF Others, ReaderOK

(* Steps that change neither what a reader was given nor what it holds *)
LEMMA KeptIsCut ==
  ASSUME ReceiversType, NEW x \in Readers, given'[x] = given[x],
         messages'[x] = messages[x], UNCHANGED <<queue, dropped>>,
         call'[x] = call[x] \/ messages[x] = <<>>
  PROVE  \E n : Cuts(x, n)
<1>1. Len(given[x]) \in Nat /\ Len(messages[x]) \in Nat /\ StreamLen(x) \in Nat
  BY ReceiverSizes
<1>2. StreamLen(x)' = StreamLen(x)
  BY DEF StreamLen
<1>3. \A k \in 1..StreamLen(x) : Nth(x, k)' = Nth(x, k)
  <2>1. CASE call'[x] = call[x]
    BY <2>1 DEF Nth, Source
  <2>2. CASE messages[x] = <<>>
    <3>1. StreamLen(x) = Len(given[x])
      BY <1>1, <2>2 DEF StreamLen
    <3> QED BY <1>1, <3>1 DEF Nth
  <2> QED BY <2>1, <2>2
<1> DEFINE n == StreamLen(x)
<1>4. \E m : m = n
  OBVIOUS
<1>5. PICK m : m = n
  BY <1>4
<1>6. Cuts(x, m)
  <2>1. (m + 1)..StreamLen(x) = {}
    BY <1>1, <1>5
  <2>2. {Nth(x, k) : k \in (m + 1)..StreamLen(x)} = {}
    BY <2>1
  <2> QED BY <1>1, <1>2, <1>3, <1>5, <2>2 DEF Cuts
<1> QED BY <1>6

LEMMA Sums ==
  ASSUME NEW g \in Nat, NEW j \in Nat, NEW m \in Nat, j <= m
  PROVE  /\ g + j \in 0..(g + m)
         /\ \A k \in 1..(g + j) : ~(k <= g) => k - g \in 1..j /\ k = g + (k - g)
         /\ \A k \in (j + 1)..m :
              g + k \in (g + j + 1)..(g + m) /\ ~(g + k <= g) /\ (g + k) - g = k
         /\ \A k \in (g + j + 1)..(g + m) :
              k - g \in (j + 1)..m /\ ~(k <= g) /\ k = g + (k - g)
         /\ \A k \in 1..(g + j) : k <= g => k \in 1..g
OBVIOUS

(* It gives the first j of what it holds; the call ends. *)
LEMMA GivenIsCut ==
  ASSUME ReceiversType, NEW x \in Readers, NEW j \in 0..Len(messages[x]),
         Len(given'[x]) = Len(given[x]) + j,
         \A k \in 1..Len(given[x]) : given'[x][k] = given[x][k],
         \A k \in 1..j : \A l : l = Len(given[x]) + k =>
           given'[x][l] = <<Source(x), messages[x][k]>>,
         messages'[x] = <<>>, queue' = queue,
         dropped' = dropped \cup {<<Source(x), messages[x][k]>> :
                                    k \in (j + 1)..Len(messages[x])}
  PROVE  \E n : Cuts(x, n)
<1>1. PICK g, m : g = Len(given[x]) /\ m = Len(messages[x])
  OBVIOUS
<1>2. g \in Nat /\ m \in Nat /\ StreamLen(x) = g + m /\ j \in Nat /\ j <= m
  BY <1>1, ReceiverSizes DEF StreamLen
<1>3. StreamLen(x)' = g + j
  <2>1. Len(messages'[x]) = 0
    OBVIOUS
  <2> QED BY <1>1, <1>2, <2>1 DEF StreamLen
<1>4. \A k \in 1..(g + j) : Nth(x, k)' = Nth(x, k)
  <2> SUFFICES ASSUME NEW k \in 1..(g + j) PROVE Nth(x, k)' = Nth(x, k)
    OBVIOUS
  <2>1. Nth(x, k)' = given'[x][k]
    BY <1>1, <1>2 DEF Nth
  <2>2. CASE k <= g
    <3>1. k \in 1..g
      BY <1>2, <2>2
    <3> QED BY <1>1, <2>1, <2>2, <3>1 DEF Nth
  <2>3. CASE ~(k <= g)
    <3>1. PICK i : i = k - g
      OBVIOUS
    <3>2. i \in 1..j /\ k = g + i
      BY <1>2, <2>3, <3>1, Sums
    <3>3. Nth(x, k) = <<Source(x), messages[x][i]>>
      BY <1>1, <2>3, <3>1 DEF Nth
    <3> QED BY <1>1, <2>1, <3>2, <3>3
  <2> QED BY <2>2, <2>3
<1>5. {<<Source(x), messages[x][k]>> : k \in (j + 1)..m}
        = {Nth(x, k) : k \in (g + j + 1)..(g + m)}
  <2>1. \A k \in (j + 1)..m :
          /\ g + k \in (g + j + 1)..(g + m)
          /\ Nth(x, g + k) = <<Source(x), messages[x][k]>>
    <3> SUFFICES ASSUME NEW k \in (j + 1)..m
                 PROVE  /\ g + k \in (g + j + 1)..(g + m)
                        /\ Nth(x, g + k) = <<Source(x), messages[x][k]>>
      OBVIOUS
    <3>1. g + k \in (g + j + 1)..(g + m) /\ ~(g + k <= g) /\ (g + k) - g = k
      BY <1>2, Sums
    <3> QED BY <1>1, <3>1 DEF Nth
  <2>2. \A k \in (g + j + 1)..(g + m) :
          /\ k - g \in (j + 1)..m
          /\ Nth(x, k) = <<Source(x), messages[x][k - g]>>
    <3> SUFFICES ASSUME NEW k \in (g + j + 1)..(g + m)
                 PROVE  /\ k - g \in (j + 1)..m
                        /\ Nth(x, k) = <<Source(x), messages[x][k - g]>>
      OBVIOUS
    <3>1. k - g \in (j + 1)..m /\ ~(k <= g)
      BY <1>2, Sums
    <3> QED BY <1>1, <3>1 DEF Nth
  <2> DEFINE F(k) == <<Source(x), messages[x][k]>>
             G(k) == Nth(x, k)
  <2>3. /\ \A k \in (j + 1)..m : \E i \in (g + j + 1)..(g + m) : F(k) = G(i)
        /\ \A k \in (g + j + 1)..(g + m) : \E i \in (j + 1)..m : F(i) = G(k)
    BY <2>1, <2>2
  <2> HIDE DEF F, G
  <2>4. {F(k) : k \in (j + 1)..m} = {G(k) : k \in (g + j + 1)..(g + m)}
    BY <2>3
  <2> QED BY <2>4 DEF F, G
<1>6. g + j \in 0..(g + m)
  BY <1>2, Sums
<1>7. Cuts(x, g + j)
  BY <1>1, <1>2, <1>3, <1>4, <1>5, <1>6 DEF Cuts
<1> QED BY <1>7

(* The handler is through with the first. *)
LEMMA HandledIsCut ==
  ASSUME ReceiversType, NEW x \in Readers, messages[x] # <<>>,
         Len(given'[x]) = Len(given[x]) + 1,
         \A k \in 1..Len(given[x]) : given'[x][k] = given[x][k],
         \A l : l = Len(given[x]) + 1 =>
           given'[x][l] = <<Source(x), messages[x][1]>>,
         messages'[x] = Tail(messages[x]), call'[x] = call[x],
         queue' = queue, dropped' = dropped
  PROVE  \E n : Cuts(x, n)
<1>1. PICK g, m : g = Len(given[x]) /\ m = Len(messages[x])
  OBVIOUS
<1>2. g \in Nat /\ m \in Nat /\ StreamLen(x) = g + m /\ messages[x] \in Seq(Nat)
  BY <1>1, ReceiverSizes, ReaderParts DEF StreamLen
<1>3. /\ m >= 1 /\ Len(Tail(messages[x])) = m - 1
      /\ \A k \in 1..(m - 1) : Tail(messages[x])[k] = messages[x][k + 1]
  BY <1>1, <1>2
<1>4. StreamLen(x)' = g + m
  <2>1. StreamLen(x)' = (g + 1) + (m - 1)
    BY <1>1, <1>3 DEF StreamLen
  <2> QED BY <1>2, <1>3, <2>1
<1>5. \A k \in 1..(g + m) : Nth(x, k)' = Nth(x, k)
  <2> SUFFICES ASSUME NEW k \in 1..(g + m) PROVE Nth(x, k)' = Nth(x, k)
    OBVIOUS
  <2>1. CASE k <= g
    <3>1. k \in 1..g /\ k <= g + 1
      BY <1>2, <2>1
    <3> QED BY <1>1, <2>1, <3>1 DEF Nth
  <2>2. CASE k = g + 1
    <3>1. ~(k <= g) /\ k - g = 1 /\ k <= g + 1
      BY <1>2, <2>2
    <3>2. Nth(x, k)' = given'[x][k]
      BY <1>1, <3>1 DEF Nth
    <3>3. Nth(x, k) = <<Source(x), messages[x][1]>>
      BY <1>1, <3>1 DEF Nth
    <3> QED BY <1>1, <2>2, <3>2, <3>3
  <2>3. CASE k > g + 1
    <3>1. PICK i : i = k - (g + 1)
      OBVIOUS
    <3>2. ~(k <= g) /\ ~(k <= g + 1) /\ k - g = i + 1 /\ i \in 1..(m - 1)
      <4>1. g \in Nat /\ m \in Nat /\ k \in 1..(g + m)
        BY <1>2
      <4> QED BY ONLY <2>3, <3>1, <4>1
    <3>3. Nth(x, k)' = <<Source(x)', messages'[x][i]>>
      BY <1>1, <3>1, <3>2 DEF Nth
    <3>4. Nth(x, k) = <<Source(x), messages[x][i + 1]>>
      BY <1>1, <3>2 DEF Nth
    <3>5. Source(x)' = Source(x)
      BY DEF Source
    <3> QED BY <1>3, <3>2, <3>3, <3>4, <3>5
  <2> QED BY <1>2, <2>1, <2>2, <2>3
<1>6. {Nth(x, k) : k \in (g + m + 1)..(g + m)} = {}
  <2>1. (g + m + 1)..(g + m) = {}
    BY <1>2
  <2> QED BY <2>1
<1>7. g + m \in 0..(g + m)
  BY <1>2
<1>8. Cuts(x, g + m)
  BY <1>2, <1>4, <1>5, <1>6, <1>7 DEF Cuts
<1> QED BY <1>8

------------------------------------------------------------------------------
(* The calls a reader can make *)

CallOK(c) ==
  /\ c \in ReadCalls /\ c.from # <<>> /\ c.kind \in {"batch", "handled", "from"}
  /\ c.batch.min <= c.batch.max
  /\ c.batch.single => c.batch.max = 1

LEMMA BatchesTyped ==
  \A b \in ThreadCalls \cup TaskCalls :
    /\ b \in [min : Nat, max : Nat, single : BOOLEAN]
    /\ b.min <= b.max
    /\ b.single => b.max = 1
<1>1. MaxMessages \in Nat /\ Bounds \subseteq Nat \X Nat
  BY ReceiversAssumption
<1>2. \A m, n \in Nat : /\ Batch(m, n) \in [min : Nat, max : Nat, single : BOOLEAN]
                        /\ ~Batch(m, n).single
                        /\ Batch(m, n).min = m /\ Batch(m, n).max = n
  BY DEF Batch
<1>3. \A b \in {Receive, ReceiveNowait, AsyncReceive, AsyncReceiveNowait} :
        b \in [min : Nat, max : Nat, single : BOOLEAN] /\ b.max = 1 /\ b.min <= b.max
  <2>1. /\ Receive \in [min : Nat, max : Nat, single : BOOLEAN]
        /\ Receive.max = 1 /\ Receive.min = 1
    BY DEF Receive
  <2>2. /\ ReceiveNowait \in [min : Nat, max : Nat, single : BOOLEAN]
        /\ ReceiveNowait.max = 1 /\ ReceiveNowait.min = 0
    BY DEF ReceiveNowait
  <2>3. AsyncReceive = Receive /\ AsyncReceiveNowait = ReceiveNowait
    BY DEF Receive, ReceiveNowait, AsyncReceive, AsyncReceiveNowait
  <2> QED BY <2>1, <2>2, <2>3
<1>4. \A b \in ReceiveBatches \cup AsyncReceiveBatches :
        \E m, n \in Nat : m <= n /\ b = Batch(m, n)
  <2>1. \A b \in Bounds : b[1] \in Nat /\ b[2] \in Nat
    BY <1>1
  <2> QED BY <2>1 DEF ReceiveBatches, AsyncReceiveBatches
<1>5. \A count \in 1..MaxMessages :
        /\ \E m, n \in Nat : m <= n /\ ReceiveMany(count) = Batch(m, n)
        /\ \E m, n \in Nat : m <= n /\ AsyncReceiveMany(count) = Batch(m, n)
  BY <1>1 DEF ReceiveMany, AsyncReceiveMany
<1>6. /\ \E m, n \in Nat : m <= n /\ ReceiveAvailable = Batch(m, n)
      /\ \E m, n \in Nat : m <= n /\ AsyncReceiveAvailable = Batch(m, n)
  <2>1. NoLimit \in Nat
    BY <1>1 DEF NoLimit
  <2> QED BY <2>1 DEF ReceiveAvailable, AsyncReceiveAvailable
<1>7. ASSUME NEW b \in ThreadCalls \cup TaskCalls
      PROVE  \/ b \in {Receive, ReceiveNowait, AsyncReceive, AsyncReceiveNowait}
             \/ \E m, n \in Nat : m <= n /\ b = Batch(m, n)
  <2>1. CASE b \in ThreadCalls
    BY <1>4, <1>5, <1>6, <2>1 DEF ThreadCalls
  <2>2. CASE b \in TaskCalls
    BY <1>4, <1>5, <1>6, <2>2 DEF TaskCalls
  <2> QED BY <2>1, <2>2
<1>8. ASSUME NEW b, \E m, n \in Nat : m <= n /\ b = Batch(m, n)
      PROVE  /\ b \in [min : Nat, max : Nat, single : BOOLEAN] /\ ~b.single
             /\ b.min <= b.max
  BY <1>2, <1>8
<1>9. ASSUME NEW b \in ThreadCalls \cup TaskCalls
      PROVE  /\ b \in [min : Nat, max : Nat, single : BOOLEAN]
             /\ b.min <= b.max
             /\ b.single => b.max = 1
  <2>1. CASE \E m, n \in Nat : m <= n /\ b = Batch(m, n)
    BY <1>8, <2>1
  <2>2. CASE b \in {Receive, ReceiveNowait, AsyncReceive, AsyncReceiveNowait}
    BY <1>3, <2>2
  <2> QED BY <1>7, <2>1, <2>2
<1> QED BY <1>9

LEMMA CallsTyped ==
  ASSUME ReceiversType
  PROVE  /\ \A c \in RunReceiverBatch \cup RunAsyncReceiverBatch : CallOK(c)
         /\ \A s \in Selections :
              CallOK([kind |-> "from", from |-> s, batch |-> Receive])
<1>1. subscribed \subseteq Receivers
  BY DEF ReceiversType
<1>2. /\ ReceiveBatches \subseteq ThreadCalls
      /\ AsyncReceiveBatches \subseteq TaskCalls
  BY DEF ThreadCalls, TaskCalls
<1>3. \A r \in subscribed : <<r>> \in Seq(Receivers) /\ <<r>> # <<>>
  BY <1>1
<1>4. ASSUME NEW c \in RunReceiverBatch \cup RunAsyncReceiverBatch
      PROVE  CallOK(c)
  <2>1. \E r \in subscribed : \E b \in ThreadCalls \cup TaskCalls :
          \E k \in {"batch", "handled"} : c = [kind |-> k, from |-> <<r>>, batch |-> b]
    BY <1>2 DEF RunReceiverBatch, RunAsyncReceiverBatch, Calls
  <2> QED BY <1>3, <2>1, BatchesTyped DEF CallOK, ReadCalls
<1>5. ASSUME NEW s \in Selections
      PROVE  CallOK([kind |-> "from", from |-> s, batch |-> Receive])
  <2>1. s # <<>> /\ s \in SeqOf(subscribed, Cardinality(subscribed))
    BY DEF Selections
  <2>2. PICK m \in 0..Cardinality(subscribed) : s \in [1..m -> subscribed]
    BY <2>1 DEF SeqOf
  <2>3. m \in Nat
    OBVIOUS
  <2>4. s \in Seq(Receivers)
    BY <1>1, <2>2, <2>3
  <2> QED BY <2>1, <2>4 DEF CallOK, ReadCalls, Receive
<1> QED BY <1>4, <1>5

LEMMA CallStarts ==
  ASSUME ReceiversInv, NEW x \in Readers, NEW c, CallOK(c), StartCall(x, c),
         NEW label \in {"get", "enter"}, Goto(x, label),
         UNCHANGED <<subscribed, queue, delivered, matching, message, emitted, turn,
                     given, dropped>>
  PROVE  ReceiversInv'
<1>1. ReceiversType
  BY DEF ReceiversInv
<1>2. /\ pc' = [pc EXCEPT ![x] = label] /\ call' = [call EXCEPT ![x] = c]
      /\ messages' = [messages EXCEPT ![x] = <<>>] /\ pc[x] = "idle"
  BY DEF StartCall, Goto
<1>3. /\ pc' \in [Emitters \cup Readers -> ReaderLabels] /\ call' \in [Readers -> ReadCalls]
      /\ messages' \in [Readers -> Seq(Nat)]
      /\ pc'[x] = label /\ call'[x] = c /\ messages'[x] = <<>>
      /\ Others(x)
  BY <1>1, <1>2, ReaderParts DEF CallOK, ReaderLabels, InCall, InFrom, Others
<1>4. messages[x] = <<>>
  BY <1>1, <1>2, ReaderParts DEF ReaderOK, InCall
<1>5. ReaderOK(x)'
  <2>1. Len(messages'[x]) <= c.batch.max
    <3>1. Len(messages'[x]) = 0 /\ c.batch.max \in Nat
      BY <1>3 DEF CallOK, ReadCalls
    <3> QED BY <3>1
  <2> QED BY <1>3, <2>1 DEF ReaderOK, CallOK
<1>6. ReceiversType'
  BY <1>1, <1>3, <1>5, ReaderTyped, ReaderParts
<1>7. \E n : Cuts(x, n)
  BY <1>1, <1>3, <1>4, KeptIsCut
<1> QED BY <1>3, <1>6, <1>7, ReaderKeeps

LEMMA StartsKeep ==
  ASSUME ReceiversInv, NEW x \in Readers,
         BatchCall(x) \/ AsyncBatchCall(x) \/ ReceiveFromCall(x)
  PROVE  ReceiversInv'
<1>1. ReceiversType
  BY DEF ReceiversInv
<1>2. \E c, label : /\ CallOK(c) /\ StartCall(x, c) /\ label \in {"get", "enter"}
                    /\ Goto(x, label)
  <2>1. CASE BatchCall(x)
    BY <1>1, <2>1, CallsTyped DEF BatchCall
  <2>2. CASE AsyncBatchCall(x)
    BY <1>1, <2>2, CallsTyped DEF AsyncBatchCall
  <2>3. CASE ReceiveFromCall(x)
    BY <1>1, <2>3, CallsTyped DEF ReceiveFromCall
  <2> QED BY <2>1, <2>2, <2>3
<1>3. UNCHANGED <<subscribed, queue, delivered, matching, message, emitted, turn,
                  given, dropped>>
  BY DEF BatchCall, AsyncBatchCall, ReceiveFromCall, busVars, emitterVars,
         resultVars
<1> QED BY <1>2, <1>3, CallStarts

(* Steps that only move a reader *)
LEMMA MovesKeep ==
  ASSUME ReceiversInv, NEW x \in Readers, NEW label \in ReaderLabels, Goto(x, label),
         label \in InCall => pc[x] \in InCall,
         label \in InFrom => pc[x] \in InFrom,
         label \notin InCall => messages[x] = <<>>,
         UNCHANGED <<subscribed, queue, delivered, matching, message, emitted, call,
                     messages, given, dropped>>,
         turn' \in [Readers -> Nat \ {0}]
  PROVE  ReceiversInv'
<1>1. ReceiversType
  BY DEF ReceiversInv
<1>2. /\ pc' \in [Emitters \cup Readers -> ReaderLabels]
      /\ Others(x) /\ ReaderOK(x)'
  BY <1>1, ReaderGoes
<1>3. ReceiversType'
  BY <1>1, <1>2, ReaderTyped, ReaderParts
<1>4. \E n : Cuts(x, n)
  BY <1>1, KeptIsCut
<1> QED BY <1>2, <1>3, <1>4, ReaderKeeps

(* A call ends that hands over the first j of what it holds and drops the rest. *)
LEMMA CutCallKeeps ==
  ASSUME ReceiversInv, NEW x \in Readers, NEW j \in 0..Len(messages[x]),
         pc[x] \in InCall \cup InFrom,
         EndCall(x), given' \in [Readers -> Seq(Receivers \X Nat)],
         \A y \in Readers \ {x} : given'[y] = given[y],
         Len(given'[x]) = Len(given[x]) + j,
         \A k \in 1..Len(given[x]) : given'[x][k] = given[x][k],
         \A k \in 1..j : \A l : l = Len(given[x]) + k =>
           given'[x][l] = <<Source(x), messages[x][k]>>,
         dropped' = dropped \cup {<<Source(x), messages[x][k]>> :
                                    k \in (j + 1)..Len(messages[x])},
         UNCHANGED <<subscribed, queue, delivered, matching, message, emitted, turn>>
  PROVE  ReceiversInv'
<1>1. ReceiversType
  BY DEF ReceiversInv
<1>2. /\ pc' \in [Emitters \cup Readers -> ReaderLabels] /\ call' \in [Readers -> ReadCalls]
      /\ messages' \in [Readers -> Seq(Nat)] /\ messages'[x] = <<>>
      /\ ReaderOK(x)' /\ Others(x)
  BY <1>1, CallEnded DEF Others
<1>3. Source(x) \in Receivers /\ messages[x] \in Seq(Nat)
  BY <1>1, ReaderParts
<1>4. \A k \in (j + 1)..Len(messages[x]) : messages[x][k] \in Nat
  BY <1>3
<1>5. dropped' \subseteq Receivers \X Nat
  BY <1>1, <1>3, <1>4, ReaderParts
<1>6. ReceiversType'
  BY <1>1, <1>2, <1>5, ReaderTyped, ReaderParts
<1>7. \E n : Cuts(x, n)
  BY <1>1, <1>2, GivenIsCut
<1> QED BY <1>2, <1>6, <1>7, ReaderKeeps

LEMMA ReturnedAll ==
  ASSUME NEW c, NEW list \in Seq(Nat), c.single => c.max = 1, Len(list) <= c.max
  PROVE  /\ Returned(c, list) \in Seq(Nat) /\ Len(Returned(c, list)) = Len(list)
         /\ \A k \in 1..Len(list) : Returned(c, list)[k] = list[k]
<1>1. CASE c.single /\ list # <<>>
  <2>1. Len(list) = 1 /\ list[1] \in Nat /\ Head(list) = list[1]
    <3>1. Len(list) \in Nat /\ Len(list) # 0 /\ Len(list) <= 1
      BY <1>1
    <3>2. Len(list) = 1
      BY <3>1
    <3>3. 1 \in 1..Len(list)
      BY <3>2
    <3>4. list[1] \in Nat
      BY <3>3
    <3>5. Head(list) = list[1]
      BY <1>1
    <3> QED BY <3>2, <3>4, <3>5
  <2>2. Returned(c, list) = <<list[1]>>
    BY <1>1, <2>1 DEF Returned
  <2> QED BY <2>1, <2>2
<1>2. CASE ~(c.single /\ list # <<>>)
  BY <1>2 DEF Returned
<1> QED BY <1>1, <1>2

LEMMA BatchReturnKeeps ==
  ASSUME ReceiversInv, NEW x \in Readers, BatchReturn(x)
  PROVE  ReceiversInv'
<1>1. ReceiversType
  BY DEF ReceiversInv
<1>2. /\ pc[x] = "get" /\ pc[x] \in InCall
      /\ UNCHANGED <<subscribed, queue, delivered, matching, message, emitted, turn,
                     dropped>>
  BY DEF BatchReturn, busVars, emitterVars, InCall
<1>3. CASE call[x].kind = "handled"
  <2>1. Goto(x, "handle") /\ UNCHANGED <<call, messages, given>>
    BY <1>3 DEF BatchReturn
  <2>2. "handle" \in ReaderLabels /\ "handle" \in InCall /\ "handle" \notin InFrom
    BY DEF ReaderLabels, InCall, InFrom
  <2>3. turn' \in [Readers -> Nat \ {0}]
    BY <1>1, <1>2, ReaderParts
  <2> QED BY <1>2, <2>1, <2>2, <2>3, MovesKeep
<1>4. CASE call[x].kind # "handled"
  <2> DEFINE list == Returned(call[x].batch, messages[x])
  <2>1. EndCall(x) /\ Give(x, Source(x), list)
    BY <1>4 DEF BatchReturn
  <2>2. /\ messages[x] \in Seq(Nat) /\ Source(x) \in Receivers
        /\ call[x].batch.single => call[x].batch.max = 1
        /\ Len(messages[x]) <= call[x].batch.max
    BY <1>1, <1>2, ReaderParts DEF ReaderOK
  <2>3. /\ list \in Seq(Nat) /\ Len(list) = Len(messages[x])
        /\ \A k \in 1..Len(messages[x]) : list[k] = messages[x][k]
    BY <2>2, ReturnedAll
  <2> HIDE DEF list
  <2>4. /\ given' \in [Readers -> Seq(Receivers \X Nat)]
        /\ \A y \in Readers \ {x} : given'[y] = given[y]
        /\ Len(given'[x]) = Len(given[x]) + Len(messages[x])
        /\ \A k \in 1..Len(given[x]) : given'[x][k] = given[x][k]
        /\ \A k \in 1..Len(messages[x]) : \A l : l = Len(given[x]) + k =>
             given'[x][l] = <<Source(x), messages[x][k]>>
    <3>1. /\ given' \in [Readers -> Seq(Receivers \X Nat)]
          /\ \A y \in Readers \ {x} : given'[y] = given[y]
          /\ Len(given'[x]) = Len(given[x]) + Len(list)
          /\ \A k \in 1..Len(given[x]) : given'[x][k] = given[x][k]
          /\ \A k \in 1..Len(list) : \A l : l = Len(given[x]) + k =>
               given'[x][l] = <<Source(x), list[k]>>
      BY <1>1, <2>1, <2>2, <2>3, GivenOn
    <3> QED BY <2>3, <3>1
  <2>5. Len(messages[x]) \in 0..Len(messages[x])
    BY <2>2
  <2>6. dropped' = dropped \cup {<<Source(x), messages[x][k]>> :
                     k \in (Len(messages[x]) + 1)..Len(messages[x])}
    <3>1. (Len(messages[x]) + 1)..Len(messages[x]) = {}
      BY <2>2
    <3> QED BY <1>2, <3>1
  <2> QED BY <1>2, <2>1, <2>4, <2>5, <2>6, CutCallKeeps
<1> QED BY <1>3, <1>4

LEMMA HandleMessageKeeps ==
  ASSUME ReceiversInv, NEW x \in Readers, HandleMessage(x)
  PROVE  ReceiversInv'
<1>1. ReceiversType
  BY DEF ReceiversInv
<1>2. /\ pc[x] = "handle" /\ pc[x] \in InCall /\ messages[x] # <<>>
      /\ UNCHANGED <<subscribed, queue, delivered, matching, message, emitted, turn>>
      /\ Give(x, Source(x), <<Head(messages[x])>>)
  BY DEF HandleMessage, busVars, emitterVars, InCall
<1>3. /\ messages[x] \in Seq(Nat) /\ Source(x) \in Receivers
      /\ Len(messages[x]) \in Nat /\ Len(messages[x]) >= 1
      /\ messages[x][1] \in Nat /\ Head(messages[x]) = messages[x][1]
      /\ Tail(messages[x]) \in Seq(Nat)
      /\ Len(Tail(messages[x])) = Len(messages[x]) - 1
      /\ \A k \in 1..(Len(messages[x]) - 1) : Tail(messages[x])[k] = messages[x][k + 1]
  <2>1. messages[x] \in Seq(Nat) /\ Source(x) \in Receivers
    BY <1>1, <1>2, ReaderParts
  <2>2. Len(messages[x]) \in Nat /\ Len(messages[x]) >= 1
    BY <1>2, <2>1
  <2> QED BY <1>2, <2>1, <2>2
<1>4. /\ given' \in [Readers -> Seq(Receivers \X Nat)]
      /\ \A y \in Readers \ {x} : given'[y] = given[y]
      /\ Len(given'[x]) = Len(given[x]) + 1
      /\ \A k \in 1..Len(given[x]) : given'[x][k] = given[x][k]
      /\ \A l : l = Len(given[x]) + 1 => given'[x][l] = <<Source(x), messages[x][1]>>
  <2> DEFINE list == <<messages[x][1]>>
  <2>1. list \in Seq(Nat) /\ Len(list) = 1 /\ list[1] = messages[x][1]
    BY <1>3
  <2>2. Give(x, Source(x), list)
    BY <1>2, <1>3
  <2> HIDE DEF list
  <2>3. /\ given' \in [Readers -> Seq(Receivers \X Nat)]
        /\ \A y \in Readers \ {x} : given'[y] = given[y]
        /\ Len(given'[x]) = Len(given[x]) + Len(list)
        /\ \A k \in 1..Len(given[x]) : given'[x][k] = given[x][k]
        /\ \A k \in 1..Len(list) : \A l : l = Len(given[x]) + k =>
             given'[x][l] = <<Source(x), list[k]>>
    BY <1>1, <1>3, <2>1, <2>2, GivenOn
  <2>4. 1 \in 1..Len(list)
    BY <2>1
  <2> QED BY <2>1, <2>3, <2>4
<1>5. CASE /\ messages' = [messages EXCEPT ![x] = Tail(@)]
           /\ UNCHANGED <<pc, call, dropped>>
  <2>1. /\ messages' \in [Readers -> Seq(Nat)] /\ messages'[x] = Tail(messages[x])
        /\ \A y \in Readers \ {x} : messages'[y] = messages[y]
    BY <1>1, <1>3, <1>5, ReaderParts
  <2>2. Others(x)
    BY <1>4, <1>5, <2>1 DEF Others
  <2>3. ReaderOK(x)'
    <3>1. ReaderOK(x) /\ call[x].batch.max \in Nat
      BY <1>1, ReaderParts DEF ReadCalls
    <3>2. Len(Tail(messages[x])) <= call[x].batch.max
      BY <1>2, <1>3, <3>1 DEF ReaderOK
    <3> QED BY <1>2, <1>5, <2>1, <3>1, <3>2 DEF ReaderOK
  <2>4. ReceiversType'
    BY <1>1, <1>2, <1>4, <1>5, <2>1, <2>2, <2>3, ReaderTyped, ReaderParts
  <2>5. \E n : Cuts(x, n)
    BY <1>1, <1>2, <1>4, <1>5, <2>1, HandledIsCut
  <2> QED BY <1>2, <2>2, <2>4, <2>5, ReaderKeeps
<1>6. CASE /\ EndCall(x)
           /\ dropped' = dropped \cup
                {<<Source(x), m>> : m \in Range(Tail(messages[x]))}
  <2>1. {<<Source(x), m>> : m \in Range(Tail(messages[x]))}
          = {<<Source(x), messages[x][k]>> : k \in (1 + 1)..Len(messages[x])}
    <3>1. Range(Tail(messages[x])) = {messages[x][k] : k \in (1 + 1)..Len(messages[x])}
      <4>1. DOMAIN Tail(messages[x]) = 1..(Len(messages[x]) - 1)
        BY <1>3
      <4>2. Range(Tail(messages[x])) =
            {Tail(messages[x])[k] : k \in 1..(Len(messages[x]) - 1)}
        BY <4>1 DEF Range
      <4>3. /\ \A k \in 1..(Len(messages[x]) - 1) : k + 1 \in (1 + 1)..Len(messages[x])
            /\ \A k \in (1 + 1)..Len(messages[x]) :
                 k - 1 \in 1..(Len(messages[x]) - 1) /\ (k - 1) + 1 = k
        BY <1>3
      <4>4. /\ \A k \in 1..(Len(messages[x]) - 1) : \E i \in (1 + 1)..Len(messages[x]) :
                 Tail(messages[x])[k] = messages[x][i]
            /\ \A k \in (1 + 1)..Len(messages[x]) :
                 \E i \in 1..(Len(messages[x]) - 1) : Tail(messages[x])[i] = messages[x][k]
        BY <1>3, <4>3
      <4> DEFINE F(k) == Tail(messages[x])[k]
                 G(k) == messages[x][k]
      <4>5. /\ \A k \in 1..(Len(messages[x]) - 1) :
                 \E i \in (1 + 1)..Len(messages[x]) : F(k) = G(i)
            /\ \A k \in (1 + 1)..Len(messages[x]) :
                 \E i \in 1..(Len(messages[x]) - 1) : F(i) = G(k)
        BY <4>4
      <4> HIDE DEF F, G
      <4>6. {F(k) : k \in 1..(Len(messages[x]) - 1)}
              = {G(k) : k \in (1 + 1)..Len(messages[x])}
        BY <4>5
      <4> QED BY <4>2, <4>6 DEF F, G
    <3> QED BY <3>1
  <2>2. 1 \in 0..Len(messages[x])
    BY <1>3
  <2>3. \A k \in 1..1 : \A l : l = Len(given[x]) + k =>
          given'[x][l] = <<Source(x), messages[x][k]>>
    BY <1>4
  <2> QED BY <1>2, <1>4, <1>6, <2>1, <2>2, <2>3, CutCallKeeps
<1> QED BY <1>5, <1>6 DEF HandleMessage

LEMMA EndsKeep ==
  ASSUME ReceiversInv, NEW x \in Readers, HandleReturn(x) \/ Cancel(x)
  PROVE  ReceiversInv'
<1>1. ReceiversType
  BY DEF ReceiversInv
<1>2. /\ pc[x] \in InCall \cup InFrom /\ EndCall(x) /\ given' = given
      /\ UNCHANGED <<subscribed, queue, delivered, matching, message, emitted, turn>>
  BY DEF HandleReturn, Cancel, busVars, emitterVars, resultVars, InCall,
         InFrom
<1>3. /\ messages[x] \in Seq(Nat) /\ Len(messages[x]) \in Nat
      /\ DOMAIN messages[x] = 1..Len(messages[x])
      /\ Len(given[x]) \in Nat /\ given \in [Readers -> Seq(Receivers \X Nat)]
  BY <1>1, ReaderParts, ReceiverSizes
<1>4. dropped' = dropped \cup {<<Source(x), messages[x][k]>> :
                                 k \in (0 + 1)..Len(messages[x])}
  <2>1. CASE HandleReturn(x)
    <3>1. dropped' = dropped /\ messages[x] = <<>>
      BY <2>1 DEF HandleReturn, resultVars
    <3>2. (0 + 1)..Len(messages[x]) = {}
      BY <3>1
    <3> QED BY <3>1, <3>2
  <2>2. CASE Cancel(x)
    <3>1. dropped' = dropped \cup {<<Source(x), m>> : m \in Range(messages[x])}
      BY <2>2 DEF Cancel
    <3>2. Range(messages[x]) = {messages[x][k] : k \in (0 + 1)..Len(messages[x])}
      BY <1>3 DEF Range
    <3> QED BY <3>1, <3>2
  <2> QED BY <2>1, <2>2
<1>5. Len(given'[x]) = Len(given[x]) + 0 /\ 0 \in 0..Len(messages[x])
  BY <1>2, <1>3
<1>6. \A k \in 1..0 : \A l : l = Len(given[x]) + k =>
          given'[x][l] = <<Source(x), messages[x][k]>>
  OBVIOUS
<1> QED BY <1>2, <1>3, <1>4, <1>5, <1>6, CutCallKeeps

(* A reader that enters, waits or wakes *)
LEMMA WaitsKeep ==
  ASSUME ReceiversInv, NEW x \in Readers,
         \/ MonitorEnter(x) \/ MonitorWait(x) \/ MonitorWake(x)
         \/ AsyncReceiveFrom(x) /\ AsyncClearAndWait(x)
            /\ UNCHANGED <<queue, given, call, messages>>
         \/ AsyncWake(x) /\ AsyncClearAndWait(x)
            /\ UNCHANGED <<queue, given, call, messages>>
  PROVE  ReceiversInv'
<1>1. ReceiversType
  BY DEF ReceiversInv
<1>2. UNCHANGED <<subscribed, queue, delivered, matching, message, emitted, call,
                  messages, given, dropped>>
  BY DEF MonitorEnter, MonitorWait, MonitorWake, AsyncReceiveFrom,
         AsyncWake, busVars, emitterVars, resultVars
<1>3. /\ pc[x] \in {"enter", "look", "waiting"}
      /\ Goto(x, "look") \/ Goto(x, "waiting")
      /\ turn' = turn \/ turn' = [turn EXCEPT ![x] = 1]
  BY DEF MonitorEnter, MonitorWait, MonitorWake, BeginLook, AsyncReceiveFrom,
         AsyncWake, AsyncClearAndWait
<1>4. turn' \in [Readers -> Nat \ {0}]
  BY <1>1, <1>3, ReaderParts
<1>5. /\ {"look", "waiting"} \subseteq ReaderLabels /\ {"look", "waiting"} \subseteq InFrom
      /\ pc[x] \in InFrom /\ pc[x] \notin InCall
      /\ "look" \notin InCall /\ "waiting" \notin InCall
  BY <1>3 DEF ReaderLabels, InCall, InFrom
<1>6. messages[x] = <<>>
  BY <1>1, <1>5, ReaderParts DEF ReaderOK
<1> QED BY <1>2, <1>3, <1>4, <1>5, <1>6, MovesKeep

(* It takes n messages into its hand. *)
LEMMA HoldKeeps ==
  ASSUME ReceiversInv, NEW x \in Readers, NEW r, r = Source(x), pc[x] \in InCall,
         NEW n \in 0..Len(queue[r]), Len(messages[x]) + n <= call[x].batch.max,
         queue' = [queue EXCEPT ![r] = SubSeq(@, n + 1, Len(@))],
         messages' = [messages EXCEPT ![x] = messages[x] \o SubSeq(queue[r], 1, n)],
         pc' = pc \/ \E label \in InCall : Goto(x, label),
         UNCHANGED <<subscribed, delivered, matching, message, emitted, turn, call,
                     given, dropped>>
  PROVE  ReceiversInv'
<1>1. ReceiversType
  BY DEF ReceiversInv
<1>2. /\ r \in Receivers /\ messages[x] \in Seq(Nat) /\ queue[r] \in Seq(Nat)
      /\ pc \in [Emitters \cup Readers -> ReaderLabels] /\ ReaderOK(x)
      /\ messages \in [Readers -> Seq(Nat)] /\ queue \in [Receivers -> Seq(Nat)]
  BY <1>1, ReaderParts
<1> DEFINE longer == messages[x] \o SubSeq(queue[r], 1, n)
<1>3. /\ longer \in Seq(Nat) /\ Len(longer) = Len(messages[x]) + n
      /\ \A k \in 1..Len(messages[x]) : longer[k] = messages[x][k]
      /\ \A k \in 1..n : longer[Len(messages[x]) + k] = queue[r][k]
  BY <1>2, TakenOnto
<1> HIDE DEF longer
<1>4. /\ messages' \in [Readers -> Seq(Nat)] /\ messages'[x] = longer
      /\ \A y \in Readers \ {x} : messages'[y] = messages[y]
  <2>1. messages' = [messages EXCEPT ![x] = longer]
    BY DEF longer
  <2> QED BY <1>2, <1>3, <2>1
<1>5. /\ pc' \in [Emitters \cup Readers -> ReaderLabels] /\ pc'[x] \in InCall
      /\ \A y \in Readers \ {x} : pc'[y] = pc[y]
  BY <1>2 DEF Goto, ReaderLabels
<1>6. queue' \in [Receivers -> Seq(Nat)]
  <2>1. SubSeq(queue[r], n + 1, Len(queue[r])) \in Seq(Nat)
    BY <1>2, RestOf
  <2> QED BY <1>2, <2>1
<1>7. Others(x) /\ ReaderOK(x)'
  <2>1. ReaderOK(x)'
    BY <1>2, <1>3, <1>4, <1>5 DEF ReaderOK, InCall, InFrom
  <2> QED BY <1>4, <1>5, <2>1 DEF Others
<1>8. ReceiversType'
  BY <1>1, <1>4, <1>5, <1>6, <1>7, ReaderTyped, ReaderParts
<1>9. PICK g, m : g = Len(given[x]) /\ m = Len(messages[x])
  OBVIOUS
<1>10. g \in Nat /\ m \in Nat /\ n \in Nat /\ StreamLen(x) = g + m
  BY <1>1, <1>2, <1>9, ReceiverSizes DEF StreamLen
<1>11. /\ g + (m + n) = (g + m) + n
       /\ \A k \in 1..(g + m) : ~(k <= g) => k - g \in 1..m
       /\ \A k \in 1..n : ~((g + m) + k <= g) /\ ((g + m) + k) - g = m + k
  BY <1>10
<1>12. StreamLen(x)' = (g + m) + n
  BY <1>3, <1>4, <1>9, <1>11 DEF StreamLen
<1>13. Source(x)' = r
  BY DEF Source
<1>14. \A k \in 1..(g + m) : Nth(x, k)' = Nth(x, k)
  BY <1>3, <1>4, <1>9, <1>11, <1>13 DEF Nth
<1>15. \A k \in 1..n : \A l : l = (g + m) + k => Nth(x, l)' = <<r, queue[r][k]>>
  <2> SUFFICES ASSUME NEW k \in 1..n, NEW l, l = (g + m) + k
               PROVE  Nth(x, l)' = <<r, queue[r][k]>>
    OBVIOUS
  <2>1. ~(l <= g) /\ l - g = m + k
    BY <1>11
  <2>2. Nth(x, l)' = <<Source(x)', messages'[x][l - g]>>
    BY <1>9, <2>1 DEF Nth
  <2> QED BY <1>3, <1>4, <1>9, <1>13, <2>1, <2>2
<1>16. Takes(x, r, n)
  BY <1>2, <1>10, <1>12, <1>14, <1>15 DEF Takes
<1> QED BY <1>7, <1>8, <1>16, ReaderKeeps

(* It takes n messages and hands them over behind what its call held. *)
LEMMA HandOverKeeps ==
  ASSUME ReceiversInv, NEW x \in Readers, NEW r \in Receivers,
         pc[x] \in InCall \cup InFrom,
         NEW n \in 0..Len(queue[r]), NEW list \in Seq(Nat),
         Len(list) = Len(messages[x]) + n,
         \A k \in 1..Len(messages[x]) : list[k] = messages[x][k],
         \A k \in 1..n : \A l : l = Len(messages[x]) + k => list[l] = queue[r][k],
         messages[x] = <<>> \/ r = Source(x),
         queue' = [queue EXCEPT ![r] = SubSeq(@, n + 1, Len(@))],
         EndCall(x), Give(x, r, list), turn' \in [Readers -> Nat \ {0}],
         UNCHANGED <<subscribed, delivered, matching, message, emitted, dropped>>
  PROVE  ReceiversInv'
<1>1. ReceiversType
  BY DEF ReceiversInv
<1>2. /\ messages[x] \in Seq(Nat) /\ queue[r] \in Seq(Nat)
      /\ queue \in [Receivers -> Seq(Nat)]
  BY <1>1, ReaderParts
<1>3. /\ pc' \in [Emitters \cup Readers -> ReaderLabels] /\ call' \in [Readers -> ReadCalls]
      /\ messages' \in [Readers -> Seq(Nat)] /\ messages'[x] = <<>> /\ ReaderOK(x)'
      /\ \A y \in Readers \ {x} : /\ pc'[y] = pc[y] /\ call'[y] = call[y]
                                  /\ messages'[y] = messages[y]
  BY <1>1, CallEnded
<1>4. /\ given' \in [Readers -> Seq(Receivers \X Nat)]
      /\ \A y \in Readers \ {x} : given'[y] = given[y]
      /\ Len(given'[x]) = Len(given[x]) + Len(list)
      /\ \A k \in 1..Len(given[x]) : given'[x][k] = given[x][k]
      /\ \A k \in 1..Len(list) : \A l : l = Len(given[x]) + k =>
           given'[x][l] = <<r, list[k]>>
  BY <1>1, GivenOn
<1>5. queue' \in [Receivers -> Seq(Nat)]
  <2>1. SubSeq(queue[r], n + 1, Len(queue[r])) \in Seq(Nat)
    BY <1>2, RestOf
  <2> QED BY <1>2, <2>1
<1>6. Others(x)
  BY <1>3, <1>4 DEF Others
<1>7. ReceiversType'
  BY <1>1, <1>3, <1>4, <1>5, <1>6, ReaderTyped, ReaderParts
<1>8. PICK g, m : g = Len(given[x]) /\ m = Len(messages[x])
  OBVIOUS
<1>9. g \in Nat /\ m \in Nat /\ n \in Nat /\ StreamLen(x) = g + m
  BY <1>1, <1>2, <1>8, ReceiverSizes DEF StreamLen
<1>10. /\ g + (m + n) = (g + m) + n
       /\ \A k \in 1..(g + m) : ~(k <= g) => k - g \in 1..m /\ k = g + (k - g)
       /\ \A k \in 1..(g + m) : k <= g + (m + n) /\ (k <= g => k \in 1..g)
       /\ \A k \in 1..m : k \in 1..(m + n)
       /\ \A k \in 1..n : /\ m + k \in 1..(m + n) /\ (g + m) + k = g + (m + k)
                          /\ (g + m) + k <= g + (m + n)
  BY <1>9
<1>11. StreamLen(x)' = (g + m) + n
  <2>1. Len(messages'[x]) = 0
    BY <1>3
  <2>2. StreamLen(x)' = (g + (m + n)) + 0
    BY <1>4, <1>8, <2>1 DEF StreamLen
  <2> QED BY <1>9, <2>2
<1>12. \A k \in 1..(g + m) : Nth(x, k)' = Nth(x, k)
  <2> SUFFICES ASSUME NEW k \in 1..(g + m) PROVE Nth(x, k)' = Nth(x, k)
    OBVIOUS
  <2>1. k <= g + (m + n)
    BY <1>10
  <2>2. Nth(x, k)' = given'[x][k]
    BY <1>4, <1>8, <2>1 DEF Nth
  <2>3. CASE k <= g
    <3>1. k \in 1..g
      BY <1>10, <2>3
    <3> QED BY <1>4, <1>8, <2>2, <2>3, <3>1 DEF Nth
  <2>4. CASE ~(k <= g)
    <3>1. PICK i : i = k - g
      OBVIOUS
    <3>2. i \in 1..m /\ k = g + i /\ i \in 1..(m + n)
      BY <1>10, <2>4, <3>1
    <3>3. Nth(x, k) = <<Source(x), messages[x][i]>>
      BY <1>8, <2>4, <3>1 DEF Nth
    <3>4. r = Source(x)
      <4>1. m # 0
        BY <1>9, <3>2
      <4>2. messages[x] # <<>>
        BY <1>8, <4>1
      <4> QED BY <4>2
    <3>5. given'[x][k] = <<r, list[i]>> /\ list[i] = messages[x][i]
      BY <1>4, <1>8, <3>2
    <3> QED BY <2>2, <3>3, <3>4, <3>5
  <2> QED BY <2>3, <2>4
<1>13. \A k \in 1..n : \A l : l = (g + m) + k => Nth(x, l)' = <<r, queue[r][k]>>
  <2> SUFFICES ASSUME NEW k \in 1..n, NEW l, l = (g + m) + k
               PROVE  Nth(x, l)' = <<r, queue[r][k]>>
    OBVIOUS
  <2>1. /\ m + k \in 1..(m + n) /\ l = g + (m + k) /\ l <= g + (m + n)
    BY <1>10
  <2>2. Nth(x, l)' = given'[x][l]
    BY <1>4, <1>8, <2>1 DEF Nth
  <2>3. given'[x][l] = <<r, list[m + k]>>
    BY <1>4, <1>8, <2>1
  <2>4. list[m + k] = queue[r][k]
    BY <1>8
  <2> QED BY <2>2, <2>3, <2>4
<1>14. Takes(x, r, n)
  BY <1>9, <1>11, <1>12, <1>13 DEF Takes
<1> QED BY <1>6, <1>7, <1>14, ReaderKeeps

LEMMA BatchGetKeeps ==
  ASSUME ReceiversInv, NEW x \in Readers, BatchGet(x) \/ BatchGetNowait(x)
  PROVE  ReceiversInv'
<1>1. ReceiversType
  BY DEF ReceiversInv
<1>2. PICK r : r = Source(x)
  OBVIOUS
<1>3. /\ pc[x] \in InCall /\ queue[r] # <<>>
      /\ Take(x, r, 1)
      /\ UNCHANGED <<subscribed, delivered, matching, message, emitted, turn, call, pc,
                     given, dropped>>
  BY <1>2 DEF BatchGet, BatchGetNowait, busVars, emitterVars, resultVars,
              InCall
<1>4. /\ ReaderOK(x) /\ r \in Receivers /\ queue[r] \in Seq(Nat)
      /\ call[x].batch.min \in Nat /\ call[x].batch.max \in Nat
      /\ messages[x] \in Seq(Nat) /\ Len(messages[x]) \in Nat
  BY <1>1, <1>2, <1>3, ReaderParts, ReceiverSizes DEF ReadCalls
<1>5. 1 \in 0..Len(queue[r])
  BY <1>3, <1>4
<1>6. Len(messages[x]) + 1 <= call[x].batch.max
  <2>1. CASE BatchGet(x)
    <3>1. Len(messages[x]) < call[x].batch.min
      BY <2>1 DEF BatchGet
    <3>2. call[x].batch.min <= call[x].batch.max
      BY <1>4 DEF ReaderOK
    <3> QED BY <1>4, <3>1, <3>2
  <2>2. CASE BatchGetNowait(x)
    <3>1. Len(messages[x]) \in call[x].batch.min..(call[x].batch.max - 1)
      BY <2>2 DEF BatchGetNowait
    <3> QED BY <1>4, <3>1
  <2> QED BY <2>1, <2>2
<1>7. /\ queue' = [queue EXCEPT ![r] = SubSeq(@, 1 + 1, Len(@))]
      /\ messages' = [messages EXCEPT ![x] = messages[x] \o SubSeq(queue[r], 1, 1)]
  BY <1>3 DEF Take
<1> QED BY <1>2, <1>3, <1>5, <1>6, <1>7, HoldKeeps

LEMMA AsyncBatchKeeps ==
  ASSUME ReceiversInv, NEW x \in Readers, AsyncReceiveBatch(x)
  PROVE  ReceiversInv'
<1>1. ReceiversType
  BY DEF ReceiversInv
<1>2. PICK r, n : /\ r = Source(x)
                  /\ n = Smaller(Len(queue[r]), call[x].batch.max - Len(messages[x]))
  OBVIOUS
<1> DEFINE taken == messages[x] \o SubSeq(queue[r], 1, n)
<1>3. /\ pc[x] = "get" /\ pc[x] \in InCall
      /\ queue' = [queue EXCEPT ![r] = SubSeq(@, n + 1, Len(@))]
      /\ UNCHANGED <<subscribed, delivered, matching, message, emitted, turn, dropped>>
  BY <1>2 DEF AsyncReceiveBatch, busVars, emitterVars, InCall
<1>4. /\ ReaderOK(x) /\ r \in Receivers /\ queue[r] \in Seq(Nat)
      /\ call[x].batch.max \in Nat /\ Len(queue[r]) \in Nat
      /\ messages[x] \in Seq(Nat) /\ Len(messages[x]) \in Nat
      /\ Len(messages[x]) <= call[x].batch.max
      /\ call[x].batch.single => call[x].batch.max = 1
  BY <1>1, <1>2, <1>3, ReaderParts, ReceiverSizes DEF ReadCalls, ReaderOK
<1>5. n \in 0..Len(queue[r]) /\ Len(messages[x]) + n <= call[x].batch.max
  <2>1. \A a, b, c \in Nat : b <= c =>
          LET s == IF a < c - b THEN a ELSE c - b IN s \in 0..a /\ b + s <= c
    OBVIOUS
  <2>2. n = IF Len(queue[r]) < call[x].batch.max - Len(messages[x])
              THEN Len(queue[r]) ELSE call[x].batch.max - Len(messages[x])
    BY <1>2 DEF Smaller
  <2> QED BY <1>4, <2>1, <2>2
<1>6. /\ taken \in Seq(Nat) /\ Len(taken) = Len(messages[x]) + n
      /\ \A k \in 1..Len(messages[x]) : taken[k] = messages[x][k]
      /\ \A k \in 1..n : taken[Len(messages[x]) + k] = queue[r][k]
  BY <1>4, <1>5, TakenOnto
<1>7. CASE /\ messages' = [messages EXCEPT ![x] = taken]
           /\ Goto(x, IF Len(taken) < call[x].batch.min THEN "get" ELSE "handle")
           /\ UNCHANGED <<call, given>>
  <2>1. \E label \in InCall : Goto(x, label)
    <3>1. "get" \in InCall /\ "handle" \in InCall
      BY DEF InCall
    <3> QED BY <1>7, <3>1
  <2> QED BY <1>2, <1>3, <1>5, <1>7, <2>1, HoldKeeps
<1>8. CASE /\ EndCall(x)
           /\ Give(x, r, Returned(call[x].batch, taken))
  <2> HIDE DEF taken
  <2>1. Len(taken) <= call[x].batch.max
    BY <1>5, <1>6
  <2> DEFINE list == Returned(call[x].batch, taken)
  <2>2. /\ list \in Seq(Nat) /\ Len(list) = Len(taken)
        /\ \A k \in 1..Len(taken) : list[k] = taken[k]
    BY <1>4, <1>6, <2>1, ReturnedAll
  <2> HIDE DEF list
  <2>3. /\ \A k \in 1..Len(messages[x]) : k \in 1..Len(taken)
        /\ \A k \in 1..n : Len(messages[x]) + k \in 1..Len(taken)
    <3>1. \A a, b \in Nat : /\ \A k \in 1..a : k \in 1..(a + b)
                            /\ \A k \in 1..b : a + k \in 1..(a + b)
      OBVIOUS
    <3> QED BY <1>4, <1>5, <1>6, <3>1
  <2>4. /\ Len(list) = Len(messages[x]) + n
        /\ \A k \in 1..Len(messages[x]) : list[k] = messages[x][k]
        /\ \A k \in 1..n : \A l : l = Len(messages[x]) + k => list[l] = queue[r][k]
    BY <1>6, <2>2, <2>3
  <2>5. EndCall(x) /\ Give(x, r, list)
    BY <1>8 DEF list
  <2>6. turn' \in [Readers -> Nat \ {0}]
    BY <1>1, <1>3, ReaderParts
  <2> QED BY <1>2, <1>3, <1>4, <1>5, <2>2, <2>4, <2>5, <2>6, HandOverKeeps
<1>9. \/ /\ messages' = [messages EXCEPT ![x] = taken]
         /\ Goto(x, IF Len(taken) < call[x].batch.min THEN "get" ELSE "handle")
         /\ UNCHANGED <<call, given>>
      \/ EndCall(x) /\ Give(x, r, Returned(call[x].batch, taken))
  BY <1>2, Zenon DEF AsyncReceiveBatch
<1> QED BY <1>7, <1>8, <1>9

(* receive_from has found a message in r. *)
LEMMA FoundKeeps ==
  ASSUME ReceiversInv, NEW x \in Readers, pc[x] \in InFrom, NEW r \in Receivers,
         queue[r] # <<>>, ReturnFrom(x, r), turn' \in [Readers -> Nat \ {0}],
         UNCHANGED <<subscribed, delivered, matching, message, emitted, dropped>>
  PROVE  ReceiversInv'
<1>1. ReceiversType
  BY DEF ReceiversInv
<1>2. queue[r] \in Seq(Nat) /\ queue \in [Receivers -> Seq(Nat)] /\ messages[x] = <<>>
  BY <1>1, ReaderParts DEF ReaderOK, InCall, InFrom
<1>3. /\ Len(queue[r]) \in Nat \ {0} /\ Head(queue[r]) = queue[r][1]
      /\ queue[r][1] \in Nat /\ 1 \in 0..Len(queue[r])
      /\ Tail(queue[r]) = SubSeq(queue[r], 1 + 1, Len(queue[r]))
  <2>1. Len(queue[r]) \in Nat \ {0} /\ Head(queue[r]) = queue[r][1]
    BY <1>2, HeadAndTail
  <2>2. queue[r][1] \in Nat /\ 1 \in 0..Len(queue[r])
    BY <1>2, <2>1
  <2>3. Tail(queue[r]) = SubSeq(queue[r], 1 + 1, Len(queue[r]))
    BY <1>2, <2>1
  <2> QED BY <2>1, <2>2, <2>3
<1>4. queue' = [queue EXCEPT ![r] = SubSeq(@, 1 + 1, Len(@))]
  BY <1>3 DEF ReturnFrom
<1> DEFINE list == <<queue[r][1]>>
<1>5. /\ list \in Seq(Nat) /\ Len(list) = Len(messages[x]) + 1 /\ list[1] = queue[r][1]
      /\ Len(messages[x]) = 0
  BY <1>2, <1>3
<1>6. Give(x, r, list) /\ EndCall(x)
  BY <1>3 DEF ReturnFrom
<1> HIDE DEF list
<1>7. /\ \A k \in 1..Len(messages[x]) : list[k] = messages[x][k]
      /\ \A k \in 1..1 : \A l : l = Len(messages[x]) + k => list[l] = queue[r][k]
  BY <1>5
<1> QED BY <1>2, <1>3, <1>4, <1>5, <1>6, <1>7, HandOverKeeps

LEMMA MonitorLookKeeps ==
  ASSUME ReceiversInv, NEW x \in Readers, MonitorLook(x)
  PROVE  ReceiversInv'
<1>1. ReceiversType
  BY DEF ReceiversInv
<1>2. PICK r : r = call[x].from[turn[x]]
  OBVIOUS
<1>3. /\ pc[x] = "look" /\ pc[x] \in InFrom /\ turn[x] <= Len(call[x].from)
      /\ UNCHANGED <<subscribed, delivered, matching, message, emitted, dropped>>
  BY DEF MonitorLook, busVars, emitterVars, InFrom
<1>4. r \in Receivers
  <2>1. turn[x] \in Nat \ {0} /\ call[x].from \in Seq(Receivers)
    BY <1>1, ReaderParts
  <2>2. turn[x] \in 1..Len(call[x].from)
    BY <1>3, <2>1
  <2> QED BY <1>2, <2>1, <2>2
<1>5. turn \in [Readers -> Nat \ {0}]
  BY <1>1, ReaderParts
<1>6. CASE queue[r] # <<>>
  <2>1. ReturnFrom(x, r) /\ turn' = [turn EXCEPT ![x] = 1]
    BY <1>2, <1>6 DEF MonitorLook
  <2>2. turn' \in [Readers -> Nat \ {0}]
    BY <1>5, <2>1
  <2> QED BY <1>3, <1>4, <1>6, <2>1, <2>2, FoundKeeps
<1>7. CASE queue[r] = <<>>
  <2>1. /\ turn' = [turn EXCEPT ![x] = @ + 1]
        /\ UNCHANGED <<queue, given, pc, call, messages>>
    BY <1>2, <1>7 DEF MonitorLook
  <2>2. turn' \in [Readers -> Nat \ {0}]
    BY <1>5, <2>1
  <2>3. Goto(x, "look")
    <3>1. pc \in [Emitters \cup Readers -> ReaderLabels]
      BY <1>1, ReaderParts
    <3> QED BY <1>3, <2>1, <3>1 DEF Goto
  <2>4. "look" \in ReaderLabels /\ "look" \notin InCall
    BY DEF ReaderLabels, InCall, InFrom
  <2>5. messages[x] = <<>>
    BY <1>1, <1>3, ReaderParts DEF ReaderOK, InCall
  <2> QED BY <1>3, <2>1, <2>2, <2>3, <2>4, <2>5, MovesKeep
<1> QED BY <1>6, <1>7

LEMMA AsyncFromKeeps ==
  ASSUME ReceiversInv, NEW x \in Readers, AsyncReceiveFrom(x) \/ AsyncWake(x)
  PROVE  ReceiversInv'
<1>1. ReceiversType
  BY DEF ReceiversInv
<1>2. CASE AsyncClearAndWait(x) /\ UNCHANGED <<queue, given, call, messages>>
  BY <1>2, WaitsKeep
<1>3. CASE AsyncTakeAvailable(x)
  <2>1. /\ pc[x] \in InFrom
        /\ UNCHANGED <<subscribed, delivered, matching, message, emitted, dropped, turn>>
    BY DEF AsyncReceiveFrom, AsyncWake, busVars, emitterVars, InFrom
  <2> DEFINE first == CHOOSE i \in Available(x) : \A j \in Available(x) : i <= j
  <2>2. /\ Available(x) # {} /\ ReturnFrom(x, call[x].from[first])
    BY <1>3 DEF AsyncTakeAvailable
  <2>3. call[x].from \in Seq(Receivers)
    BY <1>1, ReaderParts
  <2>4. Available(x) \in SUBSET Nat
    BY <2>3 DEF Available
  <2>5. first \in Available(x)
    BY <2>2, <2>4, LeastOf
  <2> HIDE DEF first
  <2>6. call[x].from[first] \in Receivers /\ queue[call[x].from[first]] # <<>>
    BY <2>3, <2>5 DEF Available
  <2>7. turn' \in [Readers -> Nat \ {0}]
    BY <1>1, <2>1, ReaderParts
  <2> QED BY <2>1, <2>2, <2>6, <2>7, FoundKeeps
<1> QED BY <1>2, <1>3 DEF AsyncReceiveFrom, AsyncWake

LEMMA ReceiversStart ==
  ASSUME ReceiversInit
  PROVE  ReceiversInv
<1>1. /\ subscribed = {} /\ queue = [r \in Receivers |-> <<>>]
      /\ pc = [x \in Emitters \cup Readers |-> "idle"]
      /\ matching = [e \in Emitters |-> {}] /\ message = [e \in Emitters |-> 0]
      /\ call = [x \in Readers |-> NoCall] /\ messages = [x \in Readers |-> <<>>]
      /\ turn = [x \in Readers |-> 1] /\ emitted = 0
      /\ delivered = [r \in Receivers |-> <<>>] /\ given = [x \in Readers |-> <<>>]
      /\ dropped = {}
  BY DEF ReceiversInit
<1>2. NoCall \in ReadCalls /\ NoCall.batch.max = 1 /\ NoCall.batch.min = 1
  BY DEF NoCall, Receive, ReadCalls
<1>3. \A x \in Readers : ReaderOK(x)
  BY <1>1, <1>2 DEF ReaderOK, InCall, InFrom
<1>4. ReceiversType
  <2>1. /\ queue \in [Receivers -> Seq(Nat)] /\ delivered \in [Receivers -> Seq(Nat)]
        /\ messages \in [Readers -> Seq(Nat)]
        /\ given \in [Readers -> Seq(Receivers \X Nat)]
    BY <1>1
  <2>2. call \in [Readers -> ReadCalls]
    BY <1>1, <1>2
  <2>3. /\ pc \in [Emitters \cup Readers -> {"idle", "put", "notify"} \cup InCall
                                               \cup InFrom]
        /\ matching \in [Emitters -> SUBSET Receivers] /\ message \in [Emitters -> Nat]
        /\ turn \in [Readers -> Nat \ {0}] /\ emitted \in Nat
        /\ subscribed \subseteq Receivers /\ dropped \subseteq Receivers \X Nat
    BY <1>1
  <2> QED BY <1>3, <2>1, <2>2, <2>3 DEF ReceiversType
<1>5. PutOnce
  BY <1>1 DEF PutOnce
<1>6. \A r \in Receivers : Len(queue[r]) = 0 /\ Len(delivered[r]) = 0 /\ Taken(r) = 0
  BY <1>1 DEF Taken
<1>7. QueueIsRest
  BY <1>1, <1>6 DEF QueueIsRest
<1>8. \A x \in Readers : StreamLen(x) = 0
  BY <1>1 DEF StreamLen
<1>9. StreamsInv
  <2>1. /\ \A x \in Readers : 1..StreamLen(x) = {}
        /\ \A r \in Receivers : 1..Taken(r) = {}
    BY <1>6, <1>8
  <2> QED BY <1>1, <2>1 DEF StreamsInv
<1> QED BY <1>4, <1>5, <1>7, <1>9 DEF ReceiversInv

LEMMA ReceiversStep ==
  ASSUME ReceiversInv, [ReceiversNext]_receiversVars
  PROVE  ReceiversInv'
<1>1. CASE UNCHANGED receiversVars
  <2>1. UNCHANGED <<subscribed, queue, delivered, matching, message, emitted, pc, call,
                    messages, given, turn, dropped>>
    BY <1>1 DEF receiversVars
  <2>2. ReceiversType
    BY DEF ReceiversInv
  <2>3. subscribed' \subseteq Receivers /\ ReadersStay
    BY <2>1, <2>2 DEF ReceiversType, ReadersStay
  <2> QED BY <2>1, <2>2, <2>3, IdleEmitter, ReaderParts
<1>2. CASE \E r \in Receivers : DirectSubscribe(r) \/ AsyncSubscribe(r)
  BY <1>2, OtherEmitterSteps
<1>3. ASSUME NEW e \in Emitters, Emit(e) \/ AsyncEmit(e) \/ EmitterStep(e)
      PROVE  ReceiversInv'
  BY <1>3, EmitKeeps, AsyncEmitKeeps, DeliverPutKeeps, OtherEmitterSteps
     DEF EmitterStep
<1>4. ASSUME NEW x \in Readers,
             \/ BatchCall(x) \/ AsyncBatchCall(x) \/ ReceiveFromCall(x)
             \/ ReaderStep(x) \/ Cancel(x)
      PROVE  ReceiversInv'
  BY <1>4, StartsKeep, BatchGetKeeps, BatchReturnKeeps, HandleMessageKeeps, EndsKeep,
     WaitsKeep, MonitorLookKeeps, AsyncBatchKeeps, AsyncFromKeeps
     DEF ReaderStep
<1> QED BY <1>1, <1>2, <1>3, <1>4 DEF ReceiversNext

LEMMA ReceiversHold == ReceiversSpec => []ReceiversInv
<1> QED BY ReceiversStart, ReceiversStep, PTL DEF ReceiversSpec

------------------------------------------------------------------------------
(* What the property says of a receiver, in terms of the streams *)

TakenOf(r) == {delivered[r][i] : i \in 1..Taken(r)}

LEMMA ThreeParts ==
  ASSUME NEW n \in Nat, NEW S, IsFiniteSet(S), Cardinality(S) = n,
         NEW A, NEW B, NEW C, S = A \cup B \cup C,
         A \cap B = {}, A \cap C = {}, B \cap C = {}
  PROVE  Cardinality(A) + Cardinality(B) + Cardinality(C) = n
<1>1. A \in SUBSET S /\ B \in SUBSET S /\ C \in SUBSET S
  OBVIOUS
<1>2. /\ IsFiniteSet(A) /\ IsFiniteSet(B) /\ IsFiniteSet(C)
      /\ Cardinality(A) \in Nat /\ Cardinality(B) \in Nat /\ Cardinality(C) \in Nat
  BY <1>1, FS_Subset, FS_CardinalityType
<1>3. /\ IsFiniteSet(A \cup B)
      /\ Cardinality(A \cup B) = Cardinality(A) + Cardinality(B) - Cardinality(A \cap B)
  BY <1>2, FS_Union
<1>4. Cardinality((A \cup B) \cup C)
        = Cardinality(A \cup B) + Cardinality(C) - Cardinality((A \cup B) \cap C)
  BY <1>2, <1>3, FS_Union
<1>5. Cardinality(A \cap B) = 0 /\ Cardinality((A \cup B) \cap C) = 0
  <2>1. (A \cup B) \cap C = {}
    OBVIOUS
  <2> QED BY <2>1, FS_EmptySet
<1>6. Cardinality(S) = Cardinality((A \cup B) \cup C)
  BY Zenon
<1> QED BY <1>2, <1>3, <1>4, <1>5, <1>6

LEMMA TakenCount ==
  ASSUME ReceiversInv, NEW r \in Receivers
  PROVE  IsFiniteSet(TakenOf(r)) /\ Cardinality(TakenOf(r)) = Taken(r)
<1>1. /\ Taken(r) \in Nat /\ Taken(r) <= Len(delivered[r])
      /\ DOMAIN delivered[r] = 1..Len(delivered[r]) /\ Len(delivered[r]) \in Nat
  BY TakenSize, ReceiverSizes DEF ReceiversInv
<1>2. \A i, j \in 1..Taken(r) : delivered[r][i] = delivered[r][j] => i = j
  <2>1. \A i \in 1..Taken(r) : i \in DOMAIN delivered[r]
    BY <1>1
  <2> QED BY <2>1 DEF ReceiversInv, PutOnce
<1> DEFINE f == [i \in 1..Taken(r) |-> delivered[r][i]]
<1>3. /\ f \in [1..Taken(r) -> TakenOf(r)]
      /\ \A m \in TakenOf(r) : \E i \in 1..Taken(r) : f[i] = m
      /\ \A i, j \in 1..Taken(r) : f[i] = f[j] => i = j
  BY <1>2 DEF TakenOf
<1> HIDE DEF f
<1>4. f \in Surjection(1..Taken(r), TakenOf(r)) /\ f \in Injection(1..Taken(r), TakenOf(r))
  <2>1. f \in Surjection(1..Taken(r), TakenOf(r))
    BY <1>3 DEF Surjection
  <2>2. f \in Injection(1..Taken(r), TakenOf(r))
    BY <1>3 DEF Injection, IsInjective
  <2> QED BY <2>1, <2>2
<1>5. IsFiniteSet(1..Taken(r)) /\ Cardinality(1..Taken(r)) = Taken(r)
  <2>1. /\ IsFiniteSet(1..Taken(r))
        /\ Cardinality(1..Taken(r)) = IF 1 > Taken(r) THEN 0 ELSE Taken(r) - 1 + 1
    <3>1. 1 \in Int /\ Taken(r) \in Int
      BY <1>1
    <3> QED BY <3>1, FS_Interval
  <2> QED BY <1>1, <2>1
<1> QED BY <1>4, <1>5, FS_Surjection

LEMMA HandMembers ==
  ASSUME ReceiversInv, NEW r \in Receivers, NEW m
  PROVE  m \in InHand(r) <=>
           \E x \in Readers : \E k \in 1..StreamLen(x) :
             ~(k <= Len(given[x])) /\ Nth(x, k) = <<r, m>>
<1>1. ReceiversType
  BY DEF ReceiversInv
<1>2. ASSUME NEW x \in Readers
      PROVE  /\ Len(given[x]) \in Nat /\ Len(messages[x]) \in Nat
             /\ StreamLen(x) = Len(given[x]) + Len(messages[x])
             /\ DOMAIN messages[x] = 1..Len(messages[x])
             /\ messages[x] # <<>> => call[x].kind # "none"
  BY <1>1, ReaderParts, ReceiverSizes DEF ReaderOK, StreamLen
<1>3. ASSUME m \in InHand(r)
      PROVE  \E x \in Readers : \E k \in 1..StreamLen(x) :
               ~(k <= Len(given[x])) /\ Nth(x, k) = <<r, m>>
  <2>1. PICK x \in Readers : /\ Source(x) = r /\ m \in Range(messages[x])
    BY <1>3 DEF InHand
  <2>2. PICK i \in DOMAIN messages[x] : m = messages[x][i]
    BY <2>1 DEF Range
  <2>3. PICK g, k : g = Len(given[x]) /\ k = g + i
    OBVIOUS
  <2>4. k \in 1..StreamLen(x) /\ ~(k <= g) /\ k - g = i
    <3>1. \A a, b \in Nat : \A c \in 1..b :
            a + c \in 1..(a + b) /\ ~(a + c <= a) /\ (a + c) - a = c
      OBVIOUS
    <3>2. i \in 1..Len(messages[x])
      BY <1>2
    <3>3. g \in Nat /\ Len(messages[x]) \in Nat /\ StreamLen(x) = g + Len(messages[x])
      BY <1>2, <2>3
    <3>4. g + i \in 1..(g + Len(messages[x])) /\ ~(g + i <= g) /\ (g + i) - g = i
      BY <3>1, <3>2, <3>3
    <3> QED BY <2>3, <3>3, <3>4
  <2>5. Nth(x, k) = <<r, m>>
    BY <2>1, <2>2, <2>3, <2>4 DEF Nth
  <2> QED BY <2>3, <2>4, <2>5
<1>4. ASSUME NEW x \in Readers, NEW k \in 1..StreamLen(x), ~(k <= Len(given[x])),
             Nth(x, k) = <<r, m>>
      PROVE  m \in InHand(r)
  <2>1. PICK g, i : g = Len(given[x]) /\ i = k - g
    OBVIOUS
  <2>2. i \in 1..Len(messages[x]) /\ i \in DOMAIN messages[x]
    <3>1. \A a, b \in Nat : \A c \in 1..(a + b) : ~(c <= a) => c - a \in 1..b
      OBVIOUS
    <3> QED BY <1>2, <1>4, <2>1, <3>1
  <2>3. Source(x) = r /\ messages[x][i] = m
    BY <1>4, <2>1 DEF Nth
  <2>4. m \in Range(messages[x])
    BY <2>2, <2>3 DEF Range
  <2>5. call[x].kind # "none"
    <3>1. messages[x] # <<>>
      BY <2>2
    <3> QED BY <1>2, <3>1
  <2> QED BY <2>3, <2>4, <2>5 DEF InHand
<1> QED BY <1>3, <1>4

LEMMA GivenMembers ==
  ASSUME ReceiversInv, NEW r \in Receivers, NEW m
  PROVE  m \in GivenOf(r) <=>
           \E x \in Readers : \E k \in 1..StreamLen(x) :
             k <= Len(given[x]) /\ Nth(x, k) = <<r, m>>
<1>1. ReceiversType
  BY DEF ReceiversInv
<1>2. ASSUME NEW x \in Readers
      PROVE  /\ Len(given[x]) \in Nat /\ Len(messages[x]) \in Nat
             /\ StreamLen(x) = Len(given[x]) + Len(messages[x])
             /\ DOMAIN given[x] = 1..Len(given[x])
             /\ \A k \in DOMAIN given[x] : given[x][k] = <<given[x][k][1], given[x][k][2]>>
  <2>1. given[x] \in Seq(Receivers \X Nat)
    BY <1>1, ReaderParts
  <2> QED BY <1>1, <2>1, ReceiverSizes DEF StreamLen
<1>3. ASSUME m \in GivenOf(r)
      PROVE  \E x \in Readers : \E k \in 1..StreamLen(x) :
               k <= Len(given[x]) /\ Nth(x, k) = <<r, m>>
  <2>1. PICK x \in Readers : \E g \in Range(given[x]) : g[1] = r /\ m = g[2]
    BY <1>3 DEF GivenOf
  <2>2. PICK k \in DOMAIN given[x] : given[x][k][1] = r /\ m = given[x][k][2]
    BY <2>1 DEF Range
  <2>3. k \in 1..StreamLen(x) /\ k <= Len(given[x])
    <3>1. \A a, b \in Nat : \A c \in 1..a : c \in 1..(a + b) /\ c <= a
      OBVIOUS
    <3> QED BY <1>2, <3>1
  <2>4. Nth(x, k) = <<r, m>>
    BY <1>2, <2>2, <2>3 DEF Nth
  <2> QED BY <2>3, <2>4
<1>4. ASSUME NEW x \in Readers, NEW k \in 1..StreamLen(x), k <= Len(given[x]),
             Nth(x, k) = <<r, m>>
      PROVE  m \in GivenOf(r)
  <2>1. k \in DOMAIN given[x] /\ given[x][k] = <<r, m>>
    BY <1>2, <1>4 DEF Nth
  <2>2. given[x][k] \in Range(given[x]) /\ given[x][k][1] = r /\ given[x][k][2] = m
    BY <2>1 DEF Range
  <2> QED BY <2>2 DEF GivenOf
<1> QED BY <1>3, <1>4

LEMMA DroppedMembers ==
  ASSUME ReceiversInv, NEW r \in Receivers, NEW m
  PROVE  m \in DroppedOf(r) <=> <<r, m>> \in dropped
<1>1. \A d \in dropped : d = <<d[1], d[2]>>
  BY DEF ReceiversInv, ReceiversType
<1> QED BY <1>1 DEF DroppedOf

LEMMA PartsOfTaken ==
  ASSUME ReceiversInv, NEW r \in Receivers
  PROVE  /\ TakenOf(r) = InHand(r) \cup GivenOf(r) \cup DroppedOf(r)
         /\ InHand(r) \cap GivenOf(r) = {} /\ InHand(r) \cap DroppedOf(r) = {}
         /\ GivenOf(r) \cap DroppedOf(r) = {}
<1>1. ReceiversType /\ PutOnce /\ QueueIsRest /\ StreamsInv
  BY DEF ReceiversInv
<1> DEFINE At(x, k, m) == x \in Readers /\ k \in 1..StreamLen(x) /\ Nth(x, k) = <<r, m>>
<1>2. \A m : m \in InHand(r) <=> \E x, k : At(x, k, m) /\ ~(k <= Len(given[x]))
  BY HandMembers
<1>3. \A m : m \in GivenOf(r) <=> \E x, k : At(x, k, m) /\ k <= Len(given[x])
  BY GivenMembers
<1>4. \A m : m \in DroppedOf(r) <=> <<r, m>> \in dropped
  BY DroppedMembers
<1>5. ASSUME NEW m, NEW x, NEW k, NEW y, NEW l, At(x, k, m), At(y, l, m)
      PROVE  x = y /\ k = l
  <2>1. x = y
    <3>1. \A p, q \in Readers : p # q =>
            \A i \in 1..StreamLen(p), j \in 1..StreamLen(q) : Nth(p, i) # Nth(q, j)
      BY <1>1 DEF StreamsInv
    <3> QED BY <1>5, <3>1
  <2>2. ~(k < l) /\ ~(l < k)
    BY <1>1, <1>5, <2>1, StreamOnce
  <2>3. StreamLen(x) \in Nat
    BY <1>1, <1>5, ReceiverSizes
  <2>4. k \in Nat /\ l \in Nat
    BY <1>5, <2>1, <2>3
  <2> QED BY <2>1, <2>2, <2>4
<1>6. ASSUME NEW m, NEW x, NEW k, At(x, k, m)
      PROVE  m \in TakenOf(r) /\ <<r, m>> \notin dropped
  <2>1. PICK s \in Receivers : \E i \in 1..Taken(s) : Nth(x, k) = Came(s, i)
    BY <1>1, <1>6 DEF StreamsInv
  <2>2. PICK i \in 1..Taken(s) : Nth(x, k) = Came(s, i)
    BY <2>1
  <2>3. s = r /\ m = delivered[r][i]
    BY <1>6, <2>2 DEF Came
  <2>4. <<r, m>> \notin dropped
    BY <1>1, <1>6 DEF StreamsInv
  <2> QED BY <2>2, <2>3, <2>4 DEF TakenOf
<1>7. ASSUME NEW m, <<r, m>> \in dropped
      PROVE  m \in TakenOf(r)
  <2>1. PICK s \in Receivers : \E i \in 1..Taken(s) : <<r, m>> = Came(s, i)
    BY <1>1, <1>7 DEF StreamsInv
  <2>2. PICK i \in 1..Taken(s) : <<r, m>> = Came(s, i)
    BY <2>1
  <2>3. s = r /\ m = delivered[r][i]
    BY <2>2 DEF Came
  <2> QED BY <2>2, <2>3 DEF TakenOf
<1>8. ASSUME NEW m \in TakenOf(r)
      PROVE  <<r, m>> \in dropped \/ \E x, k : At(x, k, m)
  <2>1. PICK i \in 1..Taken(r) : m = delivered[r][i]
    BY <1>8 DEF TakenOf
  <2>2. Came(r, i) = <<r, m>>
    BY <2>1 DEF Came
  <2>3. \/ Came(r, i) \in dropped
        \/ \E x \in Readers : \E k \in 1..StreamLen(x) : Nth(x, k) = Came(r, i)
    BY <1>1 DEF StreamsInv
  <2> QED BY <2>2, <2>3
<1> HIDE DEF At
<1>9. TakenOf(r) = InHand(r) \cup GivenOf(r) \cup DroppedOf(r)
  BY <1>2, <1>3, <1>4, <1>6, <1>7, <1>8
<1>10. InHand(r) \cap GivenOf(r) = {}
  BY <1>2, <1>3, <1>5
<1>11. InHand(r) \cap DroppedOf(r) = {} /\ GivenOf(r) \cap DroppedOf(r) = {}
  BY <1>2, <1>3, <1>4, <1>6
<1> QED BY <1>9, <1>10, <1>11

LEMMA PlaceOfCame ==
  ASSUME ReceiversInv, NEW r \in Receivers, NEW i \in 1..Taken(r)
  PROVE  PlaceOf(r, delivered[r][i]) = i
<1>1. i \in DOMAIN delivered[r]
  <2>1. /\ Taken(r) \in Nat /\ Taken(r) <= Len(delivered[r])
        /\ DOMAIN delivered[r] = 1..Len(delivered[r]) /\ Len(delivered[r]) \in Nat
    BY TakenSize, ReceiverSizes DEF ReceiversInv
  <2> QED BY <2>1
<1>2. \A j \in DOMAIN delivered[r] : delivered[r][j] = delivered[r][i] => j = i
  BY <1>1 DEF ReceiversInv, PutOnce
<1> QED BY <1>1, <1>2 DEF PlaceOf

LEMMA OnceInOrder ==
  ASSUME ReceiversInv
  PROVE  GivenOnceInOrder
<1> SUFFICES ASSUME NEW r \in Receivers
             PROVE
    /\ Range(delivered[r]) =
       UNION {Range(queue[r]), InHand(r), GivenOf(r), DroppedOf(r)}
    /\ Len(delivered[r]) = Len(queue[r]) + Cardinality(InHand(r))
         + Cardinality(GivenOf(r)) + Cardinality(DroppedOf(r))
    /\ \A x \in Readers : \A i, j \in {k \in DOMAIN given[x] : given[x][k][1] = r} :
         i < j => PlaceOf(r, given[x][i][2]) < PlaceOf(r, given[x][j][2])
  BY DEF GivenOnceInOrder
<1>1. ReceiversType /\ PutOnce /\ QueueIsRest /\ StreamsInv
  BY DEF ReceiversInv
<1>2. /\ Taken(r) \in Nat /\ Len(queue[r]) \in Nat /\ Len(delivered[r]) \in Nat
      /\ Taken(r) + Len(queue[r]) = Len(delivered[r])
      /\ DOMAIN delivered[r] = 1..Len(delivered[r]) /\ DOMAIN queue[r] = 1..Len(queue[r])
  BY <1>1, TakenSize, ReceiverSizes
<1>3. Range(delivered[r]) =
      UNION {Range(queue[r]), InHand(r), GivenOf(r), DroppedOf(r)}
  <2>1. Range(delivered[r]) = TakenOf(r) \cup Range(queue[r])
    <3>1. \A i \in 1..Len(delivered[r]) :
            i \in 1..Taken(r) \/ \E k \in 1..Len(queue[r]) : i = Taken(r) + k
      <4>1. \A a, b, i \in Nat : i > a /\ i <= a + b =>
              i - a \in 1..b /\ i = a + (i - a)
        OBVIOUS
      <4>2. ASSUME NEW i \in 1..Len(delivered[r]), i \notin 1..Taken(r)
            PROVE  \E k \in 1..Len(queue[r]) : i = Taken(r) + k
        <5>1. i \in Nat /\ i > Taken(r) /\ i <= Taken(r) + Len(queue[r])
          BY <1>2, <4>2
        <5> QED BY <1>2, <4>1, <5>1
      <4> QED BY <4>2
    <3>2. \A k \in 1..Len(queue[r]) : Taken(r) + k \in 1..Len(delivered[r])
      <4>1. \A a, b \in Nat : \A k \in 1..b : a + k \in 1..(a + b)
        OBVIOUS
      <4> QED BY <1>2, <4>1
    <3>3. \A i \in 1..Taken(r) : i \in 1..Len(delivered[r])
      BY <1>2
    <3>4. \A k \in 1..Len(queue[r]) : queue[r][k] = delivered[r][Taken(r) + k]
      BY <1>1, <1>2 DEF QueueIsRest
    <3>5. /\ Range(delivered[r]) = {delivered[r][i] : i \in 1..Len(delivered[r])}
          /\ Range(queue[r]) = {queue[r][k] : k \in 1..Len(queue[r])}
      BY <1>2 DEF Range
    <3>6. ASSUME NEW m \in Range(delivered[r])
          PROVE  m \in TakenOf(r) \cup Range(queue[r])
      <4>1. PICK i \in 1..Len(delivered[r]) : m = delivered[r][i]
        BY <3>5
      <4> QED BY <3>1, <3>4, <3>5, <4>1 DEF TakenOf
    <3>7. TakenOf(r) \subseteq Range(delivered[r])
      BY <3>3, <3>5 DEF TakenOf
    <3>8. Range(queue[r]) \subseteq Range(delivered[r])
      BY <3>2, <3>4, <3>5
    <3> QED BY <3>6, <3>7, <3>8
  <2> QED BY <2>1, PartsOfTaken
<1>4. Len(delivered[r]) = Len(queue[r]) + Cardinality(InHand(r))
        + Cardinality(GivenOf(r)) + Cardinality(DroppedOf(r))
  <2>1. PICK A, B, C : A = InHand(r) /\ B = GivenOf(r) /\ C = DroppedOf(r)
    OBVIOUS
  <2>2. /\ TakenOf(r) = A \cup B \cup C
        /\ A \cap B = {} /\ A \cap C = {} /\ B \cap C = {}
    BY <2>1, PartsOfTaken
  <2>3. IsFiniteSet(TakenOf(r)) /\ Cardinality(TakenOf(r)) = Taken(r)
    BY TakenCount
  <2>4. Cardinality(A) + Cardinality(B) + Cardinality(C) = Taken(r)
    BY <1>2, <2>2, <2>3, ThreeParts
  <2>5. Cardinality(A) \in Nat /\ Cardinality(B) \in Nat /\ Cardinality(C) \in Nat
    BY <2>2, <2>3, FS_Subset, FS_CardinalityType
  <2> QED BY <1>2, <2>1, <2>4, <2>5
<1>5. ASSUME NEW x \in Readers, NEW k \in DOMAIN given[x], NEW l \in DOMAIN given[x],
             given[x][k][1] = r, given[x][l][1] = r, k < l
      PROVE  PlaceOf(r, given[x][k][2]) < PlaceOf(r, given[x][l][2])
  <2>1. /\ given[x] \in Seq(Receivers \X Nat) /\ Len(given[x]) \in Nat
        /\ Len(messages[x]) \in Nat
        /\ StreamLen(x) = Len(given[x]) + Len(messages[x])
    BY <1>1, ReaderParts, ReceiverSizes DEF StreamLen
  <2>2. /\ k \in 1..StreamLen(x) /\ l \in 1..StreamLen(x)
        /\ k <= Len(given[x]) /\ l <= Len(given[x])
    <3>1. \A a, b \in Nat : \A c \in 1..a : c \in 1..(a + b) /\ c <= a
      OBVIOUS
    <3>2. k \in 1..Len(given[x]) /\ l \in 1..Len(given[x])
      BY <2>1
    <3> QED BY <2>1, <3>1, <3>2
  <2>3. /\ Nth(x, k) = <<r, given[x][k][2]>> /\ Nth(x, l) = <<r, given[x][l][2]>>
    <3>1. /\ given[x][k] = <<given[x][k][1], given[x][k][2]>>
          /\ given[x][l] = <<given[x][l][1], given[x][l][2]>>
      BY <2>1
    <3> QED BY <1>5, <2>2, <3>1 DEF Nth
  <2>4. ASSUME NEW q \in 1..StreamLen(x), NEW m, Nth(x, q) = <<r, m>>
        PROVE  \E i \in 1..Taken(r) : Nth(x, q) = Came(r, i) /\ m = delivered[r][i]
    <3>1. PICK s \in Receivers : \E i \in 1..Taken(s) : Nth(x, q) = Came(s, i)
      BY <1>1 DEF StreamsInv
    <3>2. PICK i \in 1..Taken(s) : Nth(x, q) = Came(s, i)
      BY <3>1
    <3>3. s = r /\ m = delivered[r][i]
      BY <2>4, <3>2 DEF Came
    <3> QED BY <3>2, <3>3
  <2>5. PICK i \in 1..Taken(r) : Nth(x, k) = Came(r, i) /\ given[x][k][2] = delivered[r][i]
    BY <2>2, <2>3, <2>4
  <2>6. PICK j \in 1..Taken(r) : Nth(x, l) = Came(r, j) /\ given[x][l][2] = delivered[r][j]
    BY <2>2, <2>3, <2>4
  <2>7. i < j
    BY <1>1, <1>5, <2>2, <2>5, <2>6 DEF StreamsInv
  <2> QED BY <2>5, <2>6, <2>7, PlaceOfCame
<1> QED BY <1>3, <1>4, <1>5

(***************************************************************************)
(* Whoever reads the receivers of an in-process bus, and however calls end *)
(* or are cancelled, a message that comes into a receiver is given to one  *)
(* reader, once, and a reader gets the messages of a receiver in the order *)
(* they came, whatever batches and selections it reads them with.          *)
(***************************************************************************)
THEOREM ReceiversGiveOnceInOrder == ReceiversSpec => []GivenOnceInOrder
  BY ReceiversHold, OnceInOrder, PTL

==============================================================================
