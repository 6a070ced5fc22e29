-------------------------- MODULE BrokerRaces_proofs --------------------------
(***************************************************************************)
(* The core between its locks, for any number of threads: IDs are          *)
(* explained, capture comes before delivery, and routing is sound.  No     *)
(* constant of BrokerRaces needs an assumption.                            *)
(*                                                                         *)
(* And the other place where steps interleave: the two tasks that share an *)
(* asyncio session, for any capacities, topics and numbers of messages     *)
(* (AsyncAssumption): the session fails for a cause only, frames come in   *)
(* time, and deliveries in order.                                          *)
(***************************************************************************)
EXTENDS BrokerRaces, AsyncTransport, SequenceLemmas, FiniteSetTheorems

Bindings == [name : TopicNames, id : Nat]

RegistrationRecords == [record : {"registration"}, name : TopicNames, id : Nat]

Messages == [record : {"message"}, sender : Threads, number : Nat,
             name : TopicNames, id : Nat]

Binding == {"store", "list", "capture"}
Emitting == {"match", "write", "deliver"}
Removing == {"search", "delete"}

Labels == {"idle", "allocate"} \cup Binding \cup Emitting \cup Removing

Lookups == [name : TopicNames]
Emissions == [message : Messages, index : Nat \ {0}, matching : Seq(Receivers)]
Removals == [target : Receivers, index : Nat \ {0}]

(* The local variables of a thread, by where it is. *)
LocalsFit(label, values) ==
  /\ label = "idle" => values = <<>>
  /\ label = "allocate" => values \in Lookups
  /\ label \in Binding => values \in Bindings
  /\ label \in Emitting => values \in Emissions
  /\ label \in Removing => values \in Removals

Tables == UNION {[names -> Nat] : names \in SUBSET TopicNames}

TypeOK ==
  /\ table \in Tables /\ IsFiniteSet(DOMAIN table)
  /\ log \in Seq(RegistrationRecords \cup Messages)
  /\ receivers \in Seq(Receivers) /\ opened \in SUBSET Receivers
  /\ inbox \in [Receivers -> Seq(Messages)]
  /\ pc \in [Threads -> Labels]
  /\ local \in [Threads -> {<<>>} \cup Lookups \cup Bindings \cup Emissions
                            \cup Removals]
  /\ \A t \in Threads : LocalsFit(pc[t], local[t])
  /\ bound \in [Threads -> SUBSET Bindings]
  /\ emitted \in [Threads -> Nat]
  /\ due \in [Threads -> SUBSET Receivers]

(***************************************************************************)
(* Whatever a thread may go on to use has its registration in the record   *)
(* or a thread on the way to put it there: what the table holds, what a    *)
(* thread has bound, and what a message being emitted names.               *)
(***************************************************************************)
Explained(name, id) ==
  Registration(name, id) \in Range(log) \/ OnItsWay(name, id)

ExplainedInv ==
  /\ \A name \in DOMAIN table : Explained(name, table[name])
  /\ \A t \in Threads : \A b \in bound[t] : Explained(b.name, b.id)
  /\ \A t \in Threads : pc[t] \in Emitting =>
       Explained(local[t].message.name, local[t].message.id)
  /\ \A i \in DOMAIN log : IsMessage(log[i]) =>
       Explained(log[i].name, log[i].id)

(* A message is in the record before the thread calls the first receiver. *)
CapturedInv ==
  /\ \A t \in Threads :
       pc[t] = "deliver" => local[t].message \in Range(log)
  /\ CapturedBeforeDelivered

(* No target is in the list twice, since none is subscribed twice. *)
ListInv == IsInjective(receivers) /\ Range(receivers) \subseteq opened

(***************************************************************************)
(* A walk over the receivers has the places from its index on Ahead of it. *)
(* A target it has taken is never among them, however the list shrinks or  *)
(* grows, and as long as none is removed a target it owes the message is   *)
(* taken or still ahead.                                                   *)
(***************************************************************************)
WalkFits(t, label, emission, number, owed, list, ever) ==
  /\ label \in Emitting =>
       /\ emission.message.sender = t /\ emission.message.number = number
       /\ IsInjective(emission.matching) /\ Range(emission.matching) \subseteq ever
  /\ label = "match" =>
       /\ Ahead(list, emission.index) \cap Range(emission.matching) = {}
       /\ owed \subseteq Range(emission.matching) \cup Ahead(list, emission.index)
  /\ label = "write" => owed \subseteq Range(emission.matching)

WalkInv ==
  \A t \in Threads :
    WalkFits(t, pc[t], local[t], emitted[t], due[t], receivers, opened)

(* The message being emitted has not come to the record, or to r, yet. *)
Unwritten(t) == pc[t] \in {"match", "write"}

Undelivered(t, r) ==
  Unwritten(t) \/ (pc[t] = "deliver" /\ r \in Range(local[t].matching))

(* Numbers are used up in order: the one in use is the thread's highest. *)
Counted(m, open) ==
  m.number <= emitted[m.sender] /\ (open => m.number < emitted[m.sender])

OrderInv ==
  /\ \A i \in DOMAIN log : IsMessage(log[i]) =>
       Counted(log[i], Unwritten(log[i].sender))
  /\ \A r \in Receivers : \A i \in DOMAIN inbox[r] :
       Counted(inbox[r][i], Undelivered(inbox[r][i].sender, r))
  /\ SenderOrderKept

------------------------------------------------------------------------------
(* Types. *)

LEMMA InitType == Init => TypeOK
<1> SUFFICES ASSUME Init PROVE TypeOK
  OBVIOUS
<1>1. table \in [{} -> Nat] /\ {} \in SUBSET TopicNames /\ DOMAIN table = {}
  BY DEF Init
<1>2. table \in Tables
  BY <1>1 DEF Tables
<1>3. IsFiniteSet(DOMAIN table)
  BY <1>1, FS_EmptySet
<1>4. \A t \in Threads : LocalsFit(pc[t], local[t])
  BY DEF Init, LocalsFit, Binding, Emitting, Removing
<1> QED BY <1>2, <1>3, <1>4 DEF Init, TypeOK, Labels

(* A step of a thread leaves the local variables of the others alone. *)
LEMMA OthersFit ==
  ASSUME TypeOK, NEW t \in Threads, NEW label, NEW values,
         pc' = [pc EXCEPT ![t] = label], local' = [local EXCEPT ![t] = values],
         label \in Labels, LocalsFit(label, values),
         values \in {<<>>} \cup Lookups \cup Bindings \cup Emissions \cup Removals
  PROVE  /\ pc' \in [Threads -> Labels]
         /\ local' \in [Threads -> {<<>>} \cup Lookups \cup Bindings \cup Emissions
                                     \cup Removals]
         /\ \A s \in Threads : LocalsFit(pc'[s], local'[s])
  BY DEF TypeOK

LEMMA NextType ==
  ASSUME TypeOK, [Next]_vars
  PROVE  TypeOK'
<1> USE DEF registryVars, receiverVars, threadVars
<1>1. CASE UNCHANGED vars
  BY <1>1 DEF vars, TypeOK
<1>2. ASSUME NEW t \in Threads, NEW name \in TopicNames, LookUpSymbol(t, name)
      PROVE  TypeOK'
  <2>1. CASE name \in DOMAIN table
    <3>1. [name |-> name, id |-> table[name]] \in Bindings
      BY <2>1 DEF TypeOK, Tables, Bindings
    <3>2. bound' = [bound EXCEPT
                      ![t] = @ \cup {[name |-> name, id |-> table[name]]}]
      BY <1>2, <2>1 DEF LookUpSymbol
    <3>3. bound' \in [Threads -> SUBSET Bindings]
      BY <3>1, <3>2 DEF TypeOK
    <3> QED BY <1>2, <2>1, <3>3 DEF LookUpSymbol, TypeOK
  <2>2. CASE name \notin DOMAIN table
    <3>1. LocalsFit("allocate", [name |-> name])
      BY DEF LocalsFit, Lookups, Binding, Emitting, Removing
    <3> QED BY <1>2, <2>2, <3>1, OthersFit
            DEF LookUpSymbol, Goto, Set, TypeOK, Labels, Lookups
  <2> QED BY <2>1, <2>2
<1>3. ASSUME NEW t \in Threads, AllocateId(t)
      PROVE  TypeOK'
  <2> DEFINE b == [name |-> local[t].name, id |-> Cardinality(DOMAIN table)]
  <2>1. local[t] \in Lookups /\ Cardinality(DOMAIN table) \in Nat
    BY <1>3, FS_CardinalityType DEF AllocateId, TypeOK, LocalsFit
  <2>2. b \in Bindings
    BY <2>1 DEF Lookups, Bindings
  <2>3. LocalsFit("store", b)
    BY <2>2 DEF LocalsFit, Binding, Emitting, Removing
  <2> HIDE DEF b
  <2> QED BY <1>3, <2>2, <2>3, OthersFit
          DEF AllocateId, Goto, Set, TypeOK, Labels, Binding, b
<1>4. ASSUME NEW t \in Threads, StoreId(t)
      PROVE  TypeOK'
  <2>1. local[t] \in Bindings
    BY <1>4 DEF StoreId, TypeOK, LocalsFit, Binding
  <2>2. local[t].name \in TopicNames /\ local[t].id \in Nat
    BY <2>1 DEF Bindings
  <2>3. /\ DOMAIN table \in SUBSET TopicNames
        /\ \A n \in DOMAIN table : table[n] \in Nat
    BY DEF TypeOK, Tables
  <2> DEFINE names == DOMAIN table \cup {local[t].name}
  <2>4. table' \in [names -> Nat] /\ names \in SUBSET TopicNames
    BY <1>4, <2>2, <2>3 DEF StoreId
  <2>5. IsFiniteSet(names)
    BY FS_AddElement DEF TypeOK
  <2>6. table' \in Tables /\ IsFiniteSet(DOMAIN table')
    BY <2>4, <2>5 DEF Tables
  <2>7. /\ pc' = [pc EXCEPT ![t] = "list"]
        /\ local' = [local EXCEPT ![t] = local[t]]
    BY <1>4 DEF StoreId, Goto, TypeOK
  <2>8. LocalsFit("list", local[t]) /\ "list" \in Labels
    BY <2>1 DEF LocalsFit, Binding, Emitting, Removing, Labels
  <2> QED BY <1>4, <2>1, <2>6, <2>7, <2>8, OthersFit DEF StoreId, TypeOK
<1>5. ASSUME NEW t \in Threads, ListRegistration(t)
      PROVE  TypeOK'
  <2>1. local[t] \in Bindings
    BY <1>5 DEF ListRegistration, TypeOK, LocalsFit, Binding
  <2>2. /\ pc' = [pc EXCEPT ![t] = "capture"]
        /\ local' = [local EXCEPT ![t] = local[t]]
    BY <1>5 DEF ListRegistration, Goto, TypeOK
  <2>3. LocalsFit("capture", local[t]) /\ "capture" \in Labels
    BY <2>1 DEF LocalsFit, Binding, Emitting, Removing, Labels
  <2> QED BY <1>5, <2>1, <2>2, <2>3, OthersFit DEF ListRegistration, TypeOK
<1>6. ASSUME NEW t \in Threads, CaptureRegistration(t)
      PROVE  TypeOK'
  <2>1. local[t] \in Bindings
    BY <1>6 DEF CaptureRegistration, TypeOK, LocalsFit, Binding
  <2>2. Registration(local[t].name, local[t].id) \in RegistrationRecords
    BY <2>1 DEF Registration, RegistrationRecords, Bindings
  <2>3. LocalsFit("idle", <<>>) /\ "idle" \in Labels
    BY DEF LocalsFit, Binding, Emitting, Removing, Labels
  <2>4. log' \in Seq(RegistrationRecords \cup Messages)
    BY <1>6, <2>2 DEF CaptureRegistration, TypeOK
  <2> QED BY <1>6, <2>1, <2>3, <2>4, OthersFit
          DEF CaptureRegistration, Return, Goto, Set, TypeOK
<1>7. ASSUME NEW t \in Threads, BuildMessage(t)
      PROVE  TypeOK'
  <2>1. PICK b \in bound[t] :
          Set(t, [message |-> [record |-> "message", sender |-> t,
                               number |-> emitted[t] + 1,
                               name |-> b.name, id |-> b.id],
                  index |-> 1, matching |-> <<>>])
    BY <1>7 DEF BuildMessage
  <2> DEFINE m == [record |-> "message", sender |-> t, number |-> emitted[t] + 1,
                   name |-> b.name, id |-> b.id]
             e == [message |-> m, index |-> 1, matching |-> <<>>]
  <2>2. b \in Bindings /\ emitted[t] + 1 \in Nat
    BY DEF TypeOK
  <2>3. m \in Messages
    BY <2>2 DEF Messages, Bindings
  <2>4. e \in Emissions
    BY <2>3 DEF Emissions
  <2>5. Range(receivers) \in SUBSET Receivers
    BY RangeType DEF TypeOK
  <2>6. LocalsFit("match", e) /\ "match" \in Labels
    BY <2>4 DEF LocalsFit, Binding, Emitting, Removing, Labels
  <2>7. local' = [local EXCEPT ![t] = e]
    BY <2>1 DEF Set
  <2> HIDE DEF e, m
  <2> QED BY <1>7, <2>2, <2>4, <2>5, <2>6, <2>7, OthersFit
          DEF BuildMessage, Goto, TypeOK

<1>8. ASSUME NEW t \in Threads, MatchReceiver(t)
      PROVE  TypeOK'
  <2> DEFINE e == [local[t] EXCEPT !.matching = Append(@, receivers[local[t].index]),
                                   !.index = @ + 1]
  <2>1. local[t] \in Emissions
    BY <1>8 DEF MatchReceiver, TypeOK, LocalsFit, Emitting
  <2>2. local[t].index \in DOMAIN receivers
    BY <1>8, <2>1 DEF MatchReceiver, TypeOK, Emissions
  <2>3. receivers[local[t].index] \in Receivers
    BY <2>2 DEF TypeOK
  <2>4. e \in Emissions
    <3>1. /\ local[t].message \in Messages /\ local[t].index + 1 \in Nat \ {0}
          /\ Append(local[t].matching, receivers[local[t].index]) \in Seq(Receivers)
      BY <2>1, <2>3 DEF Emissions
    <3> QED BY <2>1, <3>1 DEF Emissions
  <2>5. LocalsFit("match", e) /\ "match" \in Labels
    BY <2>4 DEF LocalsFit, Binding, Emitting, Removing, Labels
  <2>6. /\ pc' = [pc EXCEPT ![t] = "match"]
        /\ local' = [local EXCEPT ![t] = e]
    BY <1>8 DEF MatchReceiver, TypeOK
  <2> HIDE DEF e
  <2> QED BY <1>8, <2>4, <2>5, <2>6, OthersFit DEF MatchReceiver, TypeOK
<1>9. ASSUME NEW t \in Threads, MatchingDone(t) \/ WriteMessage(t)
      PROVE  TypeOK'
  <2>1. local[t] \in Emissions
    BY <1>9 DEF MatchingDone, WriteMessage, TypeOK, LocalsFit, Emitting
  <2>2. PICK label \in {"write", "deliver"} :
          /\ pc' = [pc EXCEPT ![t] = label]
          /\ local' = [local EXCEPT ![t] = local[t]]
    BY <1>9 DEF MatchingDone, WriteMessage, Goto, TypeOK
  <2>3. LocalsFit(label, local[t]) /\ label \in Labels
    BY <2>1 DEF LocalsFit, Binding, Emitting, Removing, Labels
  <2>4. log' \in Seq(RegistrationRecords \cup Messages)
    <3>1. local[t].message \in Messages
      BY <2>1 DEF Emissions
    <3>2. log' \in {log, Append(log, local[t].message)}
      BY <1>9 DEF MatchingDone, WriteMessage
    <3>3. log \in Seq(RegistrationRecords \cup Messages)
      BY DEF TypeOK
    <3>4. Append(log, local[t].message) \in Seq(RegistrationRecords \cup Messages)
      BY <3>1, <3>3, Appended
    <3> QED BY <3>2, <3>3, <3>4
  <2> QED BY <1>9, <2>1, <2>2, <2>3, <2>4, OthersFit
          DEF MatchingDone, WriteMessage, TypeOK
<1>10. ASSUME NEW t \in Threads, DeliverNext(t)
       PROVE  TypeOK'
  <2> DEFINE e == [local[t] EXCEPT !.matching = Tail(@)]
             r == Head(local[t].matching)
  <2>1. local[t] \in Emissions
    BY <1>10 DEF DeliverNext, TypeOK, LocalsFit, Emitting
  <2>2. /\ local[t].message \in Messages /\ r \in Receivers
        /\ Tail(local[t].matching) \in Seq(Receivers)
    BY <1>10, <2>1, HeadAndTail DEF DeliverNext, Emissions
  <2>3. e \in Emissions
    BY <2>1, <2>2 DEF Emissions
  <2>4. LocalsFit("deliver", e) /\ "deliver" \in Labels
    BY <2>3 DEF LocalsFit, Binding, Emitting, Removing, Labels
  <2>5. inbox' \in [Receivers -> Seq(Messages)]
    BY <1>10, <2>2 DEF DeliverNext, TypeOK
  <2>6. /\ pc' = [pc EXCEPT ![t] = "deliver"]
        /\ local' = [local EXCEPT ![t] = e]
    BY <1>10 DEF DeliverNext, TypeOK
  <2> HIDE DEF e
  <2> QED BY <1>10, <2>3, <2>4, <2>5, <2>6, OthersFit DEF DeliverNext, TypeOK
<1>11. ASSUME NEW t \in Threads,
              EmitReturns(t) \/ SearchFails(t) \/ DeleteReceiver(t)
       PROVE  TypeOK'
  <2>1. LocalsFit("idle", <<>>) /\ "idle" \in Labels
    BY DEF LocalsFit, Binding, Emitting, Removing, Labels
  <2>2. receivers' \in Seq(Receivers)
    <3>1. CASE DeleteReceiver(t)
      <4>1. local[t] \in Removals
        BY <3>1 DEF DeleteReceiver, TypeOK, LocalsFit, Removing
      <4>2. ASSUME local[t].index <= Len(receivers)
            PROVE  RemoveAt(receivers, local[t].index) \in Seq(Receivers)
        BY <4>1, <4>2, Removed DEF TypeOK, Removals
      <4> QED BY <3>1, <4>2 DEF DeleteReceiver, TypeOK
    <3>2. CASE ~DeleteReceiver(t)
      BY <1>11, <3>2 DEF EmitReturns, SearchFails, TypeOK
    <3> QED BY <3>1, <3>2
  <2>3. due' \in [Threads -> SUBSET Receivers]
    BY <1>11 DEF EmitReturns, SearchFails, DeleteReceiver, TypeOK
  <2>4. /\ pc' = [pc EXCEPT ![t] = "idle"]
        /\ local' = [local EXCEPT ![t] = <<>>]
        /\ UNCHANGED <<registryVars, log, opened, inbox, bound, emitted>>
    BY <1>11 DEF EmitReturns, SearchFails, DeleteReceiver, Return, Goto, Set
  <2> QED BY <2>1, <2>2, <2>3, <2>4, OthersFit DEF TypeOK
<1>12. ASSUME NEW t \in Threads, NEW r \in Receivers, AddReceiver(t, r)
       PROVE  TypeOK'
  BY <1>12 DEF AddReceiver, TypeOK
<1>13. ASSUME NEW t \in Threads, NEW r \in Receivers, RemoveReceiver(t, r)
       PROVE  TypeOK'
  <2>1. [target |-> r, index |-> 1] \in Removals
    BY DEF Removals
  <2>2. LocalsFit("search", [target |-> r, index |-> 1]) /\ "search" \in Labels
    BY <2>1 DEF LocalsFit, Binding, Emitting, Removing, Labels
  <2> QED BY <1>13, <2>1, <2>2, OthersFit DEF RemoveReceiver, Goto, Set, TypeOK
<1>14. ASSUME NEW t \in Threads, SearchReceiver(t)
       PROVE  TypeOK'
  <2> DEFINE further == [local[t] EXCEPT !.index = @ + 1]
  <2>1. local[t] \in Removals
    BY <1>14 DEF SearchReceiver, TypeOK, LocalsFit, Removing
  <2>2. further \in Removals
    BY <2>1 DEF Removals
  <2>3. PICK label \in Removing, values \in {local[t], further} :
          /\ pc' = [pc EXCEPT ![t] = label]
          /\ local' = [local EXCEPT ![t] = values]
    <3>1. /\ pc = [pc EXCEPT ![t] = "search"]
          /\ local = [local EXCEPT ![t] = local[t]]
      BY <1>14 DEF SearchReceiver, TypeOK
    <3> QED BY <1>14, <3>1 DEF SearchReceiver, Goto, Removing
  <2>4. values \in Removals
    BY <2>1, <2>2
  <2>5. LocalsFit(label, values) /\ label \in Labels
    BY <2>4 DEF LocalsFit, Binding, Emitting, Removing, Labels
  <2> HIDE DEF further
  <2> QED BY <1>14, <2>3, <2>4, <2>5, OthersFit DEF SearchReceiver, TypeOK
<1> QED BY <1>1, <1>2, <1>3, <1>4, <1>5, <1>6, <1>7, <1>8, <1>9, <1>10, <1>11,
           <1>12, <1>13, <1>14 DEF Next, Bind, Emit, Subscribe

------------------------------------------------------------------------------
(* What a step may do to the record, and to the threads it is not of. *)

Step(t) == Bind(t) \/ Emit(t) \/ Subscribe(t)

LEMMA LogSteps ==
  ASSUME TypeOK, NEW t \in Threads, Step(t)
  PROVE  \/ log' = log
         \/ /\ CaptureRegistration(t)
            /\ Registration(local[t].name, local[t].id)
                 \in RegistrationRecords \cup Messages
            /\ log' = Append(log, Registration(local[t].name, local[t].id))
         \/ /\ WriteMessage(t) /\ local[t].message \in RegistrationRecords \cup Messages
            /\ log' = Append(log, local[t].message)
<1>1. CASE CaptureRegistration(t)
  <2>1. local[t] \in Bindings
    BY <1>1 DEF CaptureRegistration, TypeOK, LocalsFit, Binding
  <2>2. Registration(local[t].name, local[t].id) \in RegistrationRecords
    BY <2>1 DEF Registration, RegistrationRecords, Bindings
  <2> QED BY <1>1, <2>2 DEF CaptureRegistration
<1>2. CASE WriteMessage(t)
  <2>1. local[t] \in Emissions
    BY <1>2 DEF WriteMessage, TypeOK, LocalsFit, Emitting
  <2> QED BY <1>2, <2>1 DEF WriteMessage, Emissions
<1>3. CASE ~CaptureRegistration(t) /\ ~WriteMessage(t)
  BY <1>3 DEF Step, Bind, Emit, Subscribe, LookUpSymbol, AllocateId, StoreId,
       ListRegistration, BuildMessage, MatchReceiver, MatchingDone, DeliverNext,
       EmitReturns, AddReceiver, RemoveReceiver, SearchReceiver, SearchFails,
       DeleteReceiver
<1> QED BY <1>1, <1>2, <1>3

LEMMA LogGrows ==
  ASSUME TypeOK, NEW t \in Threads, Step(t)
  PROVE  /\ log' \in Seq(RegistrationRecords \cup Messages)
         /\ Range(log) \subseteq Range(log')
         /\ Len(log) <= Len(log')
         /\ \A i \in DOMAIN log : i \in DOMAIN log' /\ log'[i] = log[i]
<1>1. log \in Seq(RegistrationRecords \cup Messages)
  BY DEF TypeOK
<1>2. CASE log' = log
  BY <1>1, <1>2
<1>3. ASSUME NEW rec \in RegistrationRecords \cup Messages, log' = Append(log, rec)
      PROVE  /\ log' \in Seq(RegistrationRecords \cup Messages)
             /\ Range(log) \subseteq Range(log')
             /\ Len(log) <= Len(log')
             /\ \A i \in DOMAIN log : i \in DOMAIN log' /\ log'[i] = log[i]
  <2>1. Range(log') = Range(log) \cup {rec}
    BY <1>1, <1>3, RangeOfAppended
  <2> QED BY <1>1, <1>3, <2>1, Appended
<1> QED BY <1>2, <1>3, LogSteps

LEMMA OthersStay ==
  ASSUME TypeOK, NEW t \in Threads, Step(t), NEW s \in Threads, s # t
  PROVE  /\ pc'[s] = pc[s] /\ local'[s] = local[s]
         /\ bound'[s] = bound[s] /\ emitted'[s] = emitted[s]
  BY DEF TypeOK, Step, Bind, Emit, Subscribe, LookUpSymbol, AllocateId, StoreId,
       ListRegistration, CaptureRegistration, BuildMessage, MatchReceiver,
       MatchingDone, WriteMessage, DeliverNext, EmitReturns, AddReceiver,
       RemoveReceiver, SearchReceiver, SearchFails, DeleteReceiver,
       Goto, Set, Return, registryVars, receiverVars, threadVars

LEMMA NextIsStep == [Next]_vars => (\E t \in Threads : Step(t)) \/ UNCHANGED vars
  BY DEF Next, Step

------------------------------------------------------------------------------
(* Every ID in the record is explained, or going to be. *)

LEMMA InitExplained == Init => ExplainedInv
  BY DEF Init, ExplainedInv, Emitting

LEMMA ExplainedKept ==
  ASSUME TypeOK, NEW t \in Threads, Step(t),
         NEW name, NEW id, Explained(name, id)
  PROVE  Explained(name, id)'
<1>1. CASE Registration(name, id) \in Range(log)
  BY <1>1, LogGrows DEF Explained, Registration
<1>2. ASSUME NEW s \in Threads, pc[s] \in Binding,
             local[s] = [name |-> name, id |-> id]
      PROVE  Explained(name, id)'
  <2>1. CASE s # t \/ StoreId(t) \/ ListRegistration(t)
    <3>1. pc'[s] \in Binding /\ local'[s] = local[s]
      BY <1>2, <2>1, OthersStay
         DEF StoreId, ListRegistration, Goto, TypeOK, Binding
    <3> QED BY <1>2, <3>1 DEF Explained, OnItsWay, Binding
  <2>2. CASE s = t /\ CaptureRegistration(t)
    <3>1. log' = Append(log, Registration(name, id))
      BY <1>2, <2>2 DEF CaptureRegistration
    <3>2. Registration(name, id) \in RegistrationRecords
      BY <1>2 DEF TypeOK, LocalsFit, Bindings, Registration, RegistrationRecords
    <3>3. Registration(name, id) \in Range(log')
      BY <3>1, <3>2, RangeOfAppended DEF TypeOK
    <3> QED BY <3>3 DEF Explained, Registration
  <2>3. s = t => StoreId(t) \/ ListRegistration(t) \/ CaptureRegistration(t)
    BY <1>2 DEF Step, Bind, Emit, Subscribe, LookUpSymbol, AllocateId,
         BuildMessage, MatchReceiver, MatchingDone, WriteMessage, DeliverNext,
         EmitReturns, AddReceiver, RemoveReceiver, SearchReceiver, SearchFails,
         DeleteReceiver, Binding
  <2> QED BY <2>1, <2>2, <2>3
<1> QED BY <1>1, <1>2 DEF Explained, OnItsWay, Binding

LEMMA NextExplained ==
  ASSUME TypeOK, ExplainedInv, [Next]_vars
  PROVE  ExplainedInv'
<1>1. CASE UNCHANGED vars
  BY <1>1 DEF vars, ExplainedInv, Explained, OnItsWay
<1>2. ASSUME NEW t \in Threads, Step(t)
      PROVE  ExplainedInv'
  <2>1. ASSUME NEW n \in DOMAIN table', NEW id, id = table'[n]
        PROVE  Explained(n, id)'
    <3>1. CASE n \in DOMAIN table /\ id = table[n]
      <4>1. Explained(n, id)
        BY <3>1 DEF ExplainedInv
      <4> QED BY <1>2, <4>1, ExplainedKept
    <3>2. CASE StoreId(t) /\ n = local[t].name
      <4>1. local[t] \in Bindings /\ id = local[t].id
        BY <2>1, <3>2 DEF StoreId, TypeOK, LocalsFit, Binding
      <4>2. pc'[t] = "list" /\ local'[t] = [name |-> n, id |-> id]
        BY <3>2, <4>1 DEF StoreId, Goto, TypeOK, Bindings
      <4> QED BY <4>2 DEF Explained, OnItsWay
    <3>3. CASE StoreId(t) /\ n # local[t].name
      BY <2>1, <3>1, <3>3 DEF StoreId
    <3>4. ~StoreId(t) => table' = table
      BY <1>2 DEF Step, Bind, Emit, Subscribe, LookUpSymbol, AllocateId,
           ListRegistration, CaptureRegistration, BuildMessage, MatchReceiver,
           MatchingDone, WriteMessage, DeliverNext, EmitReturns, AddReceiver,
           RemoveReceiver, SearchReceiver, SearchFails, DeleteReceiver,
           registryVars
    <3> QED BY <2>1, <3>1, <3>2, <3>3, <3>4
  <2>2. ASSUME NEW s \in Threads, NEW b \in bound'[s]
        PROVE  Explained(b.name, b.id)'
    <3>1. CASE b \in bound[s]
      <4>1. Explained(b.name, b.id)
        BY <3>1 DEF ExplainedInv
      <4> QED BY <1>2, <4>1, ExplainedKept
    <3>2. CASE s = t /\ CaptureRegistration(t) /\ b = local[t]
      <4>1. Explained(b.name, b.id)
        BY <3>2 DEF CaptureRegistration, TypeOK, LocalsFit, Binding, Bindings,
             Explained, OnItsWay
      <4> QED BY <1>2, <4>1, ExplainedKept
    <3>3. ASSUME NEW name \in DOMAIN table, b = [name |-> name, id |-> table[name]]
          PROVE  Explained(b.name, b.id)'
      <4>1. Explained(b.name, b.id)
        BY <3>3 DEF ExplainedInv
      <4> QED BY <1>2, <4>1, ExplainedKept
    <3>4. ASSUME NEW name, LookUpSymbol(t, name), s = t
          PROVE  \/ b \in bound[s]
                 \/ name \in DOMAIN table /\ b = [name |-> name, id |-> table[name]]
      BY <2>2, <3>4 DEF LookUpSymbol, TypeOK
    <3>5. CASE s = t /\ \A name : ~LookUpSymbol(t, name)
      <4>1. \/ bound' = bound
            \/ CaptureRegistration(t) /\ bound'[s] = bound[s] \cup {local[t]}
        BY <1>2, <3>5 DEF Step, Bind, Emit, Subscribe, AllocateId, StoreId,
             ListRegistration, CaptureRegistration, BuildMessage, MatchReceiver,
             MatchingDone, WriteMessage, DeliverNext, EmitReturns, AddReceiver,
             RemoveReceiver, SearchReceiver, SearchFails, DeleteReceiver,
             threadVars, TypeOK
      <4> QED BY <2>2, <3>1, <3>2, <3>5, <4>1
    <3>6. CASE s # t
      BY <1>2, <2>2, <3>1, <3>6, OthersStay
    <3> QED BY <3>1, <3>3, <3>4, <3>5, <3>6
  <2>3. ASSUME NEW s \in Threads, pc'[s] \in Emitting,
               NEW m, m = local'[s].message
        PROVE  Explained(m.name, m.id)'
    <3>1. CASE pc[s] \in Emitting /\ m = local[s].message
      <4>1. Explained(m.name, m.id)
        BY <3>1 DEF ExplainedInv
      <4> QED BY <1>2, <4>1, ExplainedKept
    <3>2. CASE BuildMessage(t) /\ s = t
      <4>1. PICK b \in bound[t] : m.name = b.name /\ m.id = b.id
        BY <2>3, <3>2 DEF BuildMessage, Set, TypeOK
      <4>2. Explained(b.name, b.id)
        BY DEF ExplainedInv
      <4> QED BY <1>2, <4>1, <4>2, ExplainedKept
    <3>3. CASE s # t
      BY <1>2, <2>3, <3>1, <3>3, OthersStay
    <3>4. CASE s = t /\ ~BuildMessage(t)
      <4>1. \/ MatchReceiver(t) \/ MatchingDone(t) \/ WriteMessage(t)
            \/ DeliverNext(t)
        BY <1>2, <2>3, <3>4 DEF Step, Bind, Emit, Subscribe, LookUpSymbol,
             AllocateId, StoreId, ListRegistration, CaptureRegistration,
             EmitReturns, AddReceiver, RemoveReceiver, SearchReceiver,
             SearchFails, DeleteReceiver, Goto, Return, Emitting, TypeOK
      <4>2. pc[s] \in Emitting /\ local[s] \in Emissions
        BY <3>4, <4>1 DEF MatchReceiver, MatchingDone, WriteMessage, DeliverNext,
             Emitting, TypeOK, LocalsFit
      <4>3. local'[s].message = local[s].message
        BY <3>4, <4>1, <4>2 DEF MatchReceiver, MatchingDone, WriteMessage,
             DeliverNext, TypeOK, Emissions
      <4> QED BY <2>3, <3>1, <4>2, <4>3
    <3> QED BY <3>2, <3>3, <3>4
  <2>4. ASSUME NEW i \in DOMAIN log', NEW rec, rec = log'[i], IsMessage(rec)
        PROVE  Explained(rec.name, rec.id)'
    <3>1. CASE i \in DOMAIN log
      <4>1. log'[i] = log[i]
        BY <1>2, <3>1, LogGrows
      <4>2. Explained(rec.name, rec.id)
        BY <2>4, <3>1, <4>1 DEF ExplainedInv
      <4> QED BY <1>2, <4>2, ExplainedKept
    <3>2. ASSUME NEW new \in RegistrationRecords \cup Messages, log' = Append(log, new),
                 i \notin DOMAIN log
          PROVE  rec = new
      BY <2>4, <3>2, Appended DEF TypeOK
    <3>3. CASE i \notin DOMAIN log
      <4>1. WriteMessage(t) /\ rec = local[t].message
        <5>1. log' # log
          BY <2>4, <3>3
        <5>2. ~IsMessage(Registration(local[t].name, local[t].id))
          BY DEF IsMessage, Registration
        <5>3. CASE /\ Registration(local[t].name, local[t].id)
                        \in RegistrationRecords \cup Messages
                   /\ log' = Append(log, Registration(local[t].name, local[t].id))
          BY <2>4, <3>2, <3>3, <5>2, <5>3
        <5>4. CASE /\ local[t].message \in RegistrationRecords \cup Messages
                   /\ log' = Append(log, local[t].message)
          BY <1>2, <3>2, <3>3, <5>3, <5>4, LogSteps
        <5> QED BY <1>2, <5>1, <5>3, <5>4, LogSteps
      <4>2. Explained(rec.name, rec.id)
        BY <4>1 DEF ExplainedInv, WriteMessage, Emitting
      <4> QED BY <1>2, <4>2, ExplainedKept
    <3> QED BY <3>1, <3>3
  <2> QED BY <2>1, <2>2, <2>3, <2>4 DEF ExplainedInv
<1> QED BY <1>1, <1>2, NextIsStep

LEMMA Typing == Spec => []TypeOK
<1>1. TypeOK /\ [Next]_vars => TypeOK'
  BY NextType
<1> QED BY InitType, <1>1, PTL DEF Spec

(***************************************************************************)
(* Whatever the threads do in between, the capture record explains every   *)
(* ID it uses, or a thread is about to write the explanation               *)
(* (_ensure_symbol_id, _capture_symbol_event).                             *)
(***************************************************************************)
THEOREM IdsExplained == Spec => []EveryIdExplained
<1>1. TypeOK /\ ExplainedInv /\ [Next]_vars => ExplainedInv'
  BY NextExplained
<1>2. ExplainedInv => EveryIdExplained
  BY DEF ExplainedInv, EveryIdExplained, Explained
<1> QED BY InitExplained, Typing, <1>1, <1>2, PTL DEF Spec

------------------------------------------------------------------------------
(* Nothing is delivered before it is recorded. *)

LEMMA InitCaptured == Init => CapturedInv
<1>1. Init => \A r \in Receivers : Range(inbox[r]) = {}
  BY RangeOfEmpty DEF Init
<1> QED BY <1>1 DEF Init, CapturedInv, CapturedBeforeDelivered

(* The thread whose step it is: what it delivers, and what it has written. *)
LEMMA InboxSteps ==
  ASSUME TypeOK, NEW t \in Threads, Step(t)
  PROVE  \/ inbox' = inbox
         \/ \E r \in Receivers :
              /\ DeliverNext(t) /\ r = Head(local[t].matching)
              /\ local[t] \in Emissions /\ local[t].matching # <<>>
              /\ inbox' = [inbox EXCEPT ![r] = Append(@, local[t].message)]
<1>1. CASE DeliverNext(t)
  <2>1. local[t] \in Emissions
    BY <1>1 DEF DeliverNext, TypeOK, LocalsFit, Emitting
  <2>2. Head(local[t].matching) \in Receivers
    BY <1>1, <2>1, HeadAndTail DEF DeliverNext, Emissions
  <2> QED BY <1>1, <2>1, <2>2 DEF DeliverNext
<1>2. CASE ~DeliverNext(t)
  BY <1>2 DEF Step, Bind, Emit, Subscribe, LookUpSymbol, AllocateId, StoreId,
       ListRegistration, CaptureRegistration, BuildMessage, MatchReceiver,
       MatchingDone, WriteMessage, EmitReturns, AddReceiver, RemoveReceiver,
       SearchReceiver, SearchFails, DeleteReceiver
<1> QED BY <1>1, <1>2

LEMMA NextCaptured ==
  ASSUME TypeOK, CapturedInv, [Next]_vars
  PROVE  CapturedInv'
<1>1. CASE UNCHANGED vars
  BY <1>1 DEF vars, CapturedInv, CapturedBeforeDelivered
<1>2. ASSUME NEW t \in Threads, Step(t)
      PROVE  CapturedInv'
  <2>1. ASSUME NEW s \in Threads, pc'[s] = "deliver"
        PROVE  local'[s].message \in Range(log')
    <3>1. CASE pc[s] = "deliver" /\ local'[s].message = local[s].message
      BY <1>2, <3>1, LogGrows DEF CapturedInv
    <3>2. CASE WriteMessage(t) /\ s = t
      <4>1. /\ local[t].message \in RegistrationRecords \cup Messages
            /\ log' = Append(log, local[t].message) /\ local' = local
        BY <3>2, LogSteps DEF WriteMessage, TypeOK, LocalsFit, Emitting, Emissions
      <4>2. log \in Seq(RegistrationRecords \cup Messages)
        BY DEF TypeOK
      <4>3. Range(log') = Range(log) \cup {local[t].message}
        BY <4>1, <4>2, RangeOfAppended
      <4> QED BY <3>2, <4>1, <4>3
    <3>3. CASE s # t
      BY <1>2, <2>1, <3>1, <3>3, OthersStay
    <3>4. CASE s = t /\ ~WriteMessage(t)
      <4>1. DeliverNext(t)
        BY <1>2, <2>1, <3>4 DEF Step, Bind, Emit, Subscribe, LookUpSymbol,
             AllocateId, StoreId, ListRegistration, CaptureRegistration,
             BuildMessage, MatchReceiver, MatchingDone,
             EmitReturns, AddReceiver, RemoveReceiver, SearchReceiver,
             SearchFails, DeleteReceiver, Goto, Return, TypeOK
      <4>2. pc[s] = "deliver" /\ local[s] \in Emissions
        BY <3>4, <4>1 DEF DeliverNext, TypeOK, LocalsFit, Emitting
      <4>3. local'[s].message = local[s].message
        BY <3>4, <4>1, <4>2 DEF DeliverNext, TypeOK, Emissions
      <4> QED BY <3>1, <4>2, <4>3
    <3> QED BY <3>2, <3>3, <3>4
  <2>2. ASSUME NEW r \in Receivers
        PROVE  Range(inbox'[r]) \subseteq Range(log')
    <3>1. Range(inbox[r]) \subseteq Range(log')
      BY <1>2, LogGrows DEF CapturedInv, CapturedBeforeDelivered
    <3>2. CASE inbox'[r] = inbox[r]
      BY <3>1, <3>2
    <3>3. CASE /\ DeliverNext(t) /\ local[t] \in Emissions
               /\ inbox'[r] = Append(inbox[r], local[t].message)
      <4>1. /\ inbox[r] \in Seq(Messages) /\ local[t].message \in Messages
            /\ pc[t] = "deliver"
        BY <3>3 DEF DeliverNext, TypeOK, Emissions
      <4>2. Range(inbox'[r]) = Range(inbox[r]) \cup {local[t].message}
        BY <3>3, <4>1, RangeOfAppended
      <4>3. local[t].message \in Range(log')
        BY <1>2, <4>1, LogGrows DEF CapturedInv
      <4> QED BY <3>1, <4>2, <4>3
    <3> QED BY <1>2, <3>2, <3>3, InboxSteps DEF TypeOK
  <2> QED BY <2>1, <2>2 DEF CapturedInv, CapturedBeforeDelivered
<1> QED BY <1>1, <1>2, NextIsStep

(***************************************************************************)
(* A receiver is given nothing that the capture record does not have,      *)
(* whatever other threads do between the write and the calls (_deliver).   *)
(***************************************************************************)
THEOREM CaptureComesFirst == Spec => []CapturedBeforeDelivered
<1>1. TypeOK /\ CapturedInv /\ [Next]_vars => CapturedInv'
  BY NextCaptured
<1>2. CapturedInv => CapturedBeforeDelivered
  BY DEF CapturedInv
<1> QED BY InitCaptured, Typing, <1>1, <1>2, PTL DEF Spec

------------------------------------------------------------------------------
(* The list of receivers, and the walks over it. *)

LEMMA ReceiverSteps ==
  ASSUME TypeOK, NEW t \in Threads, Step(t)
  PROVE  \/ UNCHANGED <<receivers, opened>>
         \/ \E r \in Receivers :
              /\ AddReceiver(t, r) /\ r \notin opened /\ UNCHANGED <<pc, local, due>>
              /\ receivers' = Append(receivers, r) /\ opened' = opened \cup {r}
         \/ \E k \in 1..Len(receivers) :
              /\ DeleteReceiver(t) /\ opened' = opened
              /\ receivers' = RemoveAt(receivers, k)
              /\ due' = [s \in Threads |-> {}]
<1>1. ASSUME NEW r \in Receivers, AddReceiver(t, r)
      PROVE  /\ r \notin opened /\ UNCHANGED <<pc, local, due>>
             /\ receivers' = Append(receivers, r) /\ opened' = opened \cup {r}
  BY <1>1 DEF AddReceiver, threadVars
<1>2. CASE DeleteReceiver(t)
  <2>1. local[t].index \in Nat \ {0}
    BY <1>2 DEF DeleteReceiver, TypeOK, LocalsFit, Removing, Removals
  <2>2. Len(receivers) \in Nat
    BY LenProperties DEF TypeOK
  <2>3. CASE local[t].index <= Len(receivers)
    <3>1. local[t].index \in 1..Len(receivers)
      BY <2>1, <2>2, <2>3
    <3> QED BY <1>2, <2>3, <3>1 DEF DeleteReceiver
  <2>4. CASE ~(local[t].index <= Len(receivers))
    BY <1>2, <2>4 DEF DeleteReceiver
  <2> QED BY <2>3, <2>4
<1>3. CASE ~DeleteReceiver(t) /\ ~(\E r \in Receivers : AddReceiver(t, r))
  BY <1>3 DEF Step, Bind, Emit, Subscribe, LookUpSymbol, AllocateId, StoreId,
       ListRegistration, CaptureRegistration, BuildMessage, MatchReceiver,
       MatchingDone, WriteMessage, DeliverNext, EmitReturns, RemoveReceiver,
       SearchReceiver, SearchFails, receiverVars
<1> QED BY <1>1, <1>2, <1>3

LEMMA NextList ==
  ASSUME TypeOK, ListInv, [Next]_vars
  PROVE  ListInv'
<1>1. receivers \in Seq(Receivers)
  BY DEF TypeOK
<1>2. CASE UNCHANGED <<receivers, opened>>
  BY <1>2 DEF ListInv
<1>3. ASSUME NEW r \in Receivers, r \notin opened,
             receivers' = Append(receivers, r), opened' = opened \cup {r}
      PROVE  ListInv'
  <2>1. r \notin Range(receivers)
    BY <1>3 DEF ListInv
  <2>2. IsInjective(receivers')
    BY <1>1, <1>3, <2>1, InjectiveAppended DEF ListInv
  <2>3. Range(receivers') = Range(receivers) \cup {r}
    BY <1>1, <1>3, RangeOfAppended
  <2> QED BY <1>3, <2>2, <2>3 DEF ListInv
<1>4. ASSUME NEW k \in 1..Len(receivers),
             receivers' = RemoveAt(receivers, k), opened' = opened
      PROVE  ListInv'
  <2>1. /\ IsInjective(RemoveAt(receivers, k))
        /\ Range(RemoveAt(receivers, k)) \subseteq Range(receivers)
    BY <1>1, InjectiveRemoved DEF ListInv
  <2> QED BY <1>4, <2>1 DEF ListInv
<1>5. CASE UNCHANGED vars
  BY <1>2, <1>5 DEF vars
<1> QED BY <1>2, <1>3, <1>4, <1>5, NextIsStep, ReceiverSteps

(* The list changes under a walk. *)
LEMMA WalkGoesOn ==
  ASSUME NEW t, NEW label, NEW emission, NEW number, NEW owed,
         NEW list \in Seq(Receivers), NEW ever,
         label \in Emitting => emission \in Emissions,
         WalkFits(t, label, emission, number, owed, list, ever)
  PROVE  /\ \A r \in Receivers : r \notin ever =>
              WalkFits(t, label, emission, number, owed, Append(list, r),
                       ever \cup {r})
         /\ \A k \in 1..Len(list) :
              WalkFits(t, label, emission, number, {}, RemoveAt(list, k), ever)
<1>1. ASSUME NEW r \in Receivers, r \notin ever
      PROVE  WalkFits(t, label, emission, number, owed, Append(list, r),
                      ever \cup {r})
  <2>1. label = "match" => emission.index \in Nat
    BY DEF Emitting, Emissions
  <2>2. ASSUME label = "match"
        PROVE  /\ Ahead(list, emission.index)
                    \subseteq Ahead(Append(list, r), emission.index)
               /\ Ahead(Append(list, r), emission.index)
                    \subseteq Ahead(list, emission.index) \cup {r}
               /\ r \notin Range(emission.matching)
    BY <1>1, <2>1, <2>2, AheadOfAppended DEF WalkFits, Emitting
  <2> QED BY <2>2 DEF WalkFits
<1>2. ASSUME NEW k \in 1..Len(list)
      PROVE  WalkFits(t, label, emission, number, {}, RemoveAt(list, k), ever)
  <2>1. label = "match" => emission.index \in Nat
    BY DEF Emitting, Emissions
  <2>2. ASSUME label = "match"
        PROVE  Ahead(RemoveAt(list, k), emission.index)
                 \subseteq Ahead(list, emission.index)
    BY <2>1, <2>2, AheadOfRemoved
  <2> QED BY <2>2 DEF WalkFits
<1> QED BY <1>1, <1>2

LEMMA DueStays ==
  ASSUME TypeOK, NEW t \in Threads, Step(t), ~DeleteReceiver(t),
         NEW s \in Threads, s # t
  PROVE  due'[s] = due[s]
  BY DEF TypeOK, Step, Bind, Emit, Subscribe, LookUpSymbol, AllocateId, StoreId,
       ListRegistration, CaptureRegistration, BuildMessage, MatchReceiver,
       MatchingDone, WriteMessage, DeliverNext, EmitReturns, AddReceiver,
       RemoveReceiver, SearchReceiver, SearchFails, threadVars

(* A thread takes its own walk a step further. *)
LEMMA WalkStep ==
  ASSUME TypeOK, ListInv, NEW t \in Threads, Step(t),
         UNCHANGED <<receivers, opened>>, pc'[t] \in Emitting,
         WalkFits(t, pc[t], local[t], emitted[t], due[t], receivers, opened)
  PROVE  WalkFits(t, pc'[t], local'[t], emitted'[t], due'[t], receivers', opened')
<1>1. receivers \in Seq(Receivers) /\ Len(receivers) \in Nat
  BY LenProperties DEF TypeOK
<1>2. CASE BuildMessage(t)
  <2>1. PICK b \in bound[t] :
          local' = [local EXCEPT
            ![t] = [message |-> [record |-> "message", sender |-> t,
                                 number |-> emitted[t] + 1,
                                 name |-> b.name, id |-> b.id],
                    index |-> 1, matching |-> <<>>]]
    BY <1>2 DEF BuildMessage, Set
  <2>2. /\ pc'[t] = "match" /\ due'[t] = Range(receivers)
        /\ emitted'[t] = emitted[t] + 1
        /\ local'[t].message.sender = t
        /\ local'[t].message.number = emitted'[t]
        /\ local'[t].index = 1 /\ local'[t].matching = <<>>
    BY <1>2, <2>1 DEF BuildMessage, Goto, TypeOK
  <2>3. IsInjective(<<>>) /\ Range(<<>>) = {}
    BY RangeOfEmpty DEF IsInjective
  <2>4. Ahead(receivers, 1) = Range(receivers)
    BY <1>1, AheadOfAll
  <2> QED BY <2>2, <2>3, <2>4 DEF WalkFits
<1>3. CASE MatchReceiver(t)
  <2> DEFINE i == local[t].index
             taken == local[t].matching
             r == receivers[i]
  <2>1. local[t] \in Emissions /\ pc[t] = "match" /\ i <= Len(receivers)
    BY <1>3 DEF MatchReceiver, TypeOK, LocalsFit, Emitting
  <2>2. /\ i \in 1..Len(receivers) /\ taken \in Seq(Receivers) /\ r \in Receivers
        /\ r \in Range(receivers)
    BY <1>1, <2>1 DEF Emissions, Range
  <2>3. /\ pc'[t] = pc[t] /\ emitted'[t] = emitted[t] /\ due'[t] = due[t]
        /\ local'[t] = [local[t] EXCEPT !.matching = Append(taken, r), !.index = i + 1]
    BY <1>3 DEF MatchReceiver, threadVars, TypeOK
  <2>4. /\ local'[t].message = local[t].message
        /\ local'[t].matching = Append(taken, r) /\ local'[t].index = i + 1
    BY <2>1, <2>3 DEF Emissions
  <2>5. /\ Ahead(receivers, i) = {r} \cup Ahead(receivers, i + 1)
        /\ r \notin Ahead(receivers, i + 1)
    BY <1>1, <2>2, AheadOfNext DEF ListInv
  <2>6. /\ local[t].message.sender = t /\ local[t].message.number = emitted[t]
        /\ IsInjective(taken) /\ Range(taken) \subseteq opened
        /\ Ahead(receivers, i) \cap Range(taken) = {}
        /\ due[t] \subseteq Range(taken) \cup Ahead(receivers, i)
    BY <2>1 DEF WalkFits, Emitting
  <2> HIDE DEF i, taken, r
  <2>7. IsInjective(Append(taken, r)) /\ Range(Append(taken, r)) = Range(taken) \cup {r}
    BY <2>2, <2>5, <2>6, InjectiveAppended, RangeOfAppended
  <2>8. r \in opened
    BY <2>2 DEF ListInv
  <2>9. /\ Ahead(receivers, i + 1) \cap (Range(taken) \cup {r}) = {}
        /\ due[t] \subseteq (Range(taken) \cup {r}) \cup Ahead(receivers, i + 1)
        /\ Range(taken) \cup {r} \subseteq opened
    BY <2>5, <2>6, <2>8
  <2> QED BY <2>1, <2>3, <2>4, <2>6, <2>7, <2>9 DEF WalkFits, Emitting
<1>4. CASE MatchingDone(t)
  <2>1. /\ local[t] \in Emissions /\ pc[t] = "match" /\ pc'[t] = "write"
        /\ local' = local /\ emitted' = emitted /\ due' = due
        /\ local[t].index > Len(receivers)
    BY <1>4 DEF MatchingDone, Goto, TypeOK, LocalsFit, Emitting, threadVars
  <2>2. Ahead(receivers, local[t].index) = {}
    BY <1>1, <2>1, AheadOfNone DEF Emissions
  <2> QED BY <2>1, <2>2 DEF WalkFits, Emitting
<1>5. CASE WriteMessage(t)
  BY <1>5 DEF WriteMessage, Goto, TypeOK, WalkFits, Emitting, threadVars
<1>6. CASE DeliverNext(t)
  <2>1. local[t] \in Emissions /\ pc[t] = "deliver" /\ local[t].matching # <<>>
    BY <1>6 DEF DeliverNext, TypeOK, LocalsFit, Emitting
  <2>2. /\ pc'[t] = pc[t] /\ emitted' = emitted
        /\ local'[t].message = local[t].message
        /\ local'[t].matching = Tail(local[t].matching)
    BY <1>6, <2>1 DEF DeliverNext, TypeOK, Emissions, threadVars
  <2>3. local[t].matching \in Seq(Receivers)
    BY <2>1 DEF Emissions
  <2>4. IsInjective(local[t].matching) /\ Range(local[t].matching) \subseteq opened
    BY <2>1 DEF WalkFits, Emitting
  <2>5. /\ IsInjective(Tail(local[t].matching))
        /\ Range(Tail(local[t].matching)) \subseteq Range(local[t].matching)
    BY <2>1, <2>3, <2>4, InjectiveTail, RangeOfHeadAndTail
  <2> QED BY <2>1, <2>2, <2>4, <2>5 DEF WalkFits, Emitting
<1> QED BY <1>2, <1>3, <1>4, <1>5, <1>6 DEF Step, Bind, Emit, Subscribe,
        LookUpSymbol, AllocateId, StoreId, ListRegistration, CaptureRegistration,
        EmitReturns, AddReceiver, RemoveReceiver, SearchReceiver, SearchFails,
        DeleteReceiver, Goto, Return, Emitting, TypeOK

LEMMA NextWalk ==
  ASSUME TypeOK, ListInv, WalkInv, [Next]_vars
  PROVE  WalkInv'
<1>1. receivers \in Seq(Receivers)
  BY DEF TypeOK
<1>2. CASE UNCHANGED vars
  BY <1>2 DEF vars, WalkInv
<1>3. ASSUME NEW t \in Threads, Step(t), NEW s \in Threads
      PROVE  WalkFits(s, pc'[s], local'[s], emitted'[s], due'[s],
                      receivers', opened')
  <2>1. WalkFits(s, pc[s], local[s], emitted[s], due[s], receivers, opened)
    BY DEF WalkInv
  <2>2. pc[s] \in Emitting => local[s] \in Emissions
    BY DEF TypeOK, LocalsFit
  <2>3. CASE pc'[s] \notin Emitting
    BY <2>3 DEF WalkFits, Emitting
  <2>4. CASE s = t /\ UNCHANGED <<receivers, opened>>
    BY <1>3, <2>1, <2>3, <2>4, WalkStep
  <2>5. CASE s # t /\ UNCHANGED <<receivers, opened>> /\ ~DeleteReceiver(t)
    BY <1>3, <2>1, <2>5, OthersStay, DueStays
  <2>6. ASSUME NEW r \in Receivers, AddReceiver(t, r), r \notin opened,
               UNCHANGED <<pc, local, due>>,
               receivers' = Append(receivers, r), opened' = opened \cup {r}
        PROVE  WalkFits(s, pc'[s], local'[s], emitted'[s], due'[s],
                        receivers', opened')
    <3>1. emitted' = emitted
      BY <2>6 DEF AddReceiver, threadVars
    <3>2. WalkFits(s, pc[s], local[s], emitted[s], due[s], Append(receivers, r),
                   opened \cup {r})
      BY <1>1, <2>1, <2>2, <2>6, WalkGoesOn
    <3> QED BY <2>6, <3>1, <3>2
  <2>7. ASSUME DeleteReceiver(t), s # t
        PROVE  WalkFits(s, pc'[s], local'[s], emitted'[s], due'[s],
                        receivers', opened')
    <3>1. /\ pc'[s] = pc[s] /\ local'[s] = local[s] /\ emitted'[s] = emitted[s]
          /\ due'[s] = {} /\ opened' = opened
      BY <1>3, <2>7, OthersStay DEF DeleteReceiver
    <3>2. CASE receivers' = receivers
      BY <2>1, <3>1, <3>2 DEF WalkFits
    <3>3. ASSUME NEW k \in 1..Len(receivers), receivers' = RemoveAt(receivers, k)
          PROVE  WalkFits(s, pc'[s], local'[s], emitted'[s], due'[s],
                          receivers', opened')
      <4>1. WalkFits(s, pc[s], local[s], emitted[s], {}, RemoveAt(receivers, k),
                     opened)
        BY <1>1, <2>1, <2>2, WalkGoesOn
      <4> QED BY <3>1, <3>3, <4>1
    <3>4. ~(\E r \in Receivers : AddReceiver(t, r))
      BY <2>7 DEF DeleteReceiver, AddReceiver
    <3> QED BY <1>3, <3>2, <3>3, <3>4, ReceiverSteps
  <2>8. CASE DeleteReceiver(t) /\ s = t
    <3>1. pc'[s] = "idle"
      BY <2>8 DEF DeleteReceiver, Return, Goto, TypeOK
    <3> QED BY <2>3, <3>1 DEF Emitting
  <2> QED BY <1>3, <2>4, <2>5, <2>6, <2>7, <2>8, ReceiverSteps
<1> QED BY <1>2, <1>3, NextIsStep DEF WalkInv

------------------------------------------------------------------------------
(* One session's messages keep their order, in the record and to a target. *)

LEMMA InitList == Init => ListInv /\ WalkInv
  BY RangeOfEmpty DEF Init, ListInv, WalkInv, WalkFits, IsInjective, Emitting

LEMMA InitOrder == Init => OrderInv
  BY DEF Init, OrderInv, SenderOrderKept, InSenderOrder

LEMMA OrderAppended ==
  ASSUME NEW S, NEW records \in Seq(S), NEW e \in S, InSenderOrder(records),
         \A i \in DOMAIN records :
           IsMessage(records[i]) /\ IsMessage(e) /\ records[i].sender = e.sender
             => records[i].number < e.number
  PROVE  InSenderOrder(Append(records, e))
<1> DEFINE longer == Append(records, e)
<1>1. /\ Len(records) \in Nat /\ DOMAIN records = 1..Len(records)
      /\ DOMAIN longer = 1..(Len(records) + 1)
      /\ \A i \in 1..Len(records) : longer[i] = records[i]
      /\ longer[Len(records) + 1] = e
  BY Appended
<1> HIDE DEF longer
<1> SUFFICES ASSUME NEW j \in DOMAIN longer, NEW i \in 1..(j - 1),
                    IsMessage(longer[i]), IsMessage(longer[j]),
                    longer[i].sender = longer[j].sender
             PROVE  longer[i].number < longer[j].number
  BY DEF InSenderOrder, longer
<1>2. i \in DOMAIN records /\ longer[i] = records[i]
  BY <1>1
<1>3. CASE j \in DOMAIN records
  BY <1>1, <1>2, <1>3 DEF InSenderOrder
<1>4. CASE j = Len(records) + 1
  BY <1>1, <1>2, <1>4
<1> QED BY <1>1, <1>3, <1>4

(* A thread begins its next emission, or comes no further back in this one. *)
LEMMA CountSteps ==
  ASSUME TypeOK, WalkInv, NEW t \in Threads, Step(t)
  PROVE  \/ emitted'[t] = emitted[t] + 1
         \/ /\ emitted'[t] = emitted[t]
            /\ Unwritten(t)' => Unwritten(t)
            /\ \A r \in Receivers : Undelivered(t, r)' => Undelivered(t, r)
<1>1. CASE BuildMessage(t)
  BY <1>1 DEF BuildMessage, TypeOK
<1>2. CASE MatchReceiver(t) \/ MatchingDone(t) \/ WriteMessage(t)
  BY <1>2 DEF MatchReceiver, MatchingDone, WriteMessage, Goto, threadVars, TypeOK,
       Unwritten, Undelivered
<1>3. CASE DeliverNext(t)
  <2>1. local[t] \in Emissions /\ pc[t] = "deliver" /\ local[t].matching # <<>>
    BY <1>3 DEF DeliverNext, TypeOK, LocalsFit, Emitting
  <2>2. /\ pc' = pc /\ emitted' = emitted
        /\ local'[t].matching = Tail(local[t].matching)
    BY <1>3, <2>1 DEF DeliverNext, TypeOK, Emissions, threadVars
  <2>3. Range(Tail(local[t].matching)) \subseteq Range(local[t].matching)
    BY <2>1, RangeOfHeadAndTail DEF Emissions
  <2> QED BY <2>1, <2>2, <2>3 DEF Unwritten, Undelivered
<1>4. CASE ~(BuildMessage(t) \/ MatchReceiver(t) \/ MatchingDone(t)
               \/ WriteMessage(t) \/ DeliverNext(t))
  BY <1>4 DEF Step, Bind, Emit, Subscribe, LookUpSymbol, AllocateId, StoreId,
       ListRegistration, CaptureRegistration, EmitReturns, AddReceiver,
       RemoveReceiver, SearchReceiver, SearchFails, DeleteReceiver, Goto, Return,
       threadVars, TypeOK, Unwritten, Undelivered
<1> QED BY <1>1, <1>2, <1>3, <1>4

LEMMA CountedKept ==
  ASSUME TypeOK, WalkInv, NEW t \in Threads, Step(t), NEW m \in Messages
  PROVE  /\ Counted(m, Unwritten(m.sender)) => Counted(m, Unwritten(m.sender))'
         /\ \A r \in Receivers : Counted(m, Undelivered(m.sender, r))
                                   => Counted(m, Undelivered(m.sender, r))'
<1> DEFINE s == m.sender
<1>1. s \in Threads /\ m.number \in Nat /\ emitted[s] \in Nat
  BY DEF Messages, TypeOK
<1>2. CASE s # t
  <2>1. pc'[s] = pc[s] /\ local'[s] = local[s] /\ emitted'[s] = emitted[s]
    BY <1>1, <1>2, OthersStay
  <2> QED BY <2>1 DEF Counted, Unwritten, Undelivered
<1>3. CASE s = t
  BY <1>1, <1>3, CountSteps DEF Counted
<1> QED BY <1>2, <1>3

LEMMA NextOrder ==
  ASSUME TypeOK, WalkInv, OrderInv, [Next]_vars
  PROVE  OrderInv'
<1>1. CASE UNCHANGED vars
  BY <1>1 DEF vars, OrderInv, Counted, Unwritten, Undelivered, SenderOrderKept,
       InSenderOrder
<1>2. ASSUME NEW t \in Threads, Step(t)
      PROVE  OrderInv'
  <2> DEFINE new == local[t].message
  <2>1. ASSUME pc[t] \in Emitting
        PROVE  /\ local[t] \in Emissions /\ new \in Messages
               /\ new.sender = t /\ new.number = emitted[t] /\ emitted[t] \in Nat
    BY <2>1 DEF TypeOK, LocalsFit, WalkInv, WalkFits, Emissions
  <2>2. log \in Seq(RegistrationRecords \cup Messages)
    BY DEF TypeOK
  <2>3. ASSUME NEW i \in DOMAIN log', NEW m, m = log'[i], IsMessage(m)
        PROVE  Counted(m, Unwritten(m.sender))'
    <3>1. m \in Messages
      BY <1>2, <2>3, LogGrows DEF IsMessage, RegistrationRecords
    <3>2. CASE i \in DOMAIN log
      <4>1. Counted(m, Unwritten(m.sender))
        BY <1>2, <2>3, <3>2, LogGrows DEF OrderInv
      <4> QED BY <1>2, <3>1, <4>1, CountedKept
    <3>3. CASE i \notin DOMAIN log
      <4>1. ASSUME NEW rec \in RegistrationRecords \cup Messages, log' = Append(log, rec)
            PROVE  m = rec
        BY <2>2, <2>3, <3>3, <4>1, Appended
      <4>2. ~IsMessage(Registration(local[t].name, local[t].id))
        BY DEF IsMessage, Registration
      <4>3. WriteMessage(t) /\ m = new
        BY <1>2, <2>3, <3>3, <4>1, <4>2, LogSteps
      <4>4. pc[t] = "write" /\ pc'[t] = "deliver" /\ emitted' = emitted
        BY <4>3 DEF WriteMessage, Goto, TypeOK, threadVars
      <4>5. m.sender = t /\ m.number = emitted[t] /\ emitted[t] \in Nat
        BY <2>1, <4>3, <4>4 DEF Emitting
      <4> QED BY <4>4, <4>5 DEF Counted, Unwritten
    <3> QED BY <3>2, <3>3
  <2>4. InSenderOrder(log')
    <3>1. InSenderOrder(log)
      BY DEF OrderInv, SenderOrderKept
    <3>2. CASE WriteMessage(t)
      <4>1. pc[t] = "write" /\ log' = Append(log, new)
        BY <3>2 DEF WriteMessage
      <4>2. new \in Messages /\ new.sender = t /\ new.number = emitted[t]
        BY <2>1, <4>1 DEF Emitting
      <4>3. ASSUME NEW i \in DOMAIN log, IsMessage(log[i]), log[i].sender = t
            PROVE  log[i].number < emitted[t]
        BY <4>1, <4>3 DEF OrderInv, Counted, Unwritten
      <4> QED BY <2>2, <3>1, <4>1, <4>2, <4>3, OrderAppended
    <3>3. CASE /\ Registration(local[t].name, local[t].id)
                    \in RegistrationRecords \cup Messages
               /\ log' = Append(log, Registration(local[t].name, local[t].id))
      <4>1. ~IsMessage(Registration(local[t].name, local[t].id))
        BY DEF IsMessage, Registration
      <4> QED BY <2>2, <3>1, <3>3, <4>1, OrderAppended
    <3> QED BY <1>2, <3>1, <3>2, <3>3, LogSteps
  <2>5. ASSUME NEW r \in Receivers
        PROVE  /\ InSenderOrder(inbox'[r])
               /\ \A i \in DOMAIN inbox'[r] : \A m : m = inbox'[r][i] =>
                    Counted(m, Undelivered(m.sender, r))'
    <3>1. /\ InSenderOrder(inbox[r]) /\ inbox[r] \in Seq(Messages)
          /\ \A i \in DOMAIN inbox[r] :
               /\ inbox[r][i] \in Messages
               /\ Counted(inbox[r][i], Undelivered(inbox[r][i].sender, r))
      BY DEF OrderInv, SenderOrderKept, TypeOK
    <3>2. CASE inbox'[r] = inbox[r]
      BY <1>2, <3>1, <3>2, CountedKept
    <3>3. CASE /\ DeliverNext(t) /\ r = Head(local[t].matching)
               /\ local[t] \in Emissions /\ local[t].matching # <<>>
               /\ inbox'[r] = Append(inbox[r], new)
      <4>1. /\ new \in Messages /\ new.sender = t /\ new.number = emitted[t]
            /\ emitted[t] \in Nat
        BY <2>1, <3>3 DEF DeliverNext, Emitting
      <4>2. pc[t] = "deliver" /\ pc'[t] = "deliver" /\ emitted' = emitted
        BY <3>3 DEF DeliverNext, threadVars
      <4>3. local[t].matching \in Seq(Receivers) /\ IsInjective(local[t].matching)
        BY <3>3, <4>2 DEF Emissions, WalkInv, WalkFits, Emitting
      <4>4. /\ r \in Range(local[t].matching)
            /\ r \notin Range(Tail(local[t].matching))
        BY <3>3, <4>3, InjectiveTail, RangeOfHeadAndTail
      <4>5. local'[t].matching = Tail(local[t].matching)
        BY <3>3 DEF DeliverNext, TypeOK, Emissions
      <4>6. ASSUME NEW i \in DOMAIN inbox[r], inbox[r][i].sender = t
            PROVE  inbox[r][i].number < emitted[t]
        BY <3>1, <4>2, <4>4, <4>6 DEF Counted, Undelivered
      <4>7. InSenderOrder(inbox'[r])
        BY <3>1, <3>3, <4>1, <4>6, OrderAppended
      <4>8. /\ DOMAIN inbox[r] = 1..Len(inbox[r]) /\ Len(inbox[r]) \in Nat
            /\ DOMAIN inbox'[r] = 1..(Len(inbox[r]) + 1)
            /\ \A i \in 1..Len(inbox[r]) : inbox'[r][i] = inbox[r][i]
            /\ inbox'[r][Len(inbox[r]) + 1] = new
        <5>1. inbox[r] \in Seq(Messages) /\ new \in Messages
          BY <3>1, <4>1
        <5> HIDE DEF new
        <5>2. /\ DOMAIN inbox[r] = 1..Len(inbox[r]) /\ Len(inbox[r]) \in Nat
              /\ DOMAIN Append(inbox[r], new) = 1..(Len(inbox[r]) + 1)
              /\ \A i \in 1..Len(inbox[r]) : Append(inbox[r], new)[i] = inbox[r][i]
              /\ Append(inbox[r], new)[Len(inbox[r]) + 1] = new
          BY ONLY <5>1, Appended
        <5> QED BY <3>3, <5>2
      <4>9. ASSUME NEW i \in DOMAIN inbox'[r], NEW m, m = inbox'[r][i]
            PROVE  Counted(m, Undelivered(m.sender, r))'
        <5>1. CASE i \in DOMAIN inbox[r]
          <6>1. m = inbox[r][i]
            BY <4>8, <4>9, <5>1
          <6> QED BY <1>2, <3>1, <5>1, <6>1, CountedKept
        <5>2. CASE i \notin DOMAIN inbox[r]
          <6>1. m = new
            BY <4>8, <4>9, <5>2
          <6>2. m.sender = t /\ m.number = emitted'[t] /\ emitted'[t] \in Nat
            BY <4>1, <4>2, <6>1
          <6>3. ~Undelivered(t, r)'
            BY <4>2, <4>4, <4>5 DEF Undelivered, Unwritten
          <6> QED BY <6>2, <6>3 DEF Counted
        <5> QED BY <5>1, <5>2
      <4> QED BY <4>7, <4>9
    <3> QED BY <1>2, <3>2, <3>3, InboxSteps DEF TypeOK
  <2> QED BY <2>3, <2>4, <2>5 DEF OrderInv, SenderOrderKept
<1> QED BY <1>1, <1>2, NextIsStep

LEMMA Inductive == Spec => [](ListInv /\ WalkInv /\ OrderInv)
<1>1. TypeOK /\ ListInv /\ WalkInv /\ OrderInv /\ [Next]_vars
        => (ListInv /\ WalkInv /\ OrderInv)'
  BY NextList, NextWalk, NextOrder
<1> QED BY InitList, InitOrder, Typing, <1>1, PTL DEF Spec

(***************************************************************************)
(* With any number of threads in the core, subscribing and being removed   *)
(* as they please: no target is given a message twice, one is passed over  *)
(* only when some target was removed during the walk, and one session's    *)
(* messages are recorded and delivered in the order it emitted them        *)
(* (_matching_receivers, _deliver, remove_receiver).                       *)
(***************************************************************************)
THEOREM RoutingSound == Spec => []RoutedOnceInOrder
<1>1. ASSUME TypeOK, WalkInv, OrderInv
      PROVE  RoutedOnceInOrder
  <2>1. ASSUME NEW r \in Receivers, NEW i \in DOMAIN inbox[r],
               NEW j \in DOMAIN inbox[r],
               inbox[r][i].sender = inbox[r][j].sender,
               inbox[r][i].number = inbox[r][j].number
        PROVE  i = j
    <3>1. /\ inbox[r] \in Seq(Messages) /\ DOMAIN inbox[r] = 1..Len(inbox[r])
          /\ Len(inbox[r]) \in Nat
          /\ inbox[r][i] \in Messages /\ inbox[r][j] \in Messages
      BY <1>1 DEF TypeOK
    <3>2. /\ IsMessage(inbox[r][i]) /\ IsMessage(inbox[r][j])
          /\ inbox[r][i].number \in Nat
      BY <3>1 DEF Messages, IsMessage
    <3>3. InSenderOrder(inbox[r])
      BY <1>1 DEF OrderInv, SenderOrderKept
    <3>4. ~(i < j)
      BY <2>1, <3>1, <3>2, <3>3 DEF InSenderOrder
    <3>5. ~(j < i)
      BY <2>1, <3>1, <3>2, <3>3 DEF InSenderOrder
    <3> QED BY <3>1, <3>4, <3>5
  <2>2. EveryMatchGetsIt
    BY <1>1 DEF WalkInv, WalkFits, EveryMatchGetsIt
  <2> QED BY <1>1, <2>1, <2>2 DEF RoutedOnceInOrder, DeliveredOnce, OrderInv
<1> QED BY Typing, Inductive, <1>1, PTL

------------------------------------------------------------------------------
(***************************************************************************)
(* A session between its two tasks, and its client (AsyncTransport).       *)
(*                                                                         *)
(* Typed is what every other invariant rests on: the shape of the state,   *)
(* who has closed the connection, who is in the lock's line, and that a    *)
(* call of the client has one frame or one answer under way.               *)
(***************************************************************************)
Symbols == Topics \cup Names \cup {Shared}

Emits == [id : Nat \ {0}, needs : SUBSET Symbols, topic : Topics]

Entries == [subscription : Subscriptions, message : Emits]

Results == [kind : {"result"}, registrations : SUBSET Symbols,
            emitter : SUBSET Topics, id : Nat]

Replies == Results \cup {[kind |-> "error"]}

Deliveries == [kind : {"delivery"}, subscription : Subscriptions, message : Emits]

ClientFrames == Replies \cup Deliveries
                  \cup [kind : {"registrations"}, registrations : SUBSET Symbols]

SessionFrames ==
  [kind : {"subscribe", "register_emitter"}, topic : Topics]
    \cup [kind : {"register_name"}, name : Names \cup {Shared}]
    \cup [kind : {"emit"}, topic : Topics, name : Names \cup {Shared}]

ClientCalls ==
  {Idle, Ended, [op |-> "await"]}
    \cup [op : {"register"}, topic : Topics, name : Names \cup {Shared}]
    \cup [op : {"receive"}, from : SUBSET Subscriptions]

Readers == [at : {"receive", "stuck", "woken", "done"}]
             \cup [at : {"send"}, frame : Replies]
             \cup [at : {"wait"}, entries : SUBSET Entries, frame : Results]

Workers == [at : {"none", "get", "failed", "ended"}]
             \cup [at : {"send"}, entry : Entries, frames : Seq(ClientFrames)]

(* The frames of a delivery, those of them that are still to be sent. *)
WorkerSendsEntry ==
  worker.at = "send" =>
    \/ worker.frames = <<Delivery(worker.entry)>>
    \/ \E new \in SUBSET Symbols :
         worker.frames = <<Registrations(new), Delivery(worker.entry)>>

ClientType ==
  /\ call \in ClientCalls /\ known \subseteq Symbols /\ emitters \subseteq Topics
  /\ held \in [Subscriptions -> Seq(Emits)]
  /\ received \in [Subscriptions -> Seq(Nat)]

SessionType ==
  /\ subscriptions \in Seq(Topics) /\ Len(subscriptions) <= MaxSubscriptions
  /\ targets \subseteq DOMAIN subscriptions /\ sent \subseteq Symbols
  /\ queue \in Seq(Entries) /\ Len(queue) <= Capacity
  /\ waiting \subseteq Entries
  /\ reader \in Readers /\ worker \in Workers /\ WorkerSendsEntry
  /\ nextId \in Nat \ {0}
  /\ accepted \in [Subscriptions -> Seq(Nat)]

AsyncType ==
  /\ requests \in Seq(SessionFrames) /\ wire \in Seq(ClientFrames)
  /\ closed \in BOOLEAN /\ gone \in BOOLEAN /\ stopped \in BOOLEAN
  /\ ClientType /\ SessionType

(* Whoever closes the connection has stopped the deliveries before. *)
EndInv ==
  /\ closed <=> stopped
  /\ closed => (targets = {} /\ worker.at \notin {"get", "send"})
  /\ (worker.at = "failed" \/ failure) => gone
  /\ gone => (wire = <<>> /\ call = Ended)
  /\ OnlyRealFailures

(* A task waits for the lock once, and it does while it sends. *)
WithReader == {<<"reader">>, <<"reader", "worker">>, <<"worker", "reader">>}
WithWorker == {<<"worker">>, <<"reader", "worker">>, <<"worker", "reader">>}

LineInv ==
  /\ line \in {<<>>} \cup WithReader \cup WithWorker
  /\ (worker.at = "send") <=> (line \in WithWorker)
  /\ reader.at = "send" => line \in WithReader
  /\ line \in WithReader => reader.at \in {"send", "stuck", "woken"}

(* A call of the client has one frame or one answer under way. *)
IsAnswer(i) == wire[i].kind \in {"result", "error"}

NoAnswer == \A i \in DOMAIN wire : ~IsAnswer(i)

Awaits == call.op \in {"await", "register", "ended"}

AskInv ==
  /\ requests # <<>> =>
       /\ requests = <<requests[1]>>
       /\ reader.at \notin {"send", "wait"} /\ NoAnswer /\ Awaits
       /\ requests[1].kind = "subscribe" => Len(subscriptions) < MaxSubscriptions
  /\ reader.at \in {"send", "wait"} => NoAnswer /\ Awaits
  /\ \A i \in DOMAIN wire : IsAnswer(i) =>
       Awaits /\ \A j \in DOMAIN wire : IsAnswer(j) => i = j

------------------------------------------------------------------------------
(* What the steps keep of the shape of the state *)

LEMMA Bounds == /\ Capacity \in Nat /\ MaxSubscriptions \in Nat
                /\ Subscriptions = 1..MaxSubscriptions
                /\ Subscriptions \subseteq Nat
BY AsyncAssumption DEF Subscriptions

LEMMA ListShape ==
  ASSUME AsyncType, NEW topic, NEW list \in Lists(Matching(topic))
  PROVE  /\ list \in Seq(Subscriptions) /\ Len(list) = Cardinality(Matching(topic))
         /\ Cardinality(Matching(topic)) \in Nat
         /\ \A i, j \in 1..Len(list) : list[i] = list[j] => i = j
         /\ ToSet(list) \subseteq Matching(topic)
<1>1. Matching(topic) \in SUBSET (1..Len(subscriptions)) /\ Len(subscriptions) \in Nat
      /\ Matching(topic) \subseteq Subscriptions
  BY Bounds, LenProperties DEF AsyncType, SessionType, Matching
<1>2. Cardinality(Matching(topic)) \in Nat
  BY <1>1, PlacesUpTo, 0 \in Nat
<1>3. /\ list \in [1..Cardinality(Matching(topic)) -> Matching(topic)]
      /\ \A i, j \in DOMAIN list : i < j => list[i] < list[j]
  BY DEF Lists
<1>4. /\ list \in Seq(Subscriptions) /\ Len(list) = Cardinality(Matching(topic))
      /\ DOMAIN list = 1..Len(list)
  BY <1>1, <1>2, <1>3
<1>5. ASSUME NEW i \in 1..Len(list), NEW j \in 1..Len(list), list[i] = list[j]
      PROVE  i = j
  <2>1. i \in Nat /\ j \in Nat /\ list[i] \in Nat /\ list[j] \in Nat
    BY <1>4, Bounds
  <2>2. ~(i < j) /\ ~(j < i)
    BY <1>3, <1>4, <1>5, <2>1
  <2> QED BY <2>1, <2>2
<1>6. ToSet(list) \subseteq Matching(topic)
  BY <1>3 DEF ToSet
<1> QED BY <1>2, <1>4, <1>5, <1>6

(* What the queue takes of a message is one entry for each of the targets. *)
LEMMA Accepting ==
  ASSUME AsyncType, NEW message \in Emits, NEW taken \in Seq(Subscriptions),
         Accept(taken, message)
  PROVE  /\ queue' \in Seq(Entries)
         /\ Len(queue') = Len(queue) + Len(taken)
         /\ \A i \in 1..Len(queue) : queue'[i] = queue[i]
         /\ \A i \in 1..Len(taken) :
              queue'[Len(queue) + i] = [subscription |-> taken[i], message |-> message]
         /\ accepted' \in [Subscriptions -> Seq(Nat)]
         /\ \A s \in Subscriptions :
              accepted'[s] = IF s \in ToSet(taken)
                             THEN Append(accepted[s], message.id) ELSE accepted[s]
<1> DEFINE more == [i \in DOMAIN taken |->
                      [subscription |-> taken[i], message |-> message]]
<1>1. queue' = queue \o more /\ queue \in Seq(Entries)
  BY DEF Accept, AsyncType, SessionType
<1>2. /\ more \in Seq(Entries) /\ Len(more) = Len(taken)
      /\ \A i \in 1..Len(taken) :
           more[i] = [subscription |-> taken[i], message |-> message]
  <2>1. DOMAIN taken = 1..Len(taken) /\ Len(taken) \in Nat
        /\ \A i \in 1..Len(taken) : taken[i] \in Subscriptions
    BY LenProperties
  <2>2. \A i \in 1..Len(taken) :
          [subscription |-> taken[i], message |-> message] \in Entries
    BY <2>1 DEF Entries
  <2> QED BY <2>1, <2>2
<1> HIDE DEF more
<1>3. /\ queue \o more \in Seq(Entries) /\ Len(queue \o more) = Len(queue) + Len(more)
      /\ \A i \in 1..(Len(queue) + Len(more)) :
           (queue \o more)[i] = IF i <= Len(queue) THEN queue[i] ELSE more[i - Len(queue)]
  BY <1>1, <1>2, ConcatProperties
<1>4. Len(queue) \in Nat /\ Len(taken) \in Nat
  BY <1>1, LenProperties
<1>5. \A a, b \in Nat : \A i \in 1..a : i \in 1..(a + b) /\ i <= a
  OBVIOUS
<1>6. \A a, b \in Nat : \A i \in 1..b :
        a + i \in 1..(a + b) /\ ~(a + i <= a) /\ (a + i) - a = i
  OBVIOUS
<1>7. \A i \in 1..Len(queue) : queue'[i] = queue[i]
  BY <1>1, <1>2, <1>3, <1>4, <1>5
<1>8. ASSUME NEW i \in 1..Len(taken)
      PROVE  queue'[Len(queue) + i] = [subscription |-> taken[i], message |-> message]
  BY <1>1, <1>2, <1>3, <1>4, <1>6
<1>9. /\ accepted' \in [Subscriptions -> Seq(Nat)]
      /\ \A s \in Subscriptions :
           accepted'[s] = IF s \in ToSet(taken)
                          THEN Append(accepted[s], message.id) ELSE accepted[s]
  BY DEF Accept, AsyncType, SessionType, Emits
<1> QED BY <1>1, <1>2, <1>3, <1>7, <1>8, <1>9

(* The entries an emission makes: all of its targets', or those that fit *)
Overflows(message) ==
  /\ ~Fits(message.topic)
  /\ CloseSession
  /\ closed' = TRUE
  /\ line' = WithoutWorker

Enqueues(message, taken) ==
  /\ Len(queue) + Len(taken) <= Capacity
  /\ waiting' = waiting \cup [subscription : ToSet(taken), message : {message}]
  /\ worker' = IF worker.at = "none" /\ taken # <<>> THEN At("get") ELSE worker
  /\ UNCHANGED <<targets, stopped, closed, line>>

LEMMA Delivering ==
  ASSUME AsyncType, NEW message \in Emits, Deliver(message)
  PROVE  \E taken \in Seq(Subscriptions) :
           /\ Accept(taken, message) /\ ToSet(taken) \subseteq Matching(message.topic)
           /\ \A i, j \in 1..Len(taken) : taken[i] = taken[j] => i = j
           /\ Len(queue) + Len(taken) <= Capacity
           /\ \/ Enqueues(message, taken)
              \/ Overflows(message)
<1>1. PICK list \in Lists(Matching(message.topic)) :
        IF Fits(message.topic)
        THEN /\ Accept(list, message)
             /\ waiting' = waiting \cup
                            [subscription : ToSet(list), message : {message}]
             /\ worker' = IF worker.at = "none" /\ list # <<>>
                          THEN At("get") ELSE worker
             /\ UNCHANGED <<targets, stopped, closed, line>>
        ELSE /\ Accept(SubSeq(list, 1, Free), message)
             /\ CloseSession
             /\ closed' = TRUE
             /\ line' = WithoutWorker
  BY DEF Deliver
<1>2. /\ list \in Seq(Subscriptions) /\ Len(list) = Cardinality(Matching(message.topic))
      /\ Len(list) \in Nat /\ Len(queue) \in Nat /\ Len(queue) <= Capacity
      /\ \A i, j \in 1..Len(list) : list[i] = list[j] => i = j
      /\ ToSet(list) \subseteq Matching(message.topic)
  BY ListShape, LenProperties DEF AsyncType, SessionType
<1>3. CASE Fits(message.topic)
  <2>1. Len(queue) + Len(list) <= Capacity
    BY <1>2, <1>3 DEF Fits
  <2> QED BY <1>1, <1>2, <1>3, <2>1 DEF Enqueues
<1>4. CASE ~Fits(message.topic)
  <2> DEFINE taken == SubSeq(list, 1, Free)
  <2>1. Free \in Nat /\ Free <= Len(list) /\ Len(queue) + Free <= Capacity
    BY <1>2, <1>4, Bounds DEF Fits, Free
  <2>2. /\ taken \in Seq(Subscriptions) /\ Len(taken) = Free
        /\ \A i \in 1..Free : taken[i] = list[i]
    <3>1. \A a \in 1..Free : a \in 1..Len(list)
      BY <1>2, <2>1
    <3> QED BY <1>2, <2>1, <3>1
  <2> HIDE DEF taken
  <2>3. \A i \in 1..Free : i \in 1..Len(list)
    BY <1>2, <2>1
  <2>4. \A i, j \in 1..Len(taken) : taken[i] = taken[j] => i = j
    BY <1>2, <2>2, <2>3
  <2>5. ToSet(taken) \subseteq ToSet(list)
    <3>1. DOMAIN taken = 1..Free /\ DOMAIN list = 1..Len(list)
      BY <1>2, <2>2
    <3> QED BY <2>2, <2>3, <3>1 DEF ToSet
  <2>6. Accept(taken, message) /\ Overflows(message)
    BY <1>1, <1>4 DEF Overflows, taken
  <2> QED BY <1>2, <2>1, <2>2, <2>4, <2>5, <2>6
<1> QED BY <1>3, <1>4

(* Actions as groups *)

LEMMA NoTargets ==
  ASSUME NEW list \in Lists({})
  PROVE  list = <<>>
<1>1. Cardinality({}) = 0
  BY FS_EmptySet
<1>2. list \in [1..0 -> {}]
  BY <1>1 DEF Lists
<1> QED BY <1>2

(* What an emission leaves of the connection and the tasks *)
LEMMA DeliverEnds ==
  ASSUME EndInv, NEW message, Deliver(message)
  PROVE  /\ closed' <=> stopped'
         /\ closed' => (targets' = {} /\ worker'.at \notin {"get", "send"})
         /\ worker'.at = "failed" => worker.at = "failed"
<1>1. PICK list \in Lists(Matching(message.topic)) :
        IF Fits(message.topic)
        THEN /\ worker' = IF worker.at = "none" /\ list # <<>>
                          THEN At("get") ELSE worker
             /\ UNCHANGED <<targets, stopped, closed>>
        ELSE CloseSession /\ closed' = TRUE
  BY DEF Deliver
<1>2. CASE Fits(message.topic)
  <2>1. closed => list = <<>>
    BY NoTargets, <1>1 DEF Matching, EndInv
  <2> QED BY <1>1, <1>2, <2>1 DEF EndInv, At
<1>3. CASE ~Fits(message.topic)
  BY <1>1, <1>3 DEF CloseSession, Cancelled, At
<1> QED BY <1>2, <1>3

LEMMA FinishEnds ==
  ASSUME EndInv, NEW cause \in {"none", "core", "send"}, Finish(cause),
         cause = "send" => gone,
         UNCHANGED <<wire, gone, failure, call>>
  PROVE  EndInv'
BY DEF EndInv, Finish, CloseSession, Cancelled, At, OnlyRealFailures

LEMMA EndNext == AsyncType /\ EndInv /\ [AsyncNext]_asyncVars => EndInv'
<1> SUFFICES ASSUME AsyncType, EndInv, [AsyncNext]_asyncVars PROVE EndInv'
  OBVIOUS
<1> USE DEF Quiet, session, tasks, history, client, Idle, Ended
<1>1. ASSUME NEW topic \in Topics, ClientSubscribe(topic) \/ ClientRegisterEmitter(topic)
      PROVE  EndInv'
  BY <1>1 DEF EndInv, OnlyRealFailures, ClientSubscribe, ClientRegisterEmitter, Send
<1>2. ASSUME NEW topic \in Topics, NEW name \in Names \cup {Shared}, ClientEmit(topic, name)
      PROVE  EndInv'
  BY <1>2 DEF EndInv, OnlyRealFailures, ClientEmit, Send
<1>3. ASSUME NEW topic \in Topics, NEW name \in Names \cup {Shared}, OtherEmits(topic, name)
      PROVE  EndInv'
  BY <1>3, DeliverEnds DEF EndInv, OnlyRealFailures, OtherEmits
<1>4. ASSUME NEW from \in Selections, ClientTakeHeld(from) \/ ClientReceive(from)
      PROVE  EndInv'
  BY <1>4 DEF EndInv, OnlyRealFailures, ClientTakeHeld, ClientReceive
<1>5. ASSUME ClientReadExpected PROVE EndInv'
  BY <1>5 DEF EndInv, OnlyRealFailures, ClientReadExpected, Reading
<1>6. ASSUME ClientReadCandidate PROVE EndInv'
  BY <1>6 DEF EndInv, OnlyRealFailures, ClientReadCandidate, Reading
<1>7. ASSUME ClientReadsEnd \/ ClientStopsReceiving \/ ClientClose PROVE EndInv'
  BY <1>7 DEF EndInv, OnlyRealFailures, ClientReadsEnd, ClientStopsReceiving, ClientClose
<1>8. ASSUME HandleSubscribe \/ HandleRegisterEmitter \/ HandleRegisterName
      PROVE  EndInv'
  BY <1>8 DEF EndInv, OnlyRealFailures, HandleSubscribe, HandleRegisterEmitter,
              HandleRegisterName, Reads, AnswersWith, Answers
<1>9. ASSUME HandleEmit PROVE EndInv'
  BY <1>9, DeliverEnds DEF EndInv, OnlyRealFailures, HandleEmit
<1>10. ASSUME HandleRefused \/ DeliveriesDone PROVE EndInv'
  BY <1>10 DEF EndInv, OnlyRealFailures, HandleRefused, DeliveriesDone, Answers
<1>11. ASSUME ReaderSends PROVE EndInv'
  BY <1>11 DEF EndInv, OnlyRealFailures, ReaderSends
<1>12. ASSUME HandleRaises \/ ReaderEnds \/ RequestStop PROVE EndInv'
  BY <1>12, FinishEnds DEF HandleRaises, ReaderEnds, RequestStop
<1>13. ASSUME ReaderSendFails PROVE EndInv'
  <2>1. Cause \in {"none", "core", "send"} /\ (Cause = "send" => gone)
    BY <1>13 DEF ReaderSendFails, Cause, EndInv
  <2> QED BY <1>13, <2>1, FinishEnds DEF ReaderSendFails
<1>14. ASSUME WorkerTakes PROVE EndInv'
  BY <1>14 DEF EndInv, OnlyRealFailures, WorkerTakes, Takes
<1>15. ASSUME WorkerSends PROVE EndInv'
  <2>1. worker'.at \in {"send", "get"}
    BY <1>15 DEF AsyncType, SessionType, Workers, WorkerSends, At
  <2> QED BY <1>15, <2>1 DEF EndInv, OnlyRealFailures, WorkerSends
<1>16. ASSUME WorkerSendFails \/ WorkerFinished PROVE EndInv'
  BY <1>16 DEF EndInv, OnlyRealFailures, WorkerSendFails, WorkerFinished, At
<1>17. ASSUME UNCHANGED asyncVars PROVE EndInv'
  BY <1>17 DEF asyncVars, connection, EndInv, OnlyRealFailures
<1> QED
  BY <1>1, <1>2, <1>3, <1>4, <1>5, <1>6, <1>7, <1>8, <1>9, <1>10, <1>11, <1>12,
     <1>13, <1>14, <1>15, <1>16, <1>17
     DEF AsyncNext, ClientReads, ReaderStep, WorkerStep


Typed == AsyncType /\ EndInv /\ LineInv /\ AskInv

LEMMA TopicSymbols ==
  /\ \A topic \in Topics : {topic, Shared} \subseteq Symbols
  /\ \A name \in Names \cup {Shared} : name \in Symbols
BY DEF Symbols

LEMMA MessageType ==
  ASSUME AsyncType, NEW topic \in Topics, NEW name \in Names \cup {Shared}
  PROVE  Message(topic, name) \in Emits
BY DEF AsyncType, SessionType, Message, Emits, Symbols

LEMMA DeliverType ==
  ASSUME AsyncType, NEW message \in Emits, Deliver(message)
  PROVE  /\ queue' \in Seq(Entries) /\ Len(queue') <= Capacity
         /\ waiting' \subseteq Entries
         /\ targets' \subseteq DOMAIN subscriptions
         /\ accepted' \in [Subscriptions -> Seq(Nat)]
         /\ worker' \in Workers /\ WorkerSendsEntry'
         /\ closed' \in BOOLEAN /\ stopped' \in BOOLEAN
<1>1. PICK taken \in Seq(Subscriptions) :
        /\ Accept(taken, message) /\ ToSet(taken) \subseteq Matching(message.topic)
        /\ Len(queue) + Len(taken) <= Capacity
        /\ Enqueues(message, taken) \/ Overflows(message)
  BY Delivering
<1>2. /\ queue' \in Seq(Entries) /\ Len(queue') <= Capacity
      /\ accepted' \in [Subscriptions -> Seq(Nat)]
  BY <1>1, Accepting
<1>3. ToSet(taken) \subseteq Subscriptions
  BY DEF ToSet
<1>4. [subscription : ToSet(taken), message : {message}] \subseteq Entries
  BY <1>3 DEF Entries
<1>5. CASE Enqueues(message, taken)
  BY <1>2, <1>4, <1>5 DEF Enqueues, AsyncType, SessionType, Workers, At, WorkerSendsEntry
<1>6. CASE Overflows(message)
  BY <1>2, <1>6 DEF Overflows, CloseSession, Cancelled, AsyncType, SessionType, Workers, At,
                    WorkerSendsEntry
<1> QED BY <1>1, <1>5, <1>6

LEMMA AsyncTypeStays ==
  ASSUME AsyncType, UNCHANGED <<subscriptions, targets, sent, queue, waiting, accepted,
                                nextId, stopped, closed, worker>>
  PROVE  /\ (requests' \in Seq(SessionFrames) /\ wire' \in Seq(ClientFrames)
             /\ gone' \in BOOLEAN /\ reader' \in Readers /\ ClientType') => AsyncType'
BY DEF AsyncType, SessionType, WorkerSendsEntry

LEMMA ClientTypeStays ==
  ASSUME ClientType, UNCHANGED client
  PROVE  ClientType'
BY DEF ClientType, client

LEMMA RequestSent ==
  ASSUME AsyncType, NEW frame \in SessionFrames
  PROVE  Append(requests, frame) \in Seq(SessionFrames)
BY DEF AsyncType

LEMMA FrameRead ==
  ASSUME AsyncType, NEW ops, NEW frame, Reading(ops, frame)
  PROVE  /\ frame = wire[1] /\ frame \in ClientFrames /\ wire' \in Seq(ClientFrames)
         /\ Len(wire) \in Nat \ {0} /\ DOMAIN wire = 1..Len(wire)
         /\ Len(wire') = Len(wire) - 1 /\ DOMAIN wire' = 1..(Len(wire) - 1)
         /\ \A i \in 1..(Len(wire) - 1) : wire'[i] = wire[i + 1]
BY HeadAndTail DEF AsyncType, Reading

LEMMA FrameKinds ==
  ASSUME NEW frame \in ClientFrames
  PROVE  /\ frame.kind = "delivery" =>
              frame.subscription \in Subscriptions /\ frame.message \in Emits
         /\ frame.kind \in {"registrations", "result"} =>
              frame.registrations \subseteq Symbols
         /\ frame.kind = "result" => frame.emitter \subseteq Topics /\ frame.id \in Nat
         /\ frame.kind \in {"registrations", "delivery", "result", "error"}
BY DEF ClientFrames, Deliveries, Replies, Results

LEMMA Keeping ==
  ASSUME ClientType, NEW s \in Subscriptions, NEW message \in Emits,
         held' = [held EXCEPT ![s] = Append(@, message)]
  PROVE  held' \in [Subscriptions -> Seq(Emits)]
BY DEF ClientType

LEMMA Decoding ==
  ASSUME ClientType, NEW s \in Subscriptions, NEW message \in Emits, Decode(s, message)
  PROVE  received' \in [Subscriptions -> Seq(Nat)]
<1>1. Append(received[s], message.id) \in Seq(Nat)
  BY DEF ClientType, Emits
<1> QED BY <1>1 DEF ClientType, Decode

LEMMA ClientTypeNext ==
  ASSUME AsyncType, \/ ClientReads \/ ClientStopsReceiving \/ ClientClose
                    \/ \E topic \in Topics : ClientSubscribe(topic) \/ ClientRegisterEmitter(topic)
                    \/ \E topic \in Topics, name \in Names \cup {Shared} : ClientEmit(topic, name)
                    \/ \E from \in Selections : ClientTakeHeld(from) \/ ClientReceive(from)
  PROVE  AsyncType'
<1> USE DEF Quiet, session, tasks, history
<1>1. /\ requests \in Seq(SessionFrames) /\ wire \in Seq(ClientFrames)
      /\ gone \in BOOLEAN /\ reader \in Readers /\ ClientType
  BY DEF AsyncType, SessionType
<1>2. ASSUME NEW topic \in Topics, ClientSubscribe(topic) \/ ClientRegisterEmitter(topic)
      PROVE  AsyncType'
  <2>1. \A kind \in {"subscribe", "register_emitter"} :
          [kind |-> kind, topic |-> topic] \in SessionFrames
    BY DEF SessionFrames
  <2>2. requests' \in Seq(SessionFrames)
    BY <1>2, <2>1, RequestSent DEF ClientSubscribe, ClientRegisterEmitter, Send
  <2>3. ClientType'
    BY <1>1, <1>2 DEF ClientSubscribe, ClientRegisterEmitter, ClientType, ClientCalls
  <2> QED BY <1>1, <1>2, <2>2, <2>3, AsyncTypeStays DEF ClientSubscribe, ClientRegisterEmitter
<1>3. ASSUME NEW topic \in Topics, NEW name \in Names \cup {Shared}, ClientEmit(topic, name)
      PROVE  AsyncType'
  <2>1. EmitFrame(topic, name) \in SessionFrames
        /\ [kind |-> "register_name", name |-> name] \in SessionFrames
    BY DEF SessionFrames, EmitFrame
  <2>2. requests' \in Seq(SessionFrames)
    BY <1>3, <2>1, RequestSent DEF ClientEmit, Send
  <2>3. ClientType'
    BY <1>1, <1>3 DEF ClientEmit, ClientType, ClientCalls
  <2> QED BY <1>1, <1>3, <2>2, <2>3, AsyncTypeStays DEF ClientEmit
<1>4. ASSUME NEW from \in Selections, ClientTakeHeld(from) \/ ClientReceive(from)
      PROVE  AsyncType'
  <2>1. from \subseteq Subscriptions
    BY <1>4, Bounds, LenProperties DEF Selections, AsyncType, SessionType
  <2>2. CASE ClientTakeHeld(from)
    <3>1. PICK s \in from : /\ held[s] # <<>> /\ Decode(s, Head(held[s]))
                            /\ held' = [held EXCEPT ![s] = Tail(@)]
      BY <2>2 DEF ClientTakeHeld
    <3>2. held[s] \in Seq(Emits) /\ s \in Subscriptions
      BY <1>1, <2>1 DEF ClientType
    <3>3. Head(held[s]) \in Emits /\ Tail(held[s]) \in Seq(Emits)
      BY <3>1, <3>2, HeadAndTail
    <3>4. received' \in [Subscriptions -> Seq(Nat)]
      BY <1>1, <3>1, <3>2, <3>3, Decoding
    <3>5. ClientType'
      BY <1>1, <2>2, <3>1, <3>3, <3>4 DEF ClientTakeHeld, ClientType
    <3> QED BY <1>1, <2>2, <3>5, AsyncTypeStays DEF ClientTakeHeld
  <2>3. CASE ClientReceive(from)
    <3>1. ClientType'
      BY <1>1, <2>1, <2>3 DEF ClientReceive, ClientType, ClientCalls
    <3> QED BY <1>1, <2>3, <3>1, AsyncTypeStays DEF ClientReceive
  <2> QED BY <1>4, <2>2, <2>3
<1>5. ASSUME ClientReadExpected PROVE AsyncType'
  <2>1. PICK frame \in ToSet(wire) :
        /\ Reading({"await", "register"}, frame)
        /\ \/ /\ frame.kind = "registrations"
              /\ Applies(frame)
              /\ UNCHANGED <<requests, call, emitters, held>>
           \/ /\ frame.kind = "delivery"
              /\ Keeps(frame)
              /\ UNCHANGED <<requests, call, known, emitters>>
           \/ /\ frame.kind = "error"
              /\ call' = Idle
              /\ UNCHANGED <<requests, known, emitters, held>>
           \/ /\ frame.kind = "result"
              /\ Applies(frame)
              /\ emitters' = emitters \cup frame.emitter
              /\ IF call.op = "await"
                 THEN call' = Idle /\ UNCHANGED requests
                 ELSE IF closed
                 THEN call' = Ended /\ UNCHANGED requests
                 ELSE /\ Send(EmitFrame(call.topic, call.name))
                      /\ call' = [op |-> "await"]
              /\ UNCHANGED held
        /\ UNCHANGED <<received, undecoded>>
    BY <1>5 DEF ClientReadExpected
  <2>2. frame \in ClientFrames /\ wire' \in Seq(ClientFrames)
    BY <2>1, FrameRead
  <2>3. UNCHANGED <<subscriptions, targets, sent, queue, waiting, accepted, nextId,
                    stopped, closed, worker, reader, gone>>
    BY <2>1 DEF Reading
  <2>4. CASE frame.kind = "registrations"
    <3>1. ClientType'
      BY <1>1, <2>1, <2>2, <2>4, FrameKinds DEF Applies, ClientType
    <3> QED BY <1>1, <2>1, <2>2, <2>3, <2>4, <3>1, AsyncTypeStays
  <2>5. CASE frame.kind = "delivery"
    <3>1. held' \in [Subscriptions -> Seq(Emits)]
      BY <1>1, <2>1, <2>2, <2>5, FrameKinds, Keeping DEF Keeps
    <3>2. ClientType'
      BY <1>1, <2>1, <2>5, <3>1 DEF ClientType
    <3> QED BY <1>1, <2>1, <2>2, <2>3, <2>5, <3>2, AsyncTypeStays
  <2>6. CASE frame.kind = "error"
    <3>1. ClientType'
      BY <1>1, <2>1, <2>6 DEF ClientType, ClientCalls
    <3> QED BY <1>1, <2>1, <2>2, <2>3, <2>6, <3>1, AsyncTypeStays
  <2>7. CASE frame.kind = "result"
    <3>1. call' \in ClientCalls
      BY <2>1, <2>7 DEF ClientCalls
    <3>2. ClientType'
      BY <1>1, <2>1, <2>2, <2>7, <3>1, FrameKinds DEF Applies, ClientType
    <3>3. call.op \in {"await", "register"}
      BY <2>1 DEF Reading
    <3>4. call.op = "register" => EmitFrame(call.topic, call.name) \in SessionFrames
      BY <1>1 DEF ClientType, ClientCalls, EmitFrame, SessionFrames, Idle, Ended
    <3>5. requests' \in Seq(SessionFrames)
      BY <1>1, <2>1, <2>7, <3>3, <3>4, RequestSent DEF Send
    <3> QED BY <1>1, <2>2, <2>3, <3>2, <3>5, AsyncTypeStays
  <2> QED BY <2>1, <2>4, <2>5, <2>6, <2>7
<1>6. ASSUME ClientReadCandidate PROVE AsyncType'
  <2>1. PICK frame \in ToSet(wire) :
        /\ Reading({"receive"}, frame)
        /\ \/ /\ frame.kind = "registrations"
              /\ Applies(frame)
              /\ UNCHANGED <<call, held, received, undecoded>>
           \/ /\ frame.kind = "delivery"
              /\ frame.subscription \in call.from
              /\ Decode(frame.subscription, frame.message)
              /\ call' = Idle
              /\ UNCHANGED <<known, held>>
           \/ /\ frame.kind = "delivery"
              /\ frame.subscription \notin call.from
              /\ Keeps(frame)
              /\ UNCHANGED <<call, known, received, undecoded>>
        /\ UNCHANGED <<requests, emitters>>
    BY <1>6 DEF ClientReadCandidate
  <2>2. frame \in ClientFrames /\ wire' \in Seq(ClientFrames)
    BY <2>1, FrameRead
  <2>3. UNCHANGED <<subscriptions, targets, sent, queue, waiting, accepted, nextId,
                    stopped, closed, worker, reader, gone>>
    BY <2>1 DEF Reading
  <2>4. CASE frame.kind = "registrations"
    <3>1. ClientType'
      BY <1>1, <2>1, <2>2, <2>4, FrameKinds DEF Applies, ClientType
    <3> QED BY <1>1, <2>1, <2>2, <2>3, <3>1, AsyncTypeStays
  <2>5. CASE frame.kind = "delivery" /\ frame.subscription \in call.from
    <3>1. received' \in [Subscriptions -> Seq(Nat)]
      BY <1>1, <2>1, <2>2, <2>5, FrameKinds, Decoding
    <3>2. ClientType'
      BY <1>1, <2>1, <2>5, <3>1 DEF ClientType, ClientCalls
    <3> QED BY <1>1, <2>1, <2>2, <2>3, <3>2, AsyncTypeStays
  <2>6. CASE frame.kind = "delivery" /\ frame.subscription \notin call.from
    <3>1. held' \in [Subscriptions -> Seq(Emits)]
      BY <1>1, <2>1, <2>2, <2>6, FrameKinds, Keeping DEF Keeps
    <3>2. ClientType'
      BY <1>1, <2>1, <2>6, <3>1 DEF ClientType
    <3> QED BY <1>1, <2>1, <2>2, <2>3, <3>2, AsyncTypeStays
  <2> QED BY <2>1, <2>4, <2>5, <2>6
<1>7. ASSUME ClientReadsEnd \/ ClientStopsReceiving PROVE AsyncType'
  <2>1. ClientType'
    BY <1>1, <1>7 DEF ClientReadsEnd, ClientStopsReceiving, ClientType, ClientCalls
  <2> QED BY <1>1, <1>7, <2>1, AsyncTypeStays DEF ClientReadsEnd, ClientStopsReceiving
<1>8. ASSUME ClientClose PROVE AsyncType'
  <2>1. ClientType'
    BY <1>1, <1>8 DEF ClientClose, ClientType, ClientCalls
  <2>2. wire' \in Seq(ClientFrames) /\ gone' \in BOOLEAN
    BY <1>8 DEF ClientClose
  <2> QED BY <1>1, <1>8, <2>1, <2>2, AsyncTypeStays DEF ClientClose
<1> QED BY <1>2, <1>3, <1>4, <1>5, <1>6, <1>7, <1>8 DEF ClientReads


LEMMA RequestRead ==
  ASSUME AsyncType, NEW kind, Reads(kind)
  PROVE  /\ requests' \in Seq(SessionFrames) /\ Head(requests) \in SessionFrames
         /\ Head(requests) = requests[1]
         /\ kind \in {"subscribe", "register_emitter"} => Head(requests).topic \in Topics
         /\ kind = "register_name" => Head(requests).name \in Names \cup {Shared}
         /\ kind = "emit" => /\ Head(requests).topic \in Topics
                             /\ Head(requests).name \in Names \cup {Shared}
<1>1. requests' \in Seq(SessionFrames) /\ Head(requests) \in SessionFrames
      /\ Head(requests) = requests[1]
  BY HeadAndTail DEF AsyncType, Reads
<1>2. Head(requests).kind = kind
  BY DEF Reads
<1> QED BY <1>1, <1>2 DEF SessionFrames

LEMMA AnswerType ==
  ASSUME AsyncType, NEW needs \in SUBSET Symbols, NEW emitter \in SUBSET Topics,
         AnswersWith(needs, emitter)
  PROVE  sent' \subseteq Symbols /\ reader' \in Readers
<1>1. Result(needs \ sent, emitter, 0) \in Replies
  BY DEF Result, Replies, Results
<1> QED BY <1>1 DEF AnswersWith, Answers, Readers, AsyncType, SessionType

LEMMA FinishType ==
  ASSUME AsyncType, NEW cause, Finish(cause)
  PROVE  /\ reader' \in Readers /\ worker' \in Workers /\ WorkerSendsEntry'
         /\ targets' = {} /\ waiting' = {} /\ stopped' = TRUE /\ closed' = TRUE
BY DEF Finish, CloseSession, Cancelled, AsyncType, SessionType, Readers, Workers, At,
       WorkerSendsEntry

LEMMA FinishTypeNext ==
  ASSUME AsyncType, NEW cause, Finish(cause), requests' \in Seq(SessionFrames),
         UNCHANGED <<wire, gone, subscriptions, sent, queue, history, client>>
  PROVE  AsyncType'
BY FinishType, ClientTypeStays DEF AsyncType, SessionType, history

LEMMA WireAppends ==
  ASSUME AsyncType, NEW frame \in ClientFrames, wire' = Append(wire, frame)
  PROVE  /\ wire' \in Seq(ClientFrames) /\ Len(wire) \in Nat
         /\ DOMAIN wire = 1..Len(wire) /\ DOMAIN wire' = 1..(Len(wire) + 1)
         /\ Len(wire') = Len(wire) + 1
         /\ \A i \in 1..Len(wire) : wire'[i] = wire[i]
         /\ wire'[Len(wire) + 1] = frame
BY Appended DEF AsyncType

LEMMA ReaderTypeNext == AsyncType /\ AskInv /\ ReaderStep => AsyncType'
<1> SUFFICES ASSUME AsyncType, AskInv, ReaderStep PROVE AsyncType'
  OBVIOUS
<1> USE DEF tasks, history
<1>1. ASSUME HandleSubscribe PROVE AsyncType'
  <2>1. /\ Reads("subscribe")
        /\ subscriptions' = Append(subscriptions, Head(requests).topic)
        /\ targets' = targets \cup {Len(subscriptions) + 1}
        /\ AnswersWith({Head(requests).topic, Shared}, {})
        /\ UNCHANGED <<wire, closed, gone, queue, waiting, stopped, failure, worker,
                       error, history, client>>
    BY <1>1 DEF HandleSubscribe
  <2>2. requests' \in Seq(SessionFrames) /\ Head(requests).topic \in Topics
    BY <2>1, RequestRead
  <2>3. sent' \subseteq Symbols /\ reader' \in Readers
    BY <2>1, <2>2, AnswerType, TopicSymbols
  <2>4. Len(subscriptions) < MaxSubscriptions
    BY <2>1, RequestRead DEF AskInv, Reads
  <2>5. /\ subscriptions' \in Seq(Topics) /\ Len(subscriptions') <= MaxSubscriptions
        /\ targets' \subseteq DOMAIN subscriptions'
    <3>1. subscriptions \in Seq(Topics) /\ targets \subseteq DOMAIN subscriptions
      BY DEF AsyncType, SessionType
    <3>2. /\ Len(subscriptions) \in Nat /\ DOMAIN subscriptions = 1..Len(subscriptions)
          /\ subscriptions' \in Seq(Topics) /\ Len(subscriptions') = Len(subscriptions) + 1
          /\ DOMAIN subscriptions' = 1..(Len(subscriptions) + 1)
      BY <2>1, <2>2, <3>1, Appended
    <3>3. 1..Len(subscriptions) \subseteq 1..(Len(subscriptions) + 1)
          /\ Len(subscriptions) + 1 \in 1..(Len(subscriptions) + 1)
          /\ Len(subscriptions) + 1 <= MaxSubscriptions
      BY <2>4, <3>2, Bounds
    <3> QED BY <2>1, <3>1, <3>2, <3>3
  <2>6. ClientType'
    BY <2>1, ClientTypeStays DEF AsyncType
  <2> QED BY <2>1, <2>2, <2>3, <2>5, <2>6 DEF AsyncType, SessionType, WorkerSendsEntry
<1>2. ASSUME HandleRegisterEmitter PROVE AsyncType'
  <2>1. requests' \in Seq(SessionFrames) /\ Head(requests).topic \in Topics
    BY <1>2, RequestRead DEF HandleRegisterEmitter
  <2>2. sent' \subseteq Symbols /\ reader' \in Readers
    BY <1>2, <2>1, AnswerType, TopicSymbols DEF HandleRegisterEmitter
  <2>3. ClientType'
    BY <1>2, ClientTypeStays DEF AsyncType, HandleRegisterEmitter
  <2> QED BY <1>2, <2>1, <2>2, <2>3
             DEF HandleRegisterEmitter, AsyncType, SessionType, WorkerSendsEntry
<1>3. ASSUME HandleRegisterName PROVE AsyncType'
  <2>1. requests' \in Seq(SessionFrames) /\ Head(requests).name \in Names \cup {Shared}
    BY <1>3, RequestRead DEF HandleRegisterName
  <2>2. {Head(requests).name} \subseteq Symbols
    BY <2>1, TopicSymbols
  <2>3. sent' \subseteq Symbols /\ reader' \in Readers
    BY <1>3, <2>2, AnswerType DEF HandleRegisterName
  <2>4. ClientType'
    BY <1>3, ClientTypeStays DEF AsyncType, HandleRegisterName
  <2> QED BY <1>3, <2>1, <2>3, <2>4
             DEF HandleRegisterName, AsyncType, SessionType, WorkerSendsEntry
<1>4. ASSUME HandleEmit PROVE AsyncType'
  <2> DEFINE message == Message(Head(requests).topic, Head(requests).name)
  <2>1. /\ Reads("emit") /\ Deliver(message) /\ nextId' = nextId + 1
        /\ reader' = [at |-> "wait", entries |-> waiting', frame |-> EmitResult]
        /\ UNCHANGED <<wire, gone, subscriptions, sent, failure, error, client>>
    BY <1>4 DEF HandleEmit
  <2>2. requests' \in Seq(SessionFrames) /\ message \in Emits
    BY <2>1, RequestRead, MessageType
  <2> HIDE DEF message
  <2>3. /\ queue' \in Seq(Entries) /\ Len(queue') <= Capacity
        /\ waiting' \subseteq Entries
        /\ targets' \subseteq DOMAIN subscriptions
        /\ accepted' \in [Subscriptions -> Seq(Nat)]
        /\ worker' \in Workers /\ WorkerSendsEntry'
        /\ closed' \in BOOLEAN /\ stopped' \in BOOLEAN
    BY <2>1, <2>2, DeliverType
  <2>4. nextId' \in Nat \ {0} /\ nextId \in Nat
    BY <2>1 DEF AsyncType, SessionType
  <2>5. reader' \in Readers
    BY <2>1, <2>3, <2>4 DEF Readers, EmitResult, Result, Results
  <2>6. ClientType'
    BY <2>1, ClientTypeStays DEF AsyncType
  <2> QED BY <2>1, <2>2, <2>3, <2>4, <2>5, <2>6 DEF AsyncType, SessionType
<1>5. ASSUME HandleRefused PROVE AsyncType'
  <2>1. PICK kind \in Refusable : Reads(kind)
    BY <1>5 DEF HandleRefused
  <2>2. requests' \in Seq(SessionFrames)
    BY <2>1, RequestRead
  <2>3. reader' \in Readers
    BY <1>5 DEF HandleRefused, Answers, Readers, Replies
  <2>4. ClientType'
    BY <1>5, ClientTypeStays DEF AsyncType, HandleRefused
  <2> QED BY <1>5, <2>2, <2>3, <2>4, AsyncTypeStays DEF HandleRefused, AsyncType, session
<1>6. ASSUME HandleRaises PROVE AsyncType'
  <2>1. requests' \in Seq(SessionFrames)
    BY <1>6, RequestRead DEF HandleRaises
  <2> QED BY <1>6, <2>1, FinishTypeNext DEF HandleRaises
<1>7. ASSUME DeliveriesDone PROVE AsyncType'
  <2>1. reader' \in Readers
    BY <1>7 DEF DeliveriesDone, AsyncType, SessionType, Readers, Replies
  <2>2. ClientType'
    BY <1>7, ClientTypeStays DEF AsyncType, DeliveriesDone
  <2> QED BY <1>7, <2>1, <2>2, AsyncTypeStays DEF DeliveriesDone, AsyncType, session
<1>8. ASSUME ReaderSends PROVE AsyncType'
  <2>1. reader.frame \in ClientFrames
    BY <1>8 DEF ReaderSends, AsyncType, SessionType, Readers, ClientFrames
  <2>2. wire' \in Seq(ClientFrames)
    BY <1>8, <2>1, WireAppends DEF ReaderSends
  <2>3. reader' \in Readers
    BY <1>8 DEF ReaderSends, Readers, At
  <2>4. ClientType'
    BY <1>8, ClientTypeStays DEF AsyncType, ReaderSends
  <2> QED BY <1>8, <2>2, <2>3, <2>4, AsyncTypeStays DEF ReaderSends, AsyncType, session
<1>9. ASSUME ReaderSendFails PROVE AsyncType'
  BY <1>9, FinishTypeNext DEF ReaderSendFails, AsyncType
<1>10. ASSUME ReaderEnds PROVE AsyncType'
  BY <1>10, FinishTypeNext DEF ReaderEnds, AsyncType
<1> QED BY <1>1, <1>2, <1>3, <1>4, <1>5, <1>6, <1>7, <1>8, <1>9, <1>10 DEF ReaderStep

LEMMA WorkerTypeNext == AsyncType /\ WorkerStep => AsyncType'
<1> SUFFICES ASSUME AsyncType, WorkerStep PROVE AsyncType'
  OBVIOUS
<1> USE DEF history
<1>1. ClientType'
  BY ClientTypeStays DEF AsyncType, WorkerStep, WorkerTakes, Takes, WorkerSends,
                         WorkerSendFails, WorkerFinished
<1>2. ASSUME WorkerTakes PROVE AsyncType'
  <2> DEFINE new == Head(queue).message.needs \ sent
             frames == IF new = {} THEN <<Delivery(Head(queue))>>
                       ELSE <<Registrations(new), Delivery(Head(queue))>>
  <2>1. queue # <<>> /\ Takes(frames)
    BY <1>2 DEF WorkerTakes
  <2>2. /\ Head(queue) \in Entries /\ queue' \in Seq(Entries)
        /\ Len(queue) \in Nat /\ Len(queue') = Len(queue) - 1
    BY <2>1, HeadAndTail DEF Takes, AsyncType, SessionType
  <2>3. Head(queue).message.needs \subseteq Symbols
    BY <2>2 DEF Entries, Emits
  <2>4. Len(queue') <= Capacity
    BY <2>2, Bounds DEF AsyncType, SessionType
  <2>5. Delivery(Head(queue)) \in ClientFrames
    BY <2>2 DEF Delivery, Entries, ClientFrames, Deliveries
  <2>6. new \in SUBSET Symbols /\ Registrations(new) \in ClientFrames
    BY <2>3 DEF Registrations, ClientFrames
  <2>7. frames \in Seq(ClientFrames)
    BY <2>5, <2>6
  <2>8. \/ frames = <<Delivery(Head(queue))>>
        \/ \E n \in SUBSET Symbols : frames = <<Registrations(n), Delivery(Head(queue))>>
    BY <2>6
  <2> HIDE DEF frames, new
  <2>9. worker' = [at |-> "send", entry |-> Head(queue), frames |-> frames]
    BY <2>1 DEF Takes
  <2>10. worker' \in Workers /\ WorkerSendsEntry'
    BY <2>2, <2>7, <2>8, <2>9 DEF Workers, WorkerSendsEntry
  <2>11. sent' \subseteq Symbols
    BY <2>1, <2>3 DEF Takes, AsyncType, SessionType
  <2> QED BY <1>1, <2>1, <2>2, <2>4, <2>10, <2>11 DEF Takes, AsyncType, SessionType
<1>3. ASSUME WorkerSends PROVE AsyncType'
  <2>1. worker \in Workers /\ worker.at = "send" /\ WorkerSendsEntry
    BY <1>3 DEF WorkerSends, AsyncType, SessionType
  <2>2. /\ Head(worker.frames) \in ClientFrames
        /\ worker' \in Workers /\ WorkerSendsEntry'
    <3>1. CASE worker.frames = <<Delivery(worker.entry)>>
      <4>1. worker.frames \in Seq(ClientFrames) /\ Len(worker.frames) = 1
        BY <2>1, <3>1 DEF Workers
      <4>2. worker' = At("get")
        BY <1>3, <4>1 DEF WorkerSends
      <4> QED BY <4>1, <4>2, <3>1, HeadAndTail DEF Workers, At, WorkerSendsEntry
    <3>2. ASSUME NEW new \in SUBSET Symbols,
                 worker.frames = <<Registrations(new), Delivery(worker.entry)>>
          PROVE  /\ Head(worker.frames) \in ClientFrames
                 /\ worker' \in Workers /\ WorkerSendsEntry'
      <4>1. worker.frames \in Seq(ClientFrames) /\ Len(worker.frames) = 2
            /\ worker.frames # <<>>
        BY <2>1, <3>2 DEF Workers
      <4>2. worker' = [worker EXCEPT !.frames = Tail(@)]
        BY <1>3, <4>1 DEF WorkerSends
      <4>3. worker' = [at |-> "send", entry |-> worker.entry,
                       frames |-> <<Delivery(worker.entry)>>]
        BY <2>1, <3>2, <4>2 DEF Workers
      <4>4. Tail(worker.frames) = <<Delivery(worker.entry)>>
        BY <3>2
      <4>5. worker' \in Workers
        <5>1. Tail(worker.frames) \in Seq(ClientFrames)
          BY <4>1, HeadAndTail
        <5> QED BY <2>1, <4>3, <4>4, <5>1 DEF Workers
      <4>6. Head(worker.frames) \in ClientFrames
        BY <4>1, HeadAndTail
      <4> QED BY <4>3, <4>5, <4>6 DEF WorkerSendsEntry
    <3> QED BY <2>1, <3>1, <3>2 DEF WorkerSendsEntry
  <2>3. wire' \in Seq(ClientFrames)
    BY <1>3, <2>2, WireAppends DEF WorkerSends
  <2>4. waiting' \subseteq Entries
    BY <1>3 DEF WorkerSends, AsyncType, SessionType
  <2> QED BY <1>1, <1>3, <2>2, <2>3, <2>4 DEF WorkerSends, AsyncType, SessionType
<1>4. ASSUME WorkerSendFails PROVE AsyncType'
  <2>1. worker' \in Workers /\ WorkerSendsEntry' /\ waiting' \subseteq Entries
    BY <1>4 DEF WorkerSendFails, AsyncType, SessionType, Workers, At, WorkerSendsEntry
  <2> QED BY <1>1, <1>4, <2>1 DEF WorkerSendFails, AsyncType, SessionType
<1>5. ASSUME WorkerFinished PROVE AsyncType'
  <2>1. worker' \in Workers /\ WorkerSendsEntry' /\ reader' \in Readers
    BY <1>5 DEF WorkerFinished, AsyncType, SessionType, Workers, Readers, At, WorkerSendsEntry
  <2> QED BY <1>1, <1>5, <2>1 DEF WorkerFinished, AsyncType, SessionType
<1> QED BY <1>2, <1>3, <1>4, <1>5 DEF WorkerStep

LEMMA AsyncTypeNext == AsyncType /\ AskInv /\ [AsyncNext]_asyncVars => AsyncType'
<1> SUFFICES ASSUME AsyncType, AskInv, [AsyncNext]_asyncVars PROVE AsyncType'
  OBVIOUS
<1>1. ASSUME NEW topic \in Topics, NEW name \in Names \cup {Shared}, OtherEmits(topic, name)
      PROVE  AsyncType'
  <2>1. Message(topic, name) \in Emits /\ Deliver(Message(topic, name))
    BY <1>1, MessageType DEF OtherEmits
  <2>2. /\ queue' \in Seq(Entries) /\ Len(queue') <= Capacity
        /\ waiting' \subseteq Entries
        /\ targets' \subseteq DOMAIN subscriptions
        /\ accepted' \in [Subscriptions -> Seq(Nat)]
        /\ worker' \in Workers /\ WorkerSendsEntry'
        /\ closed' \in BOOLEAN /\ stopped' \in BOOLEAN
    BY <2>1, DeliverType
  <2>3. nextId' \in Nat \ {0}
    BY <1>1 DEF OtherEmits, AsyncType, SessionType
  <2>4. reader' \in Readers
    BY <1>1 DEF OtherEmits, ReaderAfterClose, AsyncType, SessionType, Readers, At
  <2>5. ClientType'
    BY <1>1, ClientTypeStays DEF AsyncType, OtherEmits
  <2> QED BY <1>1, <2>2, <2>3, <2>4, <2>5 DEF OtherEmits, AsyncType, SessionType
<1>2. ASSUME RequestStop PROVE AsyncType'
  BY <1>2, FinishTypeNext DEF RequestStop, AsyncType
<1>3. ASSUME UNCHANGED asyncVars PROVE AsyncType'
  <2>1. ClientType'
    BY <1>3, ClientTypeStays DEF AsyncType, asyncVars
  <2> QED BY <1>3, <2>1, AsyncTypeStays
             DEF asyncVars, connection, session, tasks, history, AsyncType, SessionType
<1> QED BY <1>1, <1>2, <1>3, ClientTypeNext, ReaderTypeNext, WorkerTypeNext DEF AsyncNext


(* Who is in the line *)

Lines == {<<>>} \cup WithReader \cup WithWorker

LEMMA LineFacts ==
  /\ \A l \in Lines : "reader" \in ToSet(l) <=> l \in WithReader
  /\ \A l \in Lines : l # <<>> /\ Head(l) = "reader" =>
       /\ l \in WithReader
       /\ Tail(l) = IF l \in WithWorker THEN <<"worker">> ELSE <<>>
  /\ \A l \in Lines : l # <<>> /\ Head(l) = "worker" =>
       /\ l \in WithWorker
       /\ Tail(l) = IF l \in WithReader THEN <<"reader">> ELSE <<>>
  /\ Append(<<>>, "reader") = <<"reader">>
  /\ Append(<<>>, "worker") = <<"worker">>
  /\ Append(<<"worker">>, "reader") = <<"worker", "reader">>
  /\ Append(<<"reader">>, "worker") = <<"reader", "worker">>
  /\ \A l \in Lines \ WithReader : l = <<>> \/ l = <<"worker">>
  /\ \A l \in Lines \ WithWorker : l = <<>> \/ l = <<"reader">>
  /\ \A l \in {<<>>, <<"worker">>} : l \notin WithReader
  /\ \A l \in {<<>>, <<"reader">>} : l \notin WithWorker
<1>1. /\ \A l \in WithReader : "reader" \in ToSet(l)
      /\ "reader" \notin ToSet(<<>>) /\ "reader" \notin ToSet(<<"worker">>)
  <2>1. "reader" \in ToSet(<<"reader">>)
    <3>1. <<"reader">>[1] = "reader" /\ 1 \in DOMAIN <<"reader">>
      OBVIOUS
    <3> QED BY <3>1 DEF ToSet
  <2>2. "reader" \in ToSet(<<"reader", "worker">>)
    <3>1. <<"reader", "worker">>[1] = "reader" /\ 1 \in DOMAIN <<"reader", "worker">>
      OBVIOUS
    <3> QED BY <3>1 DEF ToSet
  <2>3. "reader" \in ToSet(<<"worker", "reader">>)
    <3>1. <<"worker", "reader">>[2] = "reader" /\ 2 \in DOMAIN <<"worker", "reader">>
      OBVIOUS
    <3> QED BY <3>1 DEF ToSet
  <2>4. "reader" \notin ToSet(<<"worker">>)
    <3>1. DOMAIN <<"worker">> = {1} /\ <<"worker">>[1] # "reader"
      OBVIOUS
    <3> QED BY <3>1 DEF ToSet
  <2>5. "reader" \notin ToSet(<<>>)
    BY DEF ToSet
  <2> QED BY <2>1, <2>2, <2>3, <2>4, <2>5 DEF WithReader
<1>2. \A l \in Lines : "reader" \in ToSet(l) <=> l \in WithReader
  BY <1>1 DEF Lines, WithWorker, WithReader
<1>3. /\ Head(<<"reader">>) = "reader" /\ Tail(<<"reader">>) = <<>>
      /\ Head(<<"worker">>) = "worker" /\ Tail(<<"worker">>) = <<>>
      /\ Head(<<"reader", "worker">>) = "reader"
      /\ Tail(<<"reader", "worker">>) = <<"worker">>
      /\ Head(<<"worker", "reader">>) = "worker"
      /\ Tail(<<"worker", "reader">>) = <<"reader">>
  OBVIOUS
<1>4. /\ <<"reader">> # <<"worker">> /\ <<"reader">> # <<"reader", "worker">>
      /\ <<"reader">> # <<"worker", "reader">> /\ <<"worker">> # <<"reader", "worker">>
      /\ <<"worker">> # <<"worker", "reader">> /\ <<>> # <<"reader">> /\ <<>> # <<"worker">>
      /\ <<>> # <<"reader", "worker">> /\ <<>> # <<"worker", "reader">>
      /\ <<"reader", "worker">> # <<"worker", "reader">>
  <2>1. Len(<<"reader">>) = 1 /\ Len(<<"worker">>) = 1 /\ Len(<<>>) = 0
    OBVIOUS
  <2>2. Len(<<"reader", "worker">>) = 2 /\ Len(<<"worker", "reader">>) = 2
    OBVIOUS
  <2>3. <<"reader">> # <<"worker">> /\ <<"reader", "worker">> # <<"worker", "reader">>
    BY <1>3
  <2> QED BY <2>1, <2>2, <2>3
<1>5. /\ Append(<<>>, "reader") = <<"reader">>
      /\ Append(<<>>, "worker") = <<"worker">>
      /\ Append(<<"worker">>, "reader") = <<"worker", "reader">>
      /\ Append(<<"reader">>, "worker") = <<"reader", "worker">>
  <2>1. Append(<<>>, "reader") = <<"reader">> /\ Append(<<>>, "worker") = <<"worker">>
    OBVIOUS
  <2>2. ASSUME NEW a, NEW b
        PROVE  Append(<<a>>, b) = <<a, b>>
    <3>1. <<a>> \in Seq({a, b}) /\ b \in {a, b} /\ Len(<<a>>) = 1
      OBVIOUS
    <3>2. /\ DOMAIN Append(<<a>>, b) = 1..2 /\ Append(<<a>>, b)[1] = a
          /\ Append(<<a>>, b)[2] = b /\ Append(<<a>>, b) \in Seq({a, b})
      BY <3>1, Appended
    <3>3. /\ DOMAIN <<a, b>> = 1..2 /\ <<a, b>>[1] = a /\ <<a, b>>[2] = b
          /\ <<a, b>> \in Seq({a, b})
      OBVIOUS
    <3> DEFINE both == Append(<<a>>, b)
               pair == <<a, b>>
    <3>4. both = [i \in 1..2 |-> both[i]] /\ pair = [i \in 1..2 |-> pair[i]]
      BY <3>2, <3>3
    <3>5. \A i \in 1..2 : both[i] = pair[i]
      BY <3>2, <3>3
    <3> HIDE DEF both, pair
    <3>6. both = pair
      BY <3>4, <3>5
    <3> QED BY <3>6 DEF both, pair
  <2> QED BY <2>1, <2>2
<1>6. \A l \in Lines : l # <<>> /\ Head(l) = "reader" =>
        /\ l \in WithReader
        /\ Tail(l) = IF l \in WithWorker THEN <<"worker">> ELSE <<>>
  BY <1>3, <1>4 DEF Lines, WithReader, WithWorker
<1>7. \A l \in Lines : l # <<>> /\ Head(l) = "worker" =>
        /\ l \in WithWorker
        /\ Tail(l) = IF l \in WithReader THEN <<"reader">> ELSE <<>>
  BY <1>3, <1>4 DEF Lines, WithReader, WithWorker
<1>8. /\ \A l \in Lines \ WithReader : l = <<>> \/ l = <<"worker">>
      /\ \A l \in Lines \ WithWorker : l = <<>> \/ l = <<"reader">>
      /\ \A l \in {<<>>, <<"worker">>} : l \notin WithReader
      /\ \A l \in {<<>>, <<"reader">>} : l \notin WithWorker
  BY <1>4 DEF Lines, WithReader, WithWorker
<1> QED BY <1>2, <1>5, <1>6, <1>7, <1>8

LEMMA LineMembers ==
  /\ <<>> \in Lines /\ <<"reader">> \in Lines /\ <<"worker">> \in Lines
  /\ <<"reader", "worker">> \in Lines /\ <<"worker", "reader">> \in Lines
  /\ <<"reader">> \in WithReader /\ <<"worker">> \in WithWorker
  /\ <<"reader", "worker">> \in WithReader /\ <<"reader", "worker">> \in WithWorker
  /\ <<"worker", "reader">> \in WithReader /\ <<"worker", "reader">> \in WithWorker
BY DEF Lines, WithReader, WithWorker

LEMMA LineStays ==
  ASSUME LineInv, UNCHANGED <<line, worker, reader>>
  PROVE  LineInv'
BY DEF LineInv

(* The reader asks for the lock. *)
LEMMA LineAsked ==
  ASSUME LineInv, reader.at \in {"receive", "wait"}, worker' = worker,
         reader'.at = "send", line' = Append(line, "reader")
  PROVE  LineInv'
<1>1. line \in Lines \ WithReader
  BY DEF LineInv, Lines
<1>2. line = <<>> \/ line = <<"worker">>
  BY <1>1, LineFacts
<1>3. /\ line' \in WithReader /\ line' \in Lines
      /\ line' \in WithWorker <=> line \in WithWorker
  BY <1>2, LineFacts, LineMembers
<1> QED BY <1>3 DEF LineInv, Lines

LEMMA LineFinished ==
  ASSUME NEW cause, Finish(cause)
  PROVE  LineInv'
<1>1. line' = <<>> /\ reader'.at = "done" /\ worker'.at # "send"
  BY DEF Finish, CloseSession, Cancelled, At
<1>2. <<>> \notin WithReader /\ <<>> \notin WithWorker
  BY LineFacts
<1> QED BY <1>1, <1>2 DEF LineInv

LEMMA LineOverflows ==
  ASSUME LineInv, CloseSession, line' = WithoutWorker,
         \/ reader'.at = reader.at
         \/ reader'.at \in {"stuck", "woken"}
         \/ reader.at = "receive" /\ reader'.at = "wait"
  PROVE  LineInv'
<1>1. worker'.at # "send"
  BY DEF CloseSession, Cancelled, At
<1>2. "reader" \in ToSet(line) <=> line \in WithReader
  BY LineFacts DEF LineInv, Lines
<1>3. line' = IF line \in WithReader THEN <<"reader">> ELSE <<>>
  BY <1>2 DEF WithoutWorker
<1>4. /\ line' \in Lines /\ line' \notin WithWorker
      /\ line' \in WithReader <=> line \in WithReader
  BY <1>3, LineFacts, LineMembers
<1> QED BY <1>1, <1>4 DEF LineInv, Lines

LEMMA LineDelivered ==
  ASSUME AsyncType, LineInv, NEW message \in Emits, Deliver(message),
         IF Fits(message.topic)
         THEN \/ reader' = reader
              \/ reader.at = "receive" /\ reader'.at = "wait"
         ELSE \/ reader'.at = reader.at
              \/ reader'.at \in {"stuck", "woken"}
              \/ reader.at = "receive" /\ reader'.at = "wait"
  PROVE  LineInv'
<1>1. PICK taken \in Seq(Subscriptions) : Enqueues(message, taken) \/ Overflows(message)
  BY Delivering
<1>2. PICK list : IF Fits(message.topic)
                  THEN /\ worker' = IF worker.at = "none" /\ list # <<>>
                                    THEN At("get") ELSE worker
                       /\ UNCHANGED line
                  ELSE CloseSession /\ line' = WithoutWorker
  BY DEF Deliver
<1>3. CASE Fits(message.topic)
  <2>1. worker'.at = "send" <=> worker.at = "send"
    BY <1>2, <1>3 DEF At
  <2> QED BY <1>2, <1>3, <2>1 DEF LineInv
<1>4. CASE ~Fits(message.topic)
  BY <1>2, <1>4, LineOverflows
<1> QED BY <1>3, <1>4

LEMMA LineNext == AsyncType /\ AskInv /\ LineInv /\ [AsyncNext]_asyncVars => LineInv'
<1> SUFFICES ASSUME AsyncType, AskInv, LineInv, [AsyncNext]_asyncVars PROVE LineInv'
  OBVIOUS
<1> USE DEF Quiet, session, tasks
<1>1. ASSUME NEW topic \in Topics, ClientSubscribe(topic) \/ ClientRegisterEmitter(topic)
      PROVE  LineInv'
  BY <1>1, LineStays DEF ClientSubscribe, ClientRegisterEmitter
<1>2. ASSUME NEW topic \in Topics, NEW name \in Names \cup {Shared}, ClientEmit(topic, name)
      PROVE  LineInv'
  BY <1>2, LineStays DEF ClientEmit
<1>3. ASSUME NEW topic \in Topics, NEW name \in Names \cup {Shared}, OtherEmits(topic, name)
      PROVE  LineInv'
  <2>1. Message(topic, name) \in Emits /\ Deliver(Message(topic, name))
        /\ Message(topic, name).topic = topic
    BY <1>3, MessageType DEF OtherEmits, Message
  <2>2. IF Fits(topic) THEN reader' = reader
        ELSE reader' = reader \/ reader'.at \in {"stuck", "woken"}
    BY <1>3 DEF OtherEmits, ReaderAfterClose, At
  <2> QED BY <2>1, <2>2, LineDelivered
<1>4. ASSUME NEW from \in Selections, ClientTakeHeld(from) \/ ClientReceive(from)
      PROVE  LineInv'
  BY <1>4, LineStays DEF ClientTakeHeld, ClientReceive
<1>5. ASSUME ClientReads \/ ClientStopsReceiving \/ ClientClose PROVE LineInv'
  BY <1>5, LineStays DEF ClientReads, ClientReadExpected, ClientReadCandidate, ClientReadsEnd,
                         ClientStopsReceiving, ClientClose, Reading
<1>6. ASSUME HandleSubscribe \/ HandleRegisterEmitter \/ HandleRegisterName \/ HandleRefused
      PROVE  LineInv'
  <2>1. /\ reader.at = "receive" /\ worker' = worker /\ reader'.at = "send"
        /\ line' = Append(line, "reader")
    BY <1>6 DEF HandleSubscribe, HandleRegisterEmitter, HandleRegisterName, HandleRefused,
                Reads, AnswersWith, Answers
  <2> QED BY <2>1, LineAsked
<1>7. ASSUME HandleEmit PROVE LineInv'
  <2> DEFINE message == Message(Head(requests).topic, Head(requests).name)
  <2>1. Reads("emit") /\ Deliver(message) /\ reader'.at = "wait"
    BY <1>7 DEF HandleEmit
  <2>2. message \in Emits
    BY <2>1, RequestRead, MessageType
  <2> HIDE DEF message
  <2> QED BY <2>1, <2>2, LineDelivered DEF Reads
<1>8. ASSUME DeliveriesDone PROVE LineInv'
  <2>1. /\ reader.at = "wait" /\ worker' = worker /\ reader'.at = "send"
        /\ line' = Append(line, "reader")
    BY <1>8 DEF DeliveriesDone
  <2> QED BY <2>1, LineAsked
<1>9. ASSUME ReaderSends PROVE LineInv'
  <2>1. /\ line # <<>> /\ Head(line) = "reader" /\ line' = Tail(line)
        /\ reader'.at = "receive" /\ worker' = worker
    BY <1>9 DEF ReaderSends, Holds, At
  <2>2. line' = IF line \in WithWorker THEN <<"worker">> ELSE <<>>
    BY <2>1, LineFacts DEF LineInv, Lines
  <2>3. /\ line' \in Lines /\ line' \notin WithReader
        /\ line' \in WithWorker <=> line \in WithWorker
    BY <2>2, LineFacts, LineMembers
  <2> QED BY <2>1, <2>3 DEF LineInv, Lines
<1>10. ASSUME HandleRaises \/ ReaderSendFails \/ ReaderEnds \/ RequestStop PROVE LineInv'
  BY <1>10, LineFinished DEF HandleRaises, ReaderSendFails, ReaderEnds, RequestStop
<1>11. ASSUME WorkerTakes PROVE LineInv'
  <2>1. /\ worker.at = "get" /\ worker'.at = "send" /\ line' = Append(line, "worker")
        /\ reader' = reader
    BY <1>11 DEF WorkerTakes, Takes
  <2>2. line \in Lines \ WithWorker
    BY <2>1 DEF LineInv, Lines
  <2>3. line = <<>> \/ line = <<"reader">>
    BY <2>2, LineFacts
  <2>4. /\ line' \in WithWorker /\ line' \in Lines
        /\ line' \in WithReader <=> line \in WithReader
    BY <2>1, <2>3, LineFacts, LineMembers
  <2> QED BY <2>1, <2>4 DEF LineInv, Lines
<1>12. ASSUME WorkerSends PROVE LineInv'
  <2>1. /\ line # <<>> /\ Head(line) = "worker" /\ reader' = reader
        /\ \/ worker'.at = "send" /\ line' = Append(Tail(line), "worker")
           \/ worker'.at = "get" /\ line' = Tail(line)
    BY <1>12 DEF WorkerSends, Holds, At, AsyncType, SessionType, Workers
  <2>2. Tail(line) = IF line \in WithReader THEN <<"reader">> ELSE <<>>
    BY <2>1, LineFacts DEF LineInv, Lines
  <2>3. /\ Append(Tail(line), "worker") \in WithWorker
        /\ Append(Tail(line), "worker") \in Lines
        /\ Append(Tail(line), "worker") \in WithReader <=> line \in WithReader
        /\ Tail(line) \in Lines /\ Tail(line) \notin WithWorker
        /\ Tail(line) \in WithReader <=> line \in WithReader
    BY <2>2, LineFacts, LineMembers
  <2>4. /\ line' \in Lines /\ (worker'.at = "send" <=> line' \in WithWorker)
        /\ line' \in WithReader <=> line \in WithReader
    BY <2>1, <2>3
  <2> QED BY <2>1, <2>4 DEF LineInv, Lines
<1>13. ASSUME WorkerSendFails PROVE LineInv'
  <2>1. /\ line # <<>> /\ Head(line) = "worker" /\ reader' = reader
        /\ worker'.at = "failed" /\ line' = Tail(line)
    BY <1>13 DEF WorkerSendFails, Holds, At
  <2>2. Tail(line) = IF line \in WithReader THEN <<"reader">> ELSE <<>>
    BY <2>1, LineFacts DEF LineInv, Lines
  <2>3. /\ line' \in Lines /\ line' \notin WithWorker
        /\ line' \in WithReader <=> line \in WithReader
    BY <2>1, <2>2, LineFacts, LineMembers
  <2> QED BY <2>1, <2>3 DEF LineInv, Lines
<1>14. ASSUME WorkerFinished PROVE LineInv'
  <2>1. /\ worker.at = "failed" /\ worker'.at = "ended" /\ line' = line
        /\ reader' = IF reader.at = "receive" THEN At("woken") ELSE reader
    BY <1>14 DEF WorkerFinished, At
  <2> QED BY <2>1 DEF LineInv, At
<1>15. ASSUME UNCHANGED asyncVars PROVE LineInv'
  BY <1>15, LineStays DEF asyncVars, connection
<1> QED
  BY <1>1, <1>2, <1>3, <1>4, <1>5, <1>6, <1>7, <1>8, <1>9, <1>10, <1>11, <1>12,
     <1>13, <1>14, <1>15
     DEF AsyncNext, ReaderStep, WorkerStep


(* One call, one answer *)

LEMMA AskStays ==
  ASSUME AskInv, UNCHANGED <<requests, subscriptions>>,
         wire' = wire \/ wire' = <<>>,
         reader'.at \in {"send", "wait"} => reader.at \in {"send", "wait"},
         call' = call \/ ~Awaits \/ call'.op = "ended"
  PROVE  AskInv'
BY DEF AskInv, NoAnswer, IsAnswer, Awaits

LEMMA AskAsked ==
  ASSUME AsyncType, AskInv, call.op = "idle", NEW frame, requests' = Append(requests, frame),
         call'.op \in {"await", "register"},
         frame.kind = "subscribe" => Len(subscriptions) < MaxSubscriptions,
         UNCHANGED <<wire, reader, subscriptions>>
  PROVE  AskInv'
<1>1. requests = <<>> /\ reader.at \notin {"send", "wait"} /\ NoAnswer
  BY DEF AskInv, Awaits, NoAnswer
<1>2. requests' = <<frame>>
  BY <1>1
<1>3. requests' = <<requests'[1]>> /\ requests'[1] = frame
  BY <1>2
<1> QED BY <1>1, <1>3 DEF AskInv, NoAnswer, IsAnswer, Awaits

LEMMA AskTaken ==
  ASSUME AskInv, requests # <<>>, requests' = Tail(requests), UNCHANGED <<wire, call>>
  PROVE  AskInv'
<1>1. requests' = <<>> /\ NoAnswer /\ Awaits
  BY DEF AskInv
<1> QED BY <1>1 DEF AskInv, NoAnswer, IsAnswer, Awaits

LEMMA AskSent ==
  ASSUME AsyncType, AskInv, NEW frame \in ClientFrames, wire' = Append(wire, frame),
         UNCHANGED <<requests, subscriptions, call>>,
         \/ reader' = reader /\ frame.kind \notin {"result", "error"}
         \/ reader.at = "send" /\ reader'.at = "receive"
  PROVE  AskInv'
<1>1. /\ Len(wire) \in Nat
      /\ DOMAIN wire = 1..Len(wire) /\ DOMAIN wire' = 1..(Len(wire) + 1)
      /\ \A i \in 1..Len(wire) : wire'[i] = wire[i]
      /\ wire'[Len(wire) + 1] = frame
  BY WireAppends
<1>2. \A i \in DOMAIN wire' : i \in DOMAIN wire \/ i = Len(wire) + 1
  BY <1>1
<1>3. CASE reader' = reader /\ frame.kind \notin {"result", "error"}
  <2>1. \A i \in DOMAIN wire' : IsAnswer(i)' => i \in DOMAIN wire /\ IsAnswer(i)
    BY <1>1, <1>2, <1>3 DEF IsAnswer
  <2> QED BY <1>3, <2>1 DEF AskInv, NoAnswer, Awaits
<1>4. CASE reader.at = "send" /\ reader'.at = "receive"
  <2>1. NoAnswer /\ Awaits /\ requests = <<>>
    BY <1>4 DEF AskInv
  <2>2. \A i \in DOMAIN wire' : IsAnswer(i)' => i = Len(wire) + 1
    BY <1>1, <1>2, <2>1 DEF IsAnswer, NoAnswer
  <2> QED BY <1>4, <2>1, <2>2 DEF AskInv, Awaits
<1> QED BY <1>3, <1>4

LEMMA AskRead ==
  ASSUME AsyncType, AskInv, NEW ops, NEW frame, Reading(ops, frame),
         \/ call' = call /\ UNCHANGED requests /\ frame.kind \notin {"result", "error"}
         \/ call'.op \in {"idle", "ended"} /\ UNCHANGED requests
              /\ frame.kind \in {"result", "error"}
         \/ ~Awaits /\ UNCHANGED requests
         \/ /\ frame.kind = "result" /\ call'.op = "await"
            /\ \E next : next.kind = "emit" /\ requests' = Append(requests, next)
  PROVE  AskInv'
<1>1. /\ frame = wire[1] /\ Len(wire) \in Nat \ {0} /\ DOMAIN wire = 1..Len(wire)
      /\ DOMAIN wire' = 1..(Len(wire) - 1)
      /\ \A i \in 1..(Len(wire) - 1) : wire'[i] = wire[i + 1]
      /\ UNCHANGED <<reader, subscriptions>>
  BY FrameRead DEF Reading, tasks, session
<1>2. \A i \in DOMAIN wire' : i + 1 \in DOMAIN wire /\ (IsAnswer(i)' <=> IsAnswer(i + 1))
                              /\ i + 1 # 1 /\ \A j \in DOMAIN wire' : i + 1 = j + 1 => i = j
  BY <1>1 DEF IsAnswer
<1>3. NoAnswer => NoAnswer'
  BY <1>2 DEF NoAnswer
<1>4. CASE call' = call /\ UNCHANGED requests /\ frame.kind \notin {"result", "error"}
  BY <1>1, <1>2, <1>3, <1>4 DEF AskInv, Awaits
<1>5. CASE frame.kind \in {"result", "error"} /\ ~(~Awaits /\ UNCHANGED requests)
  <2>1. 1 \in DOMAIN wire /\ IsAnswer(1)
    BY <1>1, <1>5 DEF IsAnswer
  <2>2. requests = <<>> /\ reader.at \notin {"send", "wait"}
    BY <2>1 DEF AskInv, NoAnswer
  <2>3. NoAnswer'
    BY <1>2, <2>1 DEF NoAnswer, AskInv
  <2>4. CASE UNCHANGED requests
    BY <1>1, <2>2, <2>3, <2>4 DEF AskInv, NoAnswer
  <2>5. CASE ~UNCHANGED requests
    <3>1. PICK next : next.kind = "emit" /\ requests' = Append(requests, next)
      BY <1>4, <1>5, <2>5
    <3>2. requests' = <<next>>
      BY <2>2, <3>1
    <3>3. requests' = <<requests'[1]>> /\ requests'[1] = next
      BY <3>2
    <3>4. call'.op = "await"
      BY <1>5, <2>5
    <3> QED BY <1>1, <2>2, <2>3, <3>1, <3>3, <3>4 DEF AskInv, Awaits, NoAnswer
  <2> QED BY <2>4, <2>5
<1>6. CASE ~Awaits /\ UNCHANGED requests
  <2>1. requests = <<>> /\ reader.at \notin {"send", "wait"} /\ NoAnswer
    BY <1>6 DEF AskInv, NoAnswer
  <2> QED BY <1>1, <1>3, <1>6, <2>1 DEF AskInv, NoAnswer
<1> QED BY <1>4, <1>5, <1>6

LEMMA CallOps ==
  AsyncType => /\ call.op \in {"idle", "ended", "await", "register", "receive"}
               /\ call = Idle => call.op = "idle"
BY DEF AsyncType, ClientType, ClientCalls, Idle, Ended

LEMMA AskNext == AsyncType /\ AskInv /\ [AsyncNext]_asyncVars => AskInv'
<1> SUFFICES ASSUME AsyncType, AskInv, [AsyncNext]_asyncVars PROVE AskInv'
  OBVIOUS
<1> USE DEF Quiet, session, tasks
<1>1. ASSUME NEW topic \in Topics, ClientSubscribe(topic) \/ ClientRegisterEmitter(topic)
      PROVE  AskInv'
  <2>1. PICK frame : /\ requests' = Append(requests, frame)
                     /\ frame.kind = "subscribe" => Len(subscriptions) < MaxSubscriptions
    BY <1>1 DEF ClientSubscribe, ClientRegisterEmitter, Send
  <2>2. call.op = "idle" /\ call'.op = "await" /\ UNCHANGED <<wire, reader, subscriptions>>
    BY <1>1, CallOps DEF ClientSubscribe, ClientRegisterEmitter
  <2> QED BY <2>1, <2>2, AskAsked
<1>2. ASSUME NEW topic \in Topics, NEW name \in Names \cup {Shared}, ClientEmit(topic, name)
      PROVE  AskInv'
  <2>1. PICK frame : /\ requests' = Append(requests, frame)
                     /\ frame.kind # "subscribe"
    BY <1>2 DEF ClientEmit, Send, EmitFrame
  <2>2. /\ call.op = "idle" /\ call'.op \in {"await", "register"}
        /\ UNCHANGED <<wire, reader, subscriptions>>
    BY <1>2, CallOps DEF ClientEmit
  <2> QED BY <2>1, <2>2, AskAsked
<1>3. ASSUME NEW topic \in Topics, NEW name \in Names \cup {Shared}, OtherEmits(topic, name)
      PROVE  AskInv'
  <2>1. reader'.at \in {"send", "wait"} => reader.at \in {"send", "wait"}
    BY <1>3 DEF OtherEmits, ReaderAfterClose, At
  <2> QED BY <1>3, <2>1, AskStays DEF OtherEmits, client
<1>4. ASSUME NEW from \in Selections, ClientTakeHeld(from) \/ ClientReceive(from)
      PROVE  AskInv'
  <2>1. call.op = "idle"
    BY <1>4, CallOps DEF ClientTakeHeld, ClientReceive
  <2> QED BY <1>4, <2>1, AskStays DEF ClientTakeHeld, ClientReceive, Awaits
<1>5. ASSUME ClientReadExpected PROVE AskInv'
  <2>1. PICK frame \in ToSet(wire) :
        /\ Reading({"await", "register"}, frame)
        /\ \/ /\ frame.kind = "registrations"
              /\ UNCHANGED <<requests, call>>
           \/ /\ frame.kind = "delivery"
              /\ UNCHANGED <<requests, call>>
           \/ /\ frame.kind = "error"
              /\ call' = Idle
              /\ UNCHANGED requests
           \/ /\ frame.kind = "result"
              /\ IF call.op = "await"
                 THEN call' = Idle /\ UNCHANGED requests
                 ELSE IF closed
                 THEN call' = Ended /\ UNCHANGED requests
                 ELSE /\ Send(EmitFrame(call.topic, call.name))
                      /\ call' = [op |-> "await"]
    BY <1>5 DEF ClientReadExpected
  <2> DEFINE goesOn == frame.kind = "result" /\ call.op # "await" /\ ~closed
  <2>2. CASE ~goesOn
    BY <2>1, <2>2, AskRead DEF Idle, Ended
  <2>3. CASE goesOn
    <3>1. /\ frame.kind = "result" /\ call'.op = "await"
          /\ requests' = Append(requests, EmitFrame(call.topic, call.name))
      BY <2>1, <2>3 DEF Send
    <3>2. EmitFrame(call.topic, call.name).kind = "emit"
      BY DEF EmitFrame
    <3> QED BY <2>1, <3>1, <3>2, AskRead
  <2> QED BY <2>2, <2>3
<1>6. ASSUME ClientReadCandidate PROVE AskInv'
  <2>1. PICK frame \in ToSet(wire) : Reading({"receive"}, frame) /\ UNCHANGED requests
    BY <1>6 DEF ClientReadCandidate
  <2>2. ~Awaits
    BY <2>1 DEF Reading, Awaits
  <2> QED BY <2>1, <2>2, AskRead
<1>7. ASSUME ClientReadsEnd \/ ClientClose PROVE AskInv'
  <2>1. call'.op = "ended"
    BY <1>7 DEF ClientReadsEnd, ClientClose, Ended
  <2> QED BY <1>7, <2>1, AskStays DEF ClientReadsEnd, ClientClose
<1>8. ASSUME ClientStopsReceiving PROVE AskInv'
  BY <1>8, AskStays DEF ClientStopsReceiving, Awaits
<1>9. ASSUME HandleSubscribe \/ HandleRegisterEmitter \/ HandleRegisterName \/ HandleEmit
               \/ HandleRefused \/ HandleRaises
      PROVE  AskInv'
  BY <1>9, AskTaken DEF HandleSubscribe, HandleRegisterEmitter, HandleRegisterName, HandleEmit,
                        HandleRefused, HandleRaises, Reads, client
<1>10. ASSUME DeliveriesDone PROVE AskInv'
  BY <1>10, AskStays DEF DeliveriesDone, client
<1>11. ASSUME ReaderSends PROVE AskInv'
  <2>1. reader.frame \in ClientFrames
    BY <1>11 DEF ReaderSends, AsyncType, SessionType, Readers, ClientFrames
  <2> QED BY <1>11, <2>1, AskSent DEF ReaderSends, client, At
<1>12. ASSUME ReaderSendFails \/ ReaderEnds \/ RequestStop PROVE AskInv'
  <2>1. reader'.at = "done"
    BY <1>12 DEF ReaderSendFails, ReaderEnds, RequestStop, Finish, At
  <2> QED BY <1>12, <2>1, AskStays DEF ReaderSendFails, ReaderEnds, RequestStop, client
<1>13. ASSUME WorkerSends PROVE AskInv'
  <2>1. /\ Head(worker.frames) \in ClientFrames
        /\ Head(worker.frames).kind \notin {"result", "error"}
    <3>1. worker.frames \in Seq(ClientFrames) /\ worker.frames # <<>> /\ WorkerSendsEntry
      <4>1. worker.frames \in Seq(ClientFrames) /\ WorkerSendsEntry /\ worker.at = "send"
        BY <1>13 DEF WorkerSends, AsyncType, SessionType, Workers
      <4>2. \A a, b : <<a>> # <<>> /\ <<a, b>> # <<>>
        OBVIOUS
      <4> QED BY <4>1, <4>2 DEF WorkerSendsEntry
    <3>2. Head(worker.frames) \in ClientFrames
      BY <3>1, HeadAndTail
    <3>3. \A e : Delivery(e).kind = "delivery"
      BY DEF Delivery
    <3>4. \A n : Registrations(n).kind = "registrations"
      BY DEF Registrations
    <3>5. Head(worker.frames).kind \in {"delivery", "registrations"}
      BY <1>13, <3>1, <3>3, <3>4 DEF WorkerSendsEntry, WorkerSends
    <3> QED BY <3>2, <3>5
  <2> QED BY <1>13, <2>1, AskSent DEF WorkerSends, client
<1>14. ASSUME WorkerTakes \/ WorkerSendFails \/ WorkerFinished PROVE AskInv'
  <2>1. reader'.at \in {"send", "wait"} => reader.at \in {"send", "wait"}
    BY <1>14 DEF WorkerTakes, Takes, WorkerSendFails, WorkerFinished, At
  <2> QED BY <1>14, <2>1, AskStays
             DEF WorkerTakes, Takes, WorkerSendFails, WorkerFinished, client
<1>15. ASSUME UNCHANGED asyncVars PROVE AskInv'
  BY <1>15, AskStays DEF asyncVars, connection, client
<1> QED
  BY <1>1, <1>2, <1>3, <1>4, <1>5, <1>6, <1>7, <1>8, <1>9, <1>10, <1>11, <1>12,
     <1>13, <1>14, <1>15
     DEF AsyncNext, ClientReads, ReaderStep, WorkerStep


LEMMA TypedInit == AsyncInit => Typed
<1> SUFFICES ASSUME AsyncInit PROVE Typed
  OBVIOUS
<1> USE DEF AsyncInit, At, Idle, Nothing
<1>1. ClientType
  BY DEF ClientType, ClientCalls
<1>2. AsyncType
  <2>1. reader \in Readers /\ worker \in Workers /\ WorkerSendsEntry
    BY DEF Readers, Workers, WorkerSendsEntry
  <2>2. <<>> \in Seq(Topics) /\ <<>> \in Seq(Entries) /\ Len(<<>>) = 0
    OBVIOUS
  <2>3. accepted \in [Subscriptions -> Seq(Nat)]
    OBVIOUS
  <2>4. SessionType
    BY <2>1, <2>2, <2>3, Bounds DEF SessionType
  <2>5. requests \in Seq(SessionFrames) /\ wire \in Seq(ClientFrames)
    OBVIOUS
  <2> QED BY <1>1, <2>4, <2>5 DEF AsyncType
<1>3. EndInv
  BY DEF EndInv, OnlyRealFailures
<1>4. LineInv
  BY LineFacts DEF LineInv
<1>5. AskInv
  BY DEF AskInv, NoAnswer, IsAnswer
<1> QED BY <1>2, <1>3, <1>4, <1>5 DEF Typed

LEMMA TypedNext == Typed /\ [AsyncNext]_asyncVars => Typed'
BY AsyncTypeNext, EndNext, LineNext, AskNext DEF Typed

(***************************************************************************)
(* Every state has the shape that AsyncType says, and the two tasks and    *)
(* the client are where Typed says: the lock's line holds the task that    *)
(* sends, and at most one call or one answer is under way.                 *)
(***************************************************************************)
THEOREM AsyncTypeOK == AsyncSpec => []AsyncType
<1>1. Typed => AsyncType
  BY DEF Typed
<1> QED BY TypedInit, TypedNext, <1>1, PTL DEF AsyncSpec

(***************************************************************************)
(* An error is recorded only when the core raised or the client was gone:  *)
(* whoever closes the connection under the reader has stopped the          *)
(* deliveries before (AsyncBrokerTransportSessionRunner.run, request_stop, *)
(* _AsyncTransportDeliveryTarget.deliver).                                 *)
(***************************************************************************)
THEOREM AsyncFailuresAreReal == AsyncSpec => []OnlyRealFailures
<1>1. Typed => OnlyRealFailures
  BY DEF Typed, EndInv
<1> QED BY TypedInit, TypedNext, <1>1, PTL DEF AsyncSpec

------------------------------------------------------------------------------
(* Registrations *)

Live == ~closed /\ ~gone

Carries(frame, r) == /\ frame.kind \in {"registrations", "result"}
                     /\ r \in frame.registrations

CarriedBefore(r, k) == \E j \in DOMAIN wire : j < k /\ Carries(wire[j], r)

Due(r) == r \in known \/ \E j \in DOMAIN wire : Carries(wire[j], r)

InAnswer(r) == reader.at = "send" /\ Carries(reader.frame, r)

InHands(r) == worker.at = "send" /\ Carries(Head(worker.frames), r)

(* What is marked as sent is known, on the wire or about to be sent. *)
MarkedInv == \A r \in sent : Due(r) \/ InAnswer(r) \/ InHands(r)

(* What a task leaves out of its frame is ahead of it in the line. *)
DeliveryInv ==
  worker.at = "send" => \A r \in worker.entry.message.needs :
    \/ Due(r) \/ InHands(r)
    \/ line = <<"reader", "worker">> /\ InAnswer(r)

ResultInv ==
  reader.at = "send" /\ reader.frame.kind = "result" =>
    \A topic \in reader.frame.emitter : \A r \in {topic, Shared} :
      \/ Due(r) \/ InAnswer(r)
      \/ line = <<"worker", "reader">> /\ InHands(r)

WireNeeds(k) ==
  /\ wire[k].kind = "delivery" => \A r \in wire[k].message.needs :
       r \in known \/ CarriedBefore(r, k)
  /\ wire[k].kind = "result" =>
       \A topic \in wire[k].emitter : \A r \in {topic, Shared} :
         r \in known \/ CarriedBefore(r, k) \/ Carries(wire[k], r)

ClientNeeds ==
  /\ \A s \in Subscriptions : \A k \in DOMAIN held[s] : held[s][k].needs \subseteq known
  /\ RegistrationsInTime

SymbolsInv ==
  /\ Live => MarkedInv /\ DeliveryInv /\ ResultInv
  /\ reader.at = "wait" => reader.frame.emitter = {}
  /\ \A k \in DOMAIN wire : WireNeeds(k)
  /\ ClientNeeds


LEMMA DueQuiet ==
  ASSUME NEW r, UNCHANGED <<known, wire>>
  PROVE  /\ Due(r) => Due(r)'
         /\ \A k \in DOMAIN wire : CarriedBefore(r, k) => CarriedBefore(r, k)'
BY DEF Due, CarriedBefore

LEMMA WireNeedsStay ==
  ASSUME UNCHANGED <<known, wire>>, \A k \in DOMAIN wire : WireNeeds(k)
  PROVE  \A k \in DOMAIN wire' : WireNeeds(k)'
BY DEF WireNeeds, CarriedBefore

LEMMA ClientNeedsStay ==
  ASSUME ClientNeeds, UNCHANGED <<known, emitters, held, undecoded>>
  PROVE  ClientNeeds'
BY DEF ClientNeeds, RegistrationsInTime

LEMMA DueSent ==
  ASSUME AsyncType, NEW frame \in ClientFrames, wire' = Append(wire, frame), known' = known
  PROVE  \A r : Due(r) \/ Carries(frame, r) => Due(r)'
<1>1. /\ Len(wire) \in Nat
      /\ DOMAIN wire = 1..Len(wire) /\ DOMAIN wire' = 1..(Len(wire) + 1)
      /\ \A i \in 1..Len(wire) : wire'[i] = wire[i]
      /\ wire'[Len(wire) + 1] = frame
  BY WireAppends
<1>2. \A j \in DOMAIN wire : j \in DOMAIN wire' /\ wire'[j] = wire[j]
  BY <1>1
<1>3. Len(wire) + 1 \in DOMAIN wire'
  BY <1>1
<1>4. ASSUME NEW r, Due(r) \/ Carries(frame, r)
      PROVE  r \in known \/ \E j \in DOMAIN wire' : Carries(wire'[j], r)
  BY <1>1, <1>2, <1>3, <1>4 DEF Due
<1> QED BY <1>4 DEF Due

LEMMA NeedsSent ==
  ASSUME AsyncType, NEW frame \in ClientFrames, wire' = Append(wire, frame), known' = known,
         \A k \in DOMAIN wire : WireNeeds(k),
         frame.kind = "delivery" => \A r \in frame.message.needs : Due(r),
         frame.kind = "result" =>
           \A topic \in frame.emitter : \A r \in {topic, Shared} : Due(r) \/ Carries(frame, r)
  PROVE  \A k \in DOMAIN wire' : WireNeeds(k)'
<1>1. PICK n : n = Len(wire) + 1
  OBVIOUS
<1>2. /\ Len(wire) \in Nat
      /\ DOMAIN wire = 1..Len(wire) /\ DOMAIN wire' = 1..n
      /\ \A i \in 1..Len(wire) : wire'[i] = wire[i]
      /\ wire'[n] = frame
  BY <1>1, WireAppends
<1>3. /\ \A j \in DOMAIN wire : j \in DOMAIN wire' /\ wire'[j] = wire[j] /\ j < n
      /\ \A k \in DOMAIN wire' : k \in DOMAIN wire \/ k = n
  BY <1>1, <1>2
<1>4. ASSUME NEW r, NEW k \in DOMAIN wire, CarriedBefore(r, k)
      PROVE  CarriedBefore(r, k)'
  BY <1>3, <1>4 DEF CarriedBefore
<1>5. ASSUME NEW r, Due(r)
      PROVE  r \in known \/ CarriedBefore(r, n)'
  <2>1. \A j \in DOMAIN wire : Carries(wire[j], r) => j \in DOMAIN wire' /\ Carries(wire'[j], r)
    BY <1>3
  <2> QED BY <1>3, <1>5, <2>1 DEF Due, CarriedBefore
<1>6. ASSUME NEW k \in DOMAIN wire
      PROVE  WireNeeds(k)'
  <2>1. wire'[k] = wire[k] /\ WireNeeds(k)
    BY <1>3
  <2> QED BY <1>4, <2>1 DEF WireNeeds
<1>7. WireNeeds(n)'
  <2>1. wire'[n] = frame
    BY <1>2
  <2>2. frame.kind = "delivery" =>
          \A r \in frame.message.needs : r \in known' \/ CarriedBefore(r, n)'
    BY <1>5
  <2>3. frame.kind = "result" => \A topic \in frame.emitter : \A r \in {topic, Shared} :
          r \in known' \/ CarriedBefore(r, n)' \/ Carries(frame, r)
    BY <1>5
  <2> QED BY <2>1, <2>2, <2>3 DEF WireNeeds
<1> QED BY <1>3, <1>6, <1>7

(* The client reads a frame, and applies the registrations it carries. *)
LEMMA DueRead ==
  ASSUME AsyncType, NEW ops, NEW frame, Reading(ops, frame), known \subseteq known',
         frame.kind \in {"registrations", "result"} => frame.registrations \subseteq known'
  PROVE  /\ \A r : Due(r) => Due(r)'
         /\ (\A k \in DOMAIN wire : WireNeeds(k)) => \A k \in DOMAIN wire' : WireNeeds(k)'
<1>1. /\ frame = wire[1] /\ Len(wire) \in Nat \ {0} /\ DOMAIN wire = 1..Len(wire)
      /\ DOMAIN wire' = 1..(Len(wire) - 1)
      /\ \A i \in 1..(Len(wire) - 1) : wire'[i] = wire[i + 1]
  BY FrameRead
<1>2. /\ \A k \in DOMAIN wire' : k + 1 \in DOMAIN wire /\ wire'[k] = wire[k + 1]
      /\ \A j \in DOMAIN wire : j = 1 \/ (j - 1 \in DOMAIN wire' /\ wire'[j - 1] = wire[j])
      /\ \A k \in DOMAIN wire', j \in DOMAIN wire : j < k + 1 => j - 1 < k
  BY <1>1
<1>3. \A r : Carries(wire[1], r) => r \in known'
  BY <1>1 DEF Carries
<1>4. ASSUME NEW r, Due(r)
      PROVE  r \in known' \/ \E j \in DOMAIN wire' : Carries(wire'[j], r)
  BY <1>2, <1>3, <1>4 DEF Due
<1>5. ASSUME NEW r, NEW k \in DOMAIN wire', r \in known \/ CarriedBefore(r, k + 1)
      PROVE  r \in known' \/ CarriedBefore(r, k)'
  <2>1. CASE r \in known
    BY <2>1
  <2>2. ASSUME NEW j \in DOMAIN wire, j < k + 1, Carries(wire[j], r)
        PROVE  r \in known' \/ \E i \in DOMAIN wire' : i < k /\ Carries(wire'[i], r)
    BY <1>2, <1>3, <2>2
  <2> QED BY <1>5, <2>1, <2>2 DEF CarriedBefore
<1>6. ASSUME \A k \in DOMAIN wire : WireNeeds(k), NEW k \in DOMAIN wire'
      PROVE  WireNeeds(k)'
  <2>1. wire'[k] = wire[k + 1] /\ k + 1 \in DOMAIN wire
    BY <1>2
  <2>2. WireNeeds(k + 1)
    BY <1>6, <2>1
  <2>3. wire'[k].kind = "delivery" =>
          \A r \in wire'[k].message.needs : r \in known' \/ CarriedBefore(r, k)'
    BY <1>5, <2>1, <2>2 DEF WireNeeds
  <2>4. wire'[k].kind = "result" => \A topic \in wire'[k].emitter : \A r \in {topic, Shared} :
          r \in known' \/ CarriedBefore(r, k)' \/ Carries(wire'[k], r)
    BY <1>5, <2>1, <2>2 DEF WireNeeds
  <2> QED BY <2>3, <2>4 DEF WireNeeds
<1>7. \A r : Due(r) => Due(r)'
  BY <1>4 DEF Due
<1> QED BY <1>6, <1>7

(* The client can use what the frame it reads is about. *)
LEMMA FirstNeeds ==
  ASSUME AsyncType, NEW ops, NEW frame, Reading(ops, frame), \A k \in DOMAIN wire : WireNeeds(k)
  PROVE  /\ frame.kind = "delivery" => frame.message.needs \subseteq known
         /\ frame.kind = "result" =>
              \A topic \in frame.emitter : {topic, Shared} \subseteq known \cup frame.registrations
<1>1. frame = wire[1] /\ Len(wire) \in Nat \ {0} /\ DOMAIN wire = 1..Len(wire)
  BY FrameRead
<1>2. 1 \in DOMAIN wire /\ \A j \in DOMAIN wire : ~(j < 1)
  BY <1>1
<1>3. WireNeeds(1) /\ \A r : ~CarriedBefore(r, 1)
  BY <1>2 DEF CarriedBefore
<1> QED BY <1>1, <1>3 DEF WireNeeds, Carries

LEMMA KeptNeeds ==
  ASSUME ClientType, ClientNeeds, NEW s \in Subscriptions, NEW message \in Emits,
         held' = [held EXCEPT ![s] = Append(@, message)],
         message.needs \subseteq known, UNCHANGED <<known, emitters, undecoded>>
  PROVE  ClientNeeds'
<1>1. ASSUME NEW q \in Subscriptions, NEW k \in DOMAIN held'[q]
      PROVE  held'[q][k].needs \subseteq known'
  <2>1. held[q] \in Seq(Emits)
    BY DEF ClientType
  <2>2. CASE q # s
    <3>1. held'[q] = held[q]
      BY <2>2 DEF ClientType
    <3> QED BY <3>1 DEF ClientNeeds
  <2>3. CASE q = s
    <3>1. held'[q] = Append(held[q], message)
      BY <2>3 DEF ClientType
    <3>2. /\ Len(held[q]) \in Nat /\ DOMAIN held[q] = 1..Len(held[q])
          /\ DOMAIN held'[q] = 1..(Len(held[q]) + 1)
          /\ \A i \in 1..Len(held[q]) : held'[q][i] = held[q][i]
          /\ held'[q][Len(held[q]) + 1] = message
      BY <2>1, <3>1, Appended
    <3>3. k \in 1..Len(held[q]) \/ k = Len(held[q]) + 1
      BY <3>2
    <3> QED BY <3>2, <3>3 DEF ClientNeeds
  <2> QED BY <2>2, <2>3
<1> QED BY <1>1 DEF ClientNeeds, RegistrationsInTime

LEMMA SymbolsClientReads ==
  ASSUME Typed, SymbolsInv, ClientReadExpected \/ ClientReadCandidate
  PROVE  SymbolsInv'
<1> DEFINE Apply(frame) == /\ frame.kind \in {"registrations", "result"}
                           /\ known' = known \cup frame.registrations
                           /\ emitters' = emitters
                                \cup (IF frame.kind = "result" THEN frame.emitter ELSE {})
                           /\ UNCHANGED <<held, undecoded>>
           Keep(frame) == /\ frame.kind = "delivery" /\ Keeps(frame)
                          /\ UNCHANGED <<known, emitters, undecoded>>
           Give(frame) == /\ frame.kind = "delivery"
                          /\ Decode(frame.subscription, frame.message)
                          /\ UNCHANGED <<known, emitters, held>>
           Refuse(frame) == /\ frame.kind = "error"
                            /\ UNCHANGED <<known, emitters, held, undecoded>>
<1>1. PICK frame, ops : /\ Reading(ops, frame)
                        /\ Apply(frame) \/ Keep(frame) \/ Give(frame) \/ Refuse(frame)
  BY DEF ClientReadExpected, ClientReadCandidate, Applies
<1>2. AsyncType /\ ClientType /\ frame \in ClientFrames
  BY <1>1, FrameRead DEF Typed, AsyncType
<1>3. known \subseteq known'
      /\ (frame.kind \in {"registrations", "result"} => frame.registrations \subseteq known')
  BY <1>1
<1>4. /\ \A r : Due(r) => Due(r)'
      /\ \A k \in DOMAIN wire' : WireNeeds(k)'
  BY <1>1, <1>2, <1>3, DueRead DEF SymbolsInv
<1>5. ClientNeeds'
  <2>1. CASE Apply(frame)
    <3>1. \A s \in Subscriptions : \A k \in DOMAIN held'[s] : held'[s][k].needs \subseteq known'
      BY <2>1 DEF SymbolsInv, ClientNeeds
    <3>2. frame.kind = "result" =>
            \A topic \in frame.emitter : {topic, Shared} \subseteq known'
      BY <1>1, <1>2, <2>1, FirstNeeds DEF SymbolsInv
    <3>3. \A topic \in emitters' : {topic, Shared} \subseteq known'
      BY <1>3, <2>1, <3>2 DEF SymbolsInv, ClientNeeds, RegistrationsInTime
    <3> QED BY <2>1, <3>1, <3>3 DEF SymbolsInv, ClientNeeds, RegistrationsInTime
  <2>2. CASE Keep(frame)
    <3>1. frame.message.needs \subseteq known
      BY <1>1, <1>2, <2>2, FirstNeeds DEF SymbolsInv
    <3>2. frame.subscription \in Subscriptions /\ frame.message \in Emits
      BY <1>2, <2>2, FrameKinds
    <3> QED BY <1>2, <2>2, <3>1, <3>2, KeptNeeds DEF Keeps, SymbolsInv
  <2>3. CASE Give(frame)
    <3>1. frame.message.needs \subseteq known
      BY <1>1, <1>2, <2>3, FirstNeeds DEF SymbolsInv
    <3>2. undecoded' = undecoded
      BY <2>3, <3>1 DEF Decode
    <3> QED BY <2>3, <3>2, ClientNeedsStay DEF SymbolsInv
  <2>4. CASE Refuse(frame)
    BY <2>4, ClientNeedsStay DEF SymbolsInv
  <2> QED BY <1>1, <2>1, <2>2, <2>3, <2>4
<1>6. UNCHANGED <<closed, gone, sent, reader, worker, line>>
  BY <1>1 DEF Reading, session, tasks
<1> HIDE DEF Apply, Keep, Give, Refuse
<1>7. /\ \A r : InAnswer(r)' <=> InAnswer(r)
      /\ \A r : InHands(r)' <=> InHands(r)
      /\ Live' <=> Live
  BY <1>6 DEF InAnswer, InHands, Live, Carries
<1>8. Live' => MarkedInv' /\ DeliveryInv' /\ ResultInv'
  <2> SUFFICES ASSUME Live' PROVE MarkedInv' /\ DeliveryInv' /\ ResultInv'
    OBVIOUS
  <2>1. MarkedInv /\ DeliveryInv /\ ResultInv
    BY <1>7 DEF SymbolsInv
  <2>2. MarkedInv'
    BY <1>4, <1>6, <1>7, <2>1 DEF MarkedInv
  <2>3. DeliveryInv'
    BY <1>4, <1>6, <1>7, <2>1 DEF DeliveryInv
  <2>4. ResultInv'
    BY <1>4, <1>6, <1>7, <2>1 DEF ResultInv
  <2> QED BY <2>2, <2>3, <2>4
<1> QED BY <1>4, <1>5, <1>6, <1>8 DEF SymbolsInv

LEMMA SymbolsQuiet ==
  ASSUME SymbolsInv, UNCHANGED <<wire, closed, gone, sent, reader, worker, line,
                                 known, emitters, held, undecoded>>
  PROVE  SymbolsInv'
<1>1. /\ \A r : InAnswer(r)' <=> InAnswer(r)
      /\ \A r : InHands(r)' <=> InHands(r)
      /\ \A r : Due(r)' <=> Due(r)
      /\ Live' <=> Live
  BY DEF InAnswer, InHands, Live, Carries, Due
<1>2. Live' => MarkedInv' /\ DeliveryInv' /\ ResultInv'
  BY <1>1 DEF SymbolsInv, MarkedInv, DeliveryInv, ResultInv
<1>3. \A i \in DOMAIN wire' : WireNeeds(i)'
  BY WireNeedsStay DEF SymbolsInv
<1>4. ClientNeeds'
  BY ClientNeedsStay DEF SymbolsInv
<1> QED BY <1>2, <1>3, <1>4 DEF SymbolsInv

(* A connection that has ended carries nothing more. *)
LEMMA SymbolsDead ==
  ASSUME SymbolsInv, ~Live', wire' = wire \/ wire' = <<>>,
         reader'.at = "wait" => reader' = reader \/ reader'.frame.emitter = {},
         UNCHANGED <<known, emitters, held, undecoded>>
  PROVE  SymbolsInv'
<1>1. \A i \in DOMAIN wire' : WireNeeds(i)'
  BY WireNeedsStay DEF SymbolsInv
<1>2. ClientNeeds'
  BY ClientNeedsStay DEF SymbolsInv
<1> QED BY <1>1, <1>2 DEF SymbolsInv

(* The tasks move, and what they send and what the client has stays. *)
LEMMA SymbolsMove ==
  ASSUME SymbolsInv, UNCHANGED <<wire, known, emitters, held, undecoded, closed, gone>>,
         Live => MarkedInv' /\ DeliveryInv' /\ ResultInv',
         reader'.at = "wait" => reader' = reader \/ reader'.frame.emitter = {}
  PROVE  SymbolsInv'
<1>1. \A i \in DOMAIN wire' : WireNeeds(i)'
  BY WireNeedsStay DEF SymbolsInv
<1>2. ClientNeeds'
  BY ClientNeedsStay DEF SymbolsInv
<1> QED BY <1>1, <1>2 DEF SymbolsInv, Live

LEMMA SymbolsAnswer ==
  ASSUME Typed, SymbolsInv, Live, reader.at \in {"receive", "wait"},
         NEW needs \in SUBSET Symbols, NEW emitter \in SUBSET Topics,
         \A topic \in emitter : {topic, Shared} \subseteq needs, NEW frame,
         \/ frame = Result(needs \ sent, emitter, 0)
         \/ frame.kind = "error" /\ needs = {}
         \/ frame.kind = "result" /\ frame.emitter = {} /\ needs = {},
         reader' = [at |-> "send", frame |-> frame], line' = Append(line, "reader"),
         sent' = sent \cup needs,
         UNCHANGED <<wire, known, emitters, held, undecoded, closed, gone, worker>>
  PROVE  SymbolsInv'
<1>1. MarkedInv /\ DeliveryInv
  BY DEF SymbolsInv
<1>2. /\ \A r : ~InAnswer(r)
      /\ \A r : InHands(r)' <=> InHands(r)
      /\ \A r : Due(r)' <=> Due(r)
  BY DEF InAnswer, InHands, Carries, Due
<1>3. \A r \in needs : r \notin sent => InAnswer(r)'
  BY DEF InAnswer, Result, Carries
<1>4. MarkedInv'
  BY <1>1, <1>2, <1>3 DEF MarkedInv
<1>5. line = <<>> \/ line = <<"worker">>
  <2>1. line \in Lines \ WithReader
    BY DEF Typed, LineInv, Lines
  <2> QED BY <2>1, LineFacts
<1>6. \A r : InHands(r) => line' = <<"worker", "reader">>
  <2>1. worker.at = "send" => line = <<"worker">>
    BY <1>5, LineFacts DEF Typed, LineInv
  <2> QED BY <2>1, LineFacts DEF InHands
<1>7. DeliveryInv'
  BY <1>1, <1>2 DEF DeliveryInv
<1>8. ResultInv'
  <2> SUFFICES ASSUME frame.kind = "result", NEW topic \in frame.emitter, NEW r \in {topic, Shared}
               PROVE  \/ Due(r)' \/ InAnswer(r)'
                      \/ line' = <<"worker", "reader">> /\ InHands(r)'
    BY DEF ResultInv
  <2>1. frame.emitter = emitter \/ frame.emitter = {}
    BY DEF Result
  <2>2. r \in needs
    BY <2>1
  <2>3. CASE r \in sent
    BY <1>1, <1>2, <1>6, <2>3 DEF MarkedInv
  <2>4. CASE r \notin sent
    BY <1>3, <2>2, <2>4
  <2> QED BY <2>3, <2>4
<1> QED BY <1>4, <1>7, <1>8, SymbolsMove

LEMMA SymbolsDeliver ==
  ASSUME Typed, SymbolsInv, NEW message \in Emits, Deliver(message),
         IF Fits(message.topic)
         THEN \/ reader' = reader
              \/ reader.at = "receive" /\ reader'.at = "wait"
         ELSE TRUE,
         reader'.at = "wait" => reader' = reader \/ reader'.frame.emitter = {},
         UNCHANGED <<wire, known, emitters, held, undecoded, gone, sent>>
  PROVE  SymbolsInv'
<1>1. PICK list : IF Fits(message.topic)
                  THEN /\ worker' = IF worker.at = "none" /\ list # <<>>
                                    THEN At("get") ELSE worker
                       /\ UNCHANGED <<line, closed>>
                  ELSE closed' = TRUE
  BY DEF Deliver
<1>2. CASE Fits(message.topic)
  <2>1. /\ \A r : InAnswer(r)' <=> InAnswer(r)
        /\ \A r : InHands(r)' <=> InHands(r)
        /\ \A r : Due(r)' <=> Due(r)
    BY <1>1, <1>2 DEF InAnswer, InHands, Carries, Due, At
  <2>2. worker'.at = "send" => worker' = worker
    BY <1>1, <1>2 DEF At
  <2>3. reader'.at = "send" => reader' = reader
    BY <1>2
  <2>4. Live => MarkedInv /\ DeliveryInv /\ ResultInv
    BY DEF SymbolsInv
  <2>5. MarkedInv => MarkedInv'
    BY <2>1 DEF MarkedInv
  <2>6. DeliveryInv => DeliveryInv'
    BY <1>1, <1>2, <2>1, <2>2 DEF DeliveryInv
  <2>7. ResultInv => ResultInv'
    BY <1>1, <1>2, <2>1, <2>3 DEF ResultInv
  <2> QED BY <1>1, <1>2, <2>4, <2>5, <2>6, <2>7, SymbolsMove
<1>3. CASE ~Fits(message.topic)
  BY <1>1, <1>3, SymbolsDead DEF Live
<1> QED BY <1>2, <1>3

LEMMA FinishSymbols ==
  ASSUME SymbolsInv, NEW cause, Finish(cause), UNCHANGED <<wire, client>>
  PROVE  SymbolsInv'
<1>1. ~Live' /\ reader'.at = "done"
  BY DEF Finish, Live, At
<1> QED BY <1>1, SymbolsDead DEF client

LEMMA SymbolsReader == Typed /\ SymbolsInv /\ ReaderStep => SymbolsInv'
<1> SUFFICES ASSUME Typed, SymbolsInv, ReaderStep PROVE SymbolsInv'
  OBVIOUS
<1> USE DEF client
<1>1. AsyncType /\ EndInv /\ LineInv /\ AskInv
  BY DEF Typed
<1>2. ASSUME HandleSubscribe PROVE SymbolsInv'
  <2>1. Reads("subscribe") /\ AnswersWith({Head(requests).topic, Shared}, {})
        /\ UNCHANGED <<wire, known, emitters, held, undecoded, closed, gone, worker>>
    BY <1>2 DEF HandleSubscribe
  <2>2. {Head(requests).topic, Shared} \in SUBSET Symbols
    BY <1>1, <2>1, RequestRead, TopicSymbols
  <2>3. CASE Live
    BY <2>1, <2>2, <2>3, SymbolsAnswer DEF AnswersWith, Answers, Reads
  <2>4. CASE ~Live
    BY <2>1, <2>4, SymbolsDead DEF Live, AnswersWith, Answers
  <2> QED BY <2>3, <2>4
<1>3. ASSUME HandleRegisterEmitter PROVE SymbolsInv'
  <2> DEFINE topic == Head(requests).topic
  <2>1. Reads("register_emitter") /\ AnswersWith({topic, Shared}, {topic})
        /\ UNCHANGED <<wire, known, emitters, held, undecoded, closed, gone, worker>>
    BY <1>3 DEF HandleRegisterEmitter
  <2>2. {topic, Shared} \in SUBSET Symbols /\ {topic} \in SUBSET Topics
    BY <1>1, <2>1, RequestRead, TopicSymbols
  <2> HIDE DEF topic
  <2>3. CASE Live
    BY <2>1, <2>2, <2>3, SymbolsAnswer DEF AnswersWith, Answers, Reads
  <2>4. CASE ~Live
    BY <2>1, <2>4, SymbolsDead DEF Live, AnswersWith, Answers
  <2> QED BY <2>3, <2>4
<1>4. ASSUME HandleRegisterName PROVE SymbolsInv'
  <2>1. Reads("register_name") /\ AnswersWith({Head(requests).name}, {})
        /\ UNCHANGED <<wire, known, emitters, held, undecoded, closed, gone, worker>>
    BY <1>4 DEF HandleRegisterName
  <2>2. {Head(requests).name} \in SUBSET Symbols
    BY <1>1, <2>1, RequestRead, TopicSymbols
  <2>3. CASE Live
    BY <2>1, <2>2, <2>3, SymbolsAnswer DEF AnswersWith, Answers, Reads
  <2>4. CASE ~Live
    BY <2>1, <2>4, SymbolsDead DEF Live, AnswersWith, Answers
  <2> QED BY <2>3, <2>4
<1>5. ASSUME HandleEmit PROVE SymbolsInv'
  <2> DEFINE message == Message(Head(requests).topic, Head(requests).name)
  <2>1. /\ Reads("emit") /\ Deliver(message)
        /\ reader' = [at |-> "wait", entries |-> waiting', frame |-> EmitResult]
        /\ UNCHANGED <<wire, known, emitters, held, undecoded, gone, sent>>
    BY <1>5 DEF HandleEmit
  <2>2. message \in Emits
    BY <1>1, <2>1, RequestRead, MessageType
  <2>3. EmitResult.emitter = {}
    BY DEF EmitResult, Result
  <2> HIDE DEF message
  <2> QED BY <2>1, <2>2, <2>3, SymbolsDeliver DEF Reads
<1>6. ASSUME HandleRefused PROVE SymbolsInv'
  <2>1. /\ reader.at = "receive" /\ Answers([kind |-> "error"]) /\ sent' = sent
        /\ UNCHANGED <<wire, known, emitters, held, undecoded, closed, gone, worker>>
    BY <1>6 DEF HandleRefused, Reads, session
  <2>2. CASE Live
    <3>1. sent' = sent \cup {} /\ {} \in SUBSET Symbols /\ {} \in SUBSET Topics
      BY <2>1
    <3> QED BY <2>1, <2>2, <3>1, SymbolsAnswer DEF Answers
  <2>3. CASE ~Live
    BY <2>1, <2>3, SymbolsDead DEF Live, Answers
  <2> QED BY <2>2, <2>3
<1>7. ASSUME DeliveriesDone PROVE SymbolsInv'
  <2>1. /\ reader.at = "wait" /\ reader' = [at |-> "send", frame |-> reader.frame]
        /\ line' = Append(line, "reader") /\ sent' = sent
        /\ UNCHANGED <<wire, known, emitters, held, undecoded, closed, gone, worker>>
    BY <1>7 DEF DeliveriesDone, session
  <2>2. reader.frame.kind = "result" /\ reader.frame.emitter = {}
    BY <1>1, <2>1 DEF SymbolsInv, AsyncType, SessionType, Readers, Results
  <2>3. CASE Live
    <3>1. sent' = sent \cup {} /\ {} \in SUBSET Symbols /\ {} \in SUBSET Topics
      BY <2>1
    <3> QED BY <2>1, <2>2, <2>3, <3>1, SymbolsAnswer
  <2>4. CASE ~Live
    BY <2>1, <2>4, SymbolsDead DEF Live
  <2> QED BY <2>3, <2>4
<1>8. ASSUME ReaderSends PROVE SymbolsInv'
  <2>1. /\ reader.at = "send" /\ Holds("reader") /\ Live /\ wire' = Append(wire, reader.frame)
        /\ line' = Tail(line) /\ reader' = At("receive")
        /\ UNCHANGED <<known, emitters, held, undecoded, closed, gone, worker, sent>>
    BY <1>8 DEF ReaderSends, Live, session
  <2>2. reader.frame \in ClientFrames
    BY <1>1, <2>1 DEF AsyncType, SessionType, Readers, ClientFrames
  <2>3. /\ \A r : Due(r) \/ InAnswer(r) => Due(r)'
        /\ \A r : InHands(r)' <=> InHands(r)
    <3>1. \A r : Due(r) \/ Carries(reader.frame, r) => Due(r)'
      BY <1>1, <2>1, <2>2, DueSent
    <3> QED BY <2>1, <3>1 DEF InAnswer, InHands, Carries
  <2>4. MarkedInv /\ DeliveryInv /\ ResultInv
    BY <2>1 DEF SymbolsInv
  <2>5. line # <<"worker", "reader">>
    <3>1. Head(<<"worker", "reader">>) = "worker"
      OBVIOUS
    <3> QED BY <2>1, <3>1 DEF Holds
  <2>6. \A i \in DOMAIN wire' : WireNeeds(i)'
    <3>1. reader.frame.kind # "delivery"
      BY <1>1, <2>1 DEF AsyncType, SessionType, Readers, Replies, Results
    <3>2. reader.frame.kind = "result" =>
            \A topic \in reader.frame.emitter : \A r \in {topic, Shared} :
              Due(r) \/ Carries(reader.frame, r)
      BY <2>1, <2>4, <2>5 DEF ResultInv, InAnswer
    <3> QED BY <1>1, <2>1, <2>2, <3>1, <3>2, NeedsSent DEF SymbolsInv
  <2>7. MarkedInv' /\ DeliveryInv' /\ ResultInv'
    <3>1. MarkedInv'
      BY <2>1, <2>3, <2>4 DEF MarkedInv
    <3>2. DeliveryInv'
      BY <2>1, <2>3, <2>4 DEF DeliveryInv
    <3>3. ResultInv'
      BY <2>1 DEF ResultInv, At
    <3> QED BY <3>1, <3>2, <3>3
  <2>8. ClientNeeds' /\ reader'.at = "receive"
    BY <2>1, ClientNeedsStay DEF SymbolsInv, At
  <2> QED BY <2>6, <2>7, <2>8 DEF SymbolsInv
<1>9. ASSUME HandleRaises \/ ReaderSendFails \/ ReaderEnds PROVE SymbolsInv'
  BY <1>9, FinishSymbols DEF HandleRaises, ReaderSendFails, ReaderEnds
<1> QED BY <1>2, <1>3, <1>4, <1>5, <1>6, <1>7, <1>8, <1>9 DEF ReaderStep

LEMMA FramesToSend ==
  ASSUME AsyncType, worker.at = "send"
  PROVE  \/ /\ worker.frames = <<Delivery(worker.entry)>>
            /\ Len(worker.frames) = 1 /\ Head(worker.frames) = Delivery(worker.entry)
         \/ \E new \in SUBSET Symbols :
              /\ worker.frames = <<Registrations(new), Delivery(worker.entry)>>
              /\ Len(worker.frames) = 2 /\ Head(worker.frames) = Registrations(new)
              /\ Tail(worker.frames) = <<Delivery(worker.entry)>>
<1>1. \A a : Len(<<a>>) = 1 /\ Head(<<a>>) = a
  OBVIOUS
<1>2. \A a, b : Len(<<a, b>>) = 2 /\ Head(<<a, b>>) = a /\ Tail(<<a, b>>) = <<b>>
  OBVIOUS
<1>3. CASE worker.frames = <<Delivery(worker.entry)>>
  <2>1. Len(worker.frames) = 1 /\ Head(worker.frames) = Delivery(worker.entry)
    BY <1>1, <1>3
  <2> QED BY <1>3, <2>1
<1>4. ASSUME NEW new \in SUBSET Symbols,
             worker.frames = <<Registrations(new), Delivery(worker.entry)>>
      PROVE  /\ Len(worker.frames) = 2 /\ Head(worker.frames) = Registrations(new)
             /\ Tail(worker.frames) = <<Delivery(worker.entry)>>
  BY <1>2, <1>4
<1>5. WorkerSendsEntry
  BY DEF AsyncType, SessionType
<1> QED BY <1>3, <1>4, <1>5 DEF WorkerSendsEntry

LEMMA FramesTyped ==
  ASSUME AsyncType, worker.at = "send"
  PROVE  /\ Head(worker.frames) \in ClientFrames
         /\ worker.entry \in Entries
<1>1. worker.frames \in Seq(ClientFrames) /\ worker.entry \in Entries
  BY DEF AsyncType, SessionType, Workers
<1>2. worker.frames # <<>>
  BY FramesToSend
<1> QED BY <1>1, <1>2, HeadAndTail

LEMMA SymbolsWorker == Typed /\ SymbolsInv /\ WorkerStep => SymbolsInv'
<1> SUFFICES ASSUME Typed, SymbolsInv, WorkerStep PROVE SymbolsInv'
  OBVIOUS
<1> USE DEF client
<1>1. AsyncType /\ EndInv /\ LineInv /\ AskInv
  BY DEF Typed
<1>2. ASSUME WorkerTakes PROVE SymbolsInv'
  <2> DEFINE entry == Head(queue)
             new == entry.message.needs \ sent
             frames == IF new = {} THEN <<Delivery(entry)>>
                       ELSE <<Registrations(new), Delivery(entry)>>
  <2>1. /\ worker.at = "get" /\ line' = Append(line, "worker")
        /\ sent' = sent \cup entry.message.needs
        /\ worker' = [at |-> "send", entry |-> entry, frames |-> frames]
        /\ UNCHANGED <<wire, known, emitters, held, undecoded, closed, gone, reader>>
    BY <1>2 DEF WorkerTakes, Takes
  <2>2. \A r \in new : Carries(Head(frames), r)
    <3>1. \A a, b : Head(<<a, b>>) = a
      OBVIOUS
    <3> HIDE DEF entry
    <3> QED BY <3>1 DEF Carries, Registrations
  <2> HIDE DEF frames
  <2>3. \A r \in entry.message.needs : r \notin sent => InHands(r)'
    BY <2>1, <2>2 DEF InHands, Carries
  <2> HIDE DEF new, entry
  <2>4. /\ \A r : ~InHands(r)
        /\ \A r : InAnswer(r)' <=> InAnswer(r)
        /\ \A r : Due(r)' <=> Due(r)
    BY <2>1 DEF InHands, InAnswer, Carries, Due
  <2>5. line = <<>> \/ line = <<"reader">>
    <3>1. line \in Lines \ WithWorker
      BY <1>1, <2>1 DEF LineInv, Lines
    <3> QED BY <3>1, LineFacts
  <2>6. \A r : InAnswer(r) => line' = <<"reader", "worker">>
    <3>1. reader.at = "send" => line = <<"reader">>
      BY <1>1, <2>5, LineFacts DEF LineInv
    <3> QED BY <2>1, <3>1, LineFacts DEF InAnswer
  <2>7. ASSUME Live PROVE MarkedInv' /\ DeliveryInv' /\ ResultInv'
    <3>1. MarkedInv /\ ResultInv
      BY <2>7 DEF SymbolsInv
    <3>2. MarkedInv'
      BY <2>1, <2>3, <2>4, <3>1 DEF MarkedInv
    <3>3. DeliveryInv'
      <4>1. ASSUME NEW r \in entry.message.needs
            PROVE  \/ Due(r)' \/ InHands(r)'
                   \/ line' = <<"reader", "worker">> /\ InAnswer(r)'
        <5>1. CASE r \in sent
          BY <2>4, <2>6, <3>1, <5>1 DEF MarkedInv
        <5>2. CASE r \notin sent
          BY <2>3, <4>1, <5>2
        <5> QED BY <5>1, <5>2
      <4>2. worker'.entry = entry
        BY <2>1
      <4> QED BY <4>1, <4>2 DEF DeliveryInv
    <3>4. ResultInv'
      BY <2>1, <2>4, <3>1 DEF ResultInv
    <3> QED BY <3>2, <3>3, <3>4
  <2> QED BY <2>1, <2>7, SymbolsMove
<1>3. ASSUME WorkerSends PROVE SymbolsInv'
  <2> DEFINE frame == Head(worker.frames)
  <2>1. /\ worker.at = "send" /\ Holds("worker") /\ Live /\ wire' = Append(wire, frame)
        /\ UNCHANGED <<known, emitters, held, undecoded, closed, gone, reader, sent>>
    BY <1>3 DEF WorkerSends, Live
  <2>2. frame \in ClientFrames
    BY <1>1, <2>1, FramesTyped
  <2>3. \/ frame = Delivery(worker.entry)
        \/ \E n \in SUBSET Symbols : frame = Registrations(n)
    BY <1>1, <2>1, FramesToSend
  <2>4. \A r : InHands(r) <=> Carries(frame, r)
    BY <2>1 DEF InHands
  <2> HIDE DEF frame
  <2>5. /\ \A r : Due(r) \/ InHands(r) => Due(r)'
        /\ \A r : InAnswer(r)' <=> InAnswer(r)
    <3>1. \A r : Due(r) \/ Carries(frame, r) => Due(r)'
      BY <1>1, <2>1, <2>2, DueSent
    <3> QED BY <2>1, <2>4, <3>1 DEF InAnswer, Carries
  <2>6. MarkedInv /\ DeliveryInv /\ ResultInv
    BY <2>1 DEF SymbolsInv
  <2>7. line # <<"reader", "worker">>
    <3>1. Head(<<"reader", "worker">>) = "reader"
      OBVIOUS
    <3> QED BY <2>1, <3>1 DEF Holds
  <2>8. \A i \in DOMAIN wire' : WireNeeds(i)'
    <3>1. frame.kind # "result"
      BY <2>3 DEF Delivery, Registrations
    <3>2. frame.kind = "delivery" => \A r \in frame.message.needs : Due(r)
      <4>1. frame.kind = "delivery" =>
              frame.message = worker.entry.message /\ \A r : ~Carries(frame, r)
        BY <2>3 DEF Delivery, Registrations, Carries
      <4> QED BY <2>1, <2>4, <2>6, <2>7, <4>1 DEF DeliveryInv
    <3> QED BY <1>1, <2>1, <2>2, <3>1, <3>2, NeedsSent DEF SymbolsInv
  <2>9. MarkedInv' /\ DeliveryInv' /\ ResultInv'
    <3>1. MarkedInv'
      BY <2>1, <2>5, <2>6 DEF MarkedInv
    <3>2. DeliveryInv'
      <4>1. worker'.at = "send" => worker'.entry = worker.entry
        BY <1>1, <1>3 DEF WorkerSends, At, AsyncType, SessionType, Workers
      <4>2. \A r \in worker.entry.message.needs : Due(r)'
        BY <2>1, <2>5, <2>6, <2>7 DEF DeliveryInv
      <4> QED BY <4>1, <4>2 DEF DeliveryInv
    <3>3. ResultInv'
      BY <2>1, <2>5, <2>6 DEF ResultInv
    <3> QED BY <3>1, <3>2, <3>3
  <2>10. ClientNeeds'
    BY <2>1, ClientNeedsStay DEF SymbolsInv
  <2> QED BY <2>1, <2>8, <2>9, <2>10 DEF SymbolsInv
<1>4. ASSUME WorkerSendFails PROVE SymbolsInv'
  <2>1. ~Live' /\ reader' = reader
    BY <1>4 DEF WorkerSendFails, Live
  <2> QED BY <1>4, <2>1, SymbolsDead DEF WorkerSendFails
<1>5. ASSUME WorkerFinished PROVE SymbolsInv'
  <2>1. ~Live' /\ (reader'.at = "wait" => reader' = reader)
    BY <1>5 DEF WorkerFinished, Live, At
  <2> QED BY <1>5, <2>1, SymbolsDead DEF WorkerFinished
<1> QED BY <1>2, <1>3, <1>4, <1>5 DEF WorkerStep

LEMMA SymbolsNext == Typed /\ SymbolsInv /\ [AsyncNext]_asyncVars => SymbolsInv'
<1> SUFFICES ASSUME Typed, SymbolsInv, [AsyncNext]_asyncVars PROVE SymbolsInv'
  OBVIOUS
<1> USE DEF Quiet, session, tasks
<1>1. AsyncType /\ ClientType /\ EndInv /\ LineInv /\ AskInv
  BY DEF Typed, AsyncType
<1>2. ASSUME NEW topic \in Topics, ClientSubscribe(topic) \/ ClientRegisterEmitter(topic)
      PROVE  SymbolsInv'
  BY <1>2, SymbolsQuiet DEF ClientSubscribe, ClientRegisterEmitter
<1>3. ASSUME NEW topic \in Topics, NEW name \in Names \cup {Shared}, ClientEmit(topic, name)
      PROVE  SymbolsInv'
  BY <1>3, SymbolsQuiet DEF ClientEmit
<1>4. ASSUME NEW topic \in Topics, NEW name \in Names \cup {Shared}, OtherEmits(topic, name)
      PROVE  SymbolsInv'
  <2>1. Message(topic, name) \in Emits /\ Deliver(Message(topic, name))
        /\ Message(topic, name).topic = topic
    BY <1>1, <1>4, MessageType DEF OtherEmits, Message
  <2>2. /\ Fits(topic) => reader' = reader
        /\ reader'.at = "wait" => reader' = reader
    BY <1>4 DEF OtherEmits, ReaderAfterClose, At
  <2> QED BY <1>4, <2>1, <2>2, SymbolsDeliver DEF OtherEmits, client
<1>5. ASSUME NEW from \in Selections, ClientTakeHeld(from)
      PROVE  SymbolsInv'
  <2>1. PICK s \in from : /\ held[s] # <<>> /\ Decode(s, Head(held[s]))
                          /\ held' = [held EXCEPT ![s] = Tail(@)]
                          /\ UNCHANGED <<known, emitters>>
    BY <1>5 DEF ClientTakeHeld
  <2>2. s \in Subscriptions /\ held[s] \in Seq(Emits)
    <3>1. s \in DOMAIN subscriptions
      BY <1>5 DEF Selections
    <3>2. /\ subscriptions \in Seq(Topics) /\ Len(subscriptions) <= MaxSubscriptions
          /\ held \in [Subscriptions -> Seq(Emits)]
      BY <1>1 DEF AsyncType, SessionType, ClientType
    <3>3. DOMAIN subscriptions = 1..Len(subscriptions) /\ Len(subscriptions) \in Nat
      BY ONLY <3>2, LenProperties
    <3>4. s \in 1..MaxSubscriptions
      BY ONLY <3>1, <3>2, <3>3, Bounds
    <3> QED BY <3>2, <3>4, Bounds
  <2>3. /\ Len(held[s]) \in Nat \ {0} /\ DOMAIN held[s] = 1..Len(held[s])
        /\ Head(held[s]) = held[s][1]
        /\ DOMAIN Tail(held[s]) = 1..(Len(held[s]) - 1)
        /\ \A i \in 1..(Len(held[s]) - 1) : Tail(held[s])[i] = held[s][i + 1]
    BY <2>1, <2>2, HeadAndTail
  <2>4. Head(held[s]).needs \subseteq known
    BY <2>2, <2>3 DEF SymbolsInv, ClientNeeds
  <2>5. undecoded' = undecoded
    BY <2>1, <2>4 DEF Decode
  <2>6. ASSUME NEW q \in Subscriptions, NEW i \in DOMAIN held'[q]
        PROVE  held'[q][i].needs \subseteq known
    <3>1. CASE q = s
      <4>1. held'[q] = Tail(held[s])
        BY <1>1, <2>1, <2>2, <3>1 DEF ClientType
      <4>2. i + 1 \in DOMAIN held[s] /\ held'[q][i] = held[s][i + 1]
        BY <2>3, <4>1
      <4> QED BY <2>2, <4>2 DEF SymbolsInv, ClientNeeds
    <3>2. CASE q # s
      <4>1. held'[q] = held[q]
        BY <1>1, <2>1, <2>2, <3>2 DEF ClientType
      <4> QED BY <4>1 DEF SymbolsInv, ClientNeeds
    <3> QED BY <3>1, <3>2
  <2>7. ClientNeeds'
    BY <2>1, <2>5, <2>6 DEF SymbolsInv, ClientNeeds, RegistrationsInTime
  <2>8. UNCHANGED <<wire, closed, gone, sent, reader, worker, line, known>>
    BY <1>5, <2>1 DEF ClientTakeHeld
  <2>9. /\ \A r : InAnswer(r)' <=> InAnswer(r)
        /\ \A r : InHands(r)' <=> InHands(r)
        /\ \A r : Due(r)' <=> Due(r)
        /\ Live' <=> Live
    BY <2>8 DEF InAnswer, InHands, Live, Carries, Due
  <2>10. Live' => MarkedInv' /\ DeliveryInv' /\ ResultInv'
    BY <2>8, <2>9 DEF SymbolsInv, MarkedInv, DeliveryInv, ResultInv
  <2>11. \A i \in DOMAIN wire' : WireNeeds(i)'
    BY <2>8, WireNeedsStay DEF SymbolsInv
  <2> QED BY <2>7, <2>8, <2>10, <2>11 DEF SymbolsInv
<1>6. ASSUME NEW from \in Selections, ClientReceive(from) PROVE SymbolsInv'
  BY <1>6, SymbolsQuiet DEF ClientReceive
<1>7. ASSUME ClientReadsEnd \/ ClientStopsReceiving PROVE SymbolsInv'
  BY <1>7, SymbolsQuiet DEF ClientReadsEnd, ClientStopsReceiving
<1>8. ASSUME ClientClose PROVE SymbolsInv'
  <2>1. ~Live' /\ wire' = <<>> /\ reader' = reader
    BY <1>8 DEF ClientClose, Live
  <2> QED BY <1>8, <2>1, SymbolsDead DEF ClientClose
<1>9. ASSUME RequestStop PROVE SymbolsInv'
  BY <1>9, FinishSymbols DEF RequestStop
<1>10. ASSUME UNCHANGED asyncVars PROVE SymbolsInv'
  BY <1>10, SymbolsQuiet DEF asyncVars, connection, client
<1> QED
  BY <1>2, <1>3, <1>4, <1>5, <1>6, <1>7, <1>8, <1>9, <1>10,
     SymbolsClientReads, SymbolsReader, SymbolsWorker DEF AsyncNext, ClientReads

LEMMA SymbolsInit == AsyncInit => SymbolsInv
BY DEF AsyncInit, SymbolsInv, MarkedInv, DeliveryInv, ResultInv, WireNeeds, ClientNeeds,
       RegistrationsInTime, At, Nothing

------------------------------------------------------------------------------
(* Results come after the deliveries of their emission. *)

Comes(s, n) ==
  \/ n \in ToSet(Arrived(s))
  \/ \E j \in DOMAIN wire : /\ wire[j].kind = "delivery" /\ wire[j].subscription = s
                            /\ wire[j].message.id = n

InWaiting(s, n) == \E e \in reader.entries \cap waiting :
                     e.subscription = s /\ e.message.id = n

NumbersInv ==
  /\ \A s \in Subscriptions : \A i \in DOMAIN accepted[s] : accepted[s][i] \in 1..(nextId - 1)
  /\ reader.at \in {"send", "wait"} /\ reader.frame.kind = "result" =>
       reader.frame.id < nextId
  /\ \A i \in DOMAIN wire : wire[i].kind = "result" => wire[i].id < nextId

(* What the reader waits for before it answers is still to be sent. *)
AnswerInv ==
  \A s \in Subscriptions :
    /\ reader.at = "wait" /\ reader.frame.id \in ToSet(accepted[s]) =>
         Comes(s, reader.frame.id) \/ InWaiting(s, reader.frame.id)
    /\ reader.at = "send" /\ reader.frame.kind = "result"
         /\ reader.frame.id \in ToSet(accepted[s]) => Comes(s, reader.frame.id)

AfterInv ==
  /\ NumbersInv
  /\ Live => AnswerInv
  /\ ResultAfterDeliveries

LEMMA JoinedSet ==
  ASSUME NEW a \in Seq(Nat), NEW h \in Seq(Emits)
  PROVE  ToSet(a \o [i \in DOMAIN h |-> h[i].id]) = ToSet(a) \cup {h[i].id : i \in DOMAIN h}
<1> DEFINE ids == [i \in DOMAIN h |-> h[i].id]
           both == a \o ids
<1>1. /\ ids \in Seq(Nat) /\ Len(ids) = Len(h) /\ DOMAIN ids = 1..Len(h)
      /\ DOMAIN h = 1..Len(h) /\ Len(h) \in Nat /\ Len(a) \in Nat /\ DOMAIN a = 1..Len(a)
  <2>1. DOMAIN h = 1..Len(h) /\ Len(h) \in Nat /\ \A i \in 1..Len(h) : h[i] \in Emits
    BY LenProperties
  <2>2. \A i \in 1..Len(h) : h[i].id \in Nat
    BY <2>1 DEF Emits
  <2> QED BY <2>1, <2>2, LenProperties
<1>2. \A i \in DOMAIN h : ids[i] = h[i].id
  OBVIOUS
<1> HIDE DEF ids
<1>3. /\ DOMAIN both = 1..(Len(a) + Len(h))
      /\ \A i \in 1..(Len(a) + Len(h)) :
           both[i] = IF i <= Len(a) THEN a[i] ELSE ids[i - Len(a)]
  <2>1. /\ both \in Seq(Nat) /\ Len(both) = Len(a) + Len(ids)
        /\ \A i \in 1..(Len(a) + Len(ids)) :
             both[i] = IF i <= Len(a) THEN a[i] ELSE ids[i - Len(a)]
    BY <1>1, ConcatProperties
  <2>2. DOMAIN both = 1..Len(both)
    BY <2>1, LenProperties
  <2> HIDE DEF both
  <2> QED BY <1>1, <2>1, <2>2
<1> HIDE DEF both
<1>4. ASSUME NEW i \in DOMAIN both
      PROVE  both[i] \in ToSet(a) \cup {h[j].id : j \in DOMAIN h}
  <2>1. CASE i <= Len(a)
    <3>1. i \in DOMAIN a /\ both[i] = a[i]
      BY <1>1, <1>3, <2>1
    <3> QED BY <3>1 DEF ToSet
  <2>2. CASE ~(i <= Len(a))
    <3>1. i - Len(a) \in DOMAIN h /\ both[i] = ids[i - Len(a)]
      BY <1>1, <1>3, <2>2
    <3> QED BY <1>2, <3>1
  <2> QED BY <2>1, <2>2
<1>5. ASSUME NEW i \in DOMAIN a PROVE a[i] \in ToSet(both)
  <2>1. i \in DOMAIN both /\ both[i] = a[i]
    BY <1>1, <1>3
  <2> QED BY <2>1 DEF ToSet
<1>6. ASSUME NEW i \in DOMAIN h PROVE h[i].id \in ToSet(both)
  <2>1. i + Len(a) \in DOMAIN both /\ ~(i + Len(a) <= Len(a)) /\ (i + Len(a)) - Len(a) = i
    BY <1>1, <1>3
  <2>2. both[i + Len(a)] = h[i].id
    BY <1>2, <1>3, <2>1
  <2> QED BY <2>1, <2>2 DEF ToSet
<1> QED BY <1>4, <1>5, <1>6 DEF ToSet, both, ids

LEMMA ArrivedSet ==
  ASSUME NEW s \in Subscriptions
  PROVE  /\ ClientType => ToSet(Arrived(s)) =
              ToSet(received[s]) \cup {held[s][i].id : i \in DOMAIN held[s]}
         /\ ClientType' => ToSet(Arrived(s))' =
              ToSet(received'[s]) \cup {held'[s][i].id : i \in DOMAIN held'[s]}
<1>1. ASSUME ClientType
      PROVE  ToSet(Arrived(s)) = ToSet(received[s]) \cup {held[s][i].id : i \in DOMAIN held[s]}
  <2>1. received[s] \in Seq(Nat) /\ held[s] \in Seq(Emits)
    BY <1>1 DEF ClientType
  <2> QED BY <2>1, JoinedSet DEF Arrived, HeldIds
<1>2. ASSUME ClientType'
      PROVE  ToSet(Arrived(s))' =
               ToSet(received'[s]) \cup {held'[s][i].id : i \in DOMAIN held'[s]}
  <2>1. received'[s] \in Seq(Nat) /\ held'[s] \in Seq(Emits)
    BY <1>2 DEF ClientType
  <2>2. ToSet(Arrived(s))' = ToSet(received'[s] \o [i \in DOMAIN held'[s] |-> held'[s][i].id])
    BY DEF Arrived, HeldIds, ToSet
  <2> QED BY <2>1, <2>2, JoinedSet
<1> QED BY <1>1, <1>2

LEMMA ComesStays ==
  ASSUME UNCHANGED <<wire, received, held>>
  PROVE  \A s, n : Comes(s, n)' <=> Comes(s, n)
BY DEF Comes, Arrived, HeldIds, ToSet

LEMMA ResultsStay ==
  ASSUME ResultAfterDeliveries, UNCHANGED <<wire, received, held, accepted>>
  PROVE  ResultAfterDeliveries'
<1>1. \A s : ToSet(Arrived(s))' = ToSet(Arrived(s))
  BY DEF Arrived, HeldIds, ToSet
<1>2. \A s : ToSet(accepted[s])' = ToSet(accepted[s])
  BY DEF ToSet
<1> QED BY <1>1, <1>2 DEF ResultAfterDeliveries

LEMMA AfterQuiet ==
  ASSUME AfterInv, UNCHANGED <<wire, accepted, nextId, received, held>>,
         Live' => Live, waiting \subseteq waiting' \/ reader.at # "wait" \/ ~Live',
         \/ reader' = reader
         \/ reader'.at \notin {"send", "wait"}
         \/ reader'.at \in {"send", "wait"} /\ reader'.frame.kind = "error" /\ reader'.at = "send"
  PROVE  AfterInv'
<1>1. NumbersInv' /\ ResultAfterDeliveries'
  BY ResultsStay DEF AfterInv, NumbersInv
<1>2. ASSUME Live' PROVE AnswerInv'
  <2>1. AnswerInv
    BY <1>2 DEF AfterInv
  <2>2. \A s, n : Comes(s, n)' <=> Comes(s, n)
    BY ComesStays
  <2>3. ASSUME reader' = reader, reader.at = "wait"
        PROVE  \A s, n : InWaiting(s, n) => InWaiting(s, n)'
    BY <1>2, <2>3 DEF InWaiting
  <2> QED BY <2>1, <2>2, <2>3 DEF AnswerInv
<1> QED BY <1>1, <1>2 DEF AfterInv

(* An answer that is no emission's, or an emission's after its deliveries *)
LEMMA AfterAnswer ==
  ASSUME AsyncType, AfterInv, UNCHANGED <<wire, accepted, nextId, received, held, closed, gone>>,
         reader'.at = "send",
         \/ reader'.frame.kind = "error"
         \/ reader'.frame.id = 0
         \/ /\ reader.at = "wait" /\ reader'.frame = reader.frame
            /\ reader.entries \cap waiting = {}
  PROVE  AfterInv'
<1>1. nextId \in Nat \ {0}
  BY DEF AsyncType, SessionType
<1>2. NumbersInv' /\ ResultAfterDeliveries'
  BY <1>1, ResultsStay DEF AfterInv, NumbersInv
<1>3. \A s \in Subscriptions : 0 \notin ToSet(accepted[s])
  BY DEF AfterInv, NumbersInv, ToSet
<1>4. ASSUME Live' PROVE AnswerInv'
  <2>1. AnswerInv
    BY <1>4 DEF AfterInv, Live
  <2>2. \A s, n : Comes(s, n)' <=> Comes(s, n)
    BY ComesStays
  <2>3. reader.entries \cap waiting = {} => \A s, n : ~InWaiting(s, n)
    BY DEF InWaiting
  <2> QED BY <1>3, <2>1, <2>2, <2>3 DEF AnswerInv
<1> QED BY <1>2, <1>4 DEF AfterInv

(* A message the client has counts as arrived however it is read. *)
LEMMA ArrivedStays ==
  ASSUME ClientType, ClientType', NEW s \in Subscriptions,
         \/ /\ received' = received
            /\ \/ held' = held
               \/ \E q \in Subscriptions, m \in Emits :
                    held' = [held EXCEPT ![q] = Append(@, m)]
         \/ /\ held' = held
            /\ \E q \in Subscriptions, n \in Nat :
                 received' = [received EXCEPT ![q] = Append(@, n)]
         \/ \E q \in Subscriptions :
              /\ held[q] # <<>>
              /\ held' = [held EXCEPT ![q] = Tail(@)]
              /\ received' = [received EXCEPT ![q] = Append(@, Head(held[q]).id)]
  PROVE  ToSet(Arrived(s)) \subseteq ToSet(Arrived(s))'
<1>1. /\ ToSet(Arrived(s)) = ToSet(received[s]) \cup {held[s][i].id : i \in DOMAIN held[s]}
      /\ ToSet(Arrived(s))' =
           ToSet(received'[s]) \cup {held'[s][i].id : i \in DOMAIN held'[s]}
  BY ArrivedSet
<1>2. received[s] \in Seq(Nat) /\ held[s] \in Seq(Emits)
  BY DEF ClientType
<1>3. \A n \in Nat : ToSet(received[s]) \subseteq ToSet(Append(received[s], n))
                     /\ n \in ToSet(Append(received[s], n))
  <2>1. \A f : ToSet(f) = Range(f)
    BY DEF ToSet, Range
  <2>2. \A n \in Nat : Range(Append(received[s], n)) = Range(received[s]) \cup {n}
    BY <1>2, RangeOfAppended
  <2> QED BY <2>1, <2>2
<1>4. \A m \in Emits : {held[s][i].id : i \in DOMAIN held[s]} \subseteq
                        {Append(held[s], m)[i].id : i \in DOMAIN Append(held[s], m)}
  <2> SUFFICES ASSUME NEW m \in Emits, NEW i \in DOMAIN held[s]
               PROVE  i \in DOMAIN Append(held[s], m) /\ Append(held[s], m)[i] = held[s][i]
    BY Zenon
  <2> QED BY <1>2, Appended
<1>5. CASE received' = received /\ held' = held
  BY <1>1, <1>5
<1>6. ASSUME NEW q \in Subscriptions, NEW m \in Emits, received' = received,
             held' = [held EXCEPT ![q] = Append(@, m)]
      PROVE  ToSet(Arrived(s)) \subseteq ToSet(Arrived(s))'
  <2>1. held'[s] = IF q = s THEN Append(held[s], m) ELSE held[s]
    BY <1>6 DEF ClientType
  <2>2. CASE q = s
    <3>1. held'[s] = Append(held[s], m)
      BY <2>1, <2>2
    <3>2. {held[s][i].id : i \in DOMAIN held[s]} \subseteq
            {held'[s][i].id : i \in DOMAIN held'[s]}
      BY ONLY m \in Emits, <1>4, <3>1
    <3>3. ToSet(received'[s]) = ToSet(received[s])
      BY <1>6, Zenon
    <3> QED BY ONLY <1>1, <3>2, <3>3
  <2>3. CASE q # s
    BY <1>1, <1>6, <2>1, <2>3
  <2> QED BY <2>2, <2>3
<1>7. ASSUME NEW q \in Subscriptions, NEW n \in Nat, held' = held,
             received' = [received EXCEPT ![q] = Append(@, n)]
      PROVE  ToSet(Arrived(s)) \subseteq ToSet(Arrived(s))'
  <2>1. received'[s] = IF q = s THEN Append(received[s], n) ELSE received[s]
    BY <1>7 DEF ClientType
  <2> QED BY <1>1, <1>3, <1>7, <2>1
<1>8. ASSUME NEW q \in Subscriptions, held[q] # <<>>,
             held' = [held EXCEPT ![q] = Tail(@)],
             received' = [received EXCEPT ![q] = Append(@, Head(held[q]).id)]
      PROVE  ToSet(Arrived(s)) \subseteq ToSet(Arrived(s))'
  <2>1. CASE q # s
    <3>1. held'[s] = held[s] /\ received'[s] = received[s]
      BY <1>8, <2>1 DEF ClientType
    <3> QED BY <1>1, <3>1
  <2>2. CASE q = s
    <3>1. held'[s] = Tail(held[s]) /\ received'[s] = Append(received[s], Head(held[s]).id)
      BY <1>8, <2>2 DEF ClientType
    <3>2. /\ Len(held[s]) \in Nat \ {0} /\ DOMAIN held[s] = 1..Len(held[s])
          /\ Head(held[s]) = held[s][1] /\ Head(held[s]) \in Emits
          /\ DOMAIN Tail(held[s]) = 1..(Len(held[s]) - 1)
          /\ \A i \in 1..(Len(held[s]) - 1) : Tail(held[s])[i] = held[s][i + 1]
      BY <1>2, <1>8, <2>2, HeadAndTail
    <3>3. Head(held[s]).id \in Nat
      BY <3>2 DEF Emits
    <3>4. ASSUME NEW i \in DOMAIN held[s]
          PROVE  held[s][i].id \in ToSet(Arrived(s))'
      <4>1. CASE i = 1
        BY <1>1, <1>3, <3>1, <3>2, <3>3, <4>1
      <4>2. CASE i # 1
        <5>1. i - 1 \in DOMAIN held'[s] /\ held'[s][i - 1] = held[s][i]
          BY <3>1, <3>2, <4>2
        <5> QED BY <1>1, <5>1
      <4> QED BY <4>1, <4>2
    <3>5. ToSet(received[s]) \subseteq ToSet(Arrived(s))'
      BY <1>1, <1>3, <3>1, <3>3
    <3> QED BY <1>1, <3>4, <3>5
  <2> QED BY <2>1, <2>2
<1> QED BY <1>5, <1>6, <1>7, <1>8

LEMMA AfterTaken ==
  ASSUME Typed, AfterInv, NEW from \in Selections, ClientTakeHeld(from), ClientType'
  PROVE  AfterInv'
<1>1. AsyncType /\ ClientType
  BY DEF Typed, AsyncType
<1>2. PICK q \in from : /\ held[q] # <<>> /\ Decode(q, Head(held[q]))
                        /\ held' = [held EXCEPT ![q] = Tail(@)]
  BY DEF ClientTakeHeld
<1>3. UNCHANGED <<wire, accepted, nextId, reader, waiting, closed, gone>>
  BY DEF ClientTakeHeld, Quiet, session, tasks, history
<1>4. q \in Subscriptions
  BY <1>1, Bounds, LenProperties DEF Selections, AsyncType, SessionType
<1>5. \A s \in Subscriptions : ToSet(Arrived(s)) \subseteq ToSet(Arrived(s))'
  BY <1>1, <1>2, <1>4, ArrivedStays DEF Decode
<1>6. \A s \in Subscriptions : \A n : Comes(s, n) => Comes(s, n)'
  BY <1>3, <1>5 DEF Comes
<1>7. \A s \in Subscriptions : \A n : InWaiting(s, n) => InWaiting(s, n)'
  BY <1>3 DEF InWaiting
<1>8. \A s : ToSet(accepted[s])' = ToSet(accepted[s])
  BY <1>3 DEF ToSet
<1>9. Live => AnswerInv'
  BY <1>3, <1>6, <1>7, <1>8 DEF AfterInv, AnswerInv
<1>10. ResultAfterDeliveries'
  BY <1>3, <1>5, <1>8 DEF AfterInv, ResultAfterDeliveries
<1> QED BY <1>3, <1>9, <1>10 DEF AfterInv, NumbersInv, Live

LEMMA AfterRead ==
  ASSUME Typed, AfterInv, ClientType', NEW ops, NEW frame, Reading(ops, frame),
         \/ frame.kind # "delivery" /\ UNCHANGED <<received, held>>
         \/ frame.kind = "delivery" /\ Keeps(frame) /\ UNCHANGED received
         \/ /\ frame.kind = "delivery" /\ UNCHANGED held
            /\ Decode(frame.subscription, frame.message)
  PROVE  AfterInv'
<1>1. AsyncType /\ ClientType
  BY DEF Typed, AsyncType
<1>2. /\ frame = wire[1] /\ Len(wire) \in Nat \ {0} /\ DOMAIN wire = 1..Len(wire)
      /\ DOMAIN wire' = 1..(Len(wire) - 1) /\ frame \in ClientFrames
      /\ \A i \in 1..(Len(wire) - 1) : wire'[i] = wire[i + 1]
  BY <1>1, FrameRead
<1>3. UNCHANGED <<accepted, nextId, reader, waiting, closed, gone>>
  BY DEF Reading, session, tasks, history
<1>4. frame.kind = "delivery" => /\ frame.subscription \in Subscriptions
                                 /\ frame.message \in Emits /\ frame.message.id \in Nat
  BY <1>2, FrameKinds DEF Emits
<1>5. \A s \in Subscriptions : ToSet(Arrived(s)) \subseteq ToSet(Arrived(s))'
  BY <1>1, <1>4, ArrivedStays DEF Keeps, Decode
<1>6. frame.kind = "delivery" => frame.message.id \in ToSet(Arrived(frame.subscription))'
  <2> SUFFICES ASSUME frame.kind = "delivery"
               PROVE  frame.message.id \in ToSet(Arrived(frame.subscription))'
    OBVIOUS
  <2>1. PICK s \in Subscriptions : s = frame.subscription
    BY <1>4
  <2>2. ToSet(Arrived(s))' = ToSet(received'[s]) \cup {held'[s][i].id : i \in DOMAIN held'[s]}
    BY ArrivedSet
  <2>3. received[s] \in Seq(Nat) /\ held[s] \in Seq(Emits)
    BY <1>1 DEF ClientType
  <2>4. CASE Keeps(frame)
    <3>1. held'[s] = Append(held[s], frame.message)
      BY <1>1, <2>1, <2>4 DEF Keeps, ClientType
    <3>2. /\ Len(held[s]) + 1 \in DOMAIN held'[s]
          /\ held'[s][Len(held[s]) + 1] = frame.message
      BY <1>4, <2>3, <3>1, Appended
    <3>3. frame.message.id \in ToSet(Arrived(s))'
      BY <2>2, <3>2
    <3> QED BY <2>1, <3>3
  <2>5. CASE Decode(frame.subscription, frame.message)
    <3>1. received'[s] = Append(received[s], frame.message.id)
      BY <1>1, <2>1, <2>5 DEF Decode, ClientType
    <3>2. frame.message.id \in ToSet(received'[s])
      BY <1>4, <2>3, <3>1, RangeOfAppended DEF ToSet, Range
    <3>3. frame.message.id \in ToSet(Arrived(s))'
      BY <2>2, <3>2
    <3> QED BY <2>1, <3>3
  <2> QED BY <2>4, <2>5
<1>7. /\ \A k \in DOMAIN wire' : k + 1 \in DOMAIN wire /\ wire'[k] = wire[k + 1] /\ k \in Nat
      /\ \A j \in DOMAIN wire : j = 1 \/ (j - 1 \in DOMAIN wire' /\ wire'[j - 1] = wire[j])
  BY <1>2
<1>8. \A s : ToSet(accepted[s])' = ToSet(accepted[s])
  BY <1>3 DEF ToSet
<1>9. ASSUME NEW s \in Subscriptions, NEW n, Comes(s, n)
      PROVE  Comes(s, n)'
  <2>1. CASE n \in ToSet(Arrived(s))
    BY <1>5, <2>1 DEF Comes
  <2>2. ASSUME NEW j \in DOMAIN wire, wire[j].kind = "delivery", wire[j].subscription = s,
               wire[j].message.id = n
        PROVE  Comes(s, n)'
    <3>1. CASE j = 1
      <4>1. n \in ToSet(Arrived(s))'
        BY <1>2, <1>6, <2>2, <3>1
      <4> QED BY <4>1 DEF Comes
    <3>2. CASE j # 1
      <4>1. j - 1 \in DOMAIN wire' /\ wire'[j - 1] = wire[j]
        BY <1>7, <3>2
      <4> QED BY <2>2, <4>1 DEF Comes
    <3> QED BY <3>1, <3>2
  <2> QED BY <1>9, <2>1, <2>2 DEF Comes
<1>10. \A s \in Subscriptions : \A n : InWaiting(s, n) => InWaiting(s, n)'
  BY <1>3 DEF InWaiting
<1>11. Live => AnswerInv'
  BY <1>3, <1>8, <1>9, <1>10 DEF AfterInv, AnswerInv
<1>12. ResultAfterDeliveries'
  <2> SUFFICES ASSUME NEW k \in DOMAIN wire', wire'[k].kind = "result", wire'[k].id # 0,
                      NEW s \in Subscriptions, wire'[k].id \in ToSet(accepted'[s])
               PROVE  \/ wire'[k].id \in ToSet(Arrived(s))'
                      \/ \E j \in 1..(k - 1) : /\ wire'[j].kind = "delivery"
                                               /\ wire'[j].subscription = s
                                               /\ wire'[j].message.id = wire'[k].id
    BY DEF ResultAfterDeliveries
  <2>1. wire'[k] = wire[k + 1] /\ k + 1 \in DOMAIN wire
    BY <1>7
  <2>2. wire'[k].id \in ToSet(accepted[s])
    BY <1>3
  <2>3. CASE wire'[k].id \in ToSet(Arrived(s))
    BY <1>5, <2>3
  <2>4. ASSUME NEW j \in 1..k, wire[j].kind = "delivery", wire[j].subscription = s,
               wire[j].message.id = wire'[k].id
        PROVE  \/ wire'[k].id \in ToSet(Arrived(s))'
               \/ \E i \in 1..(k - 1) : /\ wire'[i].kind = "delivery"
                                        /\ wire'[i].subscription = s
                                        /\ wire'[i].message.id = wire'[k].id
    <3>1. CASE j = 1
      BY <1>2, <1>6, <2>4, <3>1
    <3>2. CASE j # 1
      <4>1. j - 1 \in 1..(k - 1) /\ wire'[j - 1] = wire[j]
        BY <1>2, <2>1, <3>2
      <4> QED BY <2>4, <4>1
    <3> QED BY <3>1, <3>2
  <2>5. (k + 1) - 1 = k
    BY <1>7
  <2> QED BY <2>1, <2>2, <2>3, <2>4, <2>5 DEF AfterInv, ResultAfterDeliveries
<1>13. NumbersInv'
  BY <1>3, <1>7 DEF AfterInv, NumbersInv
<1> QED BY <1>3, <1>11, <1>12, <1>13 DEF AfterInv, Live

(* A frame is sent: a result finds its deliveries ahead of it. *)
LEMMA AfterSent ==
  ASSUME Typed, AfterInv, NEW frame \in ClientFrames, wire' = Append(wire, frame),
         UNCHANGED <<accepted, nextId, received, held, closed, gone>>, Live,
         frame.kind = "result" => frame.id < nextId /\
           \A s \in Subscriptions : frame.id \in ToSet(accepted[s]) => Comes(s, frame.id),
         \/ reader'.at = "receive"
         \/ /\ reader' = reader
            /\ \/ waiting' = waiting
               \/ /\ waiting' = waiting \ {worker.entry}
                  /\ frame = Delivery(worker.entry)
  PROVE  AfterInv'
<1>1. AsyncType
  BY DEF Typed
<1>2. PICK n : n = Len(wire) + 1
  OBVIOUS
<1>3. /\ DOMAIN wire = 1..Len(wire) /\ DOMAIN wire' = 1..n /\ Len(wire) \in Nat
      /\ \A i \in 1..Len(wire) : wire'[i] = wire[i]
      /\ wire'[n] = frame
  BY <1>1, <1>2, WireAppends
<1>4. /\ \A j \in DOMAIN wire : j \in DOMAIN wire' /\ wire'[j] = wire[j]
      /\ \A k \in DOMAIN wire' : k \in DOMAIN wire \/ k = n
      /\ n \in DOMAIN wire'
  BY <1>2, <1>3
<1>5. \A s : ToSet(Arrived(s))' = ToSet(Arrived(s))
  BY DEF Arrived, HeldIds, ToSet
<1>6. \A s : ToSet(accepted[s])' = ToSet(accepted[s])
  BY DEF ToSet
<1>7. ASSUME NEW s, NEW m, Comes(s, m)
      PROVE  Comes(s, m)'
  BY <1>4, <1>5, <1>7 DEF Comes
<1>8. NumbersInv'
  BY <1>3, <1>4 DEF AfterInv, NumbersInv
<1>9. ASSUME reader' = reader, reader.at = "wait", NEW s, NEW m, InWaiting(s, m)
      PROVE  InWaiting(s, m)' \/ Comes(s, m)'
  <2>1. PICK e \in reader.entries \cap waiting : e.subscription = s /\ e.message.id = m
    BY <1>9 DEF InWaiting
  <2>2. CASE e \in waiting'
    BY <1>9, <2>1, <2>2 DEF InWaiting
  <2>3. CASE e \notin waiting'
    <3>1. frame = Delivery(worker.entry) /\ e = worker.entry
      BY <1>9, <2>1, <2>3
    <3>2. frame.kind = "delivery" /\ frame.subscription = s /\ frame.message.id = m
      BY <2>1, <3>1 DEF Delivery
    <3> QED BY <1>3, <1>4, <3>2 DEF Comes
  <2> QED BY <2>2, <2>3
<1>10. AnswerInv'
  BY <1>6, <1>7, <1>9 DEF AfterInv, AnswerInv
<1>11. ResultAfterDeliveries'
  <2> SUFFICES ASSUME NEW k \in DOMAIN wire', wire'[k].kind = "result", wire'[k].id # 0,
                      NEW s \in Subscriptions, wire'[k].id \in ToSet(accepted[s])
               PROVE  \/ wire'[k].id \in ToSet(Arrived(s))
                      \/ \E j \in 1..(k - 1) : /\ wire'[j].kind = "delivery"
                                               /\ wire'[j].subscription = s
                                               /\ wire'[j].message.id = wire'[k].id
    BY <1>5 DEF ResultAfterDeliveries
  <2>1. CASE k \in DOMAIN wire
    <3>1. wire'[k] = wire[k]
      BY <1>4, <2>1
    <3>2. \A j \in 1..(k - 1) : wire'[j] = wire[j]
      BY <1>3, <2>1
    <3> QED BY <2>1, <3>1, <3>2 DEF AfterInv, ResultAfterDeliveries
  <2>2. CASE k = n
    <3>1. Comes(s, frame.id) /\ wire'[k] = frame
      BY <1>3, <2>2
    <3>2. \A j \in DOMAIN wire : j \in 1..(k - 1) /\ wire'[j] = wire[j]
      BY <1>2, <1>3, <1>4, <2>2
    <3> QED BY <3>1, <3>2 DEF Comes
  <2> QED BY <1>4, <2>1, <2>2
<1> QED BY <1>8, <1>10, <1>11 DEF AfterInv

(* An emission: what it delivers to the session, its result is to follow. *)
LEMMA AfterEmission ==
  ASSUME Typed, AfterInv, NEW message \in Emits, message.id = nextId, Deliver(message),
         nextId' = nextId + 1, UNCHANGED <<wire, received, held, gone>>,
         \/ reader' = reader
         \/ reader'.at \in {"stuck", "woken"} 
         \/ reader' = [at |-> "wait", entries |-> waiting', frame |-> EmitResult]
  PROVE  AfterInv'
<1>1. AsyncType /\ nextId \in Nat \ {0}
  BY DEF Typed, AsyncType, SessionType
<1>2. PICK taken \in Seq(Subscriptions) :
        /\ Accept(taken, message)
        /\ Enqueues(message, taken) \/ Overflows(message)
  BY <1>1, Delivering
<1>3. \A s \in Subscriptions :
        /\ accepted[s] \in Seq(Nat)
        /\ accepted'[s] = IF s \in ToSet(taken)
                          THEN Append(accepted[s], nextId) ELSE accepted[s]
  BY <1>1, <1>2, Accepting DEF AsyncType, SessionType
<1>4. \A s \in Subscriptions :
        /\ ToSet(accepted'[s]) =
             ToSet(accepted[s]) \cup (IF s \in ToSet(taken) THEN {nextId} ELSE {})
  <2>1. \A f : ToSet(f) = Range(f)
    BY DEF ToSet, Range
  <2>2. \A s \in Subscriptions : Range(Append(accepted[s], nextId)) = Range(accepted[s]) \cup {nextId}
    BY <1>1, <1>3, RangeOfAppended
  <2> QED BY <1>3, <2>1, <2>2
<1>5. \A s \in Subscriptions : \A m \in ToSet(accepted[s]) : m \in Nat /\ 1 <= m /\ m < nextId
  BY <1>1 DEF AfterInv, NumbersInv, ToSet
<1>6. \A s \in Subscriptions : \A m \in ToSet(accepted'[s]) : m \in Nat /\ 1 <= m /\ m < nextId'
  BY <1>1, <1>4, <1>5
<1>7. NumbersInv'
  <2>1. \A s \in Subscriptions : \A i \in DOMAIN accepted'[s] : accepted'[s][i] \in 1..(nextId' - 1)
    <3>1. \A s \in Subscriptions : \A i \in DOMAIN accepted'[s] : accepted'[s][i] \in ToSet(accepted'[s])
      BY DEF ToSet
    <3>2. \A m \in Nat : 1 <= m /\ m < nextId' => m \in 1..(nextId' - 1)
      BY <1>1
    <3> QED BY <1>6, <3>1, <3>2
  <2>2. \A i \in DOMAIN wire : wire[i].kind = "result" => wire[i].id \in Nat
    <3>1. \A i \in DOMAIN wire : wire[i] \in ClientFrames
      BY <1>1 DEF AsyncType
    <3> QED BY <3>1, FrameKinds
  <2>3. EmitResult.id = nextId
    BY DEF EmitResult, Result
  <2>4. reader.at \in {"send", "wait"} /\ reader.frame.kind = "result" => reader.frame.id \in Nat
    BY <1>1 DEF AsyncType, SessionType, Readers, Replies, Results
  <2> QED BY <1>1, <2>1, <2>2, <2>3, <2>4 DEF AfterInv, NumbersInv
<1>8. \A s, m : Comes(s, m)' <=> Comes(s, m)
  BY ComesStays
<1>9. ASSUME Live' PROVE AnswerInv'
  <2>1. Enqueues(message, taken) /\ Live /\ AnswerInv
    BY <1>2, <1>9 DEF Overflows, Enqueues, Live, AfterInv
  <2>2. waiting \subseteq waiting'
    BY <2>1 DEF Enqueues
  <2>3. CASE reader' = reader
    <3>1. \A s, m : InWaiting(s, m) => InWaiting(s, m)'
      BY <2>2, <2>3 DEF InWaiting
    <3>2. reader.at \in {"send", "wait"} /\ reader.frame.kind = "result" => reader.frame.id < nextId
      BY DEF AfterInv, NumbersInv
    <3>3. reader.at = "wait" => reader.frame.kind = "result"
      BY <1>1 DEF AsyncType, SessionType, Readers, Results
    <3>4. ~(nextId < nextId)
      BY <1>1
    <3> QED BY <1>4, <1>8, <2>1, <2>3, <3>1, <3>2, <3>3, <3>4 DEF AnswerInv
  <2>4. CASE reader' = [at |-> "wait", entries |-> waiting', frame |-> EmitResult]
    <3>1. PICK id : id = nextId
      OBVIOUS
    <3>2. ASSUME NEW s \in Subscriptions, id \in ToSet(accepted'[s])
          PROVE  InWaiting(s, id)'
      <4>1. s \in ToSet(taken)
        BY <1>1, <1>4, <1>5, <3>1, <3>2
      <4>2. [subscription |-> s, message |-> message] \in waiting'
        BY <2>1, <4>1 DEF Enqueues
      <4> QED BY <2>4, <3>1, <4>2 DEF InWaiting
    <3>3. reader'.frame.id = id /\ reader'.at = "wait"
      BY <2>4, <3>1 DEF EmitResult, Result
    <3> QED BY <3>2, <3>3 DEF AnswerInv
  <2>5. CASE reader'.at \in {"stuck", "woken"}
    BY <2>5 DEF AnswerInv
  <2> QED BY <2>3, <2>4, <2>5
<1>10. ResultAfterDeliveries'
  <2>1. \A i \in DOMAIN wire : wire[i].kind = "result" => wire[i].id # nextId
    BY <1>1 DEF AfterInv, NumbersInv
  <2>2. \A s : ToSet(Arrived(s))' = ToSet(Arrived(s))
    BY DEF Arrived, HeldIds, ToSet
  <2>3. \A i \in DOMAIN wire : wire[i].kind = "result" =>
          \A s \in Subscriptions : wire[i].id \in ToSet(accepted'[s]) =>
            wire[i].id \in ToSet(accepted[s])
    BY <1>4, <2>1
  <2> QED BY <2>2, <2>3 DEF AfterInv, ResultAfterDeliveries
<1> QED BY <1>7, <1>9, <1>10 DEF AfterInv

LEMMA AfterFinished ==
  ASSUME AfterInv, NEW cause, Finish(cause), UNCHANGED <<wire, history, client>>
  PROVE  AfterInv'
<1>1. reader'.at = "done" /\ ~Live'
  BY DEF Finish, Live, At
<1> QED BY <1>1, AfterQuiet DEF history, client

LEMMA AfterNext == Typed /\ AfterInv /\ [AsyncNext]_asyncVars => AfterInv'
<1> SUFFICES ASSUME Typed, AfterInv, [AsyncNext]_asyncVars PROVE AfterInv'
  OBVIOUS
<1> USE DEF Quiet, session, tasks, history, client
<1>1. /\ AsyncType /\ ClientType /\ EndInv /\ LineInv /\ AskInv
      /\ ClientType'
  BY TypedNext DEF Typed, AsyncType
<1>2. ASSUME NEW topic \in Topics, ClientSubscribe(topic) \/ ClientRegisterEmitter(topic)
      PROVE  AfterInv'
  BY <1>2, AfterQuiet DEF ClientSubscribe, ClientRegisterEmitter, Live
<1>3. ASSUME NEW topic \in Topics, NEW name \in Names \cup {Shared}, ClientEmit(topic, name)
      PROVE  AfterInv'
  BY <1>3, AfterQuiet DEF ClientEmit, Live
<1>4. ASSUME NEW topic \in Topics, NEW name \in Names \cup {Shared}, OtherEmits(topic, name)
      PROVE  AfterInv'
  <2>1. /\ Message(topic, name) \in Emits /\ Deliver(Message(topic, name))
        /\ Message(topic, name).id = nextId
    BY <1>1, <1>4, MessageType DEF OtherEmits, Message
  <2>2. reader' = reader \/ reader'.at \in {"stuck", "woken"}
    BY <1>4 DEF OtherEmits, ReaderAfterClose, At
  <2> QED BY <1>4, <2>1, <2>2, AfterEmission DEF OtherEmits
<1>5. ASSUME NEW from \in Selections, ClientTakeHeld(from) \/ ClientReceive(from)
      PROVE  AfterInv'
  <2>1. CASE ClientTakeHeld(from)
    BY <1>1, <2>1, AfterTaken
  <2>2. CASE ClientReceive(from)
    BY <2>2, AfterQuiet DEF ClientReceive, Live
  <2> QED BY <1>5, <2>1, <2>2
<1>6. ASSUME ClientReadExpected PROVE AfterInv'
  <2>1. PICK frame : /\ Reading({"await", "register"}, frame)
                     /\ \/ frame.kind # "delivery" /\ UNCHANGED <<received, held>>
                        \/ frame.kind = "delivery" /\ Keeps(frame) /\ UNCHANGED received
    BY <1>6 DEF ClientReadExpected
  <2> QED BY <1>1, <2>1, AfterRead
<1>7. ASSUME ClientReadCandidate PROVE AfterInv'
  <2>1. PICK frame : /\ Reading({"receive"}, frame)
                     /\ \/ frame.kind # "delivery" /\ UNCHANGED <<received, held>>
                        \/ frame.kind = "delivery" /\ Keeps(frame) /\ UNCHANGED received
                        \/ /\ frame.kind = "delivery" /\ UNCHANGED held
                           /\ Decode(frame.subscription, frame.message)
    BY <1>7 DEF ClientReadCandidate
  <2> QED BY <1>1, <2>1, AfterRead
<1>8. ASSUME ClientReadsEnd \/ ClientStopsReceiving PROVE AfterInv'
  BY <1>8, AfterQuiet DEF ClientReadsEnd, ClientStopsReceiving, Live
<1>9. ASSUME ClientClose PROVE AfterInv'
  <2>1. ~Live' /\ wire' = <<>> /\ UNCHANGED <<accepted, nextId, reader>>
    BY <1>9 DEF ClientClose, Live
  <2>2. NumbersInv' /\ ResultAfterDeliveries'
    BY <2>1 DEF AfterInv, NumbersInv, ResultAfterDeliveries
  <2> QED BY <2>1, <2>2 DEF AfterInv
<1>10. ASSUME HandleSubscribe \/ HandleRegisterEmitter \/ HandleRegisterName \/ HandleRefused
       PROVE  AfterInv'
  <2>1. /\ UNCHANGED <<wire, accepted, nextId, received, held, closed, gone>>
        /\ reader'.at = "send" /\ (reader'.frame.kind = "error" \/ reader'.frame.id = 0)
    BY <1>10 DEF HandleSubscribe, HandleRegisterEmitter, HandleRegisterName, HandleRefused,
                AnswersWith, Answers, Result
  <2> QED BY <1>1, <2>1, AfterAnswer
<1>11. ASSUME HandleEmit PROVE AfterInv'
  <2> DEFINE message == Message(Head(requests).topic, Head(requests).name)
  <2>1. /\ Reads("emit") /\ Deliver(message) /\ nextId' = nextId + 1
        /\ reader' = [at |-> "wait", entries |-> waiting', frame |-> EmitResult]
        /\ UNCHANGED <<wire, received, held, gone>>
    BY <1>11 DEF HandleEmit
  <2>2. message \in Emits /\ message.id = nextId
    BY <1>1, <2>1, RequestRead, MessageType DEF Message
  <2> HIDE DEF message
  <2> QED BY <2>1, <2>2, AfterEmission
<1>12. ASSUME HandleRaises \/ ReaderSendFails \/ ReaderEnds \/ RequestStop PROVE AfterInv'
  BY <1>12, AfterFinished DEF HandleRaises, ReaderSendFails, ReaderEnds, RequestStop
<1>13. ASSUME DeliveriesDone PROVE AfterInv'
  <2>1. /\ UNCHANGED <<wire, accepted, nextId, received, held, closed, gone>>
        /\ reader.at = "wait" /\ reader.entries \cap waiting = {}
        /\ reader'.at = "send" /\ reader'.frame = reader.frame
    BY <1>13 DEF DeliveriesDone
  <2> QED BY <1>1, <2>1, AfterAnswer
<1>14. ASSUME ReaderSends PROVE AfterInv'
  <2>1. /\ reader.at = "send" /\ Live /\ wire' = Append(wire, reader.frame)
        /\ reader'.at = "receive"
        /\ UNCHANGED <<accepted, nextId, received, held, closed, gone>>
    BY <1>14 DEF ReaderSends, Live, At
  <2>2. reader.frame \in ClientFrames
    BY <1>1, <2>1 DEF AsyncType, SessionType, Readers, ClientFrames
  <2>3. reader.frame.kind = "result" => reader.frame.id < nextId /\
          \A s \in Subscriptions :
            reader.frame.id \in ToSet(accepted[s]) => Comes(s, reader.frame.id)
    BY <2>1 DEF AfterInv, NumbersInv, AnswerInv
  <2> QED BY <2>1, <2>2, <2>3, AfterSent
<1>15. ASSUME WorkerSends PROVE AfterInv'
  <2> DEFINE frame == Head(worker.frames)
  <2>1. /\ worker.at = "send" /\ Live /\ wire' = Append(wire, frame) /\ reader' = reader
        /\ UNCHANGED <<accepted, nextId, received, held, closed, gone>>
        /\ IF Len(worker.frames) > 1 THEN waiting' = waiting
           ELSE waiting' = waiting \ {worker.entry}
    BY <1>15 DEF WorkerSends, Live
  <2>2. frame \in ClientFrames
    BY <1>1, <2>1, FramesTyped
  <2>3. frame.kind # "result"
    <3>1. \A e : Delivery(e).kind = "delivery"
      BY DEF Delivery
    <3>2. \A n : Registrations(n).kind = "registrations"
      BY DEF Registrations
    <3> QED BY <1>1, <2>1, <3>1, <3>2, FramesToSend
  <2>4. waiting' = waiting \/ (waiting' = waiting \ {worker.entry} /\ frame = Delivery(worker.entry))
    BY <1>1, <2>1, FramesToSend
  <2> HIDE DEF frame
  <2> QED BY <2>1, <2>2, <2>3, <2>4, AfterSent
<1>16. ASSUME WorkerTakes PROVE AfterInv'
  BY <1>16, AfterQuiet DEF WorkerTakes, Takes, Live
<1>17. ASSUME WorkerSendFails \/ WorkerFinished PROVE AfterInv'
  <2>1. ~Live' /\ (reader' = reader \/ reader'.at \notin {"send", "wait"})
    BY <1>17 DEF WorkerSendFails, WorkerFinished, Live, At
  <2> QED BY <1>17, <2>1, AfterQuiet DEF WorkerSendFails, WorkerFinished
<1>18. ASSUME UNCHANGED asyncVars PROVE AfterInv'
  BY <1>18, AfterQuiet DEF asyncVars, connection, Live
<1> QED
  BY <1>2, <1>3, <1>4, <1>5, <1>6, <1>7, <1>8, <1>9, <1>10, <1>11, <1>12, <1>13,
     <1>14, <1>15, <1>16, <1>17, <1>18
     DEF AsyncNext, ClientReads, ReaderStep, WorkerStep

LEMMA AfterInit == AsyncInit => AfterInv
<1> SUFFICES ASSUME AsyncInit PROVE AfterInv
  OBVIOUS
<1>1. \A s \in Subscriptions : ToSet(accepted[s]) = {} /\ DOMAIN accepted[s] = {}
  BY DEF AsyncInit, Nothing, ToSet
<1> QED BY <1>1 DEF AsyncInit, AfterInv, NumbersInv, AnswerInv, ResultAfterDeliveries, At

(***************************************************************************)
(* A result never overtakes the deliveries of its emission, and no frame   *)
(* the client reads needs a registration that has not come before it       *)
(* (_wait_for_delivery_tasks, registrations_to_send, the channel's lock).  *)
(***************************************************************************)
THEOREM FramesComeInTime == AsyncSpec => []FramesInTime
<1> DEFINE Inv == Typed /\ SymbolsInv /\ AfterInv
<1>1. AsyncInit => Inv
  BY TypedInit, SymbolsInit, AfterInit
<1>2. Inv /\ [AsyncNext]_asyncVars => Inv'
  BY TypedNext, SymbolsNext, AfterNext
<1>3. Inv => FramesInTime
  BY DEF SymbolsInv, ClientNeeds, AfterInv, FramesInTime
<1> QED BY <1>1, <1>2, <1>3, PTL DEF AsyncSpec

------------------------------------------------------------------------------
(***************************************************************************)
(* Order.  The places of a list that belong to one subscription hold, one  *)
(* after the other, what a list of IDs has from a base on.                 *)
(***************************************************************************)
InPlace(ids, base, places, list) ==
  \A i \in places : ids[base + Rank(places, i)] = list[i].message.id

LEMMA RankIsCount ==
  ASSUME NEW places, NEW i
  PROVE  Rank(places, i) = Cardinality(UpTo(places, i))
BY DEF Rank, UpTo

LEMMA Ranks ==
  ASSUME NEW n \in Nat, NEW S \in SUBSET (1..n)
  PROVE  /\ Cardinality(S) \in Nat
         /\ \A i \in S : Rank(S, i) \in 1..Cardinality(S)
<1>1. Cardinality(S) \in Nat
  BY PlacesUpTo, 0 \in Nat
<1>2. ASSUME NEW i \in S
      PROVE  Rank(S, i) \in 1..Cardinality(S)
  <2>1. i \in Nat
    OBVIOUS
  <2>2. /\ Rank(S, i) \in Nat /\ Rank(S, i) >= 1
        /\ Rank(S, i) <= Cardinality(S)
    BY <2>1, PlacesUpTo, RankIsCount
  <2> QED BY <1>1, <2>2
<1> QED BY <1>1, <1>2

(* More IDs are added behind. *)
LEMMA InPlaceMore ==
  ASSUME NEW ids \in Seq(Nat), NEW more \in Seq(Nat), NEW base \in Nat, NEW n \in Nat,
         NEW S \in SUBSET (1..n), NEW list, InPlace(ids, base, S, list),
         base + Cardinality(S) <= Len(ids), \A i \in 1..Len(ids) : more[i] = ids[i]
  PROVE  InPlace(more, base, S, list)
<1>1. Cardinality(S) \in Nat /\ Len(ids) \in Nat
      /\ \A i \in S : Rank(S, i) \in 1..Cardinality(S)
  BY Ranks, LenProperties
<1>2. \A a, b, c \in Nat : \A r \in 1..b : a + b <= c => a + r \in 1..c
  OBVIOUS
<1>3. \A i \in S : base + Rank(S, i) \in 1..Len(ids)
  BY <1>1, <1>2
<1> QED BY <1>3 DEF InPlace

(* An element is added, at a place behind all the others. *)
Adds(S, p, list, T, longer) ==
  /\ p \in Nat \ {0} /\ S \in SUBSET (1..(p - 1)) /\ T = S \cup {p}
  /\ \A i \in S : longer[i] = list[i]

LEMMA InPlaceAdded ==
  ASSUME NEW S, NEW p, NEW list, NEW T, NEW longer, Adds(S, p, list, T, longer),
         NEW ids, NEW base \in Nat, InPlace(ids, base, S, list),
         ids[base + Cardinality(S) + 1] = longer[p].message.id
  PROVE  /\ InPlace(ids, base, T, longer)
         /\ Cardinality(T) = Cardinality(S) + 1
<1>1. /\ p \in Nat \ {0} /\ S \in SUBSET (1..(p - 1)) /\ T = S \cup {p}
      /\ \A i \in S : longer[i] = list[i]
  BY DEF Adds
<1>2. p - 1 \in Nat /\ (p - 1) + 1 = p
  BY <1>1
<1>3. /\ Cardinality(S \cup {p}) = Cardinality(S) + 1
      /\ \A i \in 1..(p - 1) : UpTo(S \cup {p}, i) = UpTo(S, i)
      /\ UpTo(S \cup {p}, p) = S \cup {p}
  <2>1. /\ Cardinality(S \cup {(p - 1) + 1}) = Cardinality(S) + 1
        /\ \A i \in 1..(p - 1) : UpTo(S \cup {(p - 1) + 1}, i) = UpTo(S, i)
        /\ UpTo(S \cup {(p - 1) + 1}, (p - 1) + 1) = S \cup {(p - 1) + 1}
    BY <1>1, <1>2, OneMorePlace
  <2>2. (p - 1) + 1 = p
    BY <1>2
  <2> QED BY <2>1, <2>2, Zenon
<1>4. /\ \A i \in S : Rank(S \cup {p}, i) = Rank(S, i)
      /\ Rank(S \cup {p}, p) = Cardinality(S) + 1
  BY <1>1, <1>2, <1>3, RankIsCount
<1>5. Cardinality(S) \in Nat
  BY <1>1, <1>2, Ranks
<1>6. base + (Cardinality(S) + 1) = base + Cardinality(S) + 1
  BY <1>5
<1>7. ASSUME NEW i \in S
      PROVE  ids[base + Rank(S \cup {p}, i)] = longer[i].message.id
  BY <1>1, <1>4 DEF InPlace
<1>8. ids[base + Rank(S \cup {p}, p)] = longer[p].message.id
  BY <1>4, <1>6
<1>9. /\ \A i \in S : ids[base + Rank(T, i)] = longer[i].message.id
      /\ ids[base + Rank(T, p)] = longer[p].message.id
      /\ Cardinality(T) = Cardinality(S) + 1
  BY <1>1, <1>3, <1>7, <1>8, Zenon
<1> QED BY <1>1, <1>9 DEF InPlace

(* The head of the list is taken. *)
LEMMA InPlaceTail ==
  ASSUME NEW E, NEW list \in Seq(E), list # <<>>, NEW ids, NEW base \in Nat,
         NEW S \in SUBSET (1..Len(list)), InPlace(ids, base, S, list),
         NEW T, T = OfTail(Len(list), S)
  PROVE  /\ InPlace(ids, base + (IF 1 \in S THEN 1 ELSE 0), T, Tail(list))
         /\ Cardinality(T) = Cardinality(S) - (IF 1 \in S THEN 1 ELSE 0)
         /\ 1 \in S => ids[base + 1] = list[1].message.id
<1> DEFINE one == IF 1 \in S THEN 1 ELSE 0
<1>1. PICK n \in Nat \ {0} : n = Len(list)
  BY HeadAndTail
<1> DEFINE shorter == Tail(list)
<1>2. \A i \in 1..(n - 1) : shorter[i] = list[i + 1]
  BY <1>1, HeadAndTail
<1> HIDE DEF shorter
<1>3. n \in Nat /\ 0 \in Nat /\ Cardinality(S) \in Nat /\ S \in SUBSET (1..n)
  BY <1>1, PlacesUpTo, 0 \in Nat
<1>4. Cardinality(T) = Cardinality(S) - one
  BY <1>1, <1>3, PlacesOfTail
<1>5. 1 \in S => Rank(S, 1) = 1
  BY <1>3, FirstPlace, RankIsCount
<1>6. ASSUME NEW i \in T
      PROVE  ids[(base + one) + Rank(T, i)] = shorter[i].message.id
  <2>1. i \in 1..(n - 1) /\ i \in Nat /\ i + 1 \in Nat /\ i + 1 \in S
    BY <1>1, <1>3 DEF OfTail
  <2>2. Cardinality(UpTo(T, i)) = Cardinality(UpTo(S, i + 1)) - one
    BY <1>1, <1>3, <2>1, PlacesOfTail
  <2>3. Rank(S, i + 1) \in Nat
    <3>1. n \in Nat /\ \A j \in S : Rank(S, j) \in 1..Cardinality(S)
      BY <1>3, Ranks
    <3> QED BY <1>3, <2>1, <3>1
  <2>4. Rank(T, i) = Rank(S, i + 1) - one
    BY <2>2, RankIsCount
  <2>5. (base + one) + Rank(T, i) = base + Rank(S, i + 1)
    BY <2>3, <2>4
  <2>6. ids[base + Rank(S, i + 1)] = list[i + 1].message.id
    BY <2>1 DEF InPlace
  <2> QED BY <1>2, <2>1, <2>5, <2>6
<1>7. 1 \in S => ids[base + 1] = list[1].message.id
  BY <1>5 DEF InPlace
<1> QED BY <1>4, <1>6, <1>7 DEF InPlace, shorter

(* What has come of a list of IDs: what has arrived, and then what is on the *)
(* way.  The rest of it: what is on the way ends with the list.              *)
Came(ids, got, places, list) ==
  /\ Len(got) + Cardinality(places) <= Len(ids)
  /\ \A i \in DOMAIN got : ids[i] = got[i]
  /\ InPlace(ids, Len(got), places, list)

Rest(ids, base, places, list) ==
  /\ Len(ids) = base + Cardinality(places)
  /\ InPlace(ids, base, places, list)

LEMMA CameMore ==
  ASSUME NEW ids \in Seq(Nat), NEW id \in Nat, NEW got \in Seq(Nat), NEW n \in Nat,
         NEW S \in SUBSET (1..n), NEW list, Came(ids, got, S, list)
  PROVE  Came(Append(ids, id), got, S, list)
<1>1. Len(got) \in Nat /\ DOMAIN got = 1..Len(got) /\ Len(ids) \in Nat
      /\ Cardinality(S) \in Nat
  BY LenProperties, Ranks
<1>2. /\ Append(ids, id) \in Seq(Nat) /\ Len(Append(ids, id)) = Len(ids) + 1
      /\ \A i \in 1..Len(ids) : Append(ids, id)[i] = ids[i]
  BY Appended
<1> DEFINE more == Append(ids, id)
<1> HIDE DEF more
<1>3. InPlace(more, Len(got), S, list)
  BY <1>1, <1>2, InPlaceMore DEF Came, more
<1>4. \A a, b, c \in Nat : a + b <= c => 1..a \subseteq 1..c /\ a + b <= c + 1
  OBVIOUS
<1>5. DOMAIN got \subseteq 1..Len(ids) /\ Len(got) + Cardinality(S) <= Len(ids) + 1
  BY <1>1, <1>4 DEF Came
<1>6. \A i \in DOMAIN got : more[i] = got[i]
  BY <1>2, <1>5 DEF Came, more
<1> QED BY <1>2, <1>3, <1>5, <1>6 DEF Came, more

LEMMA CameSent ==
  ASSUME NEW S, NEW p, NEW list, NEW T, NEW longer, Adds(S, p, list, T, longer),
         NEW ids \in Seq(Nat), NEW got \in Seq(Nat), Came(ids, got, S, list),
         Len(got) + Cardinality(S) + 1 <= Len(ids),
         ids[Len(got) + Cardinality(S) + 1] = longer[p].message.id
  PROVE  /\ Came(ids, got, T, longer)
         /\ Cardinality(T) = Cardinality(S) + 1
<1>1. Len(got) \in Nat /\ Cardinality(S) \in Nat
  <2>1. p - 1 \in Nat /\ S \in SUBSET (1..(p - 1))
    BY DEF Adds
  <2> QED BY <2>1, LenProperties, Ranks
<1>2. /\ InPlace(ids, Len(got), T, longer)
      /\ Cardinality(T) = Cardinality(S) + 1
  <2>1. InPlace(ids, Len(got), S, list)
    BY DEF Came
  <2> QED BY <1>1, <2>1, InPlaceAdded
<1>3. Len(got) + (Cardinality(S) + 1) = Len(got) + Cardinality(S) + 1
  BY <1>1
<1> QED BY <1>2, <1>3 DEF Came

LEMMA CameRead ==
  ASSUME NEW E, NEW list \in Seq(E), list # <<>>, NEW ids \in Seq(Nat),
         NEW got \in Seq(Nat), NEW S \in SUBSET (1..Len(list)), Came(ids, got, S, list),
         NEW T, T = OfTail(Len(list), S)
  PROVE  /\ 1 \notin S => /\ Came(ids, got, T, Tail(list))
                          /\ Cardinality(T) = Cardinality(S)
         /\ 1 \in S /\ list[1].message.id \in Nat =>
              /\ Came(ids, Append(got, list[1].message.id), T, Tail(list))
              /\ Cardinality(T) + 1 = Cardinality(S)
<1>1. Len(got) \in Nat /\ DOMAIN got = 1..Len(got) /\ Len(ids) \in Nat
      /\ Cardinality(S) \in Nat
  <2>1. Len(list) \in Nat
    BY LenProperties
  <2> QED BY <2>1, LenProperties, Ranks
<1>2. /\ InPlace(ids, Len(got) + (IF 1 \in S THEN 1 ELSE 0), T, Tail(list))
      /\ Cardinality(T) = Cardinality(S) - (IF 1 \in S THEN 1 ELSE 0)
      /\ 1 \in S => ids[Len(got) + 1] = list[1].message.id
  <2>1. InPlace(ids, Len(got), S, list)
    BY DEF Came
  <2> QED BY <1>1, <2>1, InPlaceTail
<1>3. CASE 1 \notin S
  <2>1. Cardinality(T) = Cardinality(S) /\ Len(got) + 0 = Len(got)
    BY <1>1, <1>2, <1>3
  <2> QED BY <1>2, <1>3, <2>1 DEF Came
<1>4. ASSUME 1 \in S, list[1].message.id \in Nat
      PROVE  /\ Came(ids, Append(got, list[1].message.id), T, Tail(list))
             /\ Cardinality(T) + 1 = Cardinality(S)
  <2> DEFINE more == Append(got, list[1].message.id)
  <2>1. /\ more \in Seq(Nat) /\ Len(more) = Len(got) + 1
        /\ \A i \in 1..Len(got) : more[i] = got[i]
        /\ more[Len(got) + 1] = list[1].message.id
    BY <1>4, Appended
  <2> HIDE DEF more
  <2>2. Cardinality(T) + 1 = Cardinality(S)
        /\ (Len(got) + 1) + Cardinality(T) = Len(got) + Cardinality(S)
    <3>1. Cardinality(T) = Cardinality(S) - 1
      BY <1>2, <1>4
    <3> QED BY <1>1, <3>1
  <2>3. InPlace(ids, Len(more), T, Tail(list))
    BY <1>2, <1>4, <2>1
  <2>4. DOMAIN more = 1..(Len(got) + 1)
    BY <2>1, LenProperties
  <2>5. \A a \in Nat : \A i \in 1..(a + 1) : i \in 1..a \/ i = a + 1
    OBVIOUS
  <2>6. \A i \in DOMAIN more : ids[i] = more[i]
    BY <1>1, <1>2, <1>4, <2>1, <2>4, <2>5 DEF Came
  <2>7. Came(ids, more, T, Tail(list))
    BY <2>1, <2>2, <2>3, <2>6 DEF Came
  <2> QED BY <2>2, <2>7 DEF more
<1> QED BY <1>3, <1>4

LEMMA RestAdded ==
  ASSUME NEW S, NEW p, NEW list, NEW T, NEW longer, Adds(S, p, list, T, longer),
         NEW ids \in Seq(Nat), NEW base \in Nat, Rest(ids, base, S, list),
         longer[p].message.id \in Nat
  PROVE  Rest(Append(ids, longer[p].message.id), base, T, longer)
<1> DEFINE more == Append(ids, longer[p].message.id)
<1>1. /\ more \in Seq(Nat) /\ Len(more) = Len(ids) + 1
      /\ \A i \in 1..Len(ids) : more[i] = ids[i]
      /\ more[Len(ids) + 1] = longer[p].message.id
  BY Appended
<1> HIDE DEF more
<1>2. Len(ids) \in Nat /\ Cardinality(S) \in Nat /\ p - 1 \in Nat
      /\ S \in SUBSET (1..(p - 1))
  <2>1. p - 1 \in Nat /\ S \in SUBSET (1..(p - 1))
    BY DEF Adds
  <2> QED BY <2>1, LenProperties, Ranks
<1>3. InPlace(more, base, S, list)
  <2>1. InPlace(ids, base, S, list) /\ base + Cardinality(S) <= Len(ids)
    BY <1>2 DEF Rest
  <2> QED BY <1>1, <1>2, <2>1, InPlaceMore
<1>4. base + Cardinality(S) + 1 = Len(ids) + 1
  BY <1>2 DEF Rest
<1>5. /\ InPlace(more, base, T, longer)
      /\ Cardinality(T) = Cardinality(S) + 1
  <2>1. more[base + Cardinality(S) + 1] = longer[p].message.id
    BY <1>1, <1>4
  <2> QED BY <1>3, <2>1, InPlaceAdded
<1>6. Len(more) = base + Cardinality(T)
  BY <1>1, <1>2, <1>4, <1>5
<1> QED BY <1>5, <1>6 DEF Rest, more

LEMMA RestTaken ==
  ASSUME NEW E, NEW list \in Seq(E), list # <<>>, NEW ids \in Seq(Nat),
         NEW base \in Nat, NEW S \in SUBSET (1..Len(list)), Rest(ids, base, S, list),
         NEW T, T = OfTail(Len(list), S)
  PROVE  /\ 1 \notin S => Rest(ids, base, T, Tail(list))
         /\ 1 \in S => /\ Rest(ids, base + 1, T, Tail(list))
                       /\ ids[base + 1] = list[1].message.id
<1>1. Cardinality(S) \in Nat
  <2>1. Len(list) \in Nat
    BY LenProperties
  <2> QED BY <2>1, Ranks
<1>2. /\ InPlace(ids, base + (IF 1 \in S THEN 1 ELSE 0), T, Tail(list))
      /\ Cardinality(T) = Cardinality(S) - (IF 1 \in S THEN 1 ELSE 0)
      /\ 1 \in S => ids[base + 1] = list[1].message.id
  <2>1. InPlace(ids, base, S, list)
    BY DEF Rest
  <2> QED BY <2>1, InPlaceTail
<1>3. CASE 1 \notin S
  <2>1. Cardinality(T) = Cardinality(S) /\ base + 0 = base
    BY <1>1, <1>2, <1>3
  <2> QED BY <1>2, <1>3, <2>1 DEF Rest
<1>4. CASE 1 \in S
  <2>1. base + Cardinality(S) = (base + 1) + Cardinality(T)
    BY <1>1, <1>2, <1>4
  <2> QED BY <1>2, <1>4, <2>1 DEF Rest
<1> QED BY <1>3, <1>4

(***************************************************************************)
(* In which order the client gets what.  A call that receives has found    *)
(* nothing held for its subscriptions, so what it reads for one of them    *)
(* goes past no frame that is held.                                        *)
(***************************************************************************)
ArrivalInv ==
  /\ NothingLostOrReordered
  /\ call.op = "receive" => \A s \in call.from : held[s] = <<>>

InOrder(s) == ArrivesInOrder(s) /\ (Live => RestInOrder(s))

LEMMA ArrivesIs ==
  ASSUME NEW s
  PROVE  /\ ArrivesInOrder(s) <=> Came(accepted[s], Arrived(s), OnWire(s), wire)
         /\ ArrivesInOrder(s)' <=> Came(accepted'[s], Arrived(s)', OnWire(s)', wire')
BY DEF ArrivesInOrder, Came, InPlace, Rank

LEMMA RestIs ==
  ASSUME NEW s
  PROVE  /\ RestInOrder(s) <=>
              /\ Rest(accepted[s], Taken(s), InQueue(s), queue)
              /\ InWorker(s) => accepted[s][Taken(s)] = worker.entry.message.id
         /\ RestInOrder(s)' <=>
              /\ Rest(accepted'[s], Taken(s)', InQueue(s)', queue')
              /\ InWorker(s)' => accepted'[s][Taken(s)'] = worker'.entry.message.id
BY DEF RestInOrder, Rest, InPlace, Rank

LEMMA ArrivalInvIs == /\ NothingLostOrReordered <=> \A s \in Subscriptions : InOrder(s)
                      /\ NothingLostOrReordered' <=> \A s \in Subscriptions : InOrder(s)'
BY DEF NothingLostOrReordered, InOrder, Live

LEMMA OrderShape ==
  ASSUME AsyncType, NEW s \in Subscriptions
  PROVE  /\ accepted[s] \in Seq(Nat) /\ received[s] \in Seq(Nat) /\ held[s] \in Seq(Emits)
         /\ HeldIds(s) \in Seq(Nat) /\ Arrived(s) \in Seq(Nat)
         /\ Len(wire) \in Nat /\ DOMAIN wire = 1..Len(wire)
         /\ Len(queue) \in Nat /\ DOMAIN queue = 1..Len(queue)
         /\ OnWire(s) \in SUBSET (1..Len(wire)) /\ Cardinality(OnWire(s)) \in Nat
         /\ InQueue(s) \in SUBSET (1..Len(queue)) /\ Cardinality(InQueue(s)) \in Nat
         /\ Len(Arrived(s)) \in Nat /\ Taken(s) \in Nat
         /\ InWorker(s) => Taken(s) = Len(Arrived(s)) + Cardinality(OnWire(s)) + 1
         /\ ~InWorker(s) => Taken(s) = Len(Arrived(s)) + Cardinality(OnWire(s))
<1>1. /\ accepted[s] \in Seq(Nat) /\ received[s] \in Seq(Nat) /\ held[s] \in Seq(Emits)
  BY DEF AsyncType, ClientType, SessionType
<1>2. HeldIds(s) \in Seq(Nat)
  <2>1. DOMAIN held[s] = 1..Len(held[s]) /\ Len(held[s]) \in Nat
    BY <1>1, LenProperties
  <2>2. \A i \in DOMAIN held[s] : held[s][i] \in Emits
    BY <1>1, <2>1
  <2>3. \A i \in DOMAIN held[s] : held[s][i].id \in Nat
    BY <2>2 DEF Emits
  <2> QED BY <2>1, <2>3 DEF HeldIds
<1>3. Arrived(s) \in Seq(Nat) /\ Len(Arrived(s)) \in Nat
  BY <1>1, <1>2, ConcatProperties, LenProperties DEF Arrived
<1>4. /\ Len(wire) \in Nat /\ DOMAIN wire = 1..Len(wire)
      /\ Len(queue) \in Nat /\ DOMAIN queue = 1..Len(queue)
  BY LenProperties DEF AsyncType, SessionType
<1>5. OnWire(s) \in SUBSET (1..Len(wire)) /\ InQueue(s) \in SUBSET (1..Len(queue))
  BY <1>4 DEF OnWire, InQueue
<1>6. Cardinality(OnWire(s)) \in Nat /\ Cardinality(InQueue(s)) \in Nat
  BY <1>4, <1>5, Ranks
<1>7. /\ InWorker(s) => Taken(s) = Len(Arrived(s)) + Cardinality(OnWire(s)) + 1
      /\ ~InWorker(s) => Taken(s) = Len(Arrived(s)) + Cardinality(OnWire(s))
  BY <1>3, <1>6 DEF Taken
<1>8. Taken(s) \in Nat
  BY <1>3, <1>6, <1>7
<1> QED BY <1>1, <1>2, <1>3, <1>4, <1>5, <1>6, <1>7, <1>8

(* A step that leaves the frames and the messages where they are, or that *)
(* ends the connection                                                    *)
LEMMA OrderStays ==
  ASSUME NEW s \in Subscriptions, InOrder(s), UNCHANGED <<accepted, received, held, wire>>,
         Live' => /\ Live /\ queue' = queue
                  /\ InWorker(s)' <=> InWorker(s)
                  /\ InWorker(s) => worker'.entry = worker.entry
  PROVE  InOrder(s)'
<1>1. Arrived(s)' = Arrived(s) /\ OnWire(s)' = OnWire(s)
  BY DEF Arrived, HeldIds, OnWire
<1>2. ArrivesInOrder(s)'
  BY <1>1, ArrivesIs DEF InOrder
<1>3. ASSUME Live' PROVE RestInOrder(s)'
  <2>1. InQueue(s)' = InQueue(s) /\ Taken(s)' = Taken(s)
    BY <1>1, <1>3 DEF InQueue, Taken
  <2> QED BY <1>3, <2>1, RestIs DEF InOrder
<1> QED BY <1>2, <1>3 DEF InOrder

(* The delivery task takes an entry. *)
LEMMA OrderTakes ==
  ASSUME Typed, NEW s \in Subscriptions, InOrder(s), WorkerTakes
  PROVE  InOrder(s)'
<1>1. AsyncType /\ queue \in Seq(Entries)
  BY DEF Typed, AsyncType, SessionType
<1>2. /\ worker.at = "get" /\ queue # <<>> /\ queue' = Tail(queue)
      /\ worker'.at = "send" /\ worker'.entry = Head(queue)
      /\ UNCHANGED <<accepted, received, held, wire, closed, gone>>
  BY DEF WorkerTakes, Takes, history, client
<1>3. /\ Head(queue) = queue[1] /\ 1 \in DOMAIN queue
      /\ DOMAIN queue' = 1..(Len(queue) - 1) /\ DOMAIN queue = 1..Len(queue)
      /\ \A i \in 1..(Len(queue) - 1) : queue'[i] = queue[i + 1] /\ i + 1 \in 1..Len(queue)
  BY <1>1, <1>2, HeadAndTail
<1>4. /\ Arrived(s)' = Arrived(s) /\ OnWire(s)' = OnWire(s)
      /\ InQueue(s)' = OfTail(Len(queue), InQueue(s))
      /\ ~InWorker(s) /\ (InWorker(s)' <=> 1 \in InQueue(s))
  BY <1>2, <1>3 DEF Arrived, HeldIds, OnWire, InQueue, OfTail, InWorker
<1>5. ArrivesInOrder(s)'
  BY <1>2, <1>4, ArrivesIs DEF InOrder
<1>6. ASSUME Live' PROVE RestInOrder(s)'
  <2>1. Rest(accepted[s], Taken(s), InQueue(s), queue)
    BY <1>2, <1>6, RestIs DEF InOrder, Live
  <2> DEFINE rest == InQueue(s)'
  <2>2. /\ 1 \notin InQueue(s) => Rest(accepted[s], Taken(s), rest, Tail(queue))
        /\ 1 \in InQueue(s) => /\ Rest(accepted[s], Taken(s) + 1, rest, Tail(queue))
                               /\ accepted[s][Taken(s) + 1] = queue[1].message.id
    <3>1. rest = OfTail(Len(queue), InQueue(s))
      BY <1>4
    <3> HIDE DEF rest
    <3> QED BY <1>1, <1>2, <2>1, <3>1, OrderShape, RestTaken
  <2>3. /\ Taken(s)' = Len(Arrived(s)) + Cardinality(OnWire(s))
                         + (IF InWorker(s)' THEN 1 ELSE 0)
    BY <1>4 DEF Taken
  <2>4. /\ 1 \notin InQueue(s) => Taken(s)' = Taken(s)
        /\ 1 \in InQueue(s) => Taken(s)' = Taken(s) + 1
    BY <1>1, <1>4, <2>3, OrderShape
  <2> QED BY <1>2, <1>3, <1>4, <2>2, <2>4, RestIs
<1> QED BY <1>5, <1>6 DEF InOrder

(* What a frame adds to the places on the wire *)
LEMMA WireAdds ==
  ASSUME AsyncType, NEW s \in Subscriptions, NEW frame \in ClientFrames,
         wire' = Append(wire, frame)
  PROVE  LET p == Len(wire) + 1
             delivery == frame.kind = "delivery" /\ frame.subscription = s
         IN /\ wire'[p] = frame
            /\ delivery => Adds(OnWire(s), p, wire, OnWire(s)', wire')
            /\ ~delivery => OnWire(s)' = OnWire(s)
            /\ \A i \in OnWire(s) : wire'[i] = wire[i]
<1>1. PICK p : p = Len(wire) + 1
  OBVIOUS
<1>2. /\ p \in Nat \ {0} /\ p - 1 = Len(wire) /\ DOMAIN wire = 1..Len(wire)
      /\ DOMAIN wire' = 1..(Len(wire) + 1)
      /\ \A i \in DOMAIN wire : wire'[i] = wire[i]
      /\ wire'[p] = frame
  BY <1>1, Appended DEF AsyncType
<1>3. DOMAIN wire' = DOMAIN wire \cup {p}
  BY <1>1, <1>2
<1>4. OnWire(s) \in SUBSET (1..(p - 1)) /\ \A i \in OnWire(s) : wire'[i] = wire[i]
  BY <1>2 DEF OnWire
<1>5. OnWire(s)' = IF frame.kind = "delivery" /\ frame.subscription = s
                   THEN OnWire(s) \cup {p} ELSE OnWire(s)
  BY <1>2, <1>3 DEF OnWire
<1>6. frame.kind = "delivery" /\ frame.subscription = s
        => Adds(OnWire(s), p, wire, OnWire(s)', wire')
  BY <1>2, <1>4, <1>5 DEF Adds
<1> QED BY <1>1, <1>2, <1>4, <1>5, <1>6

(* A frame is sent that is no delivery for the subscription. *)
LEMMA OrderOther ==
  ASSUME AsyncType, NEW s \in Subscriptions, InOrder(s), NEW frame \in ClientFrames,
         wire' = Append(wire, frame), ~(frame.kind = "delivery" /\ frame.subscription = s),
         UNCHANGED <<accepted, received, held, queue, closed, gone>>,
         InWorker(s)' <=> InWorker(s), InWorker(s) => worker'.entry = worker.entry
  PROVE  InOrder(s)'
<1>1. OnWire(s)' = OnWire(s) /\ \A i \in OnWire(s) : wire'[i] = wire[i]
  BY WireAdds
<1>2. /\ Arrived(s)' = Arrived(s) /\ InQueue(s)' = InQueue(s) /\ Taken(s)' = Taken(s)
      /\ (Live' <=> Live)
  BY <1>1 DEF Arrived, HeldIds, InQueue, Taken, Live
<1>3. Came(accepted[s], Arrived(s), OnWire(s), wire')
  <2>1. Came(accepted[s], Arrived(s), OnWire(s), wire)
    BY ArrivesIs DEF InOrder
  <2> QED BY <1>1, <2>1 DEF Came, InPlace
<1>4. ArrivesInOrder(s)'
  BY <1>1, <1>2, <1>3, ArrivesIs
<1>5. Live => RestInOrder(s)'
  BY <1>2, RestIs DEF InOrder
<1> QED BY <1>2, <1>4, <1>5 DEF InOrder

(* The delivery task sends the subscription's delivery. *)
LEMMA OrderSent ==
  ASSUME AsyncType, NEW s \in Subscriptions, InOrder(s), Live, InWorker(s),
         worker.entry \in Entries, wire' = Append(wire, Delivery(worker.entry)),
         UNCHANGED <<accepted, received, held, queue>>, ~InWorker(s)'
  PROVE  InOrder(s)'
<1> DEFINE frame == Delivery(worker.entry)
           V == OnWire(s)'
           ids == accepted[s]
           got == Arrived(s)
           W == OnWire(s)
<1>1. /\ frame \in ClientFrames /\ frame.kind = "delivery" /\ frame.subscription = s
      /\ frame.message.id = worker.entry.message.id
  BY DEF Delivery, ClientFrames, Deliveries, Entries, InWorker
<1> HIDE DEF frame
<1>2. PICK p : p = Len(wire) + 1
  OBVIOUS
<1>3. wire'[p] = frame /\ Adds(W, p, wire, V, wire')
  BY <1>1, <1>2, WireAdds DEF frame
<1>4. /\ Came(ids, got, W, wire) /\ Rest(ids, Taken(s), InQueue(s), queue)
      /\ ids[Taken(s)] = worker.entry.message.id
  BY ArrivesIs, RestIs DEF InOrder
<1>5. /\ ids \in Seq(Nat) /\ got \in Seq(Nat) /\ Len(got) \in Nat /\ Cardinality(W) \in Nat
      /\ Cardinality(InQueue(s)) \in Nat /\ Taken(s) = Len(got) + Cardinality(W) + 1
  BY OrderShape
<1>6. /\ Arrived(s)' = got /\ InQueue(s)' = InQueue(s)
      /\ Taken(s)' = Len(got) + Cardinality(V) + 0
  <2>1. Arrived(s)' = got /\ InQueue(s)' = InQueue(s)
    BY DEF Arrived, HeldIds, InQueue
  <2>2. Taken(s)' = Len(got) + Cardinality(V) + 0
    BY <2>1 DEF Taken
  <2> QED BY <2>1, <2>2
<1> HIDE DEF V, W, ids, got
<1>7. Len(got) + Cardinality(W) + 1 <= Len(ids)
      /\ ids[Len(got) + Cardinality(W) + 1] = wire'[p].message.id
  <2>1. Len(ids) = Taken(s) + Cardinality(InQueue(s))
    BY <1>4 DEF Rest
  <2>2. \A a, b \in Nat : a <= a + b
    OBVIOUS
  <2> QED BY <1>1, <1>3, <1>4, <1>5, <2>1, <2>2
<1>8. Came(ids, got, V, wire') /\ Cardinality(V) = Cardinality(W) + 1
  <2>1. /\ ids \in Seq(Nat) /\ got \in Seq(Nat) /\ Adds(W, p, wire, V, wire')
        /\ Came(ids, got, W, wire)
    BY <1>3, <1>4, <1>5
  <2>2. PICK longer : longer = wire'
    OBVIOUS
  <2>3. PICK more : more = V
    OBVIOUS
  <2>4. /\ Adds(W, p, wire, more, longer)
        /\ ids[Len(got) + Cardinality(W) + 1] = longer[p].message.id
    BY <1>7, <2>1, <2>2, <2>3
  <2>5. Came(ids, got, more, longer) /\ Cardinality(more) = Cardinality(W) + 1
    BY <1>7, <2>1, <2>4, CameSent
  <2> QED BY <2>2, <2>3, <2>5
<1>9. Taken(s)' = Taken(s)
  BY <1>5, <1>6, <1>8
<1>10. ArrivesInOrder(s)'
  BY <1>6, <1>8, ArrivesIs DEF ids, got, V
<1>11. RestInOrder(s)'
  <2>1. accepted'[s] = ids
    BY DEF ids
  <2> QED BY <1>4, <1>6, <1>9, <2>1, RestIs
<1> QED BY <1>10, <1>11 DEF InOrder

(* The target puts a message in the queue. *)
LEMMA QueueAdds ==
  ASSUME AsyncType, NEW s \in Subscriptions, NEW message \in Emits,
         NEW taken \in Seq(Subscriptions), Accept(taken, message),
         \A i, j \in 1..Len(taken) : taken[i] = taken[j] => i = j
  PROVE  \/ /\ accepted'[s] = Append(accepted[s], message.id)
            /\ \E p : /\ queue'[p].message = message
                      /\ Adds(InQueue(s), p, queue, InQueue(s)', queue')
         \/ /\ accepted'[s] = accepted[s] /\ InQueue(s)' = InQueue(s)
            /\ \A i \in InQueue(s) : queue'[i] = queue[i]
<1>1. /\ queue' \in Seq(Entries) /\ Len(queue') = Len(queue) + Len(taken)
      /\ \A i \in 1..Len(queue) : queue'[i] = queue[i]
      /\ \A i \in 1..Len(taken) :
           queue'[Len(queue) + i] = [subscription |-> taken[i], message |-> message]
      /\ accepted'[s] = IF s \in ToSet(taken)
                        THEN Append(accepted[s], message.id) ELSE accepted[s]
  <2>1. /\ queue' \in Seq(Entries) /\ Len(queue') = Len(queue) + Len(taken)
        /\ \A i \in 1..Len(queue) : queue'[i] = queue[i]
        /\ \A i \in 1..Len(taken) :
             queue'[Len(queue) + i] = [subscription |-> taken[i], message |-> message]
        /\ \A r \in Subscriptions :
             accepted'[r] = IF r \in ToSet(taken)
                            THEN Append(accepted[r], message.id) ELSE accepted[r]
    BY Accepting, Zenon
  <2> QED BY <2>1, Zenon
<1>2. /\ Len(queue) \in Nat /\ DOMAIN queue = 1..Len(queue) /\ Len(taken) \in Nat
      /\ DOMAIN taken = 1..Len(taken) /\ DOMAIN queue' = 1..(Len(queue) + Len(taken))
  BY <1>1, LenProperties DEF AsyncType, SessionType
<1>3. \A i \in DOMAIN queue' : i \in DOMAIN queue \/ \E k \in 1..Len(taken) : i = Len(queue) + k
  <2>1. \A a, b \in Nat : \A i \in 1..(a + b) :
          i \in 1..a \/ (i - a \in 1..b /\ i = a + (i - a))
    OBVIOUS
  <2>2. \A i \in DOMAIN queue' : \/ i \in DOMAIN queue
                                 \/ /\ i - Len(queue) \in 1..Len(taken)
                                    /\ i = Len(queue) + (i - Len(queue))
    BY <1>2, <2>1
  <2> QED BY <2>2, Zenon
<1>4. \A k \in 1..Len(taken) : Len(queue) + k \in DOMAIN queue'
  BY <1>2
<1>5. DOMAIN queue \subseteq DOMAIN queue'
  BY <1>2
<1>6. \A i \in InQueue(s) : queue'[i] = queue[i]
  BY <1>1, <1>2 DEF InQueue
<1>7. \A i \in DOMAIN queue : i \in InQueue(s)' <=> i \in InQueue(s)
  BY <1>1, <1>2, <1>5 DEF InQueue
<1>8. \A k \in 1..Len(taken) : Len(queue) + k \in InQueue(s)' <=> taken[k] = s
  <2> SUFFICES ASSUME NEW k \in 1..Len(taken)
               PROVE  Len(queue) + k \in InQueue(s)' <=> taken[k] = s
    OBVIOUS
  <2>1. queue'[Len(queue) + k].subscription = taken[k]
    <3>1. queue'[Len(queue) + k] = [subscription |-> taken[k], message |-> message]
      BY <1>1
    <3> QED BY <3>1
  <2>2. Len(queue) + k \in DOMAIN queue'
    BY <1>4
  <2>3. InQueue(s)' = {i \in DOMAIN queue' : queue'[i].subscription = s}
    BY DEF InQueue
  <2> QED BY <2>1, <2>2, <2>3
<1>9. InQueue(s)' \subseteq DOMAIN queue' /\ InQueue(s) \subseteq DOMAIN queue
  BY DEF InQueue
<1>10. ASSUME NEW k \in 1..Len(taken), taken[k] = s
       PROVE  /\ accepted'[s] = Append(accepted[s], message.id)
              /\ \E p : /\ queue'[p].message = message
                        /\ Adds(InQueue(s), p, queue, InQueue(s)', queue')
  <2> DEFINE S == InQueue(s)
             T == InQueue(s)'
  <2>1. s \in ToSet(taken)
    BY <1>2, <1>10 DEF ToSet
  <2>2. PICK p : p = Len(queue) + k
    OBVIOUS
  <2>3. /\ p \in Nat \ {0} /\ 1..Len(queue) \subseteq 1..(p - 1)
    BY <1>2, <2>2
  <2>4. queue'[p].message = message
    <3>1. queue'[Len(queue) + k] = [subscription |-> taken[k], message |-> message]
      BY <1>1
    <3> QED BY <2>2, <3>1
  <2>5. T = S \cup {p}
    <3>1. \A j \in 1..Len(taken) : taken[j] = s => j = k
      BY <1>10
    <3> HIDE DEF S, T
    <3>2. \A i \in DOMAIN queue : i \in T <=> i \in S
      BY <1>7 DEF S, T
    <3>3. \A j \in 1..Len(taken) : Len(queue) + j \in T <=> taken[j] = s
      BY <1>8 DEF S, T
    <3>4. T \subseteq DOMAIN queue' /\ S \subseteq DOMAIN queue
      BY <1>9 DEF S, T
    <3>5. \A i \in T : i \in S \/ i = p
      <4> SUFFICES ASSUME NEW i \in T, i \notin S PROVE i = p
        OBVIOUS
      <4>1. PICK j \in 1..Len(taken) : i = Len(queue) + j
        BY <1>3, <3>2, <3>4
      <4>2. j = k
        BY <3>1, <3>3, <4>1
      <4> QED BY <2>2, <4>1, <4>2
    <3>6. p \in T /\ S \subseteq T
      BY <1>10, <2>2, <3>2, <3>3, <3>4
    <3> QED BY <3>5, <3>6
  <2>6. S \in SUBSET (1..(p - 1))
    BY <1>2, <1>9, <2>3
  <2>7. Adds(S, p, queue, T, queue')
    BY <1>6, <2>3, <2>5, <2>6 DEF Adds
  <2> QED BY <1>1, <2>1, <2>4, <2>7
<1>11. ASSUME \A k \in 1..Len(taken) : taken[k] # s
       PROVE  accepted'[s] = accepted[s] /\ InQueue(s)' = InQueue(s)
  <2>1. s \notin ToSet(taken)
    BY <1>2, <1>11 DEF ToSet
  <2> DEFINE S == InQueue(s)
             T == InQueue(s)'
  <2> HIDE DEF S, T
  <2>2. \A i \in T : i \in S
    BY <1>3, <1>7, <1>8, <1>9, <1>11 DEF S, T
  <2>3. \A i \in S : i \in T
    BY <1>7, <1>9 DEF S, T
  <2>4. T = S
    BY <2>2, <2>3
  <2> QED BY <1>1, <2>1, <2>4 DEF S, T
<1> QED BY <1>6, <1>10, <1>11

LEMMA OrderEmits ==
  ASSUME AsyncType, NEW s \in Subscriptions, InOrder(s), NEW message \in Emits,
         Deliver(message), UNCHANGED <<received, held, wire, gone>>
  PROVE  InOrder(s)'
<1>1. PICK taken \in Seq(Subscriptions) :
        /\ Accept(taken, message)
        /\ \A i, j \in 1..Len(taken) : taken[i] = taken[j] => i = j
        /\ Enqueues(message, taken) \/ Overflows(message)
  BY Delivering
<1>2. /\ Arrived(s)' = Arrived(s) /\ OnWire(s)' = OnWire(s)
      /\ Live' => /\ Live /\ (InWorker(s)' <=> InWorker(s))
                  /\ InWorker(s) => worker'.entry = worker.entry
  <2>1. Arrived(s)' = Arrived(s) /\ OnWire(s)' = OnWire(s)
    BY DEF Arrived, HeldIds, OnWire
  <2>2. Live' => Enqueues(message, taken)
    BY <1>1 DEF Live, Overflows
  <2>3. Enqueues(message, taken) => /\ Live' <=> Live
                                    /\ worker' = worker \/ worker.at = "none"
                                    /\ worker' = worker \/ worker'.at = "get"
    BY DEF Enqueues, Live, At
  <2> QED BY <2>1, <2>2, <2>3 DEF InWorker
<1>3. Live' => Taken(s)' = Taken(s)
  BY <1>2 DEF Taken
<1>4. Came(accepted[s], Arrived(s), OnWire(s), wire)
  BY ArrivesIs DEF InOrder
<1>5. CASE /\ accepted'[s] = accepted[s] /\ InQueue(s)' = InQueue(s)
           /\ \A i \in InQueue(s) : queue'[i] = queue[i]
  <2>1. ArrivesInOrder(s)'
    BY <1>2, <1>4, <1>5, ArrivesIs
  <2>2. ASSUME Live' PROVE RestInOrder(s)'
    <3>1. Rest(accepted[s], Taken(s), InQueue(s), queue)
      BY <1>2, <2>2, RestIs DEF InOrder
    <3>2. Rest(accepted[s], Taken(s), InQueue(s), queue')
      BY <1>5, <3>1 DEF Rest, InPlace
    <3> QED BY <1>2, <1>3, <1>5, <2>2, <3>2, RestIs DEF InOrder
  <2> QED BY <2>1, <2>2 DEF InOrder
<1>6. ASSUME NEW p, queue'[p].message = message,
             accepted'[s] = Append(accepted[s], message.id),
             Adds(InQueue(s), p, queue, InQueue(s)', queue')
      PROVE  InOrder(s)'
  <2>1. message.id \in Nat
    BY DEF Emits
  <2>2. ArrivesInOrder(s)'
    <3>1. Came(Append(accepted[s], message.id), Arrived(s), OnWire(s), wire)
      BY <1>4, <2>1, OrderShape, CameMore
    <3> QED BY <1>2, <1>6, <3>1, ArrivesIs
  <2>3. ASSUME Live' PROVE RestInOrder(s)'
    <3>1. Rest(accepted[s], Taken(s), InQueue(s), queue)
      BY <1>2, <2>3, RestIs DEF InOrder
    <3>2. PICK longer : longer = queue'
      OBVIOUS
    <3>3. PICK more : more = InQueue(s)'
      OBVIOUS
    <3>4. Adds(InQueue(s), p, queue, more, longer)
          /\ longer[p].message.id = message.id
      BY <1>6, <3>2, <3>3
    <3>5. accepted[s] \in Seq(Nat) /\ Taken(s) \in Nat
      BY OrderShape
    <3>6. Rest(Append(accepted[s], longer[p].message.id), Taken(s), more, longer)
      BY <2>1, <3>1, <3>4, <3>5, RestAdded
    <3>7. Rest(accepted'[s], Taken(s), InQueue(s)', queue')
      BY <1>6, <3>2, <3>3, <3>4, <3>6
    <3>8. InWorker(s) => accepted'[s][Taken(s)] = accepted[s][Taken(s)]
      <4> SUFFICES ASSUME InWorker(s)
                   PROVE  accepted'[s][Taken(s)] = accepted[s][Taken(s)]
        OBVIOUS
      <4>1. /\ Taken(s) \in Nat /\ Taken(s) >= 1 /\ Cardinality(InQueue(s)) \in Nat
            /\ Len(accepted[s]) = Taken(s) + Cardinality(InQueue(s))
        BY <3>1, OrderShape DEF Rest
      <4>2. \A a, b \in Nat : a >= 1 => a \in 1..(a + b)
        OBVIOUS
      <4>3. Taken(s) \in 1..Len(accepted[s])
        BY <4>1, <4>2
      <4>4. \A k \in 1..Len(accepted[s]) :
              Append(accepted[s], message.id)[k] = accepted[s][k]
        BY <2>1, <3>5, Appended
      <4> QED BY <1>6, <4>3, <4>4
    <3> QED BY <1>2, <1>3, <2>3, <3>7, <3>8, RestIs DEF InOrder
  <2> QED BY <2>2, <2>3 DEF InOrder
<1> QED BY <1>1, <1>5, <1>6, QueueAdds

(* What the client has of a subscription, when it reads a frame *)
LEMMA IdsAppended ==
  ASSUME NEW list \in Seq(Emits), NEW m \in Emits
  PROVE  [i \in DOMAIN Append(list, m) |-> Append(list, m)[i].id]
            = Append([i \in DOMAIN list |-> list[i].id], m.id)
<1> DEFINE more == Append(list, m)
           ids == [i \in DOMAIN list |-> list[i].id]
<1>1. /\ Len(list) \in Nat /\ DOMAIN list = 1..Len(list)
      /\ DOMAIN more = 1..(Len(list) + 1)
      /\ \A i \in DOMAIN list : more[i] = list[i]
      /\ more[Len(list) + 1] = m
  BY Appended
<1>2. \A i \in DOMAIN list : list[i] \in Emits
  BY <1>1
<1>3. ids \in Seq(Nat) /\ Len(ids) = Len(list) /\ m.id \in Nat
  <2>1. \A i \in DOMAIN list : list[i].id \in Nat
    BY <1>2 DEF Emits
  <2>2. m.id \in Nat
    BY DEF Emits
  <2> QED BY <1>1, <2>1, <2>2
<1>4. /\ DOMAIN Append(ids, m.id) = 1..(Len(list) + 1)
      /\ \A i \in 1..Len(list) : Append(ids, m.id)[i] = list[i].id
      /\ Append(ids, m.id)[Len(list) + 1] = m.id
      /\ Append(ids, m.id) \in Seq(Nat)
  <2>1. \A i \in 1..Len(list) : ids[i] = list[i].id
    BY <1>1
  <2> HIDE DEF ids
  <2>2. /\ DOMAIN Append(ids, m.id) = 1..(Len(ids) + 1)
        /\ \A i \in 1..Len(ids) : Append(ids, m.id)[i] = ids[i]
        /\ Append(ids, m.id)[Len(ids) + 1] = m.id
        /\ Append(ids, m.id) \in Seq(Nat)
    BY <1>3, Appended
  <2> QED BY <1>3, <2>1, <2>2
<1> HIDE DEF more
<1>5. \A a \in Nat : \A i \in 1..(a + 1) : i \in 1..a \/ i = a + 1
  OBVIOUS
<1> DEFINE f == [i \in DOMAIN more |-> more[i].id]
           g == Append(ids, m.id)
<1>6. \A i \in 1..(Len(list) + 1) : f[i] = g[i]
  <2> HIDE DEF g
  <2> QED BY <1>1, <1>4, <1>5 DEF g
<1>7. DOMAIN f = 1..(Len(list) + 1) /\ DOMAIN g = 1..(Len(list) + 1)
  BY <1>1, <1>4
<1>8. f = [i \in DOMAIN f |-> f[i]] /\ g = [i \in DOMAIN g |-> g[i]]
  BY <1>4
<1> HIDE DEF f, g
<1>9. f = g
  BY <1>6, <1>7, <1>8
<1> QED BY <1>9 DEF f, g, more

LEMMA IdsTaken ==
  ASSUME NEW list \in Seq(Emits), list # <<>>
  PROVE  LET ids == [i \in DOMAIN list |-> list[i].id]
         IN /\ ids \in Seq(Nat) /\ ids # <<>> /\ Head(ids) = Head(list).id
            /\ [i \in DOMAIN Tail(list) |-> Tail(list)[i].id] = Tail(ids)
<1> DEFINE rest == Tail(list)
           ids == [i \in DOMAIN list |-> list[i].id]
           n == Len(list)
<1>1. /\ n \in Nat \ {0} /\ DOMAIN list = 1..n /\ Head(list) = list[1]
      /\ DOMAIN rest = 1..(n - 1) /\ \A i \in 1..(n - 1) : rest[i] = list[i + 1]
  BY HeadAndTail
<1>2. ids \in Seq(Nat) /\ Len(ids) = n
  <2>1. \A i \in DOMAIN list : list[i] \in Emits
    BY <1>1
  <2>2. \A i \in DOMAIN list : list[i].id \in Nat
    BY <2>1 DEF Emits
  <2> HIDE DEF n
  <2> QED BY <1>1, <2>2
<1>3. \A i \in 1..n : ids[i] = list[i].id
  BY <1>1
<1> HIDE DEF ids, rest, n
<1>4. ids # <<>>
  BY <1>1, <1>2
<1>5. /\ Head(ids) = ids[1] /\ Tail(ids) \in Seq(Nat) /\ DOMAIN Tail(ids) = 1..(n - 1)
      /\ \A i \in 1..(n - 1) : Tail(ids)[i] = ids[i + 1]
  BY <1>2, <1>4, HeadAndTail
<1>6. 1 \in 1..n /\ \A i \in 1..(n - 1) : i + 1 \in 1..n
  BY <1>1
<1>7. Head(ids) = Head(list).id
  BY <1>1, <1>3, <1>5, <1>6
<1> DEFINE f == [i \in DOMAIN rest |-> rest[i].id]
           g == Tail(ids)
<1>8. \A i \in 1..(n - 1) : f[i] = g[i]
  BY <1>1, <1>3, <1>5, <1>6
<1>9. DOMAIN f = 1..(n - 1) /\ DOMAIN g = 1..(n - 1)
  BY <1>1, <1>5
<1>10. f = [i \in DOMAIN f |-> f[i]] /\ g = [i \in DOMAIN g |-> g[i]]
  <2>1. f = [i \in DOMAIN f |-> f[i]]
    OBVIOUS
  <2>2. g \in Seq(Nat)
    BY <1>5
  <2> HIDE DEF f, g
  <2>3. g = [i \in DOMAIN g |-> g[i]]
    BY <2>2
  <2> QED BY <2>1, <2>3
<1> HIDE DEF f, g
<1>11. f = g
  BY <1>8, <1>9, <1>10
<1> QED BY <1>2, <1>4, <1>7, <1>11 DEF f, g, rest, ids

LEMMA IdQueues ==
  ASSUME NEW r \in Seq(Nat), NEW h \in Seq(Nat), NEW m \in Nat
  PROVE  /\ r \o Append(h, m) = Append(r \o h, m)
         /\ h = <<>> => Append(r, m) \o h = Append(r \o h, m)
         /\ h # <<>> => Append(r, Head(h)) \o Tail(h) = r \o h
<1>1. r \o Append(h, m) = Append(r \o h, m)
  BY TwoQueues
<1>2. h = <<>> => Append(r, m) \o h = Append(r \o h, m)
  BY TwoQueues
<1>3. h # <<>> => Append(r, Head(h)) \o Tail(h) = r \o h
  BY TwoQueues
<1> QED BY <1>1, <1>2, <1>3

LEMMA ArrivedRead ==
  ASSUME AsyncType, NEW s \in Subscriptions, NEW q \in Subscriptions, NEW m \in Emits,
         \/ held' = [held EXCEPT ![q] = Append(@, m)] /\ received' = received
         \/ /\ received' = [received EXCEPT ![q] = Append(@, m.id)] /\ held' = held
            /\ held[q] = <<>>
  PROVE  Arrived(s)' = IF s = q THEN Append(Arrived(s), m.id) ELSE Arrived(s)
<1>1. /\ received \in [Subscriptions -> Seq(Nat)] /\ held \in [Subscriptions -> Seq(Emits)]
      /\ received[s] \in Seq(Nat) /\ held[s] \in Seq(Emits) /\ HeldIds(s) \in Seq(Nat)
      /\ m.id \in Nat
  BY OrderShape DEF AsyncType, ClientType, Emits
<1>2. CASE s # q
  <2>1. received'[s] = received[s] /\ held'[s] = held[s]
    BY <1>1, <1>2
  <2> QED BY <1>2, <2>1 DEF Arrived, HeldIds
<1>3. CASE s = q /\ received' = received /\ held' = [held EXCEPT ![q] = Append(@, m)]
  <2>1. held'[s] = Append(held[s], m)
    BY <1>1, <1>3
  <2>2. HeldIds(s)' = Append(HeldIds(s), m.id)
    BY <1>1, <2>1, IdsAppended DEF HeldIds
  <2>3. received[s] \o Append(HeldIds(s), m.id) = Append(received[s] \o HeldIds(s), m.id)
    BY <1>1, IdQueues, Zenon
  <2>4. Arrived(s)' = received[s] \o HeldIds(s)'
    BY <1>3 DEF Arrived
  <2> QED BY <1>3, <2>2, <2>3, <2>4 DEF Arrived
<1>4. CASE /\ s = q /\ held' = held /\ held[q] = <<>>
           /\ received' = [received EXCEPT ![q] = Append(@, m.id)]
  <2>1. received'[s] = Append(received[s], m.id) /\ HeldIds(s)' = HeldIds(s)
    BY <1>1, <1>4 DEF HeldIds
  <2>2. HeldIds(s) = <<>>
    BY <1>4 DEF HeldIds
  <2>3. Append(received[s], m.id) \o HeldIds(s) = Append(received[s] \o HeldIds(s), m.id)
    BY <1>1, <2>2, IdQueues, Zenon
  <2>4. Arrived(s)' = received'[s] \o HeldIds(s)'
    BY DEF Arrived
  <2> QED BY <1>4, <2>1, <2>3, <2>4 DEF Arrived
<1> QED BY <1>2, <1>3, <1>4

LEMMA ArrivedTaken ==
  ASSUME AsyncType, NEW s \in Subscriptions, NEW q \in Subscriptions, held[q] # <<>>,
         held' = [held EXCEPT ![q] = Tail(@)],
         received' = [received EXCEPT ![q] = Append(@, Head(held[q]).id)]
  PROVE  Arrived(s)' = Arrived(s)
<1>1. /\ received \in [Subscriptions -> Seq(Nat)] /\ held \in [Subscriptions -> Seq(Emits)]
      /\ received[s] \in Seq(Nat) /\ held[s] \in Seq(Emits)
  BY OrderShape DEF AsyncType, ClientType
<1>2. CASE s # q
  <2>1. received'[s] = received[s] /\ held'[s] = held[s]
    BY <1>1, <1>2
  <2>2. HeldIds(s)' = HeldIds(s)
    <3> DEFINE Ids(h) == [i \in DOMAIN h |-> h[i].id]
    <3>1. HeldIds(s) = Ids(held[s]) /\ HeldIds(s)' = Ids(held'[s])
      BY DEF HeldIds
    <3> HIDE DEF Ids
    <3> QED BY <2>1, <3>1
  <2>3. Arrived(s)' = received'[s] \o HeldIds(s)'
    BY DEF Arrived
  <2> QED BY <2>1, <2>2, <2>3 DEF Arrived
<1>3. CASE s = q
  <2>1. received'[s] = Append(received[s], Head(held[s]).id) /\ held'[s] = Tail(held[s])
    BY <1>1, <1>3
  <2>2. /\ HeldIds(s) \in Seq(Nat) /\ HeldIds(s) # <<>>
        /\ Head(HeldIds(s)) = Head(held[s]).id
        /\ HeldIds(s)' = Tail(HeldIds(s))
    BY <1>1, <1>3, <2>1, IdsTaken DEF HeldIds
  <2>3. Append(received[s], Head(HeldIds(s))) \o Tail(HeldIds(s)) = received[s] \o HeldIds(s)
    BY <1>1, <2>2, IdQueues, Zenon
  <2>4. Arrived(s)' = received'[s] \o HeldIds(s)'
    BY DEF Arrived
  <2> QED BY <2>1, <2>2, <2>3, <2>4 DEF Arrived
<1> QED BY <1>2, <1>3

(* The client reads a frame. *)
LEMMA OrderReads ==
  ASSUME AsyncType, ArrivalInv, NEW s \in Subscriptions, NEW ops, NEW frame,
         Reading(ops, frame),
         \/ frame.kind # "delivery" /\ UNCHANGED <<received, held>>
         \/ frame.kind = "delivery" /\ Keeps(frame) /\ UNCHANGED received
         \/ /\ frame.kind = "delivery" /\ UNCHANGED held
            /\ held[frame.subscription] = <<>>
            /\ Decode(frame.subscription, frame.message)
  PROVE  InOrder(s)'
<1> DEFINE delivery == frame.kind = "delivery" /\ frame.subscription = s
           V == OnWire(s)'
           W == OnWire(s)
           ids == accepted[s]
           got == Arrived(s)
<1>1. InOrder(s) /\ wire \in Seq(ClientFrames) /\ wire # <<>> /\ wire' = Tail(wire)
  BY ArrivalInvIs DEF ArrivalInv, Reading, AsyncType
<1>2. /\ frame = wire[1] /\ Len(wire) \in Nat \ {0} /\ DOMAIN wire = 1..Len(wire)
      /\ DOMAIN wire' = 1..(Len(wire) - 1) /\ frame \in ClientFrames
      /\ \A i \in 1..(Len(wire) - 1) : wire'[i] = wire[i + 1]
  BY FrameRead
<1>3. UNCHANGED <<accepted, queue, worker, closed, gone>>
  BY DEF Reading, session, tasks, history
<1>4. frame.kind = "delivery" => /\ frame.subscription \in Subscriptions
                                 /\ frame.message \in Emits /\ frame.message.id \in Nat
  BY <1>2, FrameKinds DEF Emits
<1>5. V = OfTail(Len(wire), W) /\ (1 \in W <=> delivery)
  <2>1. \A j \in 1..(Len(wire) - 1) : j + 1 \in 1..Len(wire) /\ 1 \in DOMAIN wire
    BY <1>2
  <2>2. 1 \in DOMAIN wire
    BY <1>2
  <2>3. 1 \in W <=> delivery
    BY <1>2, <2>2 DEF OnWire
  <2>4. V = {i \in 1..(Len(wire) - 1) : /\ wire[i + 1].kind = "delivery"
                                        /\ wire[i + 1].subscription = s}
    BY <1>2 DEF OnWire
  <2>5. V = OfTail(Len(wire), W)
    BY <1>2, <2>1, <2>4 DEF OnWire, OfTail
  <2> QED BY <2>3, <2>5
<1>6. /\ delivery => Arrived(s)' = Append(got, frame.message.id)
      /\ ~delivery => Arrived(s)' = got
  <2>1. CASE UNCHANGED <<received, held>> /\ frame.kind # "delivery"
    BY <2>1 DEF Arrived, HeldIds
  <2>2. CASE frame.kind = "delivery"
    BY <1>4, <2>2, ArrivedRead DEF Keeps, Decode
  <2> QED BY <2>1, <2>2
<1>7. /\ ids \in Seq(Nat) /\ got \in Seq(Nat) /\ W \in SUBSET (1..Len(wire))
      /\ Len(got) \in Nat /\ Cardinality(W) \in Nat
  BY OrderShape
<1>8. Came(ids, got, W, wire)
  BY <1>1, ArrivesIs DEF InOrder
<1>9. PICK more : more = V
  OBVIOUS
<1>10. /\ 1 \notin W => /\ Came(ids, got, more, Tail(wire))
                        /\ Cardinality(more) = Cardinality(W)
       /\ 1 \in W => /\ Came(ids, Append(got, frame.message.id), more, Tail(wire))
                     /\ Cardinality(more) + 1 = Cardinality(W)
  <2>1. more = OfTail(Len(wire), W)
    BY <1>5, <1>9
  <2>2. 1 \in W => wire[1].message.id \in Nat
    BY <1>2, <1>4, <1>5
  <2> HIDE DEF ids, got, W
  <2>3. /\ 1 \notin W => /\ Came(ids, got, more, Tail(wire))
                         /\ Cardinality(more) = Cardinality(W)
        /\ 1 \in W /\ wire[1].message.id \in Nat =>
             /\ Came(ids, Append(got, wire[1].message.id), more, Tail(wire))
             /\ Cardinality(more) + 1 = Cardinality(W)
    BY <1>1, <1>7, <1>8, <2>1, CameRead
  <2> QED BY <1>2, <2>2, <2>3
<1>11. ArrivesInOrder(s)'
  <2>1. Came(ids, Arrived(s)', V, wire')
    BY <1>1, <1>5, <1>6, <1>9, <1>10
  <2> QED BY <1>3, <2>1, ArrivesIs
<1>12. InQueue(s)' = InQueue(s) /\ (InWorker(s)' <=> InWorker(s)) /\ (Live' <=> Live)
  BY <1>3 DEF InQueue, InWorker, Live
<1>13. Len(Arrived(s)') + Cardinality(V) = Len(got) + Cardinality(W)
  <2>1. CASE ~delivery
    BY <1>5, <1>6, <1>9, <1>10, <2>1
  <2>2. CASE delivery
    <3>1. Len(Arrived(s)') = Len(got) + 1
      BY <1>4, <1>6, <1>7, <2>2, Appended
    <3>2. Cardinality(V) + 1 = Cardinality(W)
      BY <1>5, <1>9, <1>10, <2>2
    <3>3. Cardinality(V) \in Nat
      <4>1. V \in SUBSET (1..(Len(wire) - 1)) /\ Len(wire) - 1 \in Nat
        BY <1>2, <1>5 DEF OfTail
      <4> HIDE DEF V
      <4> QED BY <4>1, Ranks
    <3> QED BY <1>7, <3>1, <3>2, <3>3
  <2> QED BY <2>1, <2>2
<1>14. Taken(s)' = Taken(s)
  BY <1>12, <1>13 DEF Taken
<1>15. Live => RestInOrder(s)'
  BY <1>1, <1>3, <1>12, <1>14, RestIs DEF InOrder
<1> QED BY <1>11, <1>12, <1>15 DEF InOrder

LEMMA OrderInit == AsyncInit => ArrivalInv
<1> SUFFICES ASSUME AsyncInit PROVE ArrivalInv
  OBVIOUS
<1>1. ASSUME NEW s \in Subscriptions PROVE InOrder(s)
  <2>1. /\ accepted[s] = <<>> /\ received[s] = <<>> /\ held[s] = <<>>
        /\ OnWire(s) = {} /\ InQueue(s) = {} /\ ~InWorker(s)
    BY DEF AsyncInit, Nothing, OnWire, InQueue, InWorker, At
  <2>2. HeldIds(s) = <<>>
    BY <2>1 DEF HeldIds
  <2>3. Arrived(s) = <<>>
    BY <2>1, <2>2 DEF Arrived
  <2>4. Len(Arrived(s)) = 0 /\ DOMAIN Arrived(s) = {} /\ Len(accepted[s]) = 0
    BY <2>1, <2>3
  <2>5. Cardinality({}) = 0
    BY FS_EmptySet
  <2>6. Taken(s) = 0
    BY <2>1, <2>4, <2>5 DEF Taken
  <2> QED BY <2>1, <2>4, <2>5, <2>6 DEF InOrder, ArrivesInOrder, RestInOrder
<1>2. call.op # "receive"
  BY DEF AsyncInit, Idle
<1> QED BY <1>1, <1>2, ArrivalInvIs DEF ArrivalInv

(* Steps that end the connection, or that move tasks and calls only *)
LEMMA OrderQuiet ==
  ASSUME ArrivalInv, UNCHANGED <<accepted, received, held, wire>>,
         Live' => Live /\ queue' = queue /\ worker' = worker
  PROVE  NothingLostOrReordered'
BY OrderStays, ArrivalInvIs DEF ArrivalInv, InWorker

LEMMA OrderCut ==
  ASSUME ArrivalInv, AsyncType, ClientClose
  PROVE  NothingLostOrReordered'
<1> SUFFICES ASSUME NEW s \in Subscriptions PROVE InOrder(s)'
  BY ArrivalInvIs
<1>1. /\ ~Live' /\ wire' = <<>> /\ UNCHANGED <<accepted, received, held>>
  BY DEF ClientClose, Live, history
<1>2. Arrived(s)' = Arrived(s) /\ OnWire(s)' = {}
  BY <1>1 DEF Arrived, HeldIds, OnWire
<1>3. Came(accepted[s], Arrived(s), OnWire(s), wire)
  BY ArrivesIs, ArrivalInvIs DEF ArrivalInv, InOrder
<1>4. Cardinality({}) = 0 /\ Len(Arrived(s)) \in Nat /\ Cardinality(OnWire(s)) \in Nat
      /\ Len(accepted[s]) \in Nat
  BY OrderShape, FS_EmptySet, LenProperties
<1>5. Len(Arrived(s)) + Cardinality({}) <= Len(accepted[s])
  BY <1>3, <1>4 DEF Came
<1>6. Came(accepted[s], Arrived(s), {}, wire')
  BY <1>3, <1>5 DEF Came, InPlace
<1> QED BY <1>1, <1>2, <1>6, ArrivesIs DEF InOrder

LEMMA OrderHeld ==
  ASSUME ArrivalInv, AsyncType, NEW from \in Selections, ClientTakeHeld(from)
  PROVE  NothingLostOrReordered'
<1> SUFFICES ASSUME NEW s \in Subscriptions PROVE InOrder(s)'
  BY ArrivalInvIs
<1>1. PICK q \in from : /\ held[q] # <<>> /\ Decode(q, Head(held[q]))
                        /\ held' = [held EXCEPT ![q] = Tail(@)]
  BY DEF ClientTakeHeld
<1>2. UNCHANGED <<wire, closed, gone, queue, worker, accepted>>
  BY DEF ClientTakeHeld, Quiet, session, tasks, history
<1>3. q \in Subscriptions
  BY Bounds, LenProperties DEF Selections, AsyncType, SessionType
<1>4. Arrived(s)' = Arrived(s)
  BY <1>1, <1>3, ArrivedTaken DEF Decode
<1>5. /\ OnWire(s)' = OnWire(s) /\ InQueue(s)' = InQueue(s) /\ (Live' <=> Live)
      /\ (InWorker(s)' <=> InWorker(s)) /\ Taken(s)' = Taken(s)
  BY <1>2, <1>4 DEF OnWire, InQueue, Live, InWorker, Taken
<1> QED BY <1>2, <1>4, <1>5, ArrivesIs, RestIs, ArrivalInvIs DEF ArrivalInv, InOrder

LEMMA OrderSends ==
  ASSUME Typed, ArrivalInv, WorkerSends
  PROVE  NothingLostOrReordered'
<1> SUFFICES ASSUME NEW s \in Subscriptions PROVE InOrder(s)'
  BY ArrivalInvIs
<1> DEFINE frame == Head(worker.frames)
<1>1. AsyncType /\ InOrder(s)
  BY ArrivalInvIs DEF Typed, ArrivalInv
<1>2. /\ worker.at = "send" /\ Live /\ wire' = Append(wire, frame)
      /\ UNCHANGED <<accepted, received, held, queue, closed, gone>>
      /\ IF Len(worker.frames) > 1
         THEN worker' = [worker EXCEPT !.frames = Tail(@)]
         ELSE worker' = At("get")
  BY DEF WorkerSends, Live, history, client
<1>3. frame \in ClientFrames /\ worker.entry \in Entries
  BY <1>1, <1>2, FramesTyped
<1>4. \/ frame = Delivery(worker.entry) /\ ~(Len(worker.frames) > 1)
      \/ frame.kind = "registrations" /\ Len(worker.frames) > 1
  <2>1. CASE frame = Delivery(worker.entry) /\ Len(worker.frames) = 1
    BY <2>1
  <2>2. ASSUME NEW new, frame = Registrations(new), Len(worker.frames) = 2
        PROVE  frame.kind = "registrations" /\ Len(worker.frames) > 1
    <3>1. frame.kind = "registrations"
      BY <2>2 DEF Registrations
    <3> QED BY <2>2, <3>1
  <2> QED BY <1>1, <1>2, <2>1, <2>2, FramesToSend
<1> HIDE DEF frame
<1>5. CASE frame.kind = "registrations" /\ Len(worker.frames) > 1
  <2>1. worker'.at = "send" /\ worker'.entry = worker.entry
    <3>1. worker \in [at : {"send"}, entry : Entries, frames : Seq(ClientFrames)]
      BY <1>1, <1>2 DEF AsyncType, SessionType, Workers
    <3> QED BY <1>2, <1>5, <3>1
  <2> QED BY <1>1, <1>2, <1>3, <1>5, <2>1, OrderOther DEF InWorker
<1>6. CASE frame = Delivery(worker.entry) /\ ~(Len(worker.frames) > 1)
  <2>1. ~InWorker(s)'
    BY <1>2, <1>6 DEF InWorker, At
  <2>2. CASE InWorker(s)
    BY <1>1, <1>2, <1>3, <1>6, <2>1, <2>2, OrderSent
  <2>3. CASE ~InWorker(s)
    <3>1. ~(frame.kind = "delivery" /\ frame.subscription = s)
      BY <1>2, <1>6, <2>3 DEF Delivery, InWorker
    <3> QED BY <1>1, <1>2, <1>3, <2>1, <2>3, <3>1, OrderOther
  <2> QED BY <2>2, <2>3
<1> QED BY <1>4, <1>5, <1>6

(* A call that receives keeps nothing for the subscriptions it receives from. *)
HeldInv == call.op = "receive" => \A s \in call.from : held[s] = <<>>

LEMMA HeldNext == AsyncType /\ HeldInv /\ [AsyncNext]_asyncVars => HeldInv'
<1> SUFFICES ASSUME AsyncType, HeldInv, [AsyncNext]_asyncVars PROVE HeldInv'
  OBVIOUS
<1> USE DEF Quiet, session, tasks, history, client, Idle, Ended
<1>1. ASSUME NEW topic \in Topics, ClientSubscribe(topic) \/ ClientRegisterEmitter(topic)
      PROVE  HeldInv'
  BY <1>1 DEF HeldInv, ClientSubscribe, ClientRegisterEmitter
<1>2. ASSUME NEW topic \in Topics, NEW name \in Names \cup {Shared},
             ClientEmit(topic, name) \/ OtherEmits(topic, name)
      PROVE  HeldInv'
  BY <1>2 DEF HeldInv, ClientEmit, OtherEmits
<1>3. ASSUME NEW from \in Selections, ClientTakeHeld(from) \/ ClientReceive(from)
      PROVE  HeldInv'
  BY <1>3 DEF HeldInv, ClientTakeHeld, ClientReceive
<1>4. ASSUME ClientReadExpected PROVE HeldInv'
  BY <1>4 DEF HeldInv, ClientReadExpected, Reading
<1>5. ASSUME ClientReadCandidate PROVE HeldInv'
  <2>1. PICK frame : /\ Reading({"receive"}, frame)
                     /\ \/ held' = held /\ (call' = call \/ call' = Idle)
                        \/ /\ call' = call /\ frame.kind = "delivery" /\ Keeps(frame)
                           /\ frame.subscription \notin call.from
    BY <1>5 DEF ClientReadCandidate
  <2>2. CASE held' = held /\ (call' = call \/ call' = Idle)
    BY <2>2 DEF HeldInv
  <2>3. CASE /\ call' = call /\ frame.kind = "delivery" /\ Keeps(frame)
             /\ frame.subscription \notin call.from
    <3>1. /\ call \in ClientCalls /\ call.op = "receive"
          /\ held \in [Subscriptions -> Seq(Emits)]
      BY <2>1 DEF AsyncType, ClientType, Reading
    <3>2. call.from \subseteq Subscriptions
      BY <3>1 DEF ClientCalls
    <3>3. \A q \in call.from : held'[q] = held[q]
      BY <2>3, <3>1, <3>2 DEF Keeps
    <3> QED BY <2>3, <3>1, <3>3 DEF HeldInv
  <2> QED BY <2>1, <2>2, <2>3
<1>6. ASSUME ClientReadsEnd \/ ClientStopsReceiving \/ ClientClose PROVE HeldInv'
  BY <1>6 DEF HeldInv, ClientReadsEnd, ClientStopsReceiving, ClientClose
<1>7. ASSUME ReaderStep PROVE HeldInv'
  BY <1>7 DEF HeldInv, ReaderStep, HandleSubscribe, HandleRegisterEmitter,
              HandleRegisterName, HandleEmit, HandleRefused, HandleRaises,
              DeliveriesDone, ReaderSends, ReaderSendFails, ReaderEnds
<1>8. ASSUME WorkerStep PROVE HeldInv'
  BY <1>8 DEF HeldInv, WorkerStep, WorkerTakes, Takes, WorkerSends, WorkerSendFails,
              WorkerFinished
<1>9. ASSUME RequestStop \/ UNCHANGED asyncVars PROVE HeldInv'
  BY <1>9 DEF HeldInv, RequestStop, asyncVars
<1> QED
  BY <1>1, <1>2, <1>3, <1>4, <1>5, <1>6, <1>7, <1>8, <1>9 DEF AsyncNext, ClientReads

LEMMA OrderNext == Typed /\ ArrivalInv /\ [AsyncNext]_asyncVars => ArrivalInv'
<1> SUFFICES ASSUME Typed, ArrivalInv, [AsyncNext]_asyncVars
             PROVE  NothingLostOrReordered'
  BY HeldNext DEF ArrivalInv, HeldInv, Typed
<1> USE DEF Quiet, session, tasks, history, client
<1>1. AsyncType /\ EndInv
  BY DEF Typed
<1>2. ASSUME NEW topic \in Topics, ClientSubscribe(topic) \/ ClientRegisterEmitter(topic)
      PROVE  NothingLostOrReordered'
  BY <1>2, OrderQuiet DEF ClientSubscribe, ClientRegisterEmitter, Live
<1>3. ASSUME NEW topic \in Topics, NEW name \in Names \cup {Shared}, ClientEmit(topic, name)
      PROVE  NothingLostOrReordered'
  BY <1>3, OrderQuiet DEF ClientEmit, Live
<1>4. ASSUME NEW topic \in Topics, NEW name \in Names \cup {Shared}, OtherEmits(topic, name)
      PROVE  NothingLostOrReordered'
  <2>1. Message(topic, name) \in Emits /\ Deliver(Message(topic, name))
    BY <1>1, <1>4, MessageType DEF OtherEmits
  <2> QED BY <1>1, <1>4, <2>1, OrderEmits, ArrivalInvIs DEF OtherEmits, ArrivalInv
<1>5. ASSUME NEW from \in Selections, ClientTakeHeld(from) \/ ClientReceive(from)
      PROVE  NothingLostOrReordered'
  <2>1. CASE ClientTakeHeld(from)
    BY <1>1, <2>1, OrderHeld
  <2>2. CASE ClientReceive(from)
    BY <2>2, OrderQuiet DEF ClientReceive, Live
  <2> QED BY <1>5, <2>1, <2>2
<1>6. ASSUME ClientReadExpected PROVE NothingLostOrReordered'
  <2>1. PICK frame : /\ Reading({"await", "register"}, frame)
                     /\ \/ frame.kind # "delivery" /\ UNCHANGED <<received, held>>
                        \/ frame.kind = "delivery" /\ Keeps(frame) /\ UNCHANGED received
    BY <1>6 DEF ClientReadExpected
  <2> QED BY <1>1, <2>1, OrderReads, ArrivalInvIs
<1>7. ASSUME ClientReadCandidate PROVE NothingLostOrReordered'
  <2>1. PICK frame : /\ Reading({"receive"}, frame)
                     /\ \/ frame.kind # "delivery" /\ UNCHANGED <<received, held>>
                        \/ frame.kind = "delivery" /\ Keeps(frame) /\ UNCHANGED received
                        \/ /\ frame.kind = "delivery" /\ UNCHANGED held
                           /\ frame.subscription \in call.from
                           /\ Decode(frame.subscription, frame.message)
    BY <1>7 DEF ClientReadCandidate
  <2>2. \A s \in call.from : held[s] = <<>>
    BY <2>1 DEF ArrivalInv, Reading
  <2> QED BY <1>1, <2>1, <2>2, OrderReads, ArrivalInvIs
<1>8. ASSUME ClientReadsEnd \/ ClientStopsReceiving PROVE NothingLostOrReordered'
  BY <1>8, OrderQuiet DEF ClientReadsEnd, ClientStopsReceiving, Live
<1>9. ASSUME ClientClose PROVE NothingLostOrReordered'
  BY <1>1, <1>9, OrderCut
<1>10. ASSUME \/ HandleSubscribe \/ HandleRegisterEmitter \/ HandleRegisterName
              \/ HandleRefused \/ DeliveriesDone
       PROVE  NothingLostOrReordered'
  BY <1>10, OrderQuiet
     DEF HandleSubscribe, HandleRegisterEmitter, HandleRegisterName, HandleRefused,
         DeliveriesDone, AnswersWith, Live
<1>11. ASSUME HandleEmit PROVE NothingLostOrReordered'
  <2> DEFINE message == Message(Head(requests).topic, Head(requests).name)
  <2>1. /\ Reads("emit") /\ Deliver(message) /\ UNCHANGED <<wire, received, held, gone>>
    BY <1>11 DEF HandleEmit
  <2>2. message \in Emits
    BY <1>1, <2>1, RequestRead, MessageType
  <2> HIDE DEF message
  <2> QED BY <1>1, <2>1, <2>2, OrderEmits, ArrivalInvIs DEF ArrivalInv
<1>12. ASSUME HandleRaises \/ ReaderSendFails \/ ReaderEnds \/ RequestStop
       PROVE  NothingLostOrReordered'
  <2>1. ~Live' /\ UNCHANGED <<accepted, received, held, wire>>
    BY <1>12 DEF HandleRaises, ReaderSendFails, ReaderEnds, RequestStop, Finish, Live
  <2> QED BY <2>1, OrderQuiet
<1>13. ASSUME ReaderSends PROVE NothingLostOrReordered'
  <2>1. /\ reader.at = "send" /\ wire' = Append(wire, reader.frame)
        /\ UNCHANGED <<accepted, received, held, queue, worker, closed, gone>>
    BY <1>13 DEF ReaderSends
  <2>2. reader.frame \in ClientFrames /\ reader.frame.kind # "delivery"
    BY <1>1, <2>1 DEF AsyncType, SessionType, Readers, ClientFrames, Replies, Results
  <2> QED BY <1>1, <2>1, <2>2, OrderOther, ArrivalInvIs DEF ArrivalInv, InWorker
<1>14. ASSUME WorkerTakes PROVE NothingLostOrReordered'
  BY <1>14, OrderTakes, ArrivalInvIs DEF ArrivalInv
<1>15. ASSUME WorkerSends PROVE NothingLostOrReordered'
  BY <1>15, OrderSends
<1>16. ASSUME WorkerSendFails \/ WorkerFinished PROVE NothingLostOrReordered'
  <2>1. ~Live' /\ UNCHANGED <<accepted, received, held, wire>>
    BY <1>16 DEF WorkerSendFails, WorkerFinished, Live
  <2> QED BY <2>1, OrderQuiet
<1>17. ASSUME UNCHANGED asyncVars PROVE NothingLostOrReordered'
  BY <1>17, OrderQuiet DEF asyncVars, connection, Live
<1> QED
  BY <1>2, <1>3, <1>4, <1>5, <1>6, <1>7, <1>8, <1>9, <1>10, <1>11, <1>12, <1>13,
     <1>14, <1>15, <1>16, <1>17
     DEF AsyncNext, ClientReads, ReaderStep, WorkerStep

(***************************************************************************)
(* Everything a subscription's target has put in the delivery queue comes  *)
(* to the client once and in order, and until the session ends nothing of  *)
(* it is missing between the target and the client's receiver              *)
(* (_run_deliveries, _take_queued_delivery_from, _receive_expected_frame). *)
(***************************************************************************)
THEOREM AsyncDeliveriesKeepOrder == AsyncSpec => []NothingLostOrReordered
<1> DEFINE Inv == Typed /\ ArrivalInv
<1>1. AsyncInit => Inv
  BY TypedInit, OrderInit
<1>2. Inv /\ [AsyncNext]_asyncVars => Inv'
  BY TypedNext, OrderNext
<1>3. Inv => NothingLostOrReordered
  BY DEF ArrivalInv
<1> QED BY <1>1, <1>2, <1>3, PTL DEF AsyncSpec

==============================================================================
