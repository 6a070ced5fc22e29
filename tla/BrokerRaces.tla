----------------------------- MODULE BrokerRaces -----------------------------
(***************************************************************************)
(* ropemother/broker/directcore.py under MessageBusService: one thread for *)
(* each session, all inside the same DirectBrokerCore.                     *)
(*                                                                         *)
(* Only the capture controller takes a lock.  Everything else is Python    *)
(* code that may lose the processor between two steps: the symbol tables   *)
(* are read and then written, and the receiver list is walked by index     *)
(* while others change it.  One kind of symbol (topics) stands for the     *)
(* four, the capture sink is active, every subscription matches every      *)
(* message, and a message is known by its sender and the sender's count;   *)
(* DirectBrokerCore has the rest of the core, with one thread.             *)
(***************************************************************************)
EXTENDS Naturals, Sequences, FiniteSets, SequencesExt

CONSTANTS Threads,      \* the sessions' reader threads
          TopicNames,
          Receivers,    \* delivery targets
          MaxMessages   \* bound on the messages a thread emits

VARIABLES
  table,           \* MessageSymbolRegistry._topic_ids
  registrations,   \* DirectBrokerCore._registrations
  log,             \* what the capture sink has stored
  receivers,       \* DirectBrokerCore._receivers
  opened,          \* the targets that have been subscribed
  inbox,
  pc,              \* where each thread is
  local,           \* each thread's local variables
  bound,           \* the topics each thread has bound, with their IDs
  emitted,         \* how many emissions each thread has begun
  due              \* history: the targets the emission in progress owes its
                   \* message while none is removed

vars == <<table, registrations, log, receivers, opened, inbox, pc, local, bound,
          emitted, due>>

registryVars == <<table, registrations>>
receiverVars == <<receivers, opened>>
threadVars == <<bound, emitted, due>>

Registration(name, id) == [record |-> "registration", name |-> name, id |-> id]

IsMessage(rec) == rec.record = "message"

Init ==
  /\ table = [n \in {} |-> 0]
  /\ registrations = <<>>
  /\ log = <<>>
  /\ receivers = <<>>
  /\ opened = {}
  /\ inbox = [r \in Receivers |-> <<>>]
  /\ pc = [t \in Threads |-> "idle"]
  /\ local = [t \in Threads |-> <<>>]
  /\ bound = [t \in Threads |-> {}]
  /\ emitted = [t \in Threads |-> 0]
  /\ due = [t \in Threads |-> {}]

Goto(t, label) == pc' = [pc EXCEPT ![t] = label]

(* A call begins with fresh locals, goes on with some of them changed, *)
(* and leaves none behind.                                             *)
Set(t, values) == local' = [local EXCEPT ![t] = values]

Return(t) == Goto(t, "idle") /\ Set(t, <<>>)

------------------------------------------------------------------------------
(* bind_emitter: _ensure_symbol_id and _capture_symbol_event. *)

LookUpSymbol(t, name) ==
  /\ pc[t] = "idle"
  /\ name \notin {b.name : b \in bound[t]}
  /\ \/ /\ name \in DOMAIN table
        /\ bound' = [bound EXCEPT
                        ![t] = @ \cup {[name |-> name, id |-> table[name]]}]
        /\ UNCHANGED <<pc, local>>
     \/ /\ name \notin DOMAIN table
        /\ Goto(t, "allocate")
        /\ Set(t, [name |-> name])
        /\ UNCHANGED bound
  /\ UNCHANGED <<registryVars, log, receiverVars, inbox, emitted, due>>

AllocateId(t) ==
  /\ pc[t] = "allocate"
  /\ Set(t, [name |-> local[t].name, id |-> Cardinality(DOMAIN table)])
  /\ Goto(t, "store")
  /\ UNCHANGED <<registryVars, log, receiverVars, inbox, threadVars>>

StoreId(t) ==
  /\ pc[t] = "store"
  /\ table' = [n \in DOMAIN table \cup {local[t].name} |->
                 IF n = local[t].name THEN local[t].id ELSE table[n]]
  /\ Goto(t, "list")
  /\ UNCHANGED <<registrations, log, receiverVars, inbox, local,
                 threadVars>>

(* Mutant: the registration is listed and never written. *)
ListRegistration_uncaptured(t) ==
  /\ pc[t] = "list"
  /\ registrations' =
       Append(registrations, Registration(local[t].name, local[t].id))
  /\ bound' = [bound EXCEPT ![t] = @ \cup {local[t]}]
  /\ Return(t)
  /\ UNCHANGED <<table, log, receiverVars, inbox, emitted, due>>

ListRegistration(t) ==
  /\ pc[t] = "list"
  /\ registrations' =
       Append(registrations, Registration(local[t].name, local[t].id))
  /\ Goto(t, "capture")
  /\ UNCHANGED <<table, log, receiverVars, inbox, local, threadVars>>

CaptureRegistration(t) ==
  /\ pc[t] = "capture"
  /\ log' = Append(log, Registration(local[t].name, local[t].id))
  /\ bound' = [bound EXCEPT ![t] = @ \cup {local[t]}]
  /\ Return(t)
  /\ UNCHANGED <<registryVars, receiverVars, inbox, emitted, due>>

------------------------------------------------------------------------------
(* emit_serialized_from: _build_message, _matching_receivers, _deliver. *)

(* The message is built and the walk over the receivers begins. *)
BuildMessage(t) ==
  /\ pc[t] = "idle"
  /\ emitted[t] < MaxMessages
  /\ emitted' = [emitted EXCEPT ![t] = @ + 1]
  /\ \E b \in bound[t] :
       Set(t, [message |-> [record |-> "message", sender |-> t,
                            number |-> emitted[t] + 1,
                            name |-> b.name, id |-> b.id],
               index |-> 1, matching |-> <<>>])
  /\ due' = [due EXCEPT ![t] = Range(receivers)]
  /\ Goto(t, "match")
  /\ UNCHANGED <<registryVars, log, receiverVars, inbox, bound>>

(* A list iterator holds an index and compares it with the length it finds. *)
MatchReceiver(t) ==
  /\ pc[t] = "match"
  /\ local[t].index <= Len(receivers)
  /\ local' = [local EXCEPT
                 ![t].matching = Append(@, receivers[local[t].index]),
                 ![t].index = @ + 1]
  /\ UNCHANGED <<registryVars, log, receiverVars, inbox, pc, threadVars>>

(* Mutant: the message goes to the receivers unrecorded. *)
MatchingDone_unrecorded(t) ==
  /\ pc[t] = "match"
  /\ local[t].index > Len(receivers)
  /\ Goto(t, "deliver")
  /\ UNCHANGED <<registryVars, log, receiverVars, inbox, local, threadVars>>

MatchingDone(t) ==
  /\ pc[t] = "match"
  /\ local[t].index > Len(receivers)
  /\ Goto(t, "write")
  /\ UNCHANGED <<registryVars, log, receiverVars, inbox, local,
                 threadVars>>

WriteMessage(t) ==
  /\ pc[t] = "write"
  /\ log' = Append(log, local[t].message)
  /\ Goto(t, "deliver")
  /\ UNCHANGED <<registryVars, receiverVars, inbox, local, threadVars>>

(* Mutant: a target puts a new message in front of those it holds. *)
DeliverNext_newestFirst(t) ==
  /\ pc[t] = "deliver"
  /\ local[t].matching # <<>>
  /\ inbox' = [inbox EXCEPT
                 ![Head(local[t].matching)] = <<local[t].message>> \o @]
  /\ local' = [local EXCEPT ![t].matching = Tail(@)]
  /\ UNCHANGED <<registryVars, log, receiverVars, pc, threadVars>>

DeliverNext(t) ==
  /\ pc[t] = "deliver"
  /\ local[t].matching # <<>>
  /\ inbox' = [inbox EXCEPT
                 ![Head(local[t].matching)] = Append(@, local[t].message)]
  /\ local' = [local EXCEPT ![t].matching = Tail(@)]
  /\ UNCHANGED <<registryVars, log, receiverVars, pc, threadVars>>

EmitReturns(t) ==
  /\ pc[t] = "deliver"
  /\ local[t].matching = <<>>
  /\ Return(t)
  /\ due' = [due EXCEPT ![t] = {}]
  /\ UNCHANGED <<registryVars, log, receiverVars, inbox, bound, emitted>>

------------------------------------------------------------------------------
(* add_receiver and remove_receiver *)

(* Mutant: a target in use is subscribed once more. *)
AddReceiver_sharedTarget(t, r) ==
  /\ pc[t] = "idle"
  /\ Len(receivers) < Cardinality(Receivers)
  /\ receivers' = Append(receivers, r)
  /\ opened' = opened \cup {r}
  /\ UNCHANGED <<registryVars, log, inbox, pc, local, threadVars>>

AddReceiver(t, r) ==
  /\ pc[t] = "idle"
  /\ r \notin opened
  /\ receivers' = Append(receivers, r)
  /\ opened' = opened \cup {r}
  /\ UNCHANGED <<registryVars, log, inbox, pc, local, threadVars>>

(***************************************************************************)
(* A session's targets are removed by its own thread when it ends and by   *)
(* the thread of whoever overflows its queue, so any thread may remove any *)
(* target, and two threads the same one.                                   *)
(***************************************************************************)
RemoveReceiver(t, r) ==
  /\ pc[t] = "idle"
  /\ r \in Range(receivers)
  /\ Set(t, [target |-> r, index |-> 1])
  /\ Goto(t, "search")
  /\ UNCHANGED <<registryVars, log, receiverVars, inbox, threadVars>>

SearchReceiver(t) ==
  /\ pc[t] = "search"
  /\ local[t].index <= Len(receivers)
  /\ IF receivers[local[t].index] = local[t].target
     THEN Goto(t, "delete") /\ UNCHANGED local
     ELSE local' = [local EXCEPT ![t].index = @ + 1] /\ UNCHANGED pc
  /\ UNCHANGED <<registryVars, log, receiverVars, inbox, threadVars>>

SearchFails(t) ==
  /\ pc[t] = "search"
  /\ local[t].index > Len(receivers)
  /\ Return(t)
  /\ UNCHANGED <<registryVars, log, receiverVars, inbox, threadVars>>

(* del self._receivers[index]: an index past the end raises IndexError. *)
DeleteReceiver(t) ==
  /\ pc[t] = "delete"
  /\ receivers' = IF local[t].index <= Len(receivers)
                  THEN RemoveAt(receivers, local[t].index) ELSE receivers
  /\ due' = [s \in Threads |-> {}]
  /\ Return(t)
  /\ UNCHANGED <<registryVars, log, opened, inbox, bound, emitted>>

------------------------------------------------------------------------------
Bind(t) == \/ \E name \in TopicNames : LookUpSymbol(t, name)
           \/ AllocateId(t)
           \/ StoreId(t)
           \/ ListRegistration(t)
           \/ CaptureRegistration(t)

Emit(t) == \/ BuildMessage(t)
           \/ MatchReceiver(t)
           \/ MatchingDone(t)
           \/ WriteMessage(t)
           \/ DeliverNext(t)
           \/ EmitReturns(t)

Subscribe(t) == \/ \E r \in Receivers :
                     AddReceiver(t, r) \/ RemoveReceiver(t, r)
                \/ SearchReceiver(t)
                \/ SearchFails(t)
                \/ DeleteReceiver(t)

Next == \E t \in Threads : Bind(t) \/ Emit(t) \/ Subscribe(t)

Spec == Init /\ [][Next]_vars

------------------------------------------------------------------------------
(* Properties *)

(***************************************************************************)
(* However the threads interleave, whatever a receiver was given is        *)
(* already in the capture record (_deliver captures before it delivers).   *)
(***************************************************************************)
CapturedBeforeDelivered ==
  \A r \in Receivers : Range(inbox[r]) \subseteq Range(log)

(***************************************************************************)
(* A receiver is given a message once: a list iterator whose list shrinks  *)
(* may skip an entry but never returns to one.  It skips one only then:    *)
(* when no target is removed during the walk, every receiver that was      *)
(* subscribed as the message was built is among those that match.  One     *)
(* session's messages are recorded, and reach every receiver, in the order *)
(* the session emitted them; nothing orders two sessions' messages.        *)
(***************************************************************************)
DeliveredOnce ==
  \A r \in Receivers : \A i, j \in DOMAIN inbox[r] :
    inbox[r][i].sender = inbox[r][j].sender
      /\ inbox[r][i].number = inbox[r][j].number => i = j

EveryMatchGetsIt ==
  \A t \in Threads :
    pc[t] = "write" => due[t] \subseteq Range(local[t].matching)

InSenderOrder(records) ==
  \A j \in DOMAIN records : \A i \in 1..(j - 1) :
    /\ IsMessage(records[i]) /\ IsMessage(records[j])
    /\ records[i].sender = records[j].sender
    => records[i].number < records[j].number

SenderOrderKept ==
  /\ InSenderOrder(log)
  /\ \A r \in Receivers : InSenderOrder(inbox[r])

RoutedOnceInOrder == DeliveredOnce /\ EveryMatchGetsIt /\ SenderOrderKept

(***************************************************************************)
(* An ID a thread found in the table may be used, and captured, before its *)
(* registration is; then the thread that put it there is still on its way  *)
(* to the capture controller, so the record explains the ID in the end     *)
(* (_ensure_symbol_id stores before _capture_symbol_event writes).         *)
(***************************************************************************)
OnItsWay(name, id) ==
  \E t \in Threads : /\ pc[t] \in {"store", "list", "capture"}
                     /\ local[t] = [name |-> name, id |-> id]

EveryIdExplained ==
  \A i \in DOMAIN log : IsMessage(log[i]) =>
    \/ Registration(log[i].name, log[i].id) \in Range(log)
    \/ OnItsWay(log[i].name, log[i].id)

==============================================================================
