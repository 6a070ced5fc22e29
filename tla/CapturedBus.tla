----------------------------- MODULE CapturedBus -----------------------------
(***************************************************************************)
(* What the direct broker promises, without registries, capture states or  *)
(* buffers: a message is recorded and delivered in one indivisible step,   *)
(* it goes to exactly the subscriptions that match it at that moment, and  *)
(* the record only grows.  DirectBrokerCore implements this specification. *)
(***************************************************************************)
EXTENDS Naturals, Sequences

CONSTANTS Receivers,      \* the subscriptions' delivery targets
          Filters,        \* what a subscription may ask for
          Registrations,  \* records that give an ID its meaning
          Messages,       \* records of messages
          Matches(_, _),  \* does a filter match a message
          NoFilter,       \* the target is not subscribed
          NoMessage       \* nothing has been published

VARIABLES capturing,     \* does the bus keep a record at all
          log,           \* the record, in order
          latest,        \* the message published last
          subscription,  \* each target's filter, or NoFilter
          inbox          \* what each target has still to take

vars == <<capturing, log, latest, subscription, inbox>>

Init == /\ capturing \in BOOLEAN
        /\ log = <<>>
        /\ latest = NoMessage
        /\ subscription = [r \in Receivers |-> NoFilter]
        /\ inbox = [r \in Receivers |-> <<>>]

(***************************************************************************)
(* Registrations are recorded at the end of the log, several at once when  *)
(* a sink is attached to a bus that already has some.                      *)
(***************************************************************************)
Record ==
  /\ capturing
  /\ Len(log') >= Len(log)
  /\ \A i \in 1..Len(log) : log'[i] = log[i]
  /\ \A i \in (Len(log) + 1)..Len(log') : log'[i] \in Registrations
  /\ UNCHANGED <<capturing, latest, subscription, inbox>>

Receives(r, m) == /\ subscription[r] # NoFilter
                  /\ Matches(subscription[r], m)

Publish ==
  /\ latest' \in Messages
  /\ log' = IF capturing THEN Append(log, latest') ELSE log
  /\ inbox' = [r \in Receivers |-> IF Receives(r, latest')
                                   THEN Append(inbox[r], latest')
                                   ELSE inbox[r]]
  /\ UNCHANGED <<capturing, subscription>>

Subscribe(r, f) ==
  /\ subscription[r] = NoFilter
  /\ subscription' = [subscription EXCEPT ![r] = f]
  /\ UNCHANGED <<capturing, log, latest, inbox>>

Unsubscribe(r) ==
  /\ subscription[r] # NoFilter
  /\ subscription' = [subscription EXCEPT ![r] = NoFilter]
  /\ UNCHANGED <<capturing, log, latest, inbox>>

Take(r) ==
  /\ inbox[r] # <<>>
  /\ inbox' = [inbox EXCEPT ![r] = Tail(@)]
  /\ UNCHANGED <<capturing, log, latest, subscription>>

Next == \/ Record
        \/ Publish
        \/ \E r \in Receivers :
             \/ \E f \in Filters : Subscribe(r, f)
             \/ Unsubscribe(r)
             \/ Take(r)

Spec == Init /\ [][Next]_vars

==============================================================================
