--------------------------- MODULE SessionLifecycle ---------------------------
(***************************************************************************)
(* ropemother/transport/sessionrunner.py and what session.py does when a   *)
(* session ends: the reader and the worker of one session, the threads of  *)
(* other sessions that emit into its bounded delivery queue, and the one   *)
(* that asks it to stop.                                                   *)
(*                                                                         *)
(* A session ends because its peer goes away, because it is told to stop,  *)
(* because a handler raises, or because its queue is full: then the thread *)
(* that emits marks the delivery as stopped, removes the session's targets *)
(* from the core and closes the channel under the reader and the worker.   *)
(* Frames have no content here; TransportSession has their handling.       *)
(***************************************************************************)
EXTENDS Naturals, Sequences, FiniteSets, SequencesExt

CONSTANTS Emitters,    \* threads of other sessions
          Reader, Worker, Stopper,
          Capacity,    \* _DELIVERY_QUEUE_CAPACITY
          MaxTargets   \* bound on the subscriptions of the session

ASSUME ConstantsAssumption ==
  /\ Capacity \in Nat \ {0} /\ MaxTargets \in Nat
  /\ {Reader, Worker, Stopper} \cap Emitters = {}
  /\ Reader # Worker /\ Reader # Stopper /\ Worker # Stopper

Threads == Emitters \cup {Reader, Worker, Stopper}

Targets == 1..MaxTargets

VARIABLES
  stopRequested,    \* BrokerTransportSessionRunner._stop_requested
  deliveryStopped,  \* BrokerTransportSession._delivery_stopped
  connection,       \* this end of the connection: "open" or "closed"
  peer,             \* the other end: "reading", "stalled" or "gone"
  queued,           \* how many deliveries the queue holds
  targets,          \* BrokerTransportSession._delivery_targets
  receivers,        \* the targets of this session that the core holds
  created,          \* how many targets there have been
  pc,
  matching,         \* for an emission, the targets still to be served
  index,            \* for close(), the place in the target list
  error,            \* whether BrokerTransportSessionRunner._error is set
  failed            \* history: a handler or a send has raised by itself

vars == <<stopRequested, deliveryStopped, connection, peer, queued, targets,
          receivers, created, pc, matching, index, error, failed>>

stopVars == <<stopRequested, connection>>
targetVars == <<targets, receivers, created>>
errorVars == <<error, failed>>

Init ==
  /\ stopRequested = FALSE /\ deliveryStopped = FALSE
  /\ connection = "open" /\ peer = "reading"
  /\ queued = 0
  /\ targets = <<>> /\ receivers = {} /\ created = 0
  /\ pc = [t \in Threads |-> IF t \in {Reader, Worker} THEN "check" ELSE "idle"]
  /\ matching = [t \in Threads |-> {}]
  /\ index = [t \in Threads |-> 1]
  /\ error = FALSE /\ failed = FALSE

Goto(t, label) == pc' = [pc EXCEPT ![t] = label]

------------------------------------------------------------------------------
(* The peer reads, stops reading for a while, or goes away for good. *)

PeerStep ==
  /\ peer # "gone"
  /\ peer' \in {"reading", "stalled", "gone"} \ {peer}
  /\ UNCHANGED <<stopVars, deliveryStopped, queued, targetVars, pc, matching,
                 index, errorVars>>

------------------------------------------------------------------------------
(* The loops of the two threads, and how they leave them. *)

CheckStop(t) ==
  /\ pc[t] = "check"
  /\ Goto(t, IF stopRequested THEN "stop" ELSE "wait")
  /\ UNCHANGED <<stopVars, deliveryStopped, peer, queued, targetVars, matching,
                 index, errorVars>>

(***************************************************************************)
(* An operation on a connection that either end has closed raises: an end  *)
(* of file or a broken pipe, which end the loop quietly, or another        *)
(* OSError, recorded unless this session has been stopped.                 *)
(***************************************************************************)
ConnectionRaises(t) ==
  /\ Goto(t, "stop")
  /\ \/ UNCHANGED error
     \/ /\ connection = "closed"
        /\ ~stopRequested /\ ~deliveryStopped
        /\ error' = TRUE
  /\ UNCHANGED failed

(* Anything else that a handler or a send raises is recorded. *)
Fails(t) ==
  /\ t \in {Reader, Worker}
  /\ pc[t] \in {"wait", "send"}
  /\ connection = "open"
  /\ Goto(t, "stop")
  /\ error' = TRUE /\ failed' = TRUE
  /\ UNCHANGED <<stopVars, deliveryStopped, peer, queued, targetVars, matching,
                 index>>

(* sendall returns, raises, or waits for a peer that does not read. *)
Send(t) ==
  /\ pc[t] = "send"
  /\ \/ /\ connection = "open" /\ peer = "reading"
        /\ Goto(t, "check")
        /\ UNCHANGED errorVars
     \/ /\ connection = "closed" \/ peer = "gone"
        /\ ConnectionRaises(t)
  /\ UNCHANGED <<stopVars, deliveryStopped, peer, queued, targetVars, matching,
                 index>>

(* _stop_transport: the first to come closes the connection. *)
StopTransport(t) ==
  /\ pc[t] = "stop"
  /\ stopRequested' = TRUE
  /\ Goto(t, IF stopRequested THEN "stopped" ELSE "disconnect")
  /\ UNCHANGED <<deliveryStopped, connection, peer, queued, targetVars,
                 matching, index, errorVars>>

Disconnect(t) ==
  /\ pc[t] = "disconnect"
  /\ connection' = "closed"
  /\ Goto(t, "stopped")
  /\ UNCHANGED <<stopRequested, deliveryStopped, peer, queued, targetVars,
                 matching, index, errorVars>>

(* request_stop, from the service that is shutting down *)
RequestStop ==
  /\ pc[Stopper] = "idle"
  /\ Goto(Stopper, "stop")
  /\ UNCHANGED <<stopVars, deliveryStopped, peer, queued, targetVars, matching,
                 index, errorVars>>

Ended(t) == pc[t] = "done"

(* The worker and the stopper have nothing else to do; the reader closes. *)
AfterStop(t) ==
  /\ pc[t] = "stopped"
  /\ Goto(t, IF t = Reader THEN "close" ELSE "done")
  /\ index' = [index EXCEPT ![t] = 1]
  /\ UNCHANGED <<stopVars, deliveryStopped, peer, queued, targetVars, matching,
                 errorVars>>

------------------------------------------------------------------------------
(* BrokerTransportSession.close, by the reader or by who meets a full queue *)

(* Mutant: each target is taken off the list the loop is walking. *)
CloseNext_popping(t) ==
  /\ pc[t] \in {"close", "overflow"}
  /\ index[t] <= Len(targets)
  /\ receivers' = receivers \ {targets[index[t]]}
  /\ targets' = RemoveAt(targets, index[t])
  /\ index' = [index EXCEPT ![t] = @ + 1]
  /\ UNCHANGED <<stopVars, deliveryStopped, peer, queued, created, pc, matching,
                 errorVars>>

CloseNext(t) ==
  /\ pc[t] \in {"close", "overflow"}
  /\ index[t] <= Len(targets)
  /\ receivers' = receivers \ {targets[index[t]]}
  /\ index' = [index EXCEPT ![t] = @ + 1]
  /\ UNCHANGED <<stopVars, deliveryStopped, peer, queued, targets, created, pc,
                 matching, errorVars>>

CloseClear(t) ==
  /\ pc[t] \in {"close", "overflow"}
  /\ index[t] > Len(targets)
  /\ targets' = <<>>
  /\ Goto(t, IF pc[t] = "close" THEN "done" ELSE "channel")
  /\ UNCHANGED <<stopVars, deliveryStopped, peer, queued, receivers, created,
                 matching, index, errorVars>>

------------------------------------------------------------------------------
(* The reader: handle_next_frame. *)

ReceiveEnd ==
  /\ pc[Reader] = "wait"
  /\ connection = "closed" \/ peer = "gone"
  /\ ConnectionRaises(Reader)
  /\ UNCHANGED <<stopVars, deliveryStopped, peer, queued, targetVars, matching,
                 index>>

(* A frame comes in: a subscription, whose target enters the list first ... *)
ReceiveSubscribe ==
  /\ pc[Reader] = "wait"
  /\ connection = "open" /\ peer # "gone"
  /\ created < MaxTargets
  /\ created' = created + 1
  /\ targets' = Append(targets, created + 1)
  /\ Goto(Reader, "add")
  /\ UNCHANGED <<stopVars, deliveryStopped, peer, queued, receivers, matching,
                 index, errorVars>>

(* ... and then the core. *)
AddReceiver ==
  /\ pc[Reader] = "add"
  /\ receivers' = receivers \cup {created}
  /\ Goto(Reader, "send")
  /\ UNCHANGED <<stopVars, deliveryStopped, peer, queued, targets, created,
                 matching, index, errorVars>>

------------------------------------------------------------------------------
(***************************************************************************)
(* Emissions, of the session itself and of others: the core has built its  *)
(* list of targets and calls them one after another.                       *)
(***************************************************************************)
BeginEmission(t) ==
  /\ \/ t \in Emitters /\ pc[t] = "idle"
     \/ t = Reader /\ pc[t] = "wait" /\ connection = "open" /\ peer # "gone"
  /\ Goto(t, "emit")
  /\ matching' = [matching EXCEPT ![t] = receivers]
  /\ UNCHANGED <<stopVars, deliveryStopped, peer, queued, targetVars, index,
                 errorVars>>

(* _enqueue_delivery: a session whose delivery is stopped gets nothing. *)
NextTarget(t) ==
  /\ pc[t] = "emit"
  /\ \E target \in matching[t] :
       matching' = [matching EXCEPT ![t] = @ \ {target}]
  /\ IF deliveryStopped THEN UNCHANGED pc ELSE Goto(t, "put")
  /\ UNCHANGED <<stopVars, deliveryStopped, peer, queued, targetVars, index,
                 errorVars>>

(* Mutant: an emission waits for room in the queue. *)
Put_waiting(t) ==
  /\ pc[t] = "put"
  /\ queued < Capacity
  /\ queued' = queued + 1
  /\ Goto(t, "emit")
  /\ UNCHANGED <<stopVars, deliveryStopped, peer, targetVars, matching, index,
                 errorVars>>

(* Mutant: the delivery is not marked as stopped. *)
Put_unmarked(t) ==
  /\ pc[t] = "put"
  /\ \/ /\ queued < Capacity
        /\ queued' = queued + 1
        /\ Goto(t, "emit")
        /\ UNCHANGED index
     \/ /\ queued = Capacity
        /\ index' = [index EXCEPT ![t] = 1]
        /\ Goto(t, "overflow")
        /\ UNCHANGED queued
  /\ UNCHANGED <<stopVars, deliveryStopped, peer, targetVars, matching,
                 errorVars>>

Put(t) ==
  /\ pc[t] = "put"
  /\ \/ /\ queued < Capacity
        /\ queued' = queued + 1
        /\ Goto(t, "emit")
        /\ UNCHANGED <<deliveryStopped, index>>
     \/ /\ queued = Capacity
        /\ deliveryStopped' = TRUE
        /\ index' = [index EXCEPT ![t] = 1]
        /\ Goto(t, "overflow")
        /\ UNCHANGED queued
  /\ UNCHANGED <<stopVars, peer, targetVars, matching, errorVars>>

(* Mutant: the targets go, and the channel stays open. *)
CloseChannel_keptOpen(t) ==
  /\ pc[t] = "channel"
  /\ Goto(t, "emit")
  /\ UNCHANGED <<stopVars, deliveryStopped, peer, queued, targetVars, matching,
                 index, errorVars>>

CloseChannel(t) ==
  /\ pc[t] = "channel"
  /\ connection' = "closed"
  /\ Goto(t, "emit")
  /\ UNCHANGED <<stopRequested, deliveryStopped, peer, queued, targetVars,
                 matching, index, errorVars>>

EmissionReturns(t) ==
  /\ pc[t] = "emit"
  /\ matching[t] = {}
  /\ Goto(t, IF t = Reader THEN "send" ELSE "idle")
  /\ UNCHANGED <<stopVars, deliveryStopped, peer, queued, targetVars, matching,
                 index, errorVars>>

------------------------------------------------------------------------------
(* The worker: _handle_next_delivery, with its timeout. *)

WorkerTake ==
  /\ pc[Worker] = "wait"
  /\ \/ queued > 0 /\ queued' = queued - 1 /\ Goto(Worker, "send")
     \/ queued = 0 /\ UNCHANGED queued /\ Goto(Worker, "check")
  /\ UNCHANGED <<stopVars, deliveryStopped, peer, targetVars, matching, index,
                 errorVars>>

------------------------------------------------------------------------------
StopStep(t) == StopTransport(t) \/ Disconnect(t) \/ AfterStop(t)

CloseStep(t) == CloseNext(t) \/ CloseClear(t)

EmissionStep(t) == \/ NextTarget(t) \/ Put(t) \/ CloseChannel(t)
                   \/ EmissionReturns(t) \/ CloseStep(t)

ReaderStep == \/ CheckStop(Reader) \/ Send(Reader) \/ StopStep(Reader)
              \/ ReceiveEnd \/ AddReceiver \/ EmissionStep(Reader)

WorkerStep == \/ CheckStop(Worker) \/ Send(Worker) \/ StopStep(Worker)
              \/ WorkerTake

Next == \/ ReaderStep \/ WorkerStep \/ StopStep(Stopper)
        \/ PeerStep \/ RequestStop \/ ReceiveSubscribe
        \/ \E t \in Threads : Fails(t) \/ BeginEmission(t)
        \/ \E e \in Emitters : EmissionStep(e)

(***************************************************************************)
(* The threads are scheduled and blocked calls return once they can; the   *)
(* peer, new frames, new emissions and failures come as they like.         *)
(***************************************************************************)
Fairness == /\ WF_vars(ReaderStep) /\ WF_vars(WorkerStep)
            /\ WF_vars(StopStep(Stopper))
            /\ \A e \in Emitters : WF_vars(EmissionStep(e))

Spec == Init /\ [][Next]_vars /\ Fairness

------------------------------------------------------------------------------
(* Properties *)

(***************************************************************************)
(* join() reports a failure only of a session that has really failed: the  *)
(* errors that closing the connection under two threads provokes are not   *)
(* taken for one, after a stop and after an overflow alike.                *)
(***************************************************************************)
OnlyRealFailures == error => failed

(***************************************************************************)
(* A session that was not cut off by an overflow leaves nothing behind: no *)
(* target in the core and no open connection.                              *)
(***************************************************************************)
EndsClean ==
  Ended(Reader) /\ Ended(Worker) =>
    /\ connection = "closed" \/ pc[Stopper] = "disconnect"
    /\ ~deliveryStopped => receivers = {}

(***************************************************************************)
(* An emission returns whatever the peer of the session it delivers to     *)
(* does (test_slow_transport_subscriber_does_not_block_other_subscribers). *)
(* When the peer has gone, when a stop was requested and when the queue    *)
(* has overflowed, both threads end, a stalled peer notwithstanding.       *)
(***************************************************************************)
EmissionsReturn == \A e \in Emitters : (pc[e] = "emit") ~> (pc[e] = "idle")

SessionEnds ==
  (peer = "gone" \/ stopRequested \/ deliveryStopped)
    ~> (Ended(Reader) /\ Ended(Worker))

NothingHangs == EmissionsReturn /\ SessionEnds

==============================================================================
