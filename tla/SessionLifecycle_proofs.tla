----------------------- MODULE SessionLifecycle_proofs -----------------------
(***************************************************************************)
(* How a session ends, for any number of emitting threads, any capacity of *)
(* the queue and any number of subscriptions; and below it the connection  *)
(* that a session runs on: what WireFormat and its codec do to any frames, *)
(* sent by any number of senders.                                          *)
(***************************************************************************)
EXTENDS SessionLifecycle, WireFormat, SequenceLemmas, FiniteSetTheorems

Stopping == {"stop", "disconnect", "stopped"}
Emission == {"emit", "put", "overflow", "channel"}

(* Where a thread can be: only the reader and the worker are the session's *)
(* own, and only the reader closes it.                                     *)
MayBeAt(t, label) ==
  \/ /\ t = Reader
     /\ label \in {"check", "wait", "send", "add", "close", "done"}
                    \cup Stopping \cup Emission
  \/ t = Worker /\ label \in {"check", "wait", "send", "done"} \cup Stopping
  \/ t = Stopper /\ label \in {"idle", "done"} \cup Stopping
  \/ t \in Emitters /\ label \in {"idle"} \cup Emission

Labels == {"idle", "check", "wait", "send", "add", "close", "done"}
            \cup Stopping \cup Emission

TypeOK ==
  /\ stopRequested \in BOOLEAN /\ deliveryStopped \in BOOLEAN
  /\ connection \in {"open", "closed"} /\ peer \in {"reading", "stalled", "gone"}
  /\ queued \in 0..Capacity
  /\ created \in Nat /\ targets \in Seq(Nat) /\ receivers \in SUBSET Nat
  /\ pc \in [Threads -> Labels]
  /\ \A t \in Threads : MayBeAt(t, pc[t])
  /\ matching \in [Threads -> SUBSET Nat]
  /\ index \in [Threads -> Nat \ {0}]
  /\ error \in BOOLEAN /\ failed \in BOOLEAN

(***************************************************************************)
(* Nobody closes the connection before it is known why: the flag of the    *)
(* stop or that of the overflow has been set.  So no thread takes what the *)
(* closed connection raises for an error.                                  *)
(***************************************************************************)
Stops(label) == label \in {"disconnect", "stopped", "close", "done"}

Overflows(label) == label \in {"overflow", "channel"}

StopInv ==
  /\ \A t \in Threads : Stops(pc[t]) => stopRequested
  /\ \A t \in Threads : Overflows(pc[t]) => deliveryStopped
  /\ connection = "closed" => stopRequested \/ deliveryStopped

(* Whoever was first to ask for the stop has closed the connection, or is  *)
(* about to.                                                               *)
ClosingInv ==
  stopRequested =>
    connection = "closed" \/ \E t \in Threads : pc[t] = "disconnect"

(***************************************************************************)
(* Without an overflow only the reader touches the list of targets, and    *)
(* what the core holds is in the list; once the reader closes the session, *)
(* in the part of the list that it has still ahead.                        *)
(***************************************************************************)
LeftOver(label, i, list) ==
  CASE label = "close" -> Ahead(list, i)
    [] label = "done" -> {}
    [] OTHER -> Range(list)

CleanInv ==
  /\ ~deliveryStopped => receivers \subseteq LeftOver(pc[Reader], index[Reader],
                                                      targets)
  /\ pc[Reader] = "add" /\ ~deliveryStopped => created \in Range(targets)

------------------------------------------------------------------------------
LEMMA Members ==
  /\ Reader \in Threads /\ Worker \in Threads /\ Stopper \in Threads
  /\ Reader # Worker /\ Reader # Stopper /\ Worker # Stopper
  /\ \A e \in Emitters : e \in Threads /\ e # Reader /\ e # Worker /\ e # Stopper
  BY ConstantsAssumption DEF Threads

LEMMA InitType == Init => TypeOK
<1> SUFFICES ASSUME Init PROVE TypeOK
  OBVIOUS
<1>1. \A t \in Threads : MayBeAt(t, pc[t])
  BY Members DEF Init, Threads, MayBeAt
<1>2. pc \in [Threads -> Labels]
  BY DEF Init, Labels
<1>3. 0 \in 0..Capacity /\ <<>> \in Seq(Nat) /\ 1 \in Nat \ {0} /\ {} \in SUBSET Nat
  BY ConstantsAssumption
<1> QED BY <1>1, <1>2, <1>3 DEF Init, TypeOK

(* A thread moves: to a place of its own. *)
LEMMA Moves ==
  ASSUME TypeOK, NEW t \in Threads, NEW label \in Labels, MayBeAt(t, label),
         Goto(t, label)
  PROVE  pc' \in [Threads -> Labels] /\ \A s \in Threads : MayBeAt(s, pc'[s])
  BY DEF TypeOK, Goto

StepOf(t) == \/ CheckStop(t) \/ Send(t) \/ StopStep(t) \/ Fails(t)
             \/ BeginEmission(t) \/ EmissionStep(t)

LEMMA NextType ==
  ASSUME TypeOK, [Next]_vars
  PROVE  TypeOK'
<1> USE DEF stopVars, targetVars, errorVars
<1>1. CASE UNCHANGED vars
  BY <1>1 DEF vars, TypeOK
<1>2. ASSUME NEW t \in Threads, CheckStop(t)
      PROVE  TypeOK'
  <2>1. \A label \in {"stop", "wait"} : label \in Labels /\ MayBeAt(t, label)
    BY <1>2 DEF CheckStop, TypeOK, MayBeAt, Labels, Stopping, Emission
  <2>2. pc' \in [Threads -> Labels] /\ \A s \in Threads : MayBeAt(s, pc'[s])
    BY <1>2, <2>1, Moves DEF CheckStop
  <2> QED BY <1>2, <2>2 DEF CheckStop, TypeOK
<1>3. ASSUME NEW t \in Threads, Fails(t) \/ Send(t)
      PROVE  TypeOK'
  <2>1. \A label \in {"stop", "check"} : label \in Labels /\ MayBeAt(t, label)
    BY <1>3 DEF Fails, Send, TypeOK, MayBeAt, Labels, Stopping, Emission
  <2>2. pc' \in [Threads -> Labels] /\ \A s \in Threads : MayBeAt(s, pc'[s])
    BY <1>3, <2>1, Moves DEF Fails, Send, ConnectionRaises
  <2>3. error' \in BOOLEAN /\ failed' \in BOOLEAN
    BY <1>3 DEF Fails, Send, ConnectionRaises, TypeOK
  <2> QED BY <1>3, <2>2, <2>3 DEF Fails, Send, ConnectionRaises, TypeOK
<1>4. ASSUME NEW t \in Threads, StopStep(t)
      PROVE  TypeOK'
  <2>1. \A label \in {"stopped", "disconnect", "done"} :
          label \in Labels /\ MayBeAt(t, label)
    BY <1>4, Members DEF StopStep, StopTransport, Disconnect, AfterStop, TypeOK,
         MayBeAt, Labels, Stopping, Emission
  <2>2. t = Reader => "close" \in Labels /\ MayBeAt(t, "close")
    BY DEF MayBeAt, Labels
  <2>3. pc' \in [Threads -> Labels] /\ \A s \in Threads : MayBeAt(s, pc'[s])
    BY <1>4, <2>1, <2>2, Moves DEF StopStep, StopTransport, Disconnect, AfterStop
  <2>4. index' \in [Threads -> Nat \ {0}]
    <3>1. [index EXCEPT ![t] = 1] \in [Threads -> Nat \ {0}]
      BY DEF TypeOK
    <3> QED BY <1>4, <3>1 DEF StopStep, StopTransport, Disconnect, AfterStop, TypeOK
  <2> QED BY <1>4, <2>3, <2>4
          DEF StopStep, StopTransport, Disconnect, AfterStop, TypeOK
<1>5. ASSUME NEW t \in Threads, NextTarget(t) \/ Put(t) \/ CloseChannel(t)
                                \/ BeginEmission(t)
      PROVE  TypeOK'
  <2>1. \A label \in Emission : label \in Labels /\ MayBeAt(t, label)
    BY <1>5, Members DEF NextTarget, Put, CloseChannel, BeginEmission, TypeOK,
         MayBeAt, Labels, Stopping, Emission
  <2>2. pc' \in [Threads -> Labels] /\ \A s \in Threads : MayBeAt(s, pc'[s])
    <3>1. CASE pc' = pc
      BY <3>1 DEF TypeOK
    <3>2. CASE \E label \in Emission : Goto(t, label)
      BY <2>1, <3>2, Moves
    <3> QED BY <1>5, <3>1, <3>2 DEF NextTarget, Put, CloseChannel, BeginEmission,
            Emission
  <2>3. matching' \in [Threads -> SUBSET Nat]
    BY <1>5 DEF NextTarget, Put, CloseChannel, BeginEmission, TypeOK
  <2>4. queued' \in 0..Capacity
    BY <1>5, ConstantsAssumption
       DEF NextTarget, Put, CloseChannel, BeginEmission, TypeOK
  <2>5. /\ index' \in [Threads -> Nat \ {0}]
        /\ deliveryStopped' \in BOOLEAN /\ connection' \in {"open", "closed"}
    <3>1. [index EXCEPT ![t] = 1] \in [Threads -> Nat \ {0}]
      BY DEF TypeOK
    <3> QED BY <1>5, <3>1 DEF NextTarget, Put, CloseChannel, BeginEmission, TypeOK
  <2> QED BY <1>5, <2>2, <2>3, <2>4, <2>5
          DEF NextTarget, Put, CloseChannel, BeginEmission, TypeOK
<1>6. ASSUME NEW t \in Threads, EmissionReturns(t)
      PROVE  TypeOK'
  <2>1. /\ t = Reader => "send" \in Labels /\ MayBeAt(t, "send")
        /\ t # Reader => "idle" \in Labels /\ MayBeAt(t, "idle")
    BY <1>6, Members DEF EmissionReturns, TypeOK, MayBeAt, Labels, Stopping,
         Emission
  <2>2. pc' \in [Threads -> Labels] /\ \A s \in Threads : MayBeAt(s, pc'[s])
    BY <1>6, <2>1, Moves DEF EmissionReturns
  <2> QED BY <1>6, <2>2 DEF EmissionReturns, TypeOK
<1>7. ASSUME NEW t \in Threads, CloseStep(t)
      PROVE  TypeOK'
  <2>1. CASE CloseNext(t)
    <3>1. index[t] \in Nat \ {0} /\ index[t] + 1 \in Nat \ {0}
      BY DEF TypeOK
    <3>2. index' \in [Threads -> Nat \ {0}]
      BY <2>1, <3>1 DEF CloseNext, TypeOK
    <3>3. receivers' \in SUBSET Nat
      BY <2>1 DEF CloseNext, TypeOK
    <3> QED BY <2>1, <3>2, <3>3 DEF CloseNext, TypeOK
  <2>2. CASE CloseClear(t)
    <3>1. /\ pc[t] = "close" => "done" \in Labels /\ MayBeAt(t, "done")
          /\ pc[t] = "overflow" => "channel" \in Labels /\ MayBeAt(t, "channel")
      BY Members DEF TypeOK, MayBeAt, Labels, Stopping, Emission
    <3>2. pc' \in [Threads -> Labels] /\ \A s \in Threads : MayBeAt(s, pc'[s])
      BY <2>2, <3>1, Moves DEF CloseClear
    <3> QED BY <2>2, <3>2 DEF CloseClear, TypeOK
  <2> QED BY <1>7, <2>1, <2>2 DEF CloseStep
<1>8. CASE ReceiveEnd \/ ReceiveSubscribe \/ AddReceiver
  <2>1. \A label \in {"stop", "add", "send"} :
          label \in Labels /\ MayBeAt(Reader, label)
    BY DEF MayBeAt, Labels, Stopping
  <2>2. pc' \in [Threads -> Labels] /\ \A s \in Threads : MayBeAt(s, pc'[s])
    BY <1>8, <2>1, Members, Moves
       DEF ReceiveEnd, ReceiveSubscribe, AddReceiver, ConnectionRaises
  <2>3. error' \in BOOLEAN /\ failed' \in BOOLEAN
    BY <1>8 DEF ReceiveEnd, ReceiveSubscribe, AddReceiver, ConnectionRaises, TypeOK
  <2>4. created' \in Nat /\ targets' \in Seq(Nat) /\ receivers' \in SUBSET Nat
    <3>1. created + 1 \in Nat /\ Append(targets, created + 1) \in Seq(Nat)
          /\ receivers \cup {created} \in SUBSET Nat
      BY DEF TypeOK
    <3> QED BY <1>8, <3>1 DEF ReceiveEnd, ReceiveSubscribe, AddReceiver, TypeOK
  <2> QED BY <1>8, <2>2, <2>3, <2>4
          DEF ReceiveEnd, ReceiveSubscribe, AddReceiver, TypeOK
<1>9. CASE WorkerTake
  <2>1. \A label \in {"check", "send"} : label \in Labels /\ MayBeAt(Worker, label)
    BY DEF MayBeAt, Labels
  <2>2. pc' \in [Threads -> Labels] /\ \A s \in Threads : MayBeAt(s, pc'[s])
    BY <1>9, <2>1, Members, Moves DEF WorkerTake
  <2>3. queued' \in 0..Capacity
    BY <1>9, ConstantsAssumption DEF WorkerTake, TypeOK
  <2> QED BY <1>9, <2>2, <2>3 DEF WorkerTake, TypeOK
<1>10. CASE RequestStop
  <2>1. "stop" \in Labels /\ MayBeAt(Stopper, "stop")
    BY DEF MayBeAt, Labels, Stopping
  <2>2. pc' \in [Threads -> Labels] /\ \A s \in Threads : MayBeAt(s, pc'[s])
    BY <1>10, <2>1, Members, Moves DEF RequestStop
  <2> QED BY <1>10, <2>2 DEF RequestStop, TypeOK
<1>11. CASE PeerStep
  BY <1>11 DEF PeerStep, TypeOK
<1> QED BY <1>1, <1>2, <1>3, <1>4, <1>5, <1>6, <1>7, <1>8, <1>9, <1>10, <1>11,
           Members DEF Next, ReaderStep, WorkerStep, EmissionStep

LEMMA Typing == Spec => []TypeOK
<1>1. TypeOK /\ [Next]_vars => TypeOK'
  BY NextType
<1> QED BY InitType, <1>1, PTL DEF Spec

Step(t) == \/ CheckStop(t) \/ Send(t) \/ Fails(t)
           \/ StopTransport(t) \/ Disconnect(t) \/ AfterStop(t)
           \/ BeginEmission(t) \/ NextTarget(t) \/ Put(t) \/ CloseChannel(t)
           \/ EmissionReturns(t) \/ CloseNext(t) \/ CloseClear(t)

ReaderOrWorker == ReceiveSubscribe \/ ReceiveEnd \/ AddReceiver \/ WorkerTake

LEMMA NextIsStep ==
  ASSUME [Next]_vars
  PROVE  \/ \E t \in Threads : Step(t)
         \/ ReaderOrWorker \/ RequestStop \/ PeerStep \/ UNCHANGED vars
  BY Members DEF Next, Step, ReaderOrWorker, ReaderStep, WorkerStep, StopStep,
     EmissionStep, CloseStep

------------------------------------------------------------------------------
(* A closed connection has been accounted for. *)

LEMMA InitStop == Init => StopInv /\ ClosingInv /\ CleanInv /\ ~error
<1> SUFFICES ASSUME Init PROVE StopInv /\ ClosingInv /\ CleanInv /\ ~error
  OBVIOUS
<1>1. \A t \in Threads : pc[t] \in {"check", "idle"}
  BY DEF Init
<1> QED BY <1>1, Members DEF Init, StopInv, ClosingInv, CleanInv, Stops,
        Overflows, LeftOver

LEMMA NextStop ==
  ASSUME TypeOK, StopInv, [Next]_vars
  PROVE  StopInv'
<1> USE DEF stopVars, targetVars, errorVars
<1>1. ASSUME NEW t \in Threads, Step(t)
      PROVE  StopInv'
  <2>1. \A s \in Threads : s # t => pc'[s] = pc[s]
    BY <1>1 DEF Step, CheckStop, Send, ConnectionRaises, Fails, StopTransport,
         Disconnect, AfterStop, BeginEmission, NextTarget, Put, CloseChannel,
         EmissionReturns, CloseNext, CloseClear, Goto, TypeOK
  <2>2. /\ stopRequested => stopRequested'
        /\ deliveryStopped => deliveryStopped'
    BY <1>1 DEF Step, CheckStop, Send, ConnectionRaises, Fails, StopTransport,
         Disconnect, AfterStop, BeginEmission, NextTarget, Put, CloseChannel,
         EmissionReturns, CloseNext, CloseClear, TypeOK
  <2>3. /\ Stops(pc'[t]) => Stops(pc[t]) \/ stopRequested'
        /\ Overflows(pc'[t]) => Overflows(pc[t]) \/ deliveryStopped'
    <3>1. CASE CheckStop(t) \/ Send(t) \/ Fails(t)
      BY <3>1 DEF CheckStop, Send, ConnectionRaises, Fails, Goto, Stops, Overflows,
           TypeOK
    <3>2. CASE StopTransport(t) \/ Disconnect(t)
      BY <3>2 DEF StopTransport, Disconnect, Goto, Stops, Overflows, TypeOK
    <3>3. CASE AfterStop(t)
      BY <3>3 DEF AfterStop, Goto, Stops, Overflows, TypeOK
    <3>4. CASE BeginEmission(t) \/ NextTarget(t) \/ CloseChannel(t)
      BY <3>4 DEF BeginEmission, NextTarget, CloseChannel, Goto, Stops, Overflows,
           TypeOK
    <3>5. CASE Put(t) \/ EmissionReturns(t)
      BY <3>5 DEF Put, EmissionReturns, Goto, Stops, Overflows, TypeOK
    <3>6. CASE CloseNext(t) \/ CloseClear(t)
      BY <3>6 DEF CloseNext, CloseClear, Goto, Stops, Overflows, TypeOK
    <3> QED BY <1>1, <3>1, <3>2, <3>3, <3>4, <3>5, <3>6 DEF Step
  <2>4. connection' = connection \/ Stops(pc[t]) \/ Overflows(pc[t])
    BY <1>1 DEF Step, CheckStop, Send, ConnectionRaises, Fails, StopTransport,
         Disconnect, AfterStop, BeginEmission, NextTarget, Put, CloseChannel,
         EmissionReturns, CloseNext, CloseClear, Stops, Overflows
  <2> QED BY <2>1, <2>2, <2>3, <2>4 DEF StopInv
<1>2. CASE ReaderOrWorker \/ RequestStop
  <2>1. PICK t \in Threads, label \in {"stop", "add", "send", "check"} :
          Goto(t, label)
    BY <1>2, Members DEF ReaderOrWorker, RequestStop, ReceiveSubscribe, ReceiveEnd,
         AddReceiver, WorkerTake, ConnectionRaises
  <2>2. UNCHANGED <<stopRequested, connection, deliveryStopped>>
    BY <1>2 DEF ReaderOrWorker, RequestStop, ReceiveSubscribe, ReceiveEnd,
         AddReceiver, WorkerTake
  <2>3. /\ pc'[t] = label /\ ~Stops(label) /\ ~Overflows(label)
        /\ \A s \in Threads : s # t => pc'[s] = pc[s]
    BY <2>1 DEF Goto, TypeOK, Stops, Overflows
  <2> QED BY <2>2, <2>3 DEF StopInv
<1>3. CASE PeerStep \/ UNCHANGED vars
  BY <1>3 DEF PeerStep, vars, StopInv
<1> QED BY <1>1, <1>2, <1>3, NextIsStep

LEMMA NextError ==
  ASSUME TypeOK, StopInv, OnlyRealFailures, [Next]_vars
  PROVE  OnlyRealFailures'
<1> USE DEF stopVars, targetVars, errorVars, OnlyRealFailures
<1>1. ASSUME NEW t, ConnectionRaises(t)
      PROVE  OnlyRealFailures'
  BY <1>1 DEF ConnectionRaises, StopInv
<1>2. ASSUME NEW t \in Threads, Step(t)
      PROVE  OnlyRealFailures'
  BY <1>1, <1>2 DEF Step, CheckStop, Send, Fails, StopTransport,
       Disconnect, AfterStop, BeginEmission, NextTarget, Put, CloseChannel,
       EmissionReturns, CloseNext, CloseClear
<1>3. CASE ReaderOrWorker \/ RequestStop \/ PeerStep \/ UNCHANGED vars
  BY <1>1, <1>3 DEF ReaderOrWorker, RequestStop, PeerStep, vars, ReceiveSubscribe,
       ReceiveEnd, AddReceiver, WorkerTake
<1> QED BY <1>2, <1>3, NextIsStep

(***************************************************************************)
(* Whoever closes the connection, and wherever the two threads are by      *)
(* then, join() reports only what a handler or a send raised by itself     *)
(* (_stop_transport, _enqueue_delivery, the except clauses of the loops).  *)
(***************************************************************************)
THEOREM FailuresAreReal == Spec => []OnlyRealFailures
<1>1. Init => OnlyRealFailures
  BY InitStop DEF OnlyRealFailures
<1>2. TypeOK /\ StopInv /\ OnlyRealFailures /\ [Next]_vars
        => (StopInv /\ OnlyRealFailures)'
  BY NextStop, NextError
<1> QED BY InitStop, Typing, <1>1, <1>2, PTL DEF Spec

------------------------------------------------------------------------------
(* What the two threads leave. *)

LEMMA NextClosing ==
  ASSUME TypeOK, ClosingInv, [Next]_vars
  PROVE  ClosingInv'
<1> USE DEF stopVars, targetVars, errorVars
<1>1. ASSUME NEW t \in Threads, Step(t)
      PROVE  ClosingInv'
  <2>1. CASE StopTransport(t)
    BY <2>1 DEF StopTransport, Goto, TypeOK, ClosingInv
  <2>2. CASE Disconnect(t) \/ CloseChannel(t)
    BY <2>2 DEF Disconnect, CloseChannel, ClosingInv
  <2>3. CASE ~StopTransport(t) /\ ~Disconnect(t) /\ ~CloseChannel(t)
    <3>1. UNCHANGED <<stopRequested, connection>> /\ pc[t] # "disconnect"
      BY <1>1, <2>3 DEF Step, CheckStop, Send, Fails, AfterStop,
           BeginEmission, NextTarget, Put, EmissionReturns, CloseNext, CloseClear,
           TypeOK, MayBeAt, Emission, Stopping
    <3>2. \A s \in Threads : s # t => pc'[s] = pc[s]
      BY <1>1, <2>3 DEF Step, CheckStop, Send, ConnectionRaises, Fails, AfterStop,
           BeginEmission, NextTarget, Put, EmissionReturns, CloseNext, CloseClear,
           Goto, TypeOK
    <3> QED BY <3>1, <3>2 DEF ClosingInv
  <2> QED BY <2>1, <2>2, <2>3
<1>2. CASE ReaderOrWorker \/ RequestStop
  <2>1. UNCHANGED <<stopRequested, connection>>
    BY <1>2 DEF ReaderOrWorker, RequestStop, ReceiveSubscribe, ReceiveEnd,
         AddReceiver, WorkerTake
  <2>2. PICK t \in Threads : (\E label : Goto(t, label)) /\ pc[t] # "disconnect"
    BY <1>2, Members DEF ReaderOrWorker, RequestStop, ReceiveSubscribe, ReceiveEnd,
         AddReceiver, WorkerTake, ConnectionRaises
  <2>3. \A s \in Threads : s # t => pc'[s] = pc[s]
    BY <2>2 DEF Goto, TypeOK
  <2> QED BY <2>1, <2>2, <2>3 DEF ClosingInv
<1>3. CASE PeerStep \/ UNCHANGED vars
  BY <1>3 DEF PeerStep, vars, ClosingInv
<1> QED BY <1>1, <1>2, <1>3, NextIsStep

LEMMA NextClean ==
  ASSUME TypeOK, StopInv, CleanInv, [Next]_vars
  PROVE  CleanInv'
<1> USE DEF stopVars, targetVars, errorVars
<1> SUFFICES ASSUME ~deliveryStopped'
             PROVE  CleanInv'
  BY DEF CleanInv
<1> DEFINE left == LeftOver(pc[Reader], index[Reader], targets)
<1>1. /\ ~deliveryStopped => receivers \subseteq left
      /\ pc[Reader] = "add" /\ ~deliveryStopped => created \in Range(targets)
  BY DEF CleanInv
<1>2. targets \in Seq(Nat) /\ Len(targets) \in Nat /\ index[Reader] \in Nat \ {0}
  BY LenProperties, Members DEF TypeOK
<1>3. ASSUME NEW t \in Threads, Step(t)
      PROVE  CleanInv'
  <2>1. ~deliveryStopped /\ ~Overflows(pc[t])
    BY <1>3 DEF Step, CheckStop, Send, Fails, StopTransport, Disconnect, AfterStop,
         BeginEmission, NextTarget, Put, CloseChannel, EmissionReturns, CloseNext,
         CloseClear, StopInv
  <2>2. CASE t # Reader
    <3>1. pc'[Reader] = pc[Reader] /\ index'[Reader] = index[Reader]
      BY <1>3, <2>2, Members DEF Step, CheckStop, Send, ConnectionRaises, Fails,
           StopTransport, Disconnect, AfterStop, BeginEmission, NextTarget, Put,
           CloseChannel, EmissionReturns, CloseNext, CloseClear, Goto, TypeOK
    <3>2. pc[t] # "close"
      BY <2>2 DEF TypeOK, MayBeAt, Stopping, Emission
    <3>3. UNCHANGED targetVars
      BY <1>3, <2>1, <3>2 DEF Step, CheckStop, Send, Fails, StopTransport,
           Disconnect, AfterStop, BeginEmission, NextTarget, Put, CloseChannel,
           EmissionReturns, CloseNext, CloseClear, Overflows
    <3> QED BY <1>1, <2>1, <3>1, <3>3 DEF CleanInv
  <2>3. CASE t = Reader /\ CloseNext(t)
    <3>1. pc[Reader] = "close" /\ receivers \subseteq Ahead(targets, index[Reader])
      BY <1>1, <2>1, <2>3 DEF CloseNext, LeftOver, Overflows
    <3>2. index[Reader] \in 1..Len(targets)
      BY <1>2, <2>3 DEF CloseNext
    <3>3. Ahead(targets, index[Reader])
            \subseteq {targets[index[Reader]]} \cup Ahead(targets, index[Reader] + 1)
      <4>1. ASSUME NEW j \in DOMAIN targets, j >= index[Reader]
            PROVE  j = index[Reader] \/ j >= index[Reader] + 1
        BY <1>2, <4>1
      <4> QED BY <4>1 DEF Ahead
    <3>4. /\ pc' = pc /\ targets' = targets /\ index'[Reader] = index[Reader] + 1
          /\ receivers' = receivers \ {targets[index[Reader]]}
      BY <2>3, Members DEF CloseNext, TypeOK
    <3> QED BY <3>1, <3>3, <3>4 DEF CleanInv, LeftOver
  <2>4. CASE t = Reader /\ CloseClear(t)
    <3>1. /\ pc[Reader] = "close" /\ receivers \subseteq Ahead(targets, index[Reader])
          /\ pc'[Reader] = "done" /\ receivers' = receivers
      BY <1>1, <2>1, <2>4, Members
         DEF CloseClear, LeftOver, Overflows, Goto, TypeOK
    <3>2. Ahead(targets, index[Reader]) = {}
      BY <1>2, <2>4, AheadOfNone DEF CloseClear
    <3> QED BY <3>1, <3>2 DEF CleanInv, LeftOver
  <2>5. CASE t = Reader /\ AfterStop(t)
    <3>1. /\ pc[Reader] = "stopped" /\ pc'[Reader] = "close"
          /\ index'[Reader] = 1 /\ UNCHANGED targetVars
      BY <2>5, Members DEF AfterStop, Goto, TypeOK
    <3>2. Ahead(targets, 1) = Range(targets)
      BY <1>2, AheadOfAll
    <3> QED BY <1>1, <2>1, <3>1, <3>2 DEF CleanInv, LeftOver
  <2>6. CASE t = Reader /\ ~CloseNext(t) /\ ~CloseClear(t) /\ ~AfterStop(t)
    <3>1. UNCHANGED targetVars
      BY <1>3, <2>6 DEF Step, CheckStop, Send, Fails, StopTransport, Disconnect,
           BeginEmission, NextTarget, Put, CloseChannel, EmissionReturns
    <3>2. /\ pc[Reader] \notin {"close", "done"}
          /\ pc'[Reader] \notin {"add", "close", "done"}
      BY <1>3, <2>6, Members DEF Step, CheckStop, Send, ConnectionRaises, Fails,
           StopTransport, Disconnect, BeginEmission, NextTarget, Put, CloseChannel,
           EmissionReturns, Goto, TypeOK
    <3> QED BY <1>1, <2>1, <3>1, <3>2 DEF CleanInv, LeftOver
  <2> QED BY <2>2, <2>3, <2>4, <2>5, <2>6
<1>4. CASE ReceiveSubscribe
  <2>1. /\ pc[Reader] = "wait" /\ pc'[Reader] = "add" /\ ~deliveryStopped
        /\ receivers' = receivers /\ created' = created + 1 /\ created' \in Nat
        /\ targets' = Append(targets, created')
    BY <1>4, Members DEF ReceiveSubscribe, Goto, TypeOK
  <2>2. Range(targets') = Range(targets) \cup {created'}
    BY <1>2, <2>1, RangeOfAppended
  <2> QED BY <1>1, <2>1, <2>2 DEF CleanInv, LeftOver
<1>5. CASE AddReceiver
  <2>1. /\ pc[Reader] = "add" /\ pc'[Reader] = "send" /\ ~deliveryStopped
        /\ receivers' = receivers \cup {created} /\ targets' = targets
    BY <1>5, Members DEF AddReceiver, Goto, TypeOK
  <2> QED BY <1>1, <2>1 DEF CleanInv, LeftOver
<1>6. CASE ReceiveEnd
  <2>1. /\ pc[Reader] = "wait" /\ pc'[Reader] = "stop" /\ ~deliveryStopped
        /\ UNCHANGED targetVars
    BY <1>6, Members DEF ReceiveEnd, ConnectionRaises, Goto, TypeOK
  <2> QED BY <1>1, <2>1 DEF CleanInv, LeftOver
<1>7. CASE WorkerTake \/ RequestStop \/ PeerStep \/ UNCHANGED vars
  <2>1. /\ pc'[Reader] = pc[Reader] /\ index' = index /\ ~deliveryStopped
        /\ UNCHANGED targetVars
    BY <1>7, Members DEF WorkerTake, RequestStop, PeerStep, vars, Goto, TypeOK
  <2> QED BY <1>1, <2>1 DEF CleanInv, LeftOver
<1> QED BY <1>3, <1>4, <1>5, <1>6, <1>7, NextIsStep DEF ReaderOrWorker

(***************************************************************************)
(* When both threads have returned, the connection is closed or about to   *)
(* be, and unless the queue overflowed the core holds no target of the     *)
(* session (close, _stop_transport).                                       *)
(***************************************************************************)
THEOREM LeavesNothing == Spec => []EndsClean
<1>1. TypeOK /\ StopInv /\ ClosingInv /\ CleanInv /\ [Next]_vars
        => (StopInv /\ ClosingInv /\ CleanInv)'
  BY NextStop, NextClosing, NextClean
<1>2. ASSUME TypeOK, StopInv, ClosingInv, CleanInv
      PROVE  EndsClean
  <2> SUFFICES ASSUME Ended(Reader), Ended(Worker)
               PROVE  /\ connection = "closed" \/ pc[Stopper] = "disconnect"
                      /\ ~deliveryStopped => receivers = {}
    BY DEF EndsClean
  <2>1. stopRequested
    BY <1>2, Members DEF StopInv, Stops, Ended
  <2>2. \A t \in Threads : pc[t] = "disconnect" => t \in {Reader, Worker, Stopper}
    BY <1>2 DEF TypeOK, MayBeAt, Emission
  <2> QED BY <1>2, <2>1, <2>2 DEF ClosingInv, CleanInv, LeftOver, Ended
<1> QED BY InitStop, Typing, <1>1, <1>2, PTL DEF Spec

------------------------------------------------------------------------------
(* The wire format: how a frame becomes parts, and parts a frame. *)

(* A part that is metadata, which is no payload. *)
Bare(m) == "size" \notin DOMAIN m

LEMMA KeyTravels ==
  ASSUME NEW key \in FormatKeys
  PROVE  DecodeFormatKey(EncodeFormatKey(key)) = key
BY DEF FormatKeys, DecodeFormatKey, EncodeFormatKey

LEMMA SymbolRegistrationTravels ==
  ASSUME NEW r \in SymbolRegistrations
  PROVE  DecodeRegistration(EncodeRegistration(r)) = r
<1>1. IsSymbolRegistration(r)
  BY DEF SymbolRegistrations, IsSymbolRegistration
<1>2. EncodeRegistration(r) = EncodeSymbolRegistration(r)
  BY <1>1 DEF EncodeRegistration
<1>3. DecodeRegistration(EncodeSymbolRegistration(r))
        = DecodeSymbolRegistration(EncodeSymbolRegistration(r))
  BY DEF DecodeRegistration, EncodeSymbolRegistration
<1>4. DecodeSymbolRegistration(EncodeSymbolRegistration(r)) = r
  <2>1. r = [symbol_kind |-> r.symbol_kind, symbol_id |-> r.symbol_id, symbol |-> r.symbol]
        /\ r.symbol_id = [type |-> r.symbol_id.type, value |-> r.symbol_id.value]
        /\ r.symbol_id.type = IDTypeOf[r.symbol_kind]
    BY DEF SymbolRegistrations
  <2> QED BY <2>1 DEF DecodeSymbolRegistration, EncodeSymbolRegistration, ID, IntOf
<1> QED BY <1>2, <1>3, <1>4

LEMMA FormatRegistrationTravels ==
  ASSUME NEW r \in FormatRegistrations
  PROVE  DecodeRegistration(EncodeRegistration(r)) = r
<1>1. ~IsSymbolRegistration(r)
  BY DEF FormatRegistrations, IsSymbolRegistration
<1>2. EncodeRegistration(r) = EncodeFormatRegistration(r)
  BY <1>1 DEF EncodeRegistration
<1>3. DecodeRegistration(EncodeFormatRegistration(r))
        = DecodeFormatRegistration(EncodeFormatRegistration(r))
  BY DEF DecodeRegistration, EncodeFormatRegistration
<1>4. DecodeFormatRegistration(EncodeFormatRegistration(r)) = r
  <2>1. /\ r = [format_id |-> r.format_id, key |-> r.key]
        /\ r.format_id = [type |-> "PortableFormatID", value |-> r.format_id.value]
        /\ r.key \in FormatKeys
    BY DEF FormatRegistrations, IDs
  <2> QED BY <2>1, KeyTravels DEF DecodeFormatRegistration, EncodeFormatRegistration, ID, IntOf
<1> QED BY <1>2, <1>3, <1>4

LEMMA RegistrationsTravel ==
  ASSUME NEW list \in RegistrationLists
  PROVE  Each(DecodeRegistration, Each(EncodeRegistration, list)) = list
<1>1. ASSUME NEW i \in DOMAIN list
      PROVE  DecodeRegistration(EncodeRegistration(list[i])) = list[i]
  BY <1>1, SymbolRegistrationTravels, FormatRegistrationTravels DEF RegistrationLists
<1>2. list = [i \in DOMAIN list |-> list[i]]
  BY DEF RegistrationLists
<1> QED BY <1>1, <1>2 DEF Each

LEMMA KeysTravel ==
  ASSUME NEW keys \in Seq(FormatKeys)
  PROVE  Each(DecodeFormatKey, Each(EncodeFormatKey, keys)) = keys
<1>1. ASSUME NEW i \in DOMAIN keys
      PROVE  DecodeFormatKey(EncodeFormatKey(keys[i])) = keys[i]
  BY <1>1, KeyTravels
<1>2. keys = [i \in DOMAIN keys |-> keys[i]]
  OBVIOUS
<1> QED BY <1>1, <1>2 DEF Each

LEMMA SupportsTravel ==
  ASSUME NEW list \in Seq(TypeFormatSupports)
  PROVE  Each(DecodeTypeFormatSupport, Each(EncodeTypeFormatSupport, list)) = list
<1>1. ASSUME NEW i \in DOMAIN list
      PROVE  DecodeTypeFormatSupport(EncodeTypeFormatSupport(list[i])) = list[i]
  <2>1. list[i] \in TypeFormatSupports
    BY <1>1
  <2>2. /\ list[i] = [msg_type |-> list[i].msg_type, format_keys |-> list[i].format_keys]
        /\ list[i].format_keys \in Seq(FormatKeys)
    BY <2>1 DEF TypeFormatSupports
  <2> QED BY <2>2, KeysTravel DEF DecodeTypeFormatSupport, EncodeTypeFormatSupport
<1>2. list = [i \in DOMAIN list |-> list[i]]
  OBVIOUS
<1> QED BY <1>1, <1>2 DEF Each

LEMMA SelectorsTravel ==
  ASSUME NEW list \in Seq(TopicSelectors)
  PROVE  Each(DecodeTopicSelector, Each(EncodeTopicSelector, list)) = list
<1>1. ASSUME NEW i \in DOMAIN list
      PROVE  DecodeTopicSelector(EncodeTopicSelector(list[i])) = list[i]
  <2>1. list[i] \in TopicSelectors
    BY <1>1
  <2>2. list[i] = [topic |-> list[i].topic, include_subtopics |-> list[i].include_subtopics]
    BY <2>1 DEF TopicSelectors
  <2> QED BY <2>2 DEF DecodeTopicSelector, EncodeTopicSelector
<1>2. list = [i \in DOMAIN list |-> list[i]]
  OBVIOUS
<1> QED BY <1>1, <1>2 DEF Each

LEMMA OptionalTravels ==
  ASSUME NEW type, NEW ids \in AtMostOne(IDs(type))
  PROVE  OptionalID(type, IntOrNull(ids)) = ids
<1>1. ASSUME NEW id \in ids
      PROVE  ID(type, id.value) = id
  BY <1>1 DEF AtMostOne, IDs, ID
<1> QED BY <1>1 DEF OptionalID, IntOrNull

LEMMA IDTravels ==
  ASSUME NEW type, NEW id \in IDs(type)
  PROVE  ID(type, IntOf(id)) = id
BY DEF IDs, ID, IntOf

------------------------------------------------------------------------------
(* A frame's parts are metadata, or metadata and a payload, and decode to it. *)
Travels(f) ==
  /\ \E m : /\ Bare(m)
            /\ \/ EncodeFrame(f) = <<m>>
               \/ \E payload \in PayloadBytes : EncodeFrame(f) = <<m, payload>>
  /\ DecodeFrame(EncodeFrame(f)) = f

LEMMA BareTravels ==
  ASSUME NEW f, NEW m, Bare(m), EncodeFrame(f) = <<m>>, DecodeBare(m) = f
  PROVE  Travels(f)
BY DEF Travels, DecodeFrame

LEMMA LoadedTravels ==
  ASSUME NEW f, NEW m, Bare(m), NEW payload \in PayloadBytes,
         EncodeFrame(f) = <<m, payload>>, DecodeLoaded(m, payload) = f
  PROVE  Travels(f)
BY DEF Travels, DecodeFrame

LEMMA RegisterEmitterResultTravels ==
  ASSUME NEW f \in EmitterFrames, f.frame = "RegisterEmitterResultFrame"
  PROVE  Travels(f)
<1> DEFINE m == EncodeRegisterEmitterResult(f)[1]
<1>1. EncodeFrame(f) = <<m>> /\ Bare(m)
  BY DEF EncodeFrame, EncodeRegisterEmitterResult, MetadataParts, Bare
<1>2. DecodeBare(m) = DecodeRegisterEmitterResult(m)
  BY DEF DecodeBare, EncodeRegisterEmitterResult, MetadataParts
<1>3. DecodeRegisterEmitterResult(m) = f
  BY IDTravels, RegistrationsTravel DEF EmitterFrames, DecodeRegisterEmitterResult, EncodeRegisterEmitterResult, MetadataParts
<1> QED BY <1>1, <1>2, <1>3, BareTravels

LEMMA RegisterMessageTypeTravels ==
  ASSUME NEW f \in NameFrames, f.frame = "RegisterMessageTypeFrame"
  PROVE  Travels(f)
<1> DEFINE m == EncodeRegisterMessageType(f)[1]
<1>1. EncodeFrame(f) = <<m>> /\ Bare(m)
  BY DEF EncodeFrame, EncodeRegisterMessageType, MetadataParts, Bare
<1>2. DecodeBare(m) = DecodeRegisterMessageType(m)
  BY DEF DecodeBare, EncodeRegisterMessageType, MetadataParts
<1>3. DecodeRegisterMessageType(m) = f
  BY DEF NameFrames, DecodeRegisterMessageType, EncodeRegisterMessageType, MetadataParts
<1> QED BY <1>1, <1>2, <1>3, BareTravels

LEMMA RegisterMessageTypeResultTravels ==
  ASSUME NEW f \in NameFrames, f.frame = "RegisterMessageTypeResultFrame"
  PROVE  Travels(f)
<1> DEFINE m == EncodeRegisterMessageTypeResult(f)[1]
<1>1. EncodeFrame(f) = <<m>> /\ Bare(m)
  BY DEF EncodeFrame, EncodeRegisterMessageTypeResult, MetadataParts, Bare
<1>2. DecodeBare(m) = DecodeRegisterMessageTypeResult(m)
  BY DEF DecodeBare, EncodeRegisterMessageTypeResult, MetadataParts
<1>3. DecodeRegisterMessageTypeResult(m) = f
  BY IDTravels, RegistrationsTravel DEF NameFrames, DecodeRegisterMessageTypeResult, EncodeRegisterMessageTypeResult, MetadataParts
<1> QED BY <1>1, <1>2, <1>3, BareTravels

LEMMA RegisterPayloadFormatTravels ==
  ASSUME NEW f \in NameFrames, f.frame = "RegisterPayloadFormatFrame"
  PROVE  Travels(f)
<1> DEFINE m == EncodeRegisterPayloadFormat(f)[1]
<1>1. EncodeFrame(f) = <<m>> /\ Bare(m)
  BY DEF EncodeFrame, EncodeRegisterPayloadFormat, MetadataParts, Bare
<1>2. DecodeBare(m) = DecodeRegisterPayloadFormat(m)
  BY DEF DecodeBare, EncodeRegisterPayloadFormat, MetadataParts
<1>3. DecodeRegisterPayloadFormat(m) = f
  BY KeyTravels DEF NameFrames, DecodeRegisterPayloadFormat, EncodeRegisterPayloadFormat, MetadataParts
<1> QED BY <1>1, <1>2, <1>3, BareTravels

LEMMA RegisterPayloadFormatResultTravels ==
  ASSUME NEW f \in NameFrames, f.frame = "RegisterPayloadFormatResultFrame"
  PROVE  Travels(f)
<1> DEFINE m == EncodeRegisterPayloadFormatResult(f)[1]
<1>1. EncodeFrame(f) = <<m>> /\ Bare(m)
  BY DEF EncodeFrame, EncodeRegisterPayloadFormatResult, MetadataParts, Bare
<1>2. DecodeBare(m) = DecodeRegisterPayloadFormatResult(m)
  BY DEF DecodeBare, EncodeRegisterPayloadFormatResult, MetadataParts
<1>3. DecodeRegisterPayloadFormatResult(m) = f
  BY IDTravels, RegistrationsTravel DEF NameFrames, DecodeRegisterPayloadFormatResult, EncodeRegisterPayloadFormatResult, MetadataParts
<1> QED BY <1>1, <1>2, <1>3, BareTravels

LEMMA SubscribeTravels ==
  ASSUME NEW f \in SubscriptionFrames, f.frame = "SubscribeFrame"
  PROVE  Travels(f)
<1> DEFINE m == EncodeSubscribe(f)[1]
<1>1. EncodeFrame(f) = <<m>> /\ Bare(m)
  BY DEF EncodeFrame, EncodeSubscribe, MetadataParts, Bare
<1>2. DecodeBare(m) = DecodeSubscribe(m)
  BY DEF DecodeBare, EncodeSubscribe, MetadataParts
<1>3. DecodeSubscribe(m) = f
  BY SelectorsTravel DEF SubscriptionFrames, DecodeSubscribe, EncodeSubscribe, MetadataParts
<1> QED BY <1>1, <1>2, <1>3, BareTravels

LEMMA SubscribeResultTravels ==
  ASSUME NEW f \in SubscriptionFrames, f.frame = "SubscribeResultFrame"
  PROVE  Travels(f)
<1> DEFINE m == EncodeSubscribeResult(f)[1]
<1>1. EncodeFrame(f) = <<m>> /\ Bare(m)
  BY DEF EncodeFrame, EncodeSubscribeResult, MetadataParts, Bare
<1>2. DecodeBare(m) = DecodeSubscribeResult(m)
  BY DEF DecodeBare, EncodeSubscribeResult, MetadataParts
<1>3. DecodeSubscribeResult(m) = f
  BY IDTravels, RegistrationsTravel DEF SubscriptionFrames, DecodeSubscribeResult, EncodeSubscribeResult, MetadataParts
<1> QED BY <1>1, <1>2, <1>3, BareTravels

LEMMA EmitResultTravels ==
  ASSUME NEW f \in MessageFrames, f.frame = "EmitResultFrame"
  PROVE  Travels(f)
<1> DEFINE m == EncodeEmitResult(f)[1]
<1>1. EncodeFrame(f) = <<m>> /\ Bare(m)
  BY DEF EncodeFrame, EncodeEmitResult, MetadataParts, Bare
<1>2. DecodeBare(m) = DecodeEmitResult(m)
  BY DEF DecodeBare, EncodeEmitResult, MetadataParts
<1>3. DecodeEmitResult(m) = f
  BY IDTravels DEF MessageFrames, DecodeEmitResult, EncodeEmitResult, MetadataParts
<1> QED BY <1>1, <1>2, <1>3, BareTravels

LEMMA RegistrationsTravels ==
  ASSUME NEW f \in NoticeFrames, f.frame = "RegistrationFrame"
  PROVE  Travels(f)
<1> DEFINE m == EncodeRegistrations(f)[1]
<1>1. EncodeFrame(f) = <<m>> /\ Bare(m)
  BY DEF EncodeFrame, EncodeRegistrations, MetadataParts, Bare
<1>2. DecodeBare(m) = DecodeRegistrations(m)
  BY DEF DecodeBare, EncodeRegistrations, MetadataParts
<1>3. DecodeRegistrations(m) = f
  BY RegistrationsTravel DEF NoticeFrames, DecodeRegistrations, EncodeRegistrations, MetadataParts
<1> QED BY <1>1, <1>2, <1>3, BareTravels

LEMMA TransportErrorTravels ==
  ASSUME NEW f \in NoticeFrames, f.frame = "TransportErrorFrame"
  PROVE  Travels(f)
<1> DEFINE m == EncodeTransportError(f)[1]
<1>1. EncodeFrame(f) = <<m>> /\ Bare(m)
  BY DEF EncodeFrame, EncodeTransportError, MetadataParts, Bare
<1>2. DecodeBare(m) = DecodeTransportError(m)
  BY DEF DecodeBare, EncodeTransportError, MetadataParts
<1>3. DecodeTransportError(m) = f
  BY DEF NoticeFrames, DecodeTransportError, EncodeTransportError, MetadataParts
<1> QED BY <1>1, <1>2, <1>3, BareTravels

LEMMA RegisterEmitterTravels ==
  ASSUME NEW f \in EmitterFrames, f.frame = "RegisterEmitterFrame"
  PROVE  Travels(f)
<1> DEFINE m == EncodeRegisterEmitter(f)[1]
<1>1. EncodeFrame(f) = <<m>> /\ Bare(m)
  BY DEF EncodeFrame, EncodeRegisterEmitter, MetadataParts, Bare
<1>2. DecodeBare(m) = DecodeRegisterEmitter(m)
  BY DEF DecodeBare, EncodeRegisterEmitter, MetadataParts
<1>3. DecodeRegisterEmitter(m) = f
  BY KeyTravels, SupportsTravel DEF EmitterFrames, DecodeRegisterEmitter, EncodeRegisterEmitter, MetadataParts
<1> QED BY <1>1, <1>2, <1>3, BareTravels

LEMMA EmitTravels ==
  ASSUME NEW f \in MessageFrames, f.frame = "EmitFrame"
  PROVE  Travels(f)
<1> DEFINE m == EncodeEmit(f)[1]
<1>1. /\ EncodeFrame(f) = <<m, f.payload_bytes>> /\ Bare(m)
      /\ f.payload_bytes \in PayloadBytes
  BY DEF EncodeFrame, EncodeEmit, PayloadParts, Bare, MessageFrames
<1>2. DecodeLoaded(m, f.payload_bytes) = DecodeEmit(m, f.payload_bytes)
  BY DEF DecodeLoaded, EncodeEmit, PayloadParts
<1>3. DecodeEmit(m, f.payload_bytes) = f
  BY IDTravels, OptionalTravels DEF MessageFrames, DecodeEmit, EncodeEmit, PayloadParts
<1> QED BY <1>1, <1>2, <1>3, LoadedTravels

LEMMA DeliveryTravels ==
  ASSUME NEW f \in MessageFrames, f.frame = "DeliveryFrame"
  PROVE  Travels(f)
<1> DEFINE m == EncodeDelivery(f)[1]
<1>1. /\ EncodeFrame(f) = <<m, f.payload_bytes>> /\ Bare(m)
      /\ f.payload_bytes \in PayloadBytes
  BY DEF EncodeFrame, EncodeDelivery, PayloadParts, Bare, MessageFrames
<1>2. DecodeLoaded(m, f.payload_bytes) = DecodeDelivery(m, f.payload_bytes)
  BY DEF DecodeLoaded, EncodeDelivery, PayloadParts
<1>3. DecodeDelivery(m, f.payload_bytes) = f
  BY IDTravels, OptionalTravels DEF MessageFrames, DecodeDelivery, EncodeDelivery, PayloadParts
<1> QED BY <1>1, <1>2, <1>3, LoadedTravels

(***************************************************************************)
(* Each frame decodes to itself, value for value and type for type: IDs of *)
(* zero, absent IDs and empty payloads stay what they are (encode_frame,   *)
(* decode_frame).                                                          *)
(***************************************************************************)
THEOREM FramesTravel ==
  ASSUME NEW f \in TransportFrames
  PROVE  Travels(f)
<1>1. CASE f \in EmitterFrames
  BY <1>1, RegisterEmitterTravels, RegisterEmitterResultTravels DEF EmitterFrames
<1>2. CASE f \in NameFrames
  BY <1>2, RegisterMessageTypeTravels, RegisterMessageTypeResultTravels,
     RegisterPayloadFormatTravels, RegisterPayloadFormatResultTravels DEF NameFrames
<1>3. CASE f \in SubscriptionFrames
  BY <1>3, SubscribeTravels, SubscribeResultTravels DEF SubscriptionFrames
<1>4. CASE f \in MessageFrames
  BY <1>4, EmitTravels, DeliveryTravels, EmitResultTravels DEF MessageFrames
<1>5. CASE f \in NoticeFrames
  BY <1>5, RegistrationsTravels, TransportErrorTravels DEF NoticeFrames
<1> QED BY <1>1, <1>2, <1>3, <1>4, <1>5 DEF TransportFrames

------------------------------------------------------------------------------
(* Framing: how parts become bytes, and bytes parts. *)

IsPart(part) == Bare(part) \/ part \in PayloadBytes

(* Whatever the parts of frames are. *)
WireParts == UNION {Range(EncodeFrame(f)) : f \in TransportFrames}

Bytes == [digit : Nat] \cup [text : WireParts, at : Nat]

LEMMA PartsOfFrame ==
  ASSUME NEW f \in TransportFrames
  PROVE  /\ EncodeFrame(f) \in Seq(WireParts) /\ Len(EncodeFrame(f)) \in {1, 2}
         /\ \A part \in Range(EncodeFrame(f)) : IsPart(part)
<1> DEFINE p == EncodeFrame(f)
<1>1. PICK m, payload : /\ Bare(m) /\ payload \in PayloadBytes
                        /\ p = <<m>> \/ p = <<m, payload>>
  <2>1. PICK m : /\ Bare(m)
                 /\ \/ p = <<m>>
                    \/ \E payload \in PayloadBytes : p = <<m, payload>>
    BY FramesTravel DEF Travels
  <2>2. CASE p = <<m>>
    <3>1. [size |-> 0] \in PayloadBytes
      BY DEF PayloadBytes
    <3> QED BY <2>1, <2>2, <3>1
  <2> QED BY <2>1, <2>2
<1>2. Range(p) \subseteq WireParts
  BY DEF WireParts
<1>3. Len(p) \in {1, 2} /\ DOMAIN p = 1..Len(p) /\ \A i \in DOMAIN p : p[i] \in {m, payload}
  BY <1>1
<1>4. \A i \in 1..Len(p) : p[i] \in WireParts
  BY <1>2, <1>3 DEF Range
<1>5. p \in Seq(WireParts)
  <2>1. CASE p = <<m>>
    BY <2>1, <1>4
  <2>2. CASE p = <<m, payload>>
    BY <2>2, <1>4
  <2> QED BY <1>1, <2>1, <2>2
<1>6. ASSUME NEW part \in Range(p)
      PROVE  IsPart(part)
  BY <1>1, <1>3, <1>6 DEF Range, IsPart
<1> QED BY <1>3, <1>5, <1>6

LEMMA SizeIs ==
  ASSUME NEW part, IsPart(part)
  PROVE  Size(part) \in Nat
BY DEF IsPart, Bare, PayloadBytes, Size

LEMMA PartReads ==
  ASSUME NEW part, IsPart(part)
  PROVE  PartOf(PartBytes(part)) = part
<1> DEFINE bytes == PartBytes(part)
<1>1. Size(part) \in Nat
  BY SizeIs
<1>2. /\ DOMAIN bytes = 1..Size(part)
      /\ \A i \in 1..Size(part) : bytes[i] = [text |-> part, at |-> i]
      /\ bytes = [i \in 1..Size(part) |-> bytes[i]]
  BY DEF PartBytes
<1>3. CASE Size(part) = 0
  <2>1. bytes = <<>>
    BY <1>2, <1>3
  <2>2. part = [size |-> 0]
    BY <1>3 DEF IsPart, Bare, PayloadBytes, Size
  <2> QED BY <2>1, <2>2 DEF PartOf
<1>4. CASE Size(part) # 0
  <2>1. 1 \in 1..Size(part)
    BY <1>1, <1>4
  <2>2. bytes # <<>> /\ bytes[1].text = part
    BY <1>2, <2>1
  <2>3. ASSUME NEW b \in ToSet(bytes)
        PROVE  "text" \in DOMAIN b
    BY <1>2, <2>3 DEF ToSet
  <2> QED BY <2>2, <2>3 DEF PartOf
<1> QED BY <1>3, <1>4

LEMMA PartTypes ==
  ASSUME NEW part \in WireParts, IsPart(part)
  PROVE  PartBytes(part) \in Seq(Bytes) /\ Len(PartBytes(part)) = Size(part)
<1>1. PartBytes(part) \in [1..Size(part) -> Bytes]
  BY SizeIs DEF PartBytes, Bytes
<1> QED BY <1>1, SizeIs

LEMMA Division ==
  ASSUME NEW n \in Nat, NEW d \in Nat \ {0}
  PROVE  \E q, r \in Nat : q = n \div d /\ r = n % d /\ q * d + r = n
<1>1. (n % d) + d * (n \div d) = n
  BY SMTT(30)
<1>2. n \div d \in Int /\ n % d \in 0..(d - 1)
  OBVIOUS
<1>3. PICK q, r : q = n \div d /\ r = n % d
  OBVIOUS
<1>4. q \in Int /\ r \in 0..(d - 1) /\ r + d * q = n
  BY <1>3, <1>1, <1>2
<1>5. CASE q <= -1
  <2>1. d * q <= -d
    BY <1>4, <1>5
  <2> QED BY <1>4, <2>1
<1>6. q * d = d * q
  BY <1>4
<1>7. q \in Nat /\ r \in Nat /\ q * d + r = n
  BY <1>4, <1>5, <1>6
<1> QED BY <1>3, <1>7, Zenon

LEMMA DigitsRead ==
  ASSUME WireAssumption, NEW n \in Nat
  PROVE  /\ Digits(n) \in Seq(Bytes) /\ Len(Digits(n)) = 2
         /\ Digits(n)[1].digit * Base + Digits(n)[2].digit = n
<1>1. Base \in Nat \ {0}
  BY DEF WireAssumption
<1>2. PICK q, r \in Nat : q = n \div Base /\ r = n % Base /\ q * Base + r = n
  BY <1>1, Division
<1> DEFINE high == [digit |-> q]
           low == [digit |-> r]
<1>3. high \in Bytes /\ low \in Bytes
  BY DEF Bytes
<1>4. Digits(n) = <<high, low>>
  BY <1>2, Zenon DEF Digits
<1>5. <<high, low>> \in Seq(Bytes) /\ Len(<<high, low>>) = 2
  BY <1>3
<1>6. <<high, low>>[1].digit = q /\ <<high, low>>[2].digit = r
  OBVIOUS
<1> QED BY <1>2, <1>4, <1>5, <1>6

LEMMA ChunksExist ==
  ASSUME NEW p, NEW n \in Nat
  PROVE  \E c : c = [k \in 0..n |->
                     IF k = 0 THEN Digits(Len(p))
                     ELSE c[k - 1] \o Digits(Size(p[k])) \o PartBytes(p[k])]
<1> DEFINE Are(c, m) == c = [k \in 0..m |->
                     IF k = 0 THEN Digits(Len(p))
                     ELSE c[k - 1] \o Digits(Size(p[k])) \o PartBytes(p[k])]
           bad == {m \in Nat : ~ \E c : Are(c, m)}
<1>1. bad \subseteq Nat /\ \A m \in Nat : m \in bad \/ \E c : Are(c, m)
  OBVIOUS
<1>2. ASSUME bad # {} PROVE FALSE
  <2>1. PICK m \in bad : \A y \in bad : m <= y
    <3> HIDE DEF bad
    <3> QED BY <1>1, <1>2, LeastOf
  <2>2. CASE m = 0
    <3> DEFINE c == [k \in 0..0 |-> Digits(Len(p))]
    <3>1. Are(c, 0)
      OBVIOUS
    <3> QED BY <2>1, <2>2, <3>1
  <2>3. CASE m # 0
    <3>1. m \in Nat /\ m - 1 \in Nat /\ m - 1 \notin bad
      <4> HIDE DEF bad
      <4> QED BY <1>1, <2>1, <2>3
    <3>2. PICK c : Are(c, m - 1)
      BY <1>1, <3>1
    <3> DEFINE last == c[m - 1] \o Digits(Size(p[m])) \o PartBytes(p[m])
               d == [k \in 0..m |-> IF k = m THEN last ELSE c[k]]
    <3>3. Are(d, m)
      <4>1. ASSUME NEW k \in 0..m
            PROVE  d[k] = IF k = 0 THEN Digits(Len(p))
                          ELSE d[k - 1] \o Digits(Size(p[k])) \o PartBytes(p[k])
        <5>1. CASE k = m
          <6>1. k # 0 /\ k - 1 \in 0..m /\ k - 1 # m
            BY <2>3, <3>1, <5>1
          <6>2. d[k] = last /\ d[k - 1] = c[k - 1]
            BY <4>1, <5>1, <6>1
          <6> HIDE DEF d
          <6> QED BY <5>1, <6>1, <6>2
        <5>2. CASE k # m
          <6>1. k \in 0..(m - 1) /\ d[k] = c[k] /\ (k # 0 => k - 1 \in 0..m /\ k - 1 # m)
            BY <3>1, <4>1, <5>2
          <6>2. k # 0 => d[k - 1] = c[k - 1]
            BY <6>1
          <6>3. c[k] = IF k = 0 THEN Digits(Len(p))
                       ELSE c[k - 1] \o Digits(Size(p[k])) \o PartBytes(p[k])
            BY <3>2, <6>1
          <6> QED BY <6>1, <6>2, <6>3
        <5> QED BY <5>1, <5>2
      <4> QED BY <4>1
    <3> QED BY <2>1, <3>3
  <2> QED BY <2>2, <2>3
<1> QED BY <1>2

(* What precedes the k-th part, and it, with what it is. *)
ChunksOf(p) == CHOOSE c : c = [k \in 0..Len(p) |->
                     IF k = 0 THEN Digits(Len(p))
                     ELSE c[k - 1] \o Digits(Size(p[k])) \o PartBytes(p[k])]

LEMMA ChunksAre ==
  ASSUME NEW p \in Seq(WireParts)
  PROVE  /\ FrameBytes(p) = ChunksOf(p)[Len(p)]
         /\ ChunksOf(p)[0] = Digits(Len(p))
         /\ \A k \in 1..Len(p) : ChunksOf(p)[k]
               = ChunksOf(p)[k - 1] \o Digits(Size(p[k])) \o PartBytes(p[k])
<1>1. Len(p) \in Nat
  OBVIOUS
<1>2. FrameBytes(p) = ChunksOf(p)[Len(p)]
  BY Zenon DEF FrameBytes, ChunksOf
<1>3. ChunksOf(p) = [k \in 0..Len(p) |->
                     IF k = 0 THEN Digits(Len(p))
                     ELSE ChunksOf(p)[k - 1] \o Digits(Size(p[k])) \o PartBytes(p[k])]
  BY <1>1, ChunksExist, Zenon DEF ChunksOf
<1> QED BY <1>1, <1>2, <1>3

StartsWith(long, short) ==
  Len(short) <= Len(long) /\ \A i \in 1..Len(short) : long[i] = short[i]

LEMMA ThreeJoined ==
  ASSUME NEW S, NEW a \in Seq(S), NEW d \in Seq(S), NEW b \in Seq(S)
  PROVE  /\ a \o d \o b \in Seq(S)
         /\ Len(a \o d \o b) = Len(a) + Len(d) + Len(b)
         /\ \A i \in 1..Len(a) : (a \o d \o b)[i] = a[i]
         /\ \A i \in 1..Len(d) : (a \o d \o b)[Len(a) + i] = d[i]
         /\ \A i \in 1..Len(b) : (a \o d \o b)[Len(a) + Len(d) + i] = b[i]
<1> DEFINE e == a \o d
<1>1. /\ e \in Seq(S) /\ Len(e) = Len(a) + Len(d)
      /\ \A i \in 1..Len(a) : e[i] = a[i]
      /\ \A i \in 1..Len(d) : e[Len(a) + i] = d[i]
  BY Joined
<1>2. Len(a) \in Nat /\ Len(b) \in Nat /\ Len(d) \in Nat
  OBVIOUS
<1> HIDE DEF e
<1>3. e \in Seq(S)
  BY <1>1
<1>4. /\ e \o b \in Seq(S) /\ Len(e \o b) = Len(e) + Len(b)
      /\ \A i \in 1..Len(e) : (e \o b)[i] = e[i]
      /\ \A i \in 1..Len(b) : (e \o b)[Len(e) + i] = b[i]
  BY <1>3, Joined
<1> DEFINE c == e \o b
<1>5. /\ c \in Seq(S) /\ Len(c) = Len(a) + Len(d) + Len(b)
      /\ \A i \in 1..(Len(a) + Len(d)) : c[i] = e[i]
      /\ \A i \in 1..Len(b) : c[Len(a) + Len(d) + i] = b[i]
  BY <1>2, <1>1, <1>4
<1> HIDE DEF c
<1>6. /\ \A i \in 1..Len(a) : c[i] = a[i]
      /\ \A i \in 1..Len(d) : c[Len(a) + i] = d[i]
  BY <1>2, <1>1, <1>5
<1> QED BY <1>5, <1>6 DEF c, e

LEMMA OneChunk ==
  ASSUME WireAssumption, NEW a \in Seq(Bytes), NEW part \in WireParts, IsPart(part)
  PROVE  LET c == a \o Digits(Size(part)) \o PartBytes(part)
         IN  /\ c \in Seq(Bytes) /\ Len(c) = Len(a) + 2 + Size(part)
             /\ StartsWith(c, a)
             /\ c[Len(a) + 1].digit * Base + c[Len(a) + 2].digit = Size(part)
             /\ \A i \in 1..Size(part) : c[Len(a) + 2 + i] = PartBytes(part)[i]
<1> DEFINE d == Digits(Size(part))
           b == PartBytes(part)
           c == a \o d \o b
<1>1. Size(part) \in Nat /\ Len(a) \in Nat
  BY SizeIs
<1>2. d \in Seq(Bytes) /\ Len(d) = 2
  BY <1>1, DigitsRead
<1>3. b \in Seq(Bytes) /\ Len(b) = Size(part)
  BY PartTypes
<1>4. d[1].digit * Base + d[2].digit = Size(part)
  BY <1>1, DigitsRead
<1> HIDE DEF d, b
<1>5. /\ c \in Seq(Bytes) /\ Len(c) = Len(a) + Len(d) + Len(b)
      /\ \A i \in 1..Len(a) : c[i] = a[i]
      /\ \A i \in 1..Len(d) : c[Len(a) + i] = d[i]
      /\ \A i \in 1..Len(b) : c[Len(a) + Len(d) + i] = b[i]
  <2>1. d \in Seq(Bytes) /\ b \in Seq(Bytes)
    BY <1>2, <1>3
  <2> QED BY <2>1, ThreeJoined
<1> HIDE DEF c
<1>6. /\ c \in Seq(Bytes) /\ Len(c) = Len(a) + 2 + Len(b)
      /\ \A i \in 1..Len(a) : c[i] = a[i]
      /\ c[Len(a) + 1] = d[1] /\ c[Len(a) + 2] = d[2]
      /\ \A i \in 1..Len(b) : c[Len(a) + 2 + i] = b[i]
  <2>1. c \in Seq(Bytes) /\ Len(c) = Len(a) + 2 + Len(b)
    BY <1>2, <1>5
  <2>2. \A i \in 1..Len(a) : c[i] = a[i]
    BY <1>5
  <2>3. c[Len(a) + 1] = d[1] /\ c[Len(a) + 2] = d[2]
    <3>1. 1 \in 1..Len(d) /\ 2 \in 1..Len(d)
      BY <1>2
    <3> QED BY <1>5, <3>1
  <2>4. \A i \in 1..Len(b) : c[Len(a) + 2 + i] = b[i]
    BY <1>2, <1>5
  <2> QED BY <2>1, <2>2, <2>3, <2>4
<1>7. StartsWith(c, a)
  BY <1>1, <1>3, <1>6 DEF StartsWith
<1>8. c[Len(a) + 1].digit * Base + c[Len(a) + 2].digit = Size(part)
  BY <1>4, <1>6
<1>9. /\ Len(c) = Len(a) + 2 + Size(part)
      /\ \A i \in 1..Size(part) : c[Len(a) + 2 + i] = b[i]
  BY <1>3, <1>6
<1> QED BY <1>6, <1>7, <1>8, <1>9 DEF b, c, d

(* The parts of one frame *)
FrameParts == {p \in Seq(WireParts) : \A part \in Range(p) : IsPart(part)}

LEMMA ChunkTypes ==
  ASSUME WireAssumption, NEW p \in FrameParts
  PROVE  \A k \in 0..Len(p) : ChunksOf(p)[k] \in Seq(Bytes) /\ Len(ChunksOf(p)[k]) >= 2
<1> DEFINE c == ChunksOf(p)
           bad == {k \in 0..Len(p) : ~ (c[k] \in Seq(Bytes) /\ Len(c[k]) >= 2)}
<1>1. Len(p) \in Nat /\ p \in Seq(WireParts)
  BY DEF FrameParts
<1>2. /\ c[0] = Digits(Len(p))
      /\ \A k \in 1..Len(p) : c[k] = c[k - 1] \o Digits(Size(p[k])) \o PartBytes(p[k])
  BY <1>1, ChunksAre
<1> HIDE DEF c
<1>3. ASSUME bad # {} PROVE FALSE
  <2>1. PICK k \in bad : \A y \in bad : k <= y
    <3>1. bad \in SUBSET Nat
      BY <1>1
    <3> HIDE DEF bad
    <3> QED BY <1>3, <3>1, LeastOf
  <2>2. k # 0
    BY <1>1, <1>2, <2>1, DigitsRead
  <2>3. k \in 1..Len(p) /\ k - 1 \in 0..Len(p) /\ c[k - 1] \in Seq(Bytes)
        /\ Len(c[k - 1]) >= 2
    BY <1>1, <2>1, <2>2
  <2>4. p[k] \in WireParts /\ IsPart(p[k])
    BY <1>1, <2>3 DEF FrameParts, Range
  <2>5. c[k] \in Seq(Bytes) /\ Len(c[k]) >= 2
    <3> DEFINE a == c[k - 1]
               part == p[k]
    <3>1. /\ a \in Seq(Bytes) /\ part \in WireParts /\ IsPart(part)
          /\ c[k] = a \o Digits(Size(part)) \o PartBytes(part)
      BY <1>2, <2>3, <2>4
    <3> HIDE DEF a, part
    <3>2. Len(a) >= 2 /\ Size(part) \in Nat /\ Len(a) \in Nat
      BY <2>3, <3>1, SizeIs DEF a
    <3>3. c[k] \in Seq(Bytes) /\ Len(c[k]) = Len(a) + 2 + Size(part)
      BY <3>1, OneChunk
    <3> QED BY <3>2, <3>3
  <2> QED BY <2>1, <2>5
<1> QED BY <1>3 DEF c

LEMMA NextChunk ==
  ASSUME WireAssumption, NEW p \in FrameParts, NEW k \in 1..Len(p)
  PROVE  LET a == ChunksOf(p)[k - 1]
             c == ChunksOf(p)[k]
         IN  /\ a \in Seq(Bytes) /\ c \in Seq(Bytes) /\ Size(p[k]) \in Nat
             /\ Len(c) = Len(a) + 2 + Size(p[k])
             /\ StartsWith(c, a)
             /\ c[Len(a) + 1].digit * Base + c[Len(a) + 2].digit = Size(p[k])
             /\ \A i \in 1..Size(p[k]) : c[Len(a) + 2 + i] = PartBytes(p[k])[i]
<1>1. Len(p) \in Nat /\ p \in Seq(WireParts)
  BY DEF FrameParts
<1>2. p[k] \in WireParts /\ IsPart(p[k])
  BY <1>1 DEF FrameParts, Range
<1>3. ChunksOf(p)[k] = ChunksOf(p)[k - 1] \o Digits(Size(p[k])) \o PartBytes(p[k])
  BY <1>1, ChunksAre
<1>4. ChunksOf(p)[k - 1] \in Seq(Bytes)
  <2>1. k - 1 \in 0..Len(p)
    BY <1>1
  <2> QED BY <2>1, ChunkTypes
<1> DEFINE a == ChunksOf(p)[k - 1]
           c == ChunksOf(p)[k]
           part == p[k]
<1>5. /\ a \in Seq(Bytes) /\ part \in WireParts /\ IsPart(part)
      /\ c = a \o Digits(Size(part)) \o PartBytes(part)
  BY <1>2, <1>3, <1>4
<1> HIDE DEF a, c, part
<1>6. Size(part) \in Nat
  BY <1>5, SizeIs
<1>7. /\ c \in Seq(Bytes) /\ Len(c) = Len(a) + 2 + Size(part)
      /\ StartsWith(c, a)
      /\ c[Len(a) + 1].digit * Base + c[Len(a) + 2].digit = Size(part)
      /\ \A i \in 1..Size(part) : c[Len(a) + 2 + i] = PartBytes(part)[i]
  <2>1. LET d == a \o Digits(Size(part)) \o PartBytes(part)
        IN  /\ d \in Seq(Bytes) /\ Len(d) = Len(a) + 2 + Size(part)
            /\ StartsWith(d, a)
            /\ d[Len(a) + 1].digit * Base + d[Len(a) + 2].digit = Size(part)
            /\ \A i \in 1..Size(part) : d[Len(a) + 2 + i] = PartBytes(part)[i]
    BY <1>5, OneChunk, Zenon
  <2> QED BY <1>5, <2>1, Zenon
<1> QED BY <1>5, <1>6, <1>7 DEF a, c, part

LEMMA ChunksStartFrame ==
  ASSUME WireAssumption, NEW p \in FrameParts, NEW k \in 0..Len(p)
  PROVE  /\ StartsWith(FrameBytes(p), ChunksOf(p)[k])
         /\ FrameBytes(p) \in Seq(Bytes)
<1> DEFINE c == ChunksOf(p)
           bad == {m \in 0..Len(p) : m >= k /\ ~StartsWith(c[m], c[k])}
<1>1. Len(p) \in Nat /\ p \in Seq(WireParts)
  BY DEF FrameParts
<1>2. \A m \in 0..Len(p) : c[m] \in Seq(Bytes) /\ Len(c[m]) \in Nat
  BY ChunkTypes
<1>3. \A m \in 1..Len(p) : StartsWith(c[m], c[m - 1])
  BY NextChunk
<1> HIDE DEF c
<1>4. ASSUME bad # {} PROVE FALSE
  <2>1. PICK m \in bad : \A y \in bad : m <= y
    <3>1. bad \in SUBSET Nat
      BY <1>1
    <3> HIDE DEF bad
    <3> QED BY <1>4, <3>1, LeastOf
  <2>2. m # k
    BY <1>2, <2>1 DEF StartsWith
  <2>3. m \in 1..Len(p) /\ m - 1 \in 0..Len(p) /\ m - 1 >= k /\ StartsWith(c[m - 1], c[k])
    BY <1>1, <2>1, <2>2
  <2>4. StartsWith(c[m], c[k])
    BY <1>2, <1>3, <2>3 DEF StartsWith
  <2> QED BY <2>1, <2>4
<1>5. StartsWith(c[Len(p)], c[k])
  BY <1>1, <1>4
<1>6. FrameBytes(p) = c[Len(p)] /\ Len(p) \in 0..Len(p)
  <2>1. Len(p) \in 0..Len(p)
    BY <1>1
  <2> QED BY <1>1, <2>1, ChunksAre DEF c
<1> QED BY <1>2, <1>5, <1>6 DEF c

LEMMA EndsExist ==
  ASSUME NEW bytes, NEW n \in Nat
  PROVE  \E e : e = [k \in 0..n |->
                     IF k = 0 THEN CountSize ELSE PartEnd(bytes, e[k - 1])]
<1> DEFINE Are(e, m) == e = [k \in 0..m |->
                     IF k = 0 THEN CountSize ELSE PartEnd(bytes, e[k - 1])]
           bad == {m \in Nat : ~ \E e : Are(e, m)}
<1>1. bad \subseteq Nat /\ \A m \in Nat : m \in bad \/ \E e : Are(e, m)
  OBVIOUS
<1>2. ASSUME bad # {} PROVE FALSE
  <2>1. PICK m \in bad : \A y \in bad : m <= y
    <3> HIDE DEF bad
    <3> QED BY <1>1, <1>2, LeastOf
  <2>2. CASE m = 0
    <3> DEFINE e == [k \in 0..0 |-> CountSize]
    <3>1. Are(e, 0)
      OBVIOUS
    <3> QED BY <2>1, <2>2, <3>1
  <2>3. CASE m # 0
    <3>1. m \in Nat /\ m - 1 \in Nat /\ m - 1 \notin bad
      <4> HIDE DEF bad
      <4> QED BY <1>1, <2>1, <2>3
    <3>2. PICK e : Are(e, m - 1)
      BY <1>1, <3>1
    <3> DEFINE last == PartEnd(bytes, e[m - 1])
               d == [k \in 0..m |-> IF k = m THEN last ELSE e[k]]
    <3>3. Are(d, m)
      <4>1. ASSUME NEW k \in 0..m
            PROVE  d[k] = IF k = 0 THEN CountSize ELSE PartEnd(bytes, d[k - 1])
        <5>1. CASE k = m
          BY <2>3, <3>1, <5>1
        <5>2. CASE k # m
          <6>1. k \in 0..(m - 1) /\ d[k] = e[k] /\ (k # 0 => k - 1 \in 0..m /\ k - 1 # m)
            BY <3>1, <4>1, <5>2
          <6>2. k # 0 => d[k - 1] = e[k - 1]
            BY <6>1
          <6>3. e[k] = IF k = 0 THEN CountSize ELSE PartEnd(bytes, e[k - 1])
            BY <3>2, <6>1
          <6> QED BY <6>1, <6>2, <6>3
        <5> QED BY <5>1, <5>2
      <4> QED BY <4>1
    <3> QED BY <2>1, <3>3
  <2> QED BY <2>2, <2>3
<1> QED BY <1>2

LEMMA EndsAre ==
  ASSUME NEW bytes, Number(bytes) \in Nat
  PROVE  /\ Ends(bytes)[0] = CountSize
         /\ \A k \in 1..Number(bytes) : Ends(bytes)[k] = PartEnd(bytes, Ends(bytes)[k - 1])
<1> DEFINE n == Number(bytes)
           e == Ends(bytes)
<1>1. e = CHOOSE d : d = [k \in 0..n |->
                     IF k = 0 THEN CountSize ELSE PartEnd(bytes, d[k - 1])]
  BY Zenon DEF Ends
<1>2. e = [k \in 0..n |-> IF k = 0 THEN CountSize ELSE PartEnd(bytes, e[k - 1])]
  <2> HIDE DEF e, n
  <2>1. \E d : d = [k \in 0..n |->
                     IF k = 0 THEN CountSize ELSE PartEnd(bytes, d[k - 1])]
    BY EndsExist DEF n
  <2> QED BY <1>1, <2>1, Zenon
<1> HIDE DEF e
<1> QED BY <1>2 DEF e

(* What is in the buffer and what was written agree, as far as both go. *)
Agree(bytes, written) ==
  \A i \in 1..Len(bytes) : i <= Len(written) => bytes[i] = written[i]

LEMMA CountRead ==
  ASSUME WireAssumption, NEW p \in FrameParts, NEW bytes \in Seq(Bytes),
         Agree(bytes, FrameBytes(p)), Len(bytes) >= CountSize
  PROVE  Number(bytes) = Len(p)
<1> DEFINE w == FrameBytes(p)
           d == Digits(Len(p))
<1>1. Len(p) \in Nat /\ p \in Seq(WireParts)
  BY DEF FrameParts
<1>2. StartsWith(w, d)
  <2>1. 0 \in 0..Len(p)
    BY <1>1
  <2>2. ChunksOf(p)[0] = d
    BY <1>1, ChunksAre
  <2> QED BY <2>1, <2>2, ChunksStartFrame
<1>3. Len(d) = 2 /\ d[1].digit * Base + d[2].digit = Len(p)
  BY <1>1, DigitsRead
<1> HIDE DEF w, d
<1>4. Len(bytes) \in Nat /\ Len(w) \in Nat
  BY ChunksStartFrame, <1>1 DEF w
<1>5. bytes[1] = d[1] /\ bytes[2] = d[2]
  BY <1>2, <1>3, <1>4 DEF Agree, StartsWith, CountSize, w
<1> QED BY <1>3, <1>5 DEF Number

LEMMA PartEndRead ==
  ASSUME WireAssumption, NEW p \in FrameParts, NEW bytes \in Seq(Bytes),
         Agree(bytes, FrameBytes(p)), NEW k \in 1..Len(p),
         Len(bytes) >= Len(ChunksOf(p)[k - 1])
  PROVE  PartEnd(bytes, Len(ChunksOf(p)[k - 1]))
           = IF Len(bytes) < Len(ChunksOf(p)[k]) THEN Short ELSE Len(ChunksOf(p)[k])
<1> DEFINE a == ChunksOf(p)[k - 1]
           c == ChunksOf(p)[k]
           w == FrameBytes(p)
           size == Size(p[k])
<1>1. k \in 0..Len(p) /\ k - 1 \in 0..Len(p)
  BY DEF FrameParts
<1>2. /\ size \in Nat /\ Len(c) = Len(a) + 2 + size
      /\ c[Len(a) + 1].digit * Base + c[Len(a) + 2].digit = size
  BY NextChunk
<1>3. StartsWith(w, c) /\ Len(w) \in Nat
  BY <1>1, ChunksStartFrame
<1>4. Len(a) \in Nat /\ Len(a) >= 2 /\ Len(bytes) \in Nat /\ Len(bytes) >= Len(a)
  <2>1. a \in Seq(Bytes) /\ Len(a) >= 2
    BY <1>1, ChunkTypes
  <2> HIDE DEF a
  <2>2. Len(a) \in Nat /\ Len(bytes) \in Nat
    BY <2>1
  <2> QED BY <2>1, <2>2 DEF a
<1>5. Agree(bytes, w)
  OBVIOUS
<1> DEFINE cursor == Len(a)
           from == cursor + LengthSize
<1> HIDE DEF a, c, w, size
<1>6. from = cursor + 2 /\ cursor # Short
  BY <1>4 DEF LengthSize, Short
<1>7. size \in Nat /\ Len(c) = cursor + 2 + size
  BY <1>2
<1>8. CASE Len(bytes) < from
  BY <1>2, <1>4, <1>6, <1>8 DEF PartEnd, a, c, size
<1>9. CASE Len(bytes) >= from
  <2> DEFINE head == SubSeq(bytes, cursor + 1, from)
  <2>1. head[1] = bytes[cursor + 1] /\ head[2] = bytes[cursor + 2]
    BY <1>4, <1>6, <1>9
  <2>2. bytes[cursor + 1] = c[cursor + 1] /\ bytes[cursor + 2] = c[cursor + 2]
    <3>1. ASSUME NEW i \in 1..2
          PROVE  bytes[cursor + i] = c[cursor + i]
      <4>1. cursor + i \in 1..Len(c) /\ cursor + i \in 1..Len(bytes) /\ Len(c) <= Len(w)
        BY <1>3, <1>4, <1>6, <1>9, <1>7 DEF StartsWith
      <4>2. w[cursor + i] = c[cursor + i]
        BY <1>3, <4>1 DEF StartsWith
      <4>3. bytes[cursor + i] = w[cursor + i]
        BY <1>3, <1>5, <1>7, <4>1 DEF Agree
      <4> QED BY <4>2, <4>3
    <3> QED BY <3>1
  <2>3. Number(head) = size
    BY <1>2, <2>1, <2>2 DEF Number
  <2>4. from + Number(head) = Len(c) /\ ~ (Len(bytes) < from)
    BY <1>2, <1>4, <1>6, <1>9, <2>3
  <2> QED BY <1>6, <2>4 DEF PartEnd, a, c
<1> QED BY <1>4, <1>6, <1>8, <1>9

LEMMA PartRead ==
  ASSUME WireAssumption, NEW p \in FrameParts, NEW bytes \in Seq(Bytes),
         Agree(bytes, FrameBytes(p)), NEW k \in 1..Len(p),
         Len(bytes) >= Len(ChunksOf(p)[k])
  PROVE  PartOf(SubSeq(bytes, Len(ChunksOf(p)[k - 1]) + LengthSize + 1, Len(ChunksOf(p)[k])))
           = p[k]
<1> DEFINE a == ChunksOf(p)[k - 1]
           c == ChunksOf(p)[k]
           w == FrameBytes(p)
           size == Size(p[k])
           text == SubSeq(bytes, Len(a) + LengthSize + 1, Len(c))
           part == PartBytes(p[k])
<1>1. k \in 0..Len(p) /\ k - 1 \in 0..Len(p)
  BY DEF FrameParts
<1>2. /\ size \in Nat /\ Len(c) = Len(a) + 2 + size
      /\ \A i \in 1..size : c[Len(a) + 2 + i] = part[i]
  BY NextChunk
<1>3. StartsWith(w, c) /\ Len(w) \in Nat
  BY <1>1, ChunksStartFrame
<1>4. Len(a) \in Nat /\ Len(bytes) \in Nat /\ Len(bytes) >= Len(c)
  BY <1>1, ChunkTypes
<1>5. Agree(bytes, w)
  OBVIOUS
<1>6. text = SubSeq(bytes, Len(a) + 3, Len(a) + 2 + size)
  <2>1. Len(a) + LengthSize + 1 = Len(a) + 3 /\ Len(c) = Len(a) + 2 + size
    BY <1>2, <1>4 DEF LengthSize
  <2> QED BY <2>1
<1>7. part = [i \in 1..size |-> part[i]]
  BY DEF PartBytes
<1>8. IsPart(p[k])
  BY <1>1 DEF FrameParts, Range
<1> HIDE DEF a, c, w, size, text, part
<1>9. text = [i \in 1..size |-> bytes[Len(a) + 2 + i]]
  BY <1>2, <1>4, <1>6
<1>10. ASSUME NEW i \in 1..size
       PROVE  bytes[Len(a) + 2 + i] = part[i]
  <2>1. Len(a) + 2 + i \in 1..Len(c)
    BY <1>2, <1>4
  <2> QED BY <1>2, <1>3, <1>4, <1>5, <2>1 DEF Agree, StartsWith
<1>11. text = part
  BY <1>7, <1>9, <1>10
<1> QED BY <1>8, <1>11, PartReads DEF a, c, text, part

(* Each end is where the chunk ends, as far as the buffer goes. *)
LEMMA EndsRead ==
  ASSUME WireAssumption, NEW p \in FrameParts, NEW bytes \in Seq(Bytes),
         Agree(bytes, FrameBytes(p)), Len(bytes) >= CountSize, NEW k \in 0..Len(p)
  PROVE  Ends(bytes)[k] = IF Len(bytes) < Len(ChunksOf(p)[k]) THEN Short
                          ELSE Len(ChunksOf(p)[k])
<1> DEFINE n == Len(p)
           c == ChunksOf(p)
           e == Ends(bytes)
           bad == {j \in 0..n : e[j] # IF Len(bytes) < Len(c[j]) THEN Short ELSE Len(c[j])}
<1>1. n \in Nat /\ p \in Seq(WireParts)
  BY DEF FrameParts
<1>2. Number(bytes) = n
  BY CountRead
<1>3. e[0] = CountSize /\ \A j \in 1..n : e[j] = PartEnd(bytes, e[j - 1])
  BY <1>1, <1>2, EndsAre
<1>4. Len(c[0]) = 2
  <2>1. c[0] = Digits(n)
    BY <1>1, ChunksAre
  <2> QED BY <1>1, <2>1, DigitsRead
<1>5. \A j \in 0..n : Len(c[j]) \in Nat /\ Len(c[j]) >= 2
  <2>1. \A j \in 0..n : c[j] \in Seq(Bytes) /\ Len(c[j]) >= 2
    BY ChunkTypes
  <2> HIDE DEF c
  <2> QED BY <2>1
<1>6. ASSUME NEW j \in 1..n, Len(bytes) >= Len(c[j - 1])
      PROVE  PartEnd(bytes, Len(c[j - 1]))
               = IF Len(bytes) < Len(c[j]) THEN Short ELSE Len(c[j])
  BY <1>6, PartEndRead
<1>7. ASSUME NEW j \in 1..n
      PROVE  Len(c[j - 1]) <= Len(c[j])
  <2>1. StartsWith(c[j], c[j - 1])
    BY NextChunk
  <2> QED BY <2>1 DEF StartsWith
<1>8. Len(bytes) \in Nat
  OBVIOUS
<1> HIDE DEF c, e, n
<1>9. ASSUME bad # {} PROVE FALSE
  <2>1. PICK j \in bad : \A y \in bad : j <= y
    <3>1. bad \in SUBSET Nat
      BY <1>1
    <3> HIDE DEF bad
    <3> QED BY <1>9, <3>1, LeastOf
  <2>2. j # 0
    <3>1. Len(bytes) >= 2
      BY DEF CountSize
    <3>2. e[0] = IF Len(bytes) < Len(c[0]) THEN Short ELSE Len(c[0])
      BY <1>3, <1>4, <1>8, <3>1 DEF CountSize
    <3> QED BY <2>1, <3>2
  <2>3. j \in 1..n /\ j - 1 \in 0..n
        /\ e[j - 1] = IF Len(bytes) < Len(c[j - 1]) THEN Short ELSE Len(c[j - 1])
    BY <1>1, <2>1, <2>2
  <2>4. e[j] = PartEnd(bytes, e[j - 1])
    BY <1>3, <2>3
  <2>5. CASE Len(bytes) < Len(c[j - 1])
    <3>1. e[j - 1] = Short
      BY <2>3, <2>5
    <3>2. e[j] = Short
      BY <2>4, <3>1 DEF PartEnd
    <3>3. Len(bytes) < Len(c[j])
      <4>1. Len(c[j - 1]) <= Len(c[j]) /\ Len(c[j]) \in Nat /\ Len(c[j - 1]) \in Nat
        BY <1>1, <1>5, <1>7, <2>3
      <4> QED BY <1>8, <2>5, <4>1
    <3> QED BY <2>1, <3>2, <3>3
  <2>6. CASE ~ (Len(bytes) < Len(c[j - 1]))
    <3>1. e[j - 1] = Len(c[j - 1])
      BY <2>3, <2>6
    <3>2. Len(bytes) >= Len(c[j - 1])
      BY <1>5, <1>8, <2>3, <2>6
    <3>3. e[j] = IF Len(bytes) < Len(c[j]) THEN Short ELSE Len(c[j])
      BY <1>6, <2>3, <2>4, <3>1, <3>2
    <3> QED BY <2>1, <3>3
  <2> QED BY <2>5, <2>6
<1>10. k \in 0..n /\ k \notin bad
  BY <1>9 DEF n
<1> QED BY <1>10 DEF c, e

(***************************************************************************)
(* take_frame_parts returns a frame exactly when all its bytes are in the  *)
(* buffer, whatever is behind them, takes those bytes and no more, and     *)
(* gives the parts that socket_frame_parts_bytes was given.                *)
(***************************************************************************)
THEOREM FrameRead ==
  ASSUME WireAssumption, NEW p \in FrameParts, NEW bytes \in Seq(Bytes),
         Agree(bytes, FrameBytes(p))
  PROVE  /\ HasFrame(bytes) <=> Len(bytes) >= Len(FrameBytes(p))
         /\ HasFrame(bytes) => /\ FrameEnd(bytes) = Len(FrameBytes(p))
                               /\ Parts(bytes) = p
<1> DEFINE n == Len(p)
           w == FrameBytes(p)
<1>1. n \in Nat /\ p \in Seq(WireParts) /\ Len(bytes) \in Nat
  BY DEF FrameParts
<1>2. w = ChunksOf(p)[n] /\ n \in 0..n
  <2>1. n \in 0..n
    BY <1>1
  <2> QED BY <1>1, <2>1, ChunksAre
<1>3. Len(w) \in Nat /\ Len(w) >= 2
  <2>1. w \in Seq(Bytes) /\ Len(w) >= 2
    BY <1>2, ChunkTypes
  <2> HIDE DEF w
  <2> QED BY <2>1
<1>4. CASE Len(bytes) < CountSize
  BY <1>1, <1>3, <1>4 DEF HasFrame, FrameEnd, CountSize, Short
<1>5. CASE Len(bytes) >= CountSize
  <2>1. Number(bytes) = n
    BY <1>5, CountRead
  <2>2. FrameEnd(bytes) = IF Len(bytes) < Len(w) THEN Short ELSE Len(w)
    <3>1. FrameEnd(bytes) = Ends(bytes)[n]
      BY <1>1, <1>5, <2>1 DEF FrameEnd, CountSize
    <3>2. Ends(bytes)[n] = IF Len(bytes) < Len(ChunksOf(p)[n]) THEN Short
                           ELSE Len(ChunksOf(p)[n])
      BY <1>2, <1>5, EndsRead
    <3> QED BY <1>2, <3>1, <3>2
  <2>3. HasFrame(bytes) <=> Len(bytes) >= Len(w)
    BY <1>1, <1>3, <2>2 DEF HasFrame, Short
  <2>4. ASSUME Len(bytes) >= Len(w)
        PROVE  Parts(bytes) = p
    <3>1. ASSUME NEW k \in 0..n
          PROVE  Ends(bytes)[k] = Len(ChunksOf(p)[k]) /\ Len(bytes) >= Len(ChunksOf(p)[k])
      <4>1. StartsWith(w, ChunksOf(p)[k])
        BY ChunksStartFrame
      <4>2. Len(ChunksOf(p)[k]) \in Nat
        BY ChunkTypes
      <4>3. Len(bytes) >= Len(ChunksOf(p)[k])
        BY <1>1, <1>3, <2>4, <4>1, <4>2 DEF StartsWith
      <4>4. Ends(bytes)[k] = IF Len(bytes) < Len(ChunksOf(p)[k]) THEN Short
                             ELSE Len(ChunksOf(p)[k])
        BY <1>5, EndsRead
      <4> QED BY <1>1, <4>2, <4>3, <4>4
    <3>2. ASSUME NEW k \in 1..n
          PROVE  PartOf(SubSeq(bytes, Ends(bytes)[k - 1] + LengthSize + 1, Ends(bytes)[k]))
                   = p[k]
      <4>1. k \in 0..n /\ k - 1 \in 0..n
        BY <1>1
      <4>2. /\ Ends(bytes)[k] = Len(ChunksOf(p)[k]) /\ Len(bytes) >= Len(ChunksOf(p)[k])
            /\ Ends(bytes)[k - 1] = Len(ChunksOf(p)[k - 1])
        BY <3>1, <4>1
      <4>3. PartOf(SubSeq(bytes, Len(ChunksOf(p)[k - 1]) + LengthSize + 1,
                          Len(ChunksOf(p)[k]))) = p[k]
        BY <4>2, PartRead
      <4> QED BY <4>2, <4>3
    <3>3. p = [k \in 1..n |-> p[k]]
      BY <1>1
    <3> QED BY <2>1, <3>2, <3>3, Zenon DEF Parts
  <2> QED BY <1>1, <1>3, <2>2, <2>3, <2>4
<1> QED BY <1>1, <1>4, <1>5 DEF CountSize

(* What is on its way, one at a time: a byte, or a message's parts *)
Content == IF medium = "stream" THEN Bytes ELSE Seq(WireParts)

SenderStates == [at : {"ready", "sending", "done", "failed"}, left : Seq(Content)]

(* One sender holds the lock at a time, the last that got it, and only it  *)
(* has something left to write.                                            *)
SendInv ==
  /\ medium \in {"stream", "messages"}
  /\ script \in [Senders -> TransportFrames]
  /\ sender \in [Senders -> SenderStates]
  /\ shut \in BOOLEAN
  /\ order \in Seq(Senders)
  /\ \A i, j \in 1..Len(order) : order[i] = order[j] => i = j
  /\ \A s \in Senders :
       sender[s].at # "ready" <=> \E i \in 1..Len(order) : order[i] = s
  /\ lock = {s \in Senders : sender[s].at = "sending"}
  /\ \A s \in lock : /\ Len(order) >= 1 /\ s = order[Len(order)]
                     /\ sender[s].left # <<>>
                     /\ medium = "messages" => sender[s].left = Wire(s)
  /\ whole = {s \in Senders : sender[s].at = "done"}
  /\ medium = "messages" /\ ~shut => \A s \in Senders : sender[s].at # "failed"

LEMMA WireIs ==
  ASSUME WireAssumption, script \in [Senders -> TransportFrames],
         medium \in {"stream", "messages"}, NEW s \in Senders
  PROVE  /\ EncodeFrame(script[s]) \in FrameParts
         /\ DecodeFrame(EncodeFrame(script[s])) = script[s]
         /\ Wire(s) \in Seq(Content) /\ Wire(s) # <<>>
         /\ medium = "stream" => Wire(s) = FrameBytes(EncodeFrame(script[s]))
         /\ medium = "messages" => Wire(s) = <<EncodeFrame(script[s])>>
<1> DEFINE p == EncodeFrame(script[s])
<1>1. script[s] \in TransportFrames
  OBVIOUS
<1>2. p \in FrameParts
  BY <1>1, PartsOfFrame DEF FrameParts
<1>3. DecodeFrame(p) = script[s]
  BY <1>1, FramesTravel DEF Travels
<1>4. CASE medium = "stream"
  <2>1. FrameBytes(p) \in Seq(Bytes) /\ Len(FrameBytes(p)) >= 2
    <3> HIDE DEF p
    <3>1. 0 \in 0..Len(p) /\ Len(p) \in 0..Len(p) /\ p \in Seq(WireParts)
      BY <1>2 DEF FrameParts
    <3>2. FrameBytes(p) = ChunksOf(p)[Len(p)]
      BY <3>1, ChunksAre
    <3> QED BY <1>2, <3>1, <3>2, ChunksStartFrame, ChunkTypes
  <2>2. Wire(s) = FrameBytes(p)
    BY <1>4 DEF Wire
  <2>3. FrameBytes(p) # <<>>
    <3> HIDE DEF p
    <3> QED BY <2>1
  <2> QED BY <1>2, <1>3, <1>4, <2>1, <2>2, <2>3 DEF Content
<1>5. CASE medium = "messages"
  <2>1. Wire(s) = <<p>> /\ p \in Seq(WireParts)
    BY <1>2, <1>5 DEF Wire, FrameParts
  <2> HIDE DEF p
  <2>2. <<p>> \in Seq(Seq(WireParts)) /\ <<p>> # <<>>
    BY <2>1
  <2> QED BY <1>2, <1>3, <1>5, <2>1, <2>2 DEF Content, p
<1> QED BY <1>4, <1>5

LEMMA Agreed ==
  ASSUME NEW bytes \in Seq(Bytes), NEW rest \in Seq(Bytes),
         NEW w \in Seq(Bytes), NEW tail \in Seq(Bytes)
  PROVE  bytes \o rest = w \o tail => Agree(bytes, w)
<1>1. /\ Len(bytes) \in Nat /\ Len(w) \in Nat
      /\ \A i \in 1..Len(bytes) : (bytes \o rest)[i] = bytes[i]
  BY Joined
<1>2. \A i \in 1..Len(w) : (w \o tail)[i] = w[i]
  BY Joined
<1> QED BY <1>1, <1>2 DEF Agree

(* What is on its way behind the buffer's first frame *)
Behind(bytes, rest) == Rest(bytes) \o rest

(* A buffer that holds a frame's bytes, or the first of them *)
LEMMA BufferRead ==
  ASSUME WireAssumption, script \in [Senders -> TransportFrames],
         medium = "stream", NEW s \in Senders, NEW bytes \in Seq(Bytes),
         NEW rest \in Seq(Bytes), NEW tail \in Seq(Bytes),
         bytes \o rest = Wire(s) \o tail
  PROVE  /\ HasFrame(bytes) <=> Len(bytes) >= Len(Wire(s))
         /\ HasFrame(bytes) => /\ DecodeFrame(Parts(bytes)) = script[s]
                               /\ Rest(bytes) \in Seq(Bytes)
                               /\ Behind(bytes, rest) = tail
<1> DEFINE p == EncodeFrame(script[s])
           w == Wire(s)
<1>1. /\ p \in FrameParts /\ DecodeFrame(p) = script[s]
      /\ w \in Seq(Bytes) /\ w = FrameBytes(p)
  BY WireIs DEF Content
<1>2. Agree(bytes, w)
  <2> HIDE DEF w
  <2>1. bytes \o rest = w \o tail /\ w \in Seq(Bytes)
    BY <1>1 DEF w
  <2> QED BY <2>1, Agreed
<1>3. /\ HasFrame(bytes) <=> Len(bytes) >= Len(w)
      /\ HasFrame(bytes) => FrameEnd(bytes) = Len(w) /\ Parts(bytes) = p
  <2> HIDE DEF p, w
  <2>1. Agree(bytes, FrameBytes(p)) /\ p \in FrameParts
    BY <1>1, <1>2
  <2> QED BY <1>1, <2>1, FrameRead
<1>4. ASSUME HasFrame(bytes)
      PROVE  Rest(bytes) \in Seq(Bytes) /\ Rest(bytes) \o rest = tail
  <2>1. Rest(bytes) = SubSeq(bytes, Len(w) + 1, Len(bytes))
    BY <1>3, <1>4 DEF Rest
  <2>2. Len(w) <= Len(bytes) /\ Len(w) \in 0..Len(bytes)
    BY <1>1, <1>3, <1>4
  <2> HIDE DEF w
  <2>3. bytes \o rest = w \o tail /\ w \in Seq(Bytes)
    BY <1>1 DEF w
  <2>4. SubSeq(bytes, Len(w) + 1, Len(bytes)) \in Seq(Bytes)
    BY <2>2, CutInTwo
  <2>5. SubSeq(bytes, Len(w) + 1, Len(bytes)) \o rest = tail
    BY <2>2, <2>3, JoinedRest
  <2> QED BY <2>1, <2>4, <2>5
<1> QED BY <1>1, <1>3, <1>4 DEF Behind

------------------------------------------------------------------------------
LEMMA SendInit ==
  ASSUME WireAssumption, WireInit
  PROVE  SendInv
<1>1. medium \in {"stream", "messages"} /\ script \in [Senders -> TransportFrames]
  BY DEF WireInit, WireAssumption
<1>2. sender \in [Senders -> SenderStates]
  BY DEF WireInit, SenderStates
<1>3. order = <<>> /\ order \in Seq(Senders) /\ Len(order) = 0
  BY DEF WireInit
<1>4. \A s \in Senders : sender[s].at = "ready"
  BY DEF WireInit
<1>5. lock = {} /\ whole = {} /\ shut = FALSE
  BY DEF WireInit
<1>6. ~ \E i \in 1..Len(order) : TRUE
  BY <1>3
<1>7. \A s \in Senders :
        sender[s].at # "ready" <=> \E i \in 1..Len(order) : order[i] = s
  BY <1>4, <1>6
<1>8. /\ lock = {s \in Senders : sender[s].at = "sending"}
      /\ whole = {s \in Senders : sender[s].at = "done"}
      /\ \A s \in Senders : sender[s].at # "failed"
  BY <1>4, <1>5
<1> QED BY <1>1, <1>2, <1>3, <1>5, <1>6, <1>7, <1>8 DEF SendInv

LEMMA BeginSendStep ==
  ASSUME WireAssumption, SendInv, NEW s \in Senders, BeginSend(s)
  PROVE  SendInv'
<1> USE DEF SendInv, BeginSend
<1>1. medium' = medium /\ script' = script /\ Content' = Content /\ shut' = shut
      /\ SenderStates' = SenderStates
  BY DEF Content, SenderStates
<1>2. Wire(s) \in Seq(Content) /\ Wire(s) # <<>> /\ \A r \in Senders : Wire(r)' = Wire(r)
  BY WireIs DEF Wire
<1>3. sender' \in [Senders -> SenderStates]
  <2>1. [at |-> "sending", left |-> Wire(s)] \in SenderStates
    BY <1>2 DEF SenderStates
  <2> QED BY <2>1
<1>4. /\ order' \in Seq(Senders) /\ Len(order') = Len(order) + 1 /\ Len(order) \in Nat
      /\ \A i \in 1..Len(order) : order'[i] = order[i]
      /\ order'[Len(order) + 1] = s
  BY Appended
<1>5. \A i \in 1..Len(order) : order[i] # s
  OBVIOUS
<1>6. \A i, j \in 1..Len(order') : order'[i] = order'[j] => i = j
  BY <1>4, <1>5
<1>7. ASSUME NEW r \in Senders
      PROVE  sender'[r].at # "ready" <=> \E i \in 1..Len(order') : order'[i] = r
  <2>1. CASE r = s
    <3>1. Len(order) + 1 \in 1..Len(order')
      BY <1>4
    <3> QED BY <1>4, <2>1, <3>1
  <2>2. CASE r # s
    <3>1. sender'[r] = sender[r]
      BY <2>2
    <3>2. (\E i \in 1..Len(order') : order'[i] = r) <=> \E i \in 1..Len(order) : order[i] = r
      BY <1>4, <2>2
    <3> QED BY <3>1, <3>2
  <2> QED BY <2>1, <2>2
<1>8. lock' = {r \in Senders : sender'[r].at = "sending"}
      /\ whole' = {r \in Senders : sender'[r].at = "done"}
  OBVIOUS
<1>9. \A r \in lock' : /\ Len(order') >= 1 /\ r = order'[Len(order')]
                       /\ sender'[r].left # <<>>
                       /\ medium' = "messages" => sender'[r].left = Wire(r)'
  BY <1>1, <1>2, <1>4
<1>10. medium' = "messages" /\ ~shut' => \A r \in Senders : sender'[r].at # "failed"
  OBVIOUS
<1> HIDE DEF SendInv, BeginSend
<1>11. medium' \in {"stream", "messages"} /\ script' \in [Senders -> TransportFrames]
       /\ shut' \in BOOLEAN /\ sender' \in [Senders -> SenderStates']
  BY <1>1, <1>3 DEF SendInv
<1> QED BY <1>4, <1>6, <1>7, <1>8, <1>9, <1>10, <1>11 DEF SendInv

(* A sender that has the lock goes on, or gives it back. *)
LEMMA HolderStep ==
  ASSUME WireAssumption, SendInv, NEW s \in Senders, sender[s].at = "sending",
         NEW state \in SenderStates, sender' = [sender EXCEPT ![s] = state],
         UNCHANGED <<medium, script, shut, order>>,
         \/ /\ state.at = "sending" /\ state.left # <<>> /\ medium = "stream"
            /\ lock' = lock /\ whole' = whole
         \/ state.at = "done" /\ lock' = lock \ {s} /\ whole' = whole \cup {s}
         \/ /\ state.at = "failed" /\ lock' = lock \ {s} /\ whole' = whole
            /\ medium = "messages" => shut
  PROVE  SendInv'
<1> USE DEF SendInv
<1>1. Content' = Content /\ SenderStates' = SenderStates
      /\ \A r \in Senders : Wire(r)' = Wire(r)
  BY DEF Content, SenderStates, Wire
<1>2. sender'[s] = state /\ \A r \in Senders : r # s => sender'[r] = sender[r]
  OBVIOUS
<1>3. sender' \in [Senders -> SenderStates']
  BY <1>1
<1>4. \A r \in Senders : sender'[r].at # "ready" <=> \E i \in 1..Len(order) : order[i] = r
  BY <1>2
<1>5. lock' = {r \in Senders : sender'[r].at = "sending"}
      /\ whole' = {r \in Senders : sender'[r].at = "done"}
  BY <1>2
<1>6. \A r \in lock' : /\ Len(order) >= 1 /\ r = order[Len(order)]
                       /\ sender'[r].left # <<>>
                       /\ medium = "messages" => sender'[r].left = Wire(r)
  BY <1>2
<1>7. medium = "messages" /\ ~shut => \A r \in Senders : sender'[r].at # "failed"
  BY <1>2
<1> QED BY <1>1, <1>3, <1>4, <1>5, <1>6, <1>7

LEMMA WriteStep ==
  ASSUME WireAssumption, SendInv, NEW s \in Senders, Write(s)
  PROVE  SendInv'
<1>1. PICK n \in 1..Len(sender[s].left) :
        LET left == SubSeq(sender[s].left, n + 1, Len(sender[s].left))
        IN  /\ pipe' = pipe \o SubSeq(sender[s].left, 1, n)
            /\ IF left # <<>>
               THEN /\ sender' = [sender EXCEPT ![s].left = left]
                    /\ UNCHANGED <<lock, whole>>
               ELSE /\ sender' = [sender EXCEPT ![s] = [at |-> "done", left |-> <<>>]]
                    /\ lock' = lock \ {s}
                    /\ whole' = whole \cup {s}
  BY DEF Write
<1> DEFINE left == SubSeq(sender[s].left, n + 1, Len(sender[s].left))
<1>2. sender[s] \in SenderStates /\ sender[s].left \in Seq(Content) /\ sender[s].at = "sending"
      /\ UNCHANGED <<medium, script, shut, order>>
  BY DEF SendInv, Write, SenderStates
<1>3. left \in Seq(Content) /\ Len(left) = Len(sender[s].left) - n
  <2> DEFINE all == sender[s].left
  <2>1. all \in Seq(Content) /\ n \in 0..Len(all)
    BY <1>2
  <2> HIDE DEF all
  <2>2. SubSeq(all, n + 1, Len(all)) \in Seq(Content)
        /\ Len(SubSeq(all, n + 1, Len(all))) = Len(all) - n
    BY <2>1, CutInTwo
  <2> QED BY <2>2 DEF all
<1>4. CASE left # <<>>
  <2> DEFINE state == [at |-> "sending", left |-> left]
  <2>1. sender' = [sender EXCEPT ![s] = state] /\ UNCHANGED <<lock, whole>>
    BY <1>1, <1>2, <1>4 DEF SenderStates, SendInv
  <2>2. medium = "stream"
    <3>1. SUFFICES ASSUME medium = "messages" PROVE FALSE
      BY DEF SendInv
    <3>2. s \in lock /\ sender[s].left = Wire(s)
      BY <1>2, <3>1 DEF SendInv
    <3>3. Wire(s) = <<EncodeFrame(script[s])>>
      BY <3>1, WireIs DEF SendInv
    <3>4. Len(sender[s].left) = 1
      BY <3>2, <3>3
    <3>5. Len(left) = 0
      BY <1>3, <3>4
    <3> HIDE DEF left
    <3> QED BY <1>3, <1>4, <3>5
  <2>3. state \in SenderStates
    BY <1>3 DEF SenderStates
  <2>4. state.at = "sending" /\ state.left # <<>>
    BY <1>4
  <2> HIDE DEF state
  <2> QED BY <1>2, <2>1, <2>2, <2>3, <2>4, HolderStep
<1>5. CASE left = <<>>
  <2> DEFINE state == [at |-> "done", left |-> <<>>]
  <2>1. /\ sender' = [sender EXCEPT ![s] = state]
        /\ lock' = lock \ {s} /\ whole' = whole \cup {s}
    BY <1>1, <1>5
  <2>2. state \in SenderStates /\ state.at = "done"
    BY DEF SenderStates
  <2> HIDE DEF state
  <2> QED BY <1>2, <2>1, <2>2, HolderStep
<1> QED BY <1>4, <1>5

LEMMA CutOffStep ==
  ASSUME WireAssumption, SendInv, NEW s \in Senders, WriteFails(s) \/ CancelSend(s)
  PROVE  SendInv'
<1> DEFINE state == [at |-> "failed", left |-> <<>>]
<1>1. /\ sender[s].at = "sending" /\ sender' = [sender EXCEPT ![s] = state]
      /\ lock' = lock \ {s} /\ whole' = whole /\ UNCHANGED <<medium, script, shut, order>>
      /\ medium = "messages" => shut
  BY DEF WriteFails, CancelSend, CutOff
<1>2. state \in SenderStates /\ state.at = "failed"
  BY DEF SenderStates
<1> HIDE DEF state
<1> QED BY <1>1, <1>2, HolderStep

LEMMA SenderCloses ==
  ASSUME WireAssumption, SendInv, Close
  PROVE  SendInv'
<1>1. Content' = Content /\ SenderStates' = SenderStates
      /\ \A r \in Senders : Wire(r)' = Wire(r)
  BY DEF Close, Content, SenderStates, Wire
<1> QED BY <1>1 DEF SendInv, Close

LEMMA ReceivingStep ==
  ASSUME SendInv, UNCHANGED sending
  PROVE  SendInv'
<1>1. Content' = Content /\ SenderStates' = SenderStates
      /\ \A r \in Senders : Wire(r)' = Wire(r)
  BY DEF sending, Content, SenderStates, Wire
<1> QED BY <1>1 DEF SendInv, sending

------------------------------------------------------------------------------
(* The sends that were finished before the first that was not *)
Finished(n) ==
  /\ n \in 0..Len(order)
  /\ \A i \in 1..n : sender[order[i]].at = "done"
  /\ n < Len(order) => sender[order[n + 1]].at # "done"

LEMMA FinishedOnes ==
  ASSUME SendInv, NEW n \in Nat, Finished(n)
  PROVE  /\ n = Len(order) => lock = {}
         /\ n < Len(order) =>
              /\ order[n + 1] \in Senders
              /\ sender[order[n + 1]].at \in {"sending", "failed"}
              /\ sender[order[n + 1]].at = "sending" =>
                   n + 1 = Len(order) /\ lock = {order[n + 1]}
              /\ sender[order[n + 1]].at = "failed" =>
                   order[n + 1] \notin lock
<1> USE DEF SendInv, Finished, SenderStates
<1>1. Len(order) \in Nat
  OBVIOUS
<1>2. ASSUME n = Len(order) PROVE lock = {}
  <2>1. ASSUME NEW s \in lock PROVE FALSE
    BY <1>1, <1>2
  <2> QED BY <2>1
<1>3. ASSUME n < Len(order)
      PROVE  /\ order[n + 1] \in Senders
             /\ sender[order[n + 1]].at \in {"sending", "failed"}
             /\ sender[order[n + 1]].at = "sending" =>
                  n + 1 = Len(order) /\ lock = {order[n + 1]}
             /\ sender[order[n + 1]].at = "failed" =>
                  order[n + 1] \notin lock
  <2>1. n + 1 \in 1..Len(order) /\ order[n + 1] \in Senders
    BY <1>1, <1>3
  <2>2. sender[order[n + 1]].at \in {"sending", "failed"}
    BY <1>3, <2>1
  <2>3. sender[order[n + 1]].at = "sending" => order[n + 1] \in lock
    BY <2>1
  <2>4. ASSUME order[n + 1] \in lock
        PROVE  n + 1 = Len(order) /\ lock = {order[n + 1]}
    <3>1. order[n + 1] = order[Len(order)] /\ Len(order) \in 1..Len(order)
      BY <1>1, <2>1, <2>4
    <3>2. n + 1 = Len(order)
      BY <2>1, <3>1
    <3> QED BY <2>4, <3>2
  <2> QED BY <2>1, <2>2, <2>3, <2>4
<1> QED BY <1>2, <1>3

(* The frames that may still be read as they were sent *)
LEMMA IntactIs ==
  ASSUME SendInv, NEW n \in Nat, Finished(n)
  PROVE  /\ Intact \in n..Len(order)
         /\ n < Len(order) /\ sender[order[n + 1]].at = "failed" => Intact = n
         /\ n = Len(order) \/ sender[order[n + 1]].at = "sending" => Intact = Len(order)
<1> DEFINE cut == {i \in DOMAIN order : sender[order[i]].at = "failed"}
<1>1. Len(order) \in Nat /\ DOMAIN order = 1..Len(order) /\ n \in 0..Len(order)
  BY DEF SendInv, Finished
<1>2. ASSUME NEW i \in cut PROVE i > n /\ i \in 1..Len(order)
  BY <1>1, <1>2 DEF Finished
<1>3. CASE n < Len(order) /\ sender[order[n + 1]].at = "failed"
  <2>1. n + 1 \in cut /\ cut # {}
    BY <1>1, <1>3
  <2>2. Intact = CHOOSE i \in 0..Len(order) : i + 1 \in cut /\ \A j \in cut : i < j
    BY <2>1, Zenon DEF Intact
  <2> HIDE DEF cut
  <2>3. n \in 0..Len(order) /\ n + 1 \in cut /\ \A j \in cut : n < j
    BY <1>1, <1>2, <2>1
  <2>4. ASSUME NEW i \in 0..Len(order), i + 1 \in cut, \A j \in cut : i < j
        PROVE  i = n
    <3>1. i < n + 1 /\ i + 1 > n
      BY <1>2, <2>1, <2>4
    <3> QED BY <1>1, <3>1
  <2>5. Intact = n
    BY <2>2, <2>3, <2>4
  <2>6. sender[order[n + 1]].at # "sending"
    BY <1>3, Zenon
  <2>7. n # Len(order) /\ n \in n..Len(order)
    BY <1>1, <1>3
  <2> QED BY <2>5, <2>6, <2>7
<1>4. CASE ~ (n < Len(order) /\ sender[order[n + 1]].at = "failed")
  <2>1. cut = {}
    <3>1. ASSUME NEW i \in cut PROVE FALSE
      <4>1. i > n /\ i \in 1..Len(order) /\ sender[order[i]].at = "failed"
        BY <1>2, <3>1
      <4>2. n < Len(order)
        BY <1>1, <4>1
      <4>3. sender[order[n + 1]].at = "sending"
        BY <1>4, <4>2, FinishedOnes
      <4>4. n + 1 = Len(order) /\ sender[order[n + 1]].at = "sending"
        BY <4>2, <4>3, FinishedOnes
      <4>5. i = n + 1
        BY <1>1, <4>1, <4>4
      <4> QED BY <4>1, <4>4, <4>5
    <3> QED BY <3>1
  <2>2. Intact = Len(order)
    BY <2>1, Zenon DEF Intact
  <2>3. Len(order) \in n..Len(order)
    BY <1>1
  <2> QED BY <1>4, <2>2, <2>3
<1> QED BY <1>3, <1>4

LEMMA WholeIs ==
  ASSUME SendInv, NEW n \in Nat, Finished(n), AllWhole
  PROVE  Cardinality(whole) = n
<1>1. Len(order) \in Nat /\ n \in 0..Len(order)
  BY DEF SendInv, Finished
<1>2. \A i \in 1..n : order[i] \in whole
  BY <1>1 DEF SendInv, Finished
<1>3. ASSUME NEW s \in whole PROVE \E i \in 1..n : order[i] = s
  <2>1. s \in Senders /\ sender[s].at = "done"
    BY <1>3 DEF SendInv
  <2>2. PICK i \in 1..Len(order) : order[i] = s
    BY <2>1 DEF SendInv
  <2>3. CASE n = Len(order)
    BY <2>2, <2>3
  <2>4. CASE n < Len(order)
    <3>1. Intact = Len(order)
      BY DEF AllWhole
    <3>2. sender[order[n + 1]].at = "sending" /\ n + 1 = Len(order)
      BY <1>1, <2>4, <3>1, FinishedOnes, IntactIs
    <3>3. i # n + 1
      BY <2>1, <2>2, <3>2
    <3>4. i \in 1..n
      BY <1>1, <2>2, <3>2, <3>3
    <3> QED BY <2>2, <3>4
  <2> QED BY <1>1, <2>3, <2>4
<1> DEFINE f == [i \in 1..n |-> order[i]]
<1>4. f \in [1..n -> whole]
  BY <1>2
<1>5. \A i, j \in 1..n : f[i] = f[j] => i = j
  <2>1. \A i \in 1..n : i \in 1..Len(order)
    BY <1>1
  <2> QED BY <2>1 DEF SendInv
<1>6. \A s \in whole : \E i \in 1..n : f[i] = s
  BY <1>3
<1>7. f \in Bijection(1..n, whole)
  <2> HIDE DEF f
  <2> QED BY <1>4, <1>5, <1>6, Zenon DEF Bijection, Injection, Surjection, IsInjective
<1>8. ExistsBijection(1..n, whole)
  BY <1>7 DEF ExistsBijection
<1> QED BY <1>8, FS_CountingElements

------------------------------------------------------------------------------
Arrived ==
  /\ pipe \in Seq(Content) /\ buffer \in Seq(Content)
  /\ medium = "messages" => buffer = <<>>
  /\ received \in Seq(TransportFrames)
  /\ \A i \in 1..Len(received) : received[i] = script[order[i]]
  /\ missed = FALSE
  /\ told = "the end" => shut /\ receiver = "idle" /\ medium = "stream"

(* What is on its way is the finished frames that were not received, one   *)
(* behind the other, and the first bytes of the next: tail[i] is what      *)
(* follows the i-th frame.                                                 *)
Flow(n, tail) ==
  /\ tail[Len(received)] = buffer \o pipe
  /\ \A i \in (Len(received) + 1)..n : tail[i - 1] = Wire(order[i]) \o tail[i]
  /\ n = Len(order) => tail[n] = <<>>
  /\ n < Len(order) /\ sender[order[n + 1]].at = "sending" =>
       tail[n] \o sender[order[n + 1]].left = Wire(order[n + 1])

Queue(n) ==
  /\ Len(received) + Len(pipe) <= n
  /\ ~shut => Len(received) + Len(pipe) = n
  /\ \A i \in 1..Len(pipe) :
       pipe[i] = EncodeFrame(script[order[Len(received) + i]])

OnTheWay(n) ==
  /\ Finished(n) /\ Len(received) <= n
  /\ medium = "stream" => \E tail \in [Nat -> Seq(Bytes)] : Flow(n, tail)
  /\ medium = "messages" => Queue(n)
  /\ told = "the end" => Len(received) = n

WireInv == SendInv /\ Arrived /\ \E n \in Nat : OnTheWay(n)

LEMMA WireStarts ==
  ASSUME WireAssumption, WireInit
  PROVE  WireInv
<1>1. SendInv
  BY SendInit
<1>2. Arrived
  BY DEF WireInit, Arrived
<1>3. order = <<>> /\ received = <<>> /\ pipe = <<>> /\ buffer = <<>>
  BY DEF WireInit
<1>4. Finished(0) /\ Len(received) <= 0 /\ Len(received) = 0
  BY <1>3 DEF Finished
<1>5. Flow(0, [i \in Nat |-> <<>>])
  BY <1>3 DEF Flow
<1>6. [i \in Nat |-> <<>>] \in [Nat -> Seq(Bytes)]
  OBVIOUS
<1>7. Queue(0)
  BY <1>3 DEF Queue
<1>8. OnTheWay(0)
  BY <1>4, <1>5, <1>6, <1>7 DEF OnTheWay
<1> QED BY <1>1, <1>2, <1>8 DEF WireInv

LEMMA Known ==
  ASSUME WireInv, NEW n \in Nat, Finished(n)
  PROVE  /\ Len(order) \in Nat /\ n <= Len(order)
         /\ Len(received) \in Nat /\ Len(pipe) \in Nat
         /\ \A i \in 1..Len(order) : order[i] \in Senders
         /\ medium \in {"stream", "messages"}
         /\ medium = "stream" => Content = Bytes
         /\ pipe \in Seq(Content) /\ buffer \in Seq(Content)
         /\ script \in [Senders -> TransportFrames]
<1>1. Len(order) \in Nat /\ n <= Len(order) /\ \A i \in 1..Len(order) : order[i] \in Senders
  BY DEF WireInv, SendInv, Finished
<1>2. medium \in {"stream", "messages"} /\ script \in [Senders -> TransportFrames]
  BY DEF WireInv, SendInv
<1>3. pipe \in Seq(Content) /\ buffer \in Seq(Content) /\ received \in Seq(TransportFrames)
  BY DEF WireInv, Arrived
<1>4. Len(received) \in Nat /\ Len(pipe) \in Nat
  <2> HIDE DEF WireInv
  <2> QED BY <1>3
<1>5. medium = "stream" => Content = Bytes
  BY DEF Content
<1> QED BY <1>1, <1>2, <1>3, <1>4, <1>5

LEMMA BeginSendKeeps ==
  ASSUME WireAssumption, WireInv, NEW s \in Senders, BeginSend(s)
  PROVE  WireInv'
<1>1. SendInv' /\ SendInv
  BY BeginSendStep DEF WireInv
<1>2. /\ UNCHANGED <<medium, script, shut, pipe, receiving>> /\ lock = {}
      /\ sender' = [sender EXCEPT ![s] = [at |-> "sending", left |-> Wire(s)]]
      /\ order' = Append(order, s) /\ sender[s].at = "ready" /\ s \in Senders
  BY DEF BeginSend
<1>3. PICK n \in Nat : OnTheWay(n)
  BY DEF WireInv
<1>4. Finished(n) /\ Len(received) <= n
  BY <1>3 DEF OnTheWay
<1>5. /\ Len(order) \in Nat /\ n <= Len(order) /\ Len(received) \in Nat /\ Len(pipe) \in Nat
      /\ \A i \in 1..Len(order) : order[i] \in Senders
      /\ medium \in {"stream", "messages"} /\ script \in [Senders -> TransportFrames]
  BY <1>4, Known
<1>6. /\ Len(order') = Len(order) + 1 /\ order'[Len(order) + 1] = s
      /\ \A i \in 1..Len(order) : order'[i] = order[i] /\ order[i] # s
  <2>1. order \in Seq(Senders)
    BY <1>1 DEF SendInv
  <2>2. \A i \in 1..Len(order) : order[i] # s
    BY <1>1, <1>2 DEF SendInv
  <2> QED BY <1>2, <2>1, <2>2, Appended
<1>7. /\ sender'[s] = [at |-> "sending", left |-> Wire(s)]
      /\ \A r \in Senders : r # s => sender'[r] = sender[r]
  BY <1>1, <1>2 DEF SendInv
<1>8. Content' = Content /\ \A r : Wire(r)' = Wire(r)
  BY <1>2 DEF Content, Wire
<1>9. Arrived'
  <2>1. \A i \in 1..Len(received) : order'[i] = order[i]
    BY <1>4, <1>5, <1>6
  <2> QED BY <1>2, <1>8, <2>1 DEF receiving, WireInv, Arrived
<1>10. Finished(n)'
  BY <1>4, <1>5, <1>6, <1>7 DEF Finished
<1>11. ASSUME medium = "stream", NEW tail \in [Nat -> Seq(Bytes)], Flow(n, tail)
       PROVE  Flow(n, tail)'
  <2>1. tail[Len(received')] = buffer' \o pipe'
    BY <1>2, <1>11 DEF receiving, Flow
  <2>2. ASSUME NEW i \in (Len(received') + 1)..n
        PROVE  tail[i - 1] = Wire(order[i])' \o tail[i]
    <3>1. i \in (Len(received) + 1)..n /\ i \in 1..Len(order)
      BY <1>2, <1>5, <2>2 DEF receiving
    <3> QED BY <1>6, <1>8, <1>11, <3>1 DEF Flow
  <2>3. n # Len(order')
    BY <1>5, <1>6
  <2>4. ASSUME n < Len(order'), sender'[order'[n + 1]].at = "sending"
        PROVE  tail[n] \o sender'[order'[n + 1]].left = Wire(order[n + 1])'
    <3>1. Wire(order[n + 1])' = Wire(order'[n + 1])
      BY <1>2 DEF Wire
    <3>2. CASE n = Len(order)
      <4>1. tail[n] = <<>> /\ order'[n + 1] = s
        BY <1>6, <1>11, <3>2 DEF Flow
      <4>2. Wire(s) \in Seq(Content)
        BY <1>5, WireIs
      <4>3. <<>> \o Wire(s) = Wire(s)
        BY <4>2, JoinedToNone
      <4>4. sender'[order'[n + 1]].left = Wire(s)
        BY <1>7, <4>1
      <4> QED BY <3>1, <4>1, <4>3, <4>4
    <3>3. CASE n < Len(order)
      <4>1. n + 1 \in 1..Len(order)
        BY <1>5, <3>3
      <4>2. order'[n + 1] = order[n + 1] /\ sender'[order[n + 1]] = sender[order[n + 1]]
        BY <1>5, <1>6, <1>7, <4>1
      <4> QED BY <3>1, <1>11, <2>4, <3>3, <4>2 DEF Flow
    <3>4. n = Len(order) \/ n < Len(order)
      BY <1>5
    <3> QED BY <3>2, <3>3, <3>4
  <2> QED BY <2>1, <2>2, <2>3, <2>4 DEF Flow
<1>12. ASSUME Queue(n)
       PROVE  Queue(n)'
  <2>1. \A i \in 1..Len(pipe) : order'[Len(received) + i] = order[Len(received) + i]
    BY <1>5, <1>6, <1>12 DEF Queue
  <2> QED BY <1>2, <1>12, <2>1 DEF receiving, Queue
<1>13. OnTheWay(n)'
  BY <1>2, <1>3, <1>10, <1>11, <1>12 DEF receiving, OnTheWay
<1> QED BY <1>1, <1>9, <1>13 DEF WireInv

LEMMA BytesJoined ==
  \A a, b, c \in Seq(Bytes) : (a \o b) \o c = a \o (b \o c)
<1> TAKE a, b, c \in Seq(Bytes)
<1> QED BY JoinedThrice

(* What a send writes goes behind what is on its way. *)
Written(n, tail, bytes, longer) ==
  /\ \A i \in Nat : longer[i] = tail[i] \o bytes
  /\ longer[Len(received)] = buffer \o (pipe \o bytes)
  /\ \A i \in (Len(received) + 1)..n :
       longer[i - 1] = Wire(order[i]) \o longer[i]

LEMMA FlowWritten ==
  ASSUME WireAssumption, WireInv, medium = "stream",
         NEW n \in Nat, Finished(n), Len(received) <= n,
         NEW tail \in [Nat -> Seq(Bytes)], Flow(n, tail), NEW bytes \in Seq(Bytes)
  PROVE  \E longer \in [Nat -> Seq(Bytes)] : Written(n, tail, bytes, longer)
<1> DEFINE longer == [i \in Nat |-> tail[i] \o bytes]
<1>1. /\ Len(order) \in Nat /\ n <= Len(order) /\ Len(received) \in Nat
      /\ \A i \in 1..Len(order) : order[i] \in Senders
      /\ script \in [Senders -> TransportFrames]
      /\ pipe \in Seq(Bytes) /\ buffer \in Seq(Bytes) /\ Content = Bytes
  BY Known
<1>2. \A i \in Nat : tail[i] \in Seq(Bytes)
  OBVIOUS
<1>3. longer \in [Nat -> Seq(Bytes)]
  <2>1. ASSUME NEW i \in Nat PROVE tail[i] \o bytes \in Seq(Bytes)
    BY <1>2, Joined
  <2> QED BY <2>1
<1>4. longer[Len(received)] = buffer \o (pipe \o bytes)
  <2>1. longer[Len(received)] = (buffer \o pipe) \o bytes
    BY <1>1 DEF Flow
  <2>2. buffer \in Seq(Bytes) /\ pipe \in Seq(Bytes)
    BY <1>1
  <2>3. bytes \in Seq(Bytes)
    OBVIOUS
  <2>4. (buffer \o pipe) \o bytes = buffer \o (pipe \o bytes)
    BY ONLY <2>2, <2>3, BytesJoined, Zenon
  <2> QED BY <2>1, <2>4
<1>5. ASSUME NEW i \in (Len(received) + 1)..n
      PROVE  longer[i - 1] = Wire(order[i]) \o longer[i]
  <2>1. i \in Nat /\ i - 1 \in Nat /\ i \in 1..Len(order)
    BY <1>1
  <2>2. tail[i - 1] = Wire(order[i]) \o tail[i]
    BY DEF Flow
  <2>3. Wire(order[i]) \in Seq(Bytes) /\ tail[i] \in Seq(Bytes)
    BY <1>1, <1>2, <2>1, WireIs
  <2>4. (Wire(order[i]) \o tail[i]) \o bytes = Wire(order[i]) \o (tail[i] \o bytes)
    <3>1. bytes \in Seq(Bytes)
      OBVIOUS
    <3> QED BY ONLY <2>3, <3>1, BytesJoined, Zenon
  <2>5. longer[i - 1] = tail[i - 1] \o bytes /\ longer[i] = tail[i] \o bytes
    BY <2>1
  <2> QED BY <2>2, <2>4, <2>5
<1>6. \A i \in Nat : longer[i] = tail[i] \o bytes
  OBVIOUS
<1> HIDE DEF longer
<1> QED BY <1>3, <1>4, <1>5, <1>6 DEF Written

LEMMA StreamWriteKeeps ==
  ASSUME WireAssumption, WireInv, medium = "stream", NEW s \in Senders, Write(s),
         NEW n \in Nat, OnTheWay(n)
  PROVE  \E m \in Nat : OnTheWay(m)'
<1>1. SendInv /\ SendInv'
  BY WriteStep DEF WireInv
<1> DEFINE all == sender[s].left
<1>2. /\ UNCHANGED <<medium, script, shut, order, receiving>> /\ ~shut
      /\ sender[s].at = "sending" /\ s \in lock
      /\ all \in Seq(Bytes) /\ sender \in [Senders -> SenderStates]
  BY <1>1 DEF Write, SendInv, SenderStates, Content
<1>3. PICK k \in 1..Len(all) :
        LET left == SubSeq(all, k + 1, Len(all))
        IN  /\ pipe' = pipe \o SubSeq(all, 1, k)
            /\ IF left # <<>>
               THEN sender' = [sender EXCEPT ![s].left = left]
               ELSE sender' = [sender EXCEPT ![s] = [at |-> "done", left |-> <<>>]]
  BY DEF Write
<1> DEFINE bytes == SubSeq(all, 1, k)
           left == SubSeq(all, k + 1, Len(all))
<1>4. /\ bytes \in Seq(Bytes) /\ left \in Seq(Bytes) /\ all = bytes \o left
  <2>1. k \in 0..Len(all)
    <3> HIDE DEF all
    <3> QED BY <1>2
  <2> HIDE DEF all
  <2> QED BY <1>2, <2>1, CutInTwo
<1>5. /\ pipe' = pipe \o bytes
      /\ left # <<>> => sender' = [sender EXCEPT ![s].left = left]
      /\ left = <<>> => sender' = [sender EXCEPT ![s] = [at |-> "done", left |-> <<>>]]
  BY <1>3
<1>6. Finished(n) /\ Len(received) <= n /\ told # "the end"
  BY <1>2 DEF OnTheWay, WireInv, Arrived
<1>7. /\ Len(order) \in Nat /\ n <= Len(order) /\ Len(received) \in Nat
      /\ \A i \in 1..Len(order) : order[i] \in Senders
  BY <1>6, Known
<1>8. /\ n < Len(order) /\ order[n + 1] \in Senders
      /\ sender[order[n + 1]].at \in {"sending", "failed"}
      /\ sender[order[n + 1]].at = "sending" =>
           n + 1 = Len(order) /\ order[n + 1] = s
      /\ sender[order[n + 1]].at = "failed" => order[n + 1] # s
  <2>1. n < Len(order)
    <3>1. n # Len(order)
      BY <1>1, <1>2, <1>6, FinishedOnes
    <3> QED BY <1>7, <3>1
  <2> QED BY <1>1, <1>2, <1>6, <2>1, FinishedOnes
<1>9. \A i \in 1..n : order[i] # s /\ order[i] \in Senders
  <2>1. ASSUME NEW i \in 1..n PROVE order[i] # s /\ order[i] \in Senders
    <3>1. i \in 1..Len(order)
      BY <1>7
    <3>2. sender[order[i]].at = "done"
      BY <1>6 DEF Finished
    <3> QED BY <1>2, <1>7, <3>1, <3>2
  <2> QED BY <2>1
<1>10. \A i \in 1..Len(order) : Wire(order[i])' = Wire(order[i])
  BY <1>2 DEF Wire
<1>11. Len(order) \in Nat /\ n < Len(order)
  BY <1>7, <1>8
<1>12. Len(received) \in Nat /\ Len(received) <= n
  BY <1>6, <1>7
<1>13. /\ n + 1 \in 1..Len(order) /\ n # Len(order) /\ Len(received) # n + 1
       /\ \A i \in (Len(received) + 1)..n : i \in 1..Len(order)
       /\ Len(received) <= n + 1
       /\ n + 1 = Len(order) => n + 1 \in 0..Len(order) /\ ~ (n + 1 < Len(order))
  BY <1>11, <1>12
<1>14. PICK tail \in [Nat -> Seq(Bytes)] : Flow(n, tail)
  BY DEF OnTheWay
<1> HIDE DEF bytes, left, all
<1>15. PICK more \in [Nat -> Seq(Bytes)] :
         /\ \A i \in Nat : more[i] = tail[i] \o bytes
         /\ more[Len(received)] = buffer \o (pipe \o bytes)
         /\ \A i \in (Len(received) + 1)..n :
              more[i - 1] = Wire(order[i]) \o more[i]
  <2>1. bytes \in Seq(Bytes)
    BY <1>4
  <2>2. \E longer \in [Nat -> Seq(Bytes)] : Written(n, tail, bytes, longer)
    BY <1>6, <1>14, <2>1, FlowWritten
  <2> QED BY <2>2 DEF Written
<1>16. /\ more[n] = tail[n] \o bytes
       /\ more[Len(received)] = buffer \o pipe'
       /\ \A i \in (Len(received) + 1)..n :
            more[i - 1] = Wire(order[i]) \o more[i]
  BY <1>5, <1>15
<1>17. \A r : Wire(r)' = Wire(r)
  BY <1>2 DEF Wire
<1>18. \A r \in Senders : r # s => sender'[r] = sender[r]
  BY <1>2, <1>5
<1>19. order' = order /\ received' = received /\ buffer' = buffer /\ told' = told
       /\ medium' = medium
  BY <1>2 DEF receiving
<1>20. CASE sender[order[n + 1]].at = "failed"
  <2>1. sender'[order[n + 1]] = sender[order[n + 1]]
    BY <1>8, <1>18, <1>20
  <2>2. Finished(n)'
    BY <1>6, <1>8, <1>9, <1>18, <1>19, <1>20, <2>1 DEF Finished
  <2>3. Flow(n, more)'
    <3>1. more[Len(received')] = buffer' \o pipe'
      BY <1>16, <1>19
    <3>2. \A i \in (Len(received') + 1)..n : more[i - 1] = Wire(order[i])' \o more[i]
      BY <1>16, <1>19, <1>10, <1>13
    <3>3. n # Len(order') /\ sender'[order'[n + 1]].at # "sending"
      BY <1>19, <1>20, <1>13, <2>1
    <3> QED BY <3>1, <3>2, <3>3 DEF Flow
  <2>4. OnTheWay(n)'
    BY <1>6, <1>16, <1>19, <2>2, <2>3 DEF OnTheWay
  <2> QED BY <2>4
<1>21. CASE sender[order[n + 1]].at = "sending" /\ left # <<>>
  <2>1. order[n + 1] = s /\ sender'[s].at = "sending" /\ sender'[s].left = left
    <3>1. order[n + 1] = s
      BY <1>8, <1>21
    <3>2. sender' = [sender EXCEPT ![s].left = left]
      BY <1>5, <1>21
    <3>3. sender[s] \in SenderStates /\ sender[s].at = "sending"
      BY <1>2
    <3>4. sender'[s] = [sender[s] EXCEPT !.left = left]
      BY <1>2, <3>2
    <3> QED BY <3>1, <3>3, <3>4 DEF SenderStates
  <2>2. Finished(n)'
    BY <1>6, <1>8, <1>9, <1>18, <1>19, <2>1 DEF Finished
  <2>3. more[n] \o left = Wire(s)
    <3>1. tail[n] \o all = Wire(s) /\ tail[n] \in Seq(Bytes)
      BY <1>2, <1>8, <1>14, <1>21, <2>1 DEF Flow, all
    <3>2. more[n] = tail[n] \o bytes
      BY <1>16
    <3>3. (tail[n] \o bytes) \o left = tail[n] \o (bytes \o left)
      BY <1>4, <3>1, BytesJoined, Zenon
    <3> QED BY <1>4, <3>1, <3>2, <3>3
  <2>4. Flow(n, more)'
    <3>1. Wire(order[n + 1])' = Wire(s)
      BY <1>17, <1>19, <2>1 DEF Wire
    <3>2. more[Len(received')] = buffer' \o pipe'
      BY <1>16, <1>19
    <3>3. \A i \in (Len(received') + 1)..n : more[i - 1] = Wire(order[i])' \o more[i]
      BY <1>16, <1>19, <1>10, <1>13
    <3>4. n # Len(order')
      BY <1>19, <1>13
    <3>5. more[n] \o sender'[order'[n + 1]].left = Wire(order[n + 1])'
      BY <1>19, <2>1, <2>3, <3>1
    <3> QED BY <3>2, <3>3, <3>4, <3>5 DEF Flow
  <2>5. OnTheWay(n)'
    BY <1>6, <1>16, <1>19, <2>2, <2>4 DEF OnTheWay
  <2> QED BY <2>5
<1>22. CASE sender[order[n + 1]].at = "sending" /\ left = <<>>
  <2>1. /\ order[n + 1] = s /\ n + 1 = Len(order)
        /\ sender'[s].at = "done"
    BY <1>2, <1>5, <1>8, <1>22
  <2>2. Finished(n + 1)'
    <3>1. ASSUME NEW i \in 1..(n + 1) PROVE sender'[order[i]].at = "done"
      <4>1. CASE i = n + 1
        BY <2>1, <4>1
      <4>2. CASE i # n + 1
        <5>1. i \in 1..n
          BY <4>2
        <5> QED BY <1>6, <1>9, <1>18, <5>1 DEF Finished
      <4> QED BY <4>1, <4>2
    <3>2. n + 1 \in 0..Len(order) /\ ~ (n + 1 < Len(order))
      BY <1>13, <2>1
    <3> QED BY <1>19, <3>1, <3>2 DEF Finished
  <2>3. more[n] = Wire(s)
    <3>1. tail[n] \o all = Wire(s) /\ tail[n] \in Seq(Bytes)
      BY <1>2, <1>8, <1>14, <1>22, <2>1 DEF Flow, all
    <3>2. more[n] = tail[n] \o bytes
      BY <1>16
    <3>3. all = bytes
      BY <1>4, <1>22, JoinedToNone
    <3> QED BY <3>1, <3>2, <3>3
  <2>4. PICK last \in [Nat -> Seq(Bytes)] :
          last[n + 1] = <<>> /\ \A i \in Nat : i # n + 1 => last[i] = more[i]
    <3> DEFINE last == [more EXCEPT ![n + 1] = <<>>]
    <3>1. /\ last \in [Nat -> Seq(Bytes)] /\ last[n + 1] = <<>>
          /\ \A i \in Nat : i # n + 1 => last[i] = more[i]
      OBVIOUS
    <3> QED BY <3>1
  <2>5. last[Len(received)] = buffer \o pipe'
    <3>1. Len(received) \in Nat /\ Len(received) # n + 1
      BY <1>13, <1>12
    <3> QED BY <1>16, <2>4, <3>1
  <2>6. ASSUME NEW i \in (Len(received) + 1)..(n + 1)
        PROVE  last[i - 1] = Wire(order[i]) \o last[i]
    <3>1. i \in Nat /\ i - 1 \in Nat /\ i - 1 # n + 1
      BY <1>7
    <3>2. CASE i = n + 1
      <4>1. i - 1 = n /\ n # n + 1
        BY <3>2
      <4>2. i - 1 = n /\ last[n] = Wire(s) /\ last[i] = <<>> /\ order[i] = s
        BY <2>1, <2>3, <2>4, <3>2, <4>1
      <4>3. Wire(s) \in Seq(Bytes)
        BY <1>16, <2>3
      <4> QED BY <4>2, <4>3, JoinedToNone
    <3>3. CASE i # n + 1
      <4>1. i \in (Len(received) + 1)..n
        BY <1>7, <3>3
      <4>2. last[i - 1] = more[i - 1] /\ last[i] = more[i]
        BY <2>4, <3>1, <3>3
      <4> QED BY <1>16, <4>1, <4>2
    <3> QED BY <3>2, <3>3
  <2>7. Flow(n + 1, last)'
    <3>1. last[Len(received')] = buffer' \o pipe'
      BY <1>19, <2>5
    <3>2. \A i \in (Len(received) + 1)..(n + 1) : i \in 1..Len(order)
      BY <1>7, <2>1
    <3>3. \A i \in (Len(received') + 1)..(n + 1) : last[i - 1] = Wire(order[i])' \o last[i]
      BY <1>19, <1>10, <2>6, <3>2
    <3>4. last[n + 1] = <<>> /\ ~ (n + 1 < Len(order'))
      BY <1>7, <1>19, <2>1, <2>4
    <3> QED BY <3>1, <3>3, <3>4 DEF Flow
  <2>8. OnTheWay(n + 1)'
    <3>1. Len(received') <= n + 1 /\ told' # "the end" /\ medium' # "messages"
      BY <1>6, <1>19, <1>13
    <3> QED BY <2>2, <2>7, <3>1 DEF OnTheWay
  <2> QED BY <2>8
<1> QED BY <1>8, <1>20, <1>21, <1>22

LEMMA MessageWriteKeeps ==
  ASSUME WireAssumption, WireInv, medium = "messages", NEW s \in Senders, Write(s),
         NEW n \in Nat, OnTheWay(n)
  PROVE  /\ \E m \in Nat : OnTheWay(m)'
         /\ pipe' \in Seq(Content)
<1>1. SendInv /\ SendInv'
  BY WriteStep DEF WireInv
<1> DEFINE p == EncodeFrame(script[s])
<1>2. /\ UNCHANGED <<medium, script, shut, order, receiving>> /\ ~shut
      /\ sender[s].at = "sending" /\ s \in lock /\ sender \in [Senders -> SenderStates]
  BY <1>1 DEF Write, SendInv
<1>3. Wire(s) = <<p>> /\ p \in Seq(WireParts) /\ sender[s].left = <<p>>
  BY <1>1, <1>2, WireIs DEF SendInv, FrameParts
<1>4. /\ pipe' = Append(pipe, p)
      /\ sender' = [sender EXCEPT ![s] = [at |-> "done", left |-> <<>>]]
  <2> DEFINE all == sender[s].left
  <2>1. PICK k \in 1..Len(all) :
          LET left == SubSeq(all, k + 1, Len(all))
          IN  /\ pipe' = pipe \o SubSeq(all, 1, k)
              /\ left = <<>> =>
                   sender' = [sender EXCEPT ![s] = [at |-> "done", left |-> <<>>]]
    BY DEF Write
  <2>2. all = <<p>>
    BY <1>3
  <2> HIDE DEF p, all
  <2>3. k = 1
    <3>1. Len(all) = 1 /\ k \in 1..Len(all)
      BY <2>2
    <3> QED BY <3>1
  <2>4. SubSeq(all, 1, k) = <<p>> /\ SubSeq(all, k + 1, Len(all)) = <<>>
    <3>1. SubSeq(<<p>>, 1, 1) = <<p>> /\ SubSeq(<<p>>, 2, 1) = <<>> /\ Len(<<p>>) = 1
      BY CutOfOne
    <3>2. k + 1 = 2
      BY <2>3
    <3> QED BY <2>2, <2>3, <3>1, <3>2
  <2>5. pipe' = pipe \o <<p>>
    BY <2>1, <2>4
  <2>6. pipe \in Seq(Content) /\ Content = Seq(WireParts)
    BY DEF WireInv, Arrived, Content
  <2>7. pipe \o <<p>> = Append(pipe, p)
    BY <2>6
  <2> QED BY <2>1, <2>4, <2>5, <2>7
<1>5. Finished(n) /\ Len(received) <= n /\ Queue(n) /\ told # "the end"
  BY <1>2 DEF OnTheWay, WireInv, Arrived
<1>6. /\ Len(order) \in Nat /\ n <= Len(order) /\ Len(received) \in Nat /\ Len(pipe) \in Nat
      /\ pipe \in Seq(Content) /\ \A i \in 1..Len(order) : order[i] \in Senders
  BY <1>5, Known
<1>7. n + 1 = Len(order) /\ order[n + 1] = s
  <2>1. n # Len(order)
    BY <1>1, <1>2, <1>5, FinishedOnes
  <2>2. n < Len(order)
    BY <1>6, <2>1
  <2>3. order[n + 1] \in Senders /\ sender[order[n + 1]].at # "failed"
    BY <1>1, <1>2, <1>5, <2>2, FinishedOnes DEF SendInv
  <2> QED BY <1>1, <1>2, <1>5, <2>2, <2>3, FinishedOnes
<1>8. sender'[s].at = "done" /\ \A r \in Senders : r # s => sender'[r] = sender[r]
  BY <1>2, <1>4
<1>9. order' = order /\ received' = received /\ told' = told /\ script' = script
      /\ medium' = medium /\ shut' = shut
  BY <1>2 DEF receiving
<1>10. p \in Content /\ Content = Seq(WireParts)
  BY <1>3 DEF Content
<1>11. /\ pipe' \in Seq(Content) /\ Len(pipe') = Len(pipe) + 1 /\ pipe'[Len(pipe) + 1] = p
       /\ \A i \in 1..Len(pipe) : pipe'[i] = pipe[i]
  <2> HIDE DEF p
  <2> QED BY <1>4, <1>6, <1>10, Appended
<1>12. Finished(n + 1)'
  <2>1. ASSUME NEW i \in 1..(n + 1) PROVE sender'[order[i]].at = "done"
    <3>1. CASE i = n + 1
      BY <1>7, <1>8, <3>1
    <3>2. CASE i # n + 1
      <4>1. i \in 1..n /\ i \in 1..Len(order)
        BY <1>6, <3>2
      <4>2. sender[order[i]].at = "done" /\ order[i] \in Senders
        BY <1>5, <1>6, <4>1 DEF Finished
      <4> QED BY <1>2, <1>8, <4>2
    <3> QED BY <3>1, <3>2
  <2>2. n + 1 \in 0..Len(order) /\ ~ (n + 1 < Len(order))
    BY <1>6, <1>7
  <2> QED BY <1>9, <2>1, <2>2 DEF Finished
<1>13. Queue(n + 1)'
  <2>1. Len(received) + Len(pipe) = n
    BY <1>2, <1>5 DEF Queue
  <2>2. Len(received') + Len(pipe') = n + 1
    BY <1>6, <1>9, <1>11, <2>1
  <2>3. ASSUME NEW i \in 1..Len(pipe')
        PROVE  pipe'[i] = EncodeFrame(script'[order'[Len(received') + i]])
    <3>1. CASE i = Len(pipe) + 1
      <4>1. Len(received) + i = n + 1
        BY <1>6, <2>1, <3>1
      <4> QED BY <1>7, <1>9, <1>11, <3>1, <4>1
    <3>2. CASE i # Len(pipe) + 1
      <4>1. i \in 1..Len(pipe)
        BY <1>6, <1>11, <3>2
      <4> QED BY <1>5, <1>9, <1>11, <4>1 DEF Queue
    <3> QED BY <3>1, <3>2
  <2>4. Len(received') + Len(pipe') <= n + 1
    BY <2>2
  <2> QED BY <2>2, <2>3, <2>4 DEF Queue
<1>14. OnTheWay(n + 1)'
  <2>1. Len(received') <= n + 1 /\ medium' # "stream" /\ told' # "the end"
    <3>1. Len(received) \in Nat /\ Len(received) <= n
      BY <1>5, <1>6
    <3>2. Len(received) <= n + 1
      BY <3>1
    <3> QED BY <1>5, <1>9, <3>2
  <2> QED BY <1>12, <1>13, <2>1 DEF OnTheWay
<1> QED BY <1>11, <1>14

LEMMA WriteKeeps ==
  ASSUME WireAssumption, WireInv, NEW s \in Senders, Write(s)
  PROVE  WireInv'
<1>1. SendInv /\ SendInv'
  BY WriteStep DEF WireInv
<1>2. PICK n \in Nat : OnTheWay(n)
  BY DEF WireInv
<1>3. medium \in {"stream", "messages"}
  BY <1>1 DEF SendInv
<1>4. \E m \in Nat : OnTheWay(m)'
  BY <1>2, <1>3, StreamWriteKeeps, MessageWriteKeeps
<1>5. pipe' \in Seq(Content)
  <2>1. CASE medium = "messages"
    BY <1>2, <2>1, MessageWriteKeeps
  <2>2. CASE medium = "stream"
    <3> DEFINE all == sender[s].left
    <3>1. all \in Seq(Content) /\ pipe \in Seq(Content)
      BY <1>1 DEF SendInv, SenderStates, WireInv, Arrived
    <3>2. PICK k \in 1..Len(all) : pipe' = pipe \o SubSeq(all, 1, k)
      BY DEF Write
    <3> HIDE DEF all
    <3>3. k \in 0..Len(all)
      BY <3>1
    <3>4. SubSeq(all, 1, k) \in Seq(Content)
      BY <3>1, <3>3, CutInTwo
    <3> QED BY <3>1, <3>2, <3>4, Joined
  <2> QED BY <1>3, <2>1, <2>2
<1>6. Arrived'
  <2>1. UNCHANGED <<medium, script, shut, order, receiving>> /\ Content' = Content
    BY DEF Write, Content
  <2> QED BY <1>5, <2>1 DEF receiving, WireInv, Arrived
<1> QED BY <1>1, <1>4, <1>6 DEF WireInv

LEMMA CutOffKeeps ==
  ASSUME WireAssumption, WireInv, NEW s \in Senders, WriteFails(s) \/ CancelSend(s)
  PROVE  WireInv'
<1>1. SendInv /\ SendInv'
  BY CutOffStep DEF WireInv
<1>2. /\ UNCHANGED <<medium, script, shut, order, pipe, receiving>>
      /\ sender[s].at = "sending" /\ sender \in [Senders -> SenderStates]
      /\ sender' = [sender EXCEPT ![s] = [at |-> "failed", left |-> <<>>]]
  BY <1>1 DEF WriteFails, CancelSend, CutOff, SendInv
<1>3. PICK n \in Nat : OnTheWay(n)
  BY DEF WireInv
<1>4. Finished(n)
  BY <1>3 DEF OnTheWay
<1>5. /\ Len(order) \in Nat /\ n <= Len(order) /\ Len(received) \in Nat
      /\ \A i \in 1..Len(order) : order[i] \in Senders
  BY <1>4, Known
<1>6. /\ sender'[s].at = "failed"
      /\ \A r \in Senders : r # s => sender'[r] = sender[r]
      /\ \A r : Wire(r)' = Wire(r)
      /\ Content' = Content
  BY <1>2 DEF Wire, Content
<1>7. Arrived'
  BY <1>2, <1>6 DEF receiving, WireInv, Arrived
<1>8. \A i \in 1..Len(order) :
        \/ sender'[order[i]] = sender[order[i]]
        \/ sender'[order[i]].at = "failed" /\ sender[order[i]].at = "sending"
  BY <1>2, <1>5, <1>6
<1>9. Finished(n)'
  <2>1. ASSUME NEW i \in 1..n PROVE sender'[order[i]].at = "done"
    <3>1. i \in 1..Len(order)
      BY <1>5
    <3>2. sender[order[i]].at = "done"
      BY <1>4 DEF Finished
    <3> QED BY <1>8, <3>1, <3>2
  <2>2. n < Len(order) => sender'[order[n + 1]].at # "done"
    <3>1. n < Len(order) => n + 1 \in 1..Len(order)
      BY <1>5
    <3> QED BY <1>4, <1>8, <3>1 DEF Finished
  <2> QED BY <1>2, <1>4, <2>1, <2>2 DEF Finished
<1>10. n < Len(order) /\ sender'[order[n + 1]].at = "sending" =>
         sender'[order[n + 1]] = sender[order[n + 1]]
  <2>1. n < Len(order) => n + 1 \in 1..Len(order)
    BY <1>5
  <2> QED BY <1>8, <2>1
<1>11. \A i \in 1..Len(order) : Wire(order[i])' = Wire(order[i])
  BY <1>2 DEF Wire
<1>12. /\ \A i \in (Len(received) + 1)..n : i \in 1..Len(order)
       /\ n < Len(order) => n + 1 \in 1..Len(order)
  BY <1>5
<1>13. order' = order /\ received' = received /\ buffer' = buffer /\ pipe' = pipe
       /\ told' = told /\ medium' = medium /\ shut' = shut /\ script' = script
  BY <1>2 DEF receiving
<1>14. ASSUME NEW tail \in [Nat -> Seq(Bytes)], Flow(n, tail)
       PROVE  Flow(n, tail)'
  <2>1. tail[Len(received')] = buffer' \o pipe'
    BY <1>13, <1>14 DEF Flow
  <2>2. \A i \in (Len(received') + 1)..n : tail[i - 1] = Wire(order[i])' \o tail[i]
    BY <1>11, <1>12, <1>13, <1>14 DEF Flow
  <2>3. n = Len(order') => tail[n] = <<>>
    BY <1>13, <1>14 DEF Flow
  <2>4. n < Len(order') /\ sender'[order'[n + 1]].at = "sending" =>
          tail[n] \o sender'[order'[n + 1]].left = Wire(order[n + 1])'
    BY <1>10, <1>11, <1>12, <1>13, <1>14 DEF Flow
  <2> QED BY <2>1, <2>2, <2>3, <2>4 DEF Flow
<1>15. Queue(n) => Queue(n)'
  BY <1>13 DEF Queue
<1>16. OnTheWay(n)'
  BY <1>3, <1>9, <1>13, <1>14, <1>15 DEF OnTheWay
<1> QED BY <1>1, <1>7, <1>16 DEF WireInv

(* What a step that sends nothing leaves as it is *)
LEMMA SameFlow ==
  ASSUME NEW n \in Nat, Finished(n), Len(order) \in Nat, Len(received) \in Nat,
         UNCHANGED <<medium, script, sender, order>>
  PROVE  /\ Finished(n)' /\ Content' = Content
         /\ received' = received =>
              \A tail \in [Nat -> Seq(Bytes)] :
                Flow(n, tail) /\ buffer' \o pipe' = buffer \o pipe => Flow(n, tail)'
<1>1. Finished(n)' /\ Content' = Content
  BY DEF Finished, Content
<1>2. n <= Len(order)
  BY DEF Finished
<1>3. /\ \A i \in (Len(received) + 1)..n : i \in 1..Len(order)
      /\ n < Len(order) => n + 1 \in 1..Len(order)
  BY <1>2
<1>4. \A i \in 1..Len(order) : Wire(order[i])' = Wire(order[i])
  BY DEF Wire
<1>5. ASSUME received' = received, NEW tail \in [Nat -> Seq(Bytes)], Flow(n, tail),
             buffer' \o pipe' = buffer \o pipe
      PROVE  Flow(n, tail)'
  <2>1. tail[Len(received')] = buffer' \o pipe'
    BY <1>5 DEF Flow
  <2>2. \A i \in (Len(received') + 1)..n : tail[i - 1] = Wire(order[i])' \o tail[i]
    BY <1>3, <1>4, <1>5 DEF Flow
  <2>3. n = Len(order') => tail[n] = <<>>
    BY <1>5 DEF Flow
  <2>4. n < Len(order') /\ sender'[order'[n + 1]].at = "sending" =>
          tail[n] \o sender'[order'[n + 1]].left = Wire(order[n + 1])'
    BY <1>3, <1>4, <1>5 DEF Flow
  <2> QED BY <2>1, <2>2, <2>3, <2>4 DEF Flow
<1> QED BY <1>1, <1>5

LEMMA CloseKeeps ==
  ASSUME WireAssumption, WireInv, Close
  PROVE  WireInv'
<1>1. SendInv /\ SendInv'
  BY SenderCloses DEF WireInv
<1>2. /\ UNCHANGED <<medium, script, sender, order, receiving>> /\ shut' = TRUE /\ ~shut
      /\ buffer' = buffer /\ received' = received /\ told' = told /\ missed' = missed
      /\ receiver' = receiver
  BY DEF Close, receiving
<1>3. PICK n \in Nat : OnTheWay(n)
  BY DEF WireInv
<1>4. Finished(n) /\ Len(received) <= n
  BY <1>3 DEF OnTheWay
<1>5. Len(order) \in Nat /\ Len(received) \in Nat /\ Len(pipe) \in Nat /\ pipe \in Seq(Content)
      /\ medium \in {"stream", "messages"}
  BY <1>4, Known
<1>6. Finished(n)' /\ Content' = Content
  BY <1>2, <1>4, <1>5, SameFlow
<1>7. CASE medium = "stream"
  <2>1. pipe' = pipe
    BY <1>7 DEF Close
  <2>2. PICK tail \in [Nat -> Seq(Bytes)] : Flow(n, tail)
    BY <1>3, <1>7 DEF OnTheWay
  <2>3. Flow(n, tail)'
    BY <1>2, <1>4, <1>5, <2>1, <2>2, SameFlow
  <2>4. OnTheWay(n)'
    BY <1>2, <1>3, <1>6, <1>7, <2>3 DEF OnTheWay
  <2>5. Arrived'
    BY <1>2, <1>6, <2>1 DEF WireInv, Arrived
  <2> QED BY <1>1, <2>4, <2>5 DEF WireInv
<1>8. CASE medium = "messages"
  <2>1. PICK k \in 0..Len(pipe) : pipe' = SubSeq(pipe, 1, k)
    BY <1>8 DEF Close
  <2>2. /\ pipe' \in Seq(Content) /\ Len(pipe') = k
        /\ \A i \in 1..k : pipe'[i] = pipe[i]
    <3>1. pipe \in Seq(Content) /\ k \in 0..Len(pipe)
      BY <1>5
    <3>2. \A i \in 1..k : SubSeq(pipe, 1, k)[i] = pipe[i]
      BY <1>5
    <3>3. SubSeq(pipe, 1, k) \in Seq(Content) /\ Len(SubSeq(pipe, 1, k)) = k
      BY ONLY <3>1, CutInTwo
    <3> QED BY ONLY <2>1, <3>2, <3>3
  <2>3. Queue(n) /\ told # "the end"
    BY <1>2, <1>3, <1>8 DEF OnTheWay, WireInv, Arrived
  <2>4. Queue(n)'
    <3>1. Len(received') + Len(pipe') <= n
      <4>1. Len(received) + Len(pipe) <= n
        BY <2>3 DEF Queue
      <4>2. k \in Nat /\ k <= Len(pipe)
        BY <1>5
      <4> QED BY <1>2, <1>5, <2>2, <4>1, <4>2
    <3>2. \A i \in 1..k : i \in 1..Len(pipe)
      BY <1>5
    <3> QED BY <1>2, <2>2, <2>3, <3>1, <3>2 DEF Queue
  <2>5. OnTheWay(n)'
    BY <1>2, <1>4, <1>6, <1>8, <2>3, <2>4 DEF OnTheWay
  <2>6. Arrived'
    BY <1>2, <1>6, <2>2, <2>3 DEF WireInv, Arrived
  <2> QED BY <1>1, <2>5, <2>6 DEF WireInv
<1> QED BY <1>5, <1>7, <1>8

(* A step of the receiver that moves bytes on, or none *)
LEMMA NothingTaken ==
  ASSUME WireAssumption, WireInv, UNCHANGED <<sending, received, missed>>,
         pipe' \in Seq(Content), buffer' \in Seq(Content),
         buffer' \o pipe' = buffer \o pipe,
         medium = "messages" => UNCHANGED <<pipe, buffer>>,
         told' = "the end" => shut /\ receiver' = "idle" /\ medium = "stream",
         \A n \in Nat : OnTheWay(n) /\ told' = "the end" => Len(received) = n
  PROVE  WireInv'
<1>1. SendInv /\ SendInv'
  BY ReceivingStep DEF WireInv
<1>2. /\ UNCHANGED <<medium, script, sender, order, shut>>
      /\ received' = received /\ missed' = missed
  BY DEF sending
<1>3. PICK n \in Nat : OnTheWay(n)
  BY DEF WireInv
<1>4. Finished(n) /\ Len(received) <= n
  BY <1>3 DEF OnTheWay
<1>5. Len(order) \in Nat /\ Len(received) \in Nat /\ medium \in {"stream", "messages"}
  BY <1>4, Known
<1>6. Finished(n)' /\ Content' = Content
  BY <1>2, <1>4, <1>5, SameFlow
<1>7. Arrived'
  BY <1>2, <1>6 DEF WireInv, Arrived
<1>8. medium = "messages" => Queue(n)'
  BY <1>2, <1>3 DEF OnTheWay, Queue
<1>9. medium = "stream" => \E tail \in [Nat -> Seq(Bytes)] : Flow(n, tail)'
  <2>1. SUFFICES ASSUME medium = "stream"
                 PROVE  \E tail \in [Nat -> Seq(Bytes)] : Flow(n, tail)'
    OBVIOUS
  <2>2. PICK tail \in [Nat -> Seq(Bytes)] : Flow(n, tail)
    BY <1>3, <2>1 DEF OnTheWay
  <2>3. Flow(n, tail)'
    BY <1>2, <1>4, <1>5, <2>2, SameFlow
  <2> QED BY <2>3
<1>10. OnTheWay(n)'
  BY <1>2, <1>3, <1>4, <1>6, <1>8, <1>9 DEF OnTheWay
<1> QED BY <1>1, <1>7, <1>10 DEF WireInv

(* The next frame of which all is on its way is the next that was sent. *)
LEMMA BufferHolds ==
  ASSUME WireAssumption, script \in [Senders -> TransportFrames],
         medium = "stream", NEW s \in Senders, NEW bytes \in Seq(Bytes),
         NEW tail \in Seq(Bytes), bytes \o <<>> = Wire(s) \o tail
  PROVE  HasFrame(bytes)
<1>1. Wire(s) \in Seq(Bytes)
  BY WireIs DEF Content
<1>2. bytes = Wire(s) \o tail
  BY JoinedToNone
<1>3. /\ Len(Wire(s) \o tail) = Len(Wire(s)) + Len(tail)
      /\ Len(Wire(s)) \in Nat /\ Len(tail) \in Nat
  BY <1>1, Joined
<1>4. Len(bytes) >= Len(Wire(s))
  BY <1>2, <1>3
<1>5. <<>> \in Seq(Bytes)
  OBVIOUS
<1> DEFINE none == <<>>
<1>6. none \in Seq(Bytes) /\ bytes \o none = Wire(s) \o tail
  BY <1>5
<1> HIDE DEF none
<1> QED BY <1>4, <1>6, BufferRead

LEMMA NextFrame ==
  ASSUME WireAssumption, WireInv, medium = "stream", NEW n \in Nat, Finished(n),
         Len(received) < n, NEW tail \in [Nat -> Seq(Bytes)], Flow(n, tail)
  PROVE  \E s \in Senders, after \in Seq(Bytes) :
           /\ s = order[Len(received) + 1] /\ after = tail[Len(received) + 1]
           /\ buffer \o pipe = Wire(s) \o after
<1>1. /\ Len(order) \in Nat /\ n <= Len(order) /\ Len(received) \in Nat
      /\ \A i \in 1..Len(order) : order[i] \in Senders
  BY Known
<1>2. PICK r \in Nat : r = Len(received)
  BY <1>1
<1>3. PICK i \in Nat : i = r + 1
  BY <1>2
<1>4. i \in 1..Len(order) /\ i \in (r + 1)..n /\ i - 1 = r
  <2>1. Len(order) \in Nat /\ n <= Len(order) /\ r < n
    BY <1>1, <1>2
  <2> QED BY <1>3, <2>1
<1>5. order[i] \in Senders /\ tail[i] \in Seq(Bytes)
  BY <1>1, <1>3, <1>4
<1>6. tail[r] = buffer \o pipe
  BY <1>2 DEF Flow
<1>7. \A j \in (r + 1)..n : tail[j - 1] = Wire(order[j]) \o tail[j]
  BY <1>2 DEF Flow
<1>8. tail[i - 1] = Wire(order[i]) \o tail[i]
  BY <1>4, <1>7, Zenon
<1> QED BY <1>2, <1>3, <1>4, <1>5, <1>6, <1>8

(* A frame that is still being written cannot be read. *)
LEMMA NoneYet ==
  ASSUME WireAssumption, WireInv, medium = "stream", NEW n \in Nat, Finished(n),
         Len(received) = n, NEW tail \in [Nat -> Seq(Bytes)], Flow(n, tail),
         HasFrame(buffer)
  PROVE  ~Readable
<1>1. /\ Len(order) \in Nat /\ n <= Len(order)
      /\ \A i \in 1..Len(order) : order[i] \in Senders
      /\ script \in [Senders -> TransportFrames]
      /\ pipe \in Seq(Bytes) /\ buffer \in Seq(Bytes) /\ Content = Bytes
  BY Known
<1>2. SendInv
  BY DEF WireInv
<1> SUFFICES ASSUME n < Intact PROVE FALSE
  BY DEF Readable
<1>3. n < Len(order) /\ sender[order[n + 1]].at = "sending"
  <2>1. n # Len(order)
    <3>1. n = Len(order) => Intact = n
      BY <1>2, IntactIs
    <3> QED BY <3>1
  <2>2. n < Len(order)
    BY <1>1, <2>1
  <2>3. sender[order[n + 1]].at # "failed"
    <3>1. sender[order[n + 1]].at = "failed" => Intact = n
      BY <1>2, <2>2, IntactIs
    <3> QED BY <3>1
  <2> QED BY <1>2, <2>2, <2>3, FinishedOnes
<1> DEFINE s == order[n + 1]
           left == sender[s].left
<1>4. s \in Senders /\ left \in Seq(Bytes) /\ left # <<>>
  BY <1>1, <1>2, <1>3, FinishedOnes DEF SendInv, SenderStates
<1>5. tail[n] = buffer \o pipe /\ tail[n] \o left = Wire(s)
  BY <1>3 DEF Flow
<1>6. Wire(s) \in Seq(Bytes)
  BY <1>1, <1>4, WireIs
<1> HIDE DEF s, left
<1>7. buffer \o (pipe \o left) = Wire(s) \o <<>>
  <2>1. (buffer \o pipe) \o left = buffer \o (pipe \o left)
    <3>1. buffer \in Seq(Bytes) /\ pipe \in Seq(Bytes)
      BY <1>1
    <3> QED BY ONLY <1>4, <3>1, BytesJoined, Zenon
  <2>2. Wire(s) \o <<>> = Wire(s)
    BY <1>6, JoinedToNone
  <2> QED BY <1>5, <2>1, <2>2
<1>8. pipe \o left \in Seq(Bytes) /\ <<>> \in Seq(Bytes)
      /\ Len(pipe \o left) = Len(pipe) + Len(left) /\ Len(pipe) \in Nat
      /\ Len(left) \in Nat
  <2>1. <<>> \in Seq(Bytes)
    OBVIOUS
  <2> QED BY <1>1, <1>4, <2>1, Joined
<1>9. Len(buffer) >= Len(Wire(s))
  <2> DEFINE rest == pipe \o left
             none == <<>>
  <2>1. rest \in Seq(Bytes) /\ none \in Seq(Bytes) /\ buffer \o rest = Wire(s) \o none
    BY <1>7, <1>8
  <2> HIDE DEF rest, none
  <2> QED BY <1>1, <1>4, <2>1, BufferRead
<1>10. Len(left) # 0
  BY <1>4
<1>11. Len(buffer) + (Len(pipe) + Len(left)) = Len(Wire(s)) /\ Len(buffer) \in Nat
  <2> DEFINE rest == pipe \o left
  <2>1. rest \in Seq(Bytes) /\ buffer \in Seq(Bytes)
    BY <1>1, <1>8
  <2>2. Len(buffer \o rest) = Len(buffer) + Len(rest) /\ Len(buffer) \in Nat
    <3> HIDE DEF rest
    <3> QED BY <2>1, Joined
  <2>3. buffer \o rest = Wire(s)
    BY <1>6, <1>7, JoinedToNone
  <2> QED BY <1>8, <2>2, <2>3
<1> QED BY <1>8, <1>9, <1>10, <1>11

LEMMA FrameTaken ==
  ASSUME WireAssumption, WireInv, medium = "stream", Readable, HasFrame(buffer),
         receiver # "idle", UNCHANGED <<sending, pipe, told, missed>>,
         received' = Append(received, DecodeFrame(Parts(buffer))),
         buffer' = Rest(buffer)
  PROVE  WireInv'
<1>1. SendInv /\ SendInv'
  BY ReceivingStep DEF WireInv
<1>2. /\ UNCHANGED <<medium, script, sender, order, shut>>
      /\ missed' = missed /\ told' = told /\ pipe' = pipe /\ told # "the end"
  BY DEF sending, WireInv, Arrived
<1>3. PICK n \in Nat : OnTheWay(n)
  BY DEF WireInv
<1>4. Finished(n) /\ Len(received) <= n
  BY <1>3 DEF OnTheWay
<1>5. /\ Len(order) \in Nat /\ n <= Len(order) /\ Len(received) \in Nat
      /\ \A i \in 1..Len(order) : order[i] \in Senders
      /\ script \in [Senders -> TransportFrames]
      /\ pipe \in Seq(Bytes) /\ buffer \in Seq(Bytes) /\ Content = Bytes
  BY <1>4, Known
<1>6. Finished(n)' /\ Content' = Content
  BY <1>2, <1>4, <1>5, SameFlow
<1>7. PICK r \in Nat : r = Len(received)
  BY <1>5
<1>8. r < n => /\ r + 1 <= n /\ \A i \in (r + 1 + 1)..n : i \in (r + 1)..n
  BY <1>7
<1>9. \A i \in (r + 1)..n : i \in 1..Len(order)
  BY <1>5, <1>7
<1>10. \A i \in 1..Len(order) : Wire(order[i])' = Wire(order[i])
  BY <1>2 DEF Wire
<1>11. r <= n /\ ~ (r < n) => r = n
  BY <1>7
<1>12. n < Len(order) => Wire(order[n + 1])' = Wire(order[n + 1])
  <2>1. n < Len(order) => n + 1 \in 1..Len(order)
    BY <1>5
  <2> QED BY <1>10, <2>1
<1>13. PICK tail \in [Nat -> Seq(Bytes)] : Flow(n, tail)
  BY <1>3 DEF OnTheWay
<1>14. r < n
  BY <1>4, <1>7, <1>11, <1>13, NoneYet
<1>15. PICK s \in Senders, after \in Seq(Bytes) :
         /\ s = order[r + 1] /\ after = tail[r + 1]
         /\ buffer \o pipe = Wire(s) \o after
  BY <1>4, <1>7, <1>13, <1>14, NextFrame
<1>16. /\ DecodeFrame(Parts(buffer)) = script[s]
       /\ Rest(buffer) \in Seq(Bytes)
       /\ Rest(buffer) \o pipe = after
  <2>1. /\ buffer \in Seq(Bytes) /\ pipe \in Seq(Bytes)
        /\ buffer \o pipe = Wire(s) \o after
        /\ script \in [Senders -> TransportFrames]
    BY <1>5, <1>15
  <2>2. DecodeFrame(Parts(buffer)) = script[s]
    BY <2>1, BufferRead
  <2>3. Rest(buffer) \in Seq(Bytes)
    BY <2>1, BufferRead
  <2>4. Behind(buffer, pipe) = after
    BY <2>1, BufferRead
  <2>5. Rest(buffer) \o pipe = after
    BY <2>4 DEF Behind
  <2> QED BY <2>2, <2>3, <2>5
<1>17. /\ received' \in Seq(TransportFrames) /\ Len(received') = r + 1
       /\ \A i \in 1..Len(received') : received'[i] = script[order[i]]
  <2> DEFINE frame == DecodeFrame(Parts(buffer))
  <2>1. frame = script[s] /\ frame \in TransportFrames /\ received \in Seq(TransportFrames)
    <3>1. frame = script[s]
      BY <1>16
    <3>2. script[s] \in TransportFrames
      BY <1>5, <1>15
    <3>3. received \in Seq(TransportFrames)
      BY DEF WireInv, Arrived
    <3> QED BY <3>1, <3>2, <3>3
  <2> HIDE DEF frame
  <2>2. /\ received' \in Seq(TransportFrames) /\ Len(received') = Len(received) + 1
        /\ \A i \in 1..Len(received) : received'[i] = received[i]
        /\ received'[Len(received) + 1] = frame
    BY <2>1, Appended DEF frame
  <2>3. \A i \in 1..Len(received) : received[i] = script[order[i]]
    BY DEF WireInv, Arrived
  <2>4. ASSUME NEW i \in 1..(r + 1) PROVE received'[i] = script[order[i]]
    <3>1. CASE i = r + 1
      BY <1>7, <1>15, <2>1, <2>2, <3>1
    <3>2. CASE i # r + 1
      <4>1. i \in 1..r
        BY <3>2
      <4> QED BY <1>7, <2>2, <2>3, <4>1
    <3> QED BY <3>1, <3>2
  <2> QED BY <1>7, <2>2, <2>4
<1>18. Arrived'
  <2>1. pipe' \in Seq(Content)' /\ buffer' \in Seq(Content)'
    BY <1>2, <1>5, <1>6, <1>16
  <2>2. medium' = "stream" /\ missed' = FALSE /\ told' # "the end"
    BY <1>2 DEF WireInv, Arrived
  <2>3. received' \in Seq(TransportFrames)
        /\ \A i \in 1..Len(received') : received'[i] = script'[order'[i]]
    BY <1>2, <1>17
  <2> QED BY <2>1, <2>2, <2>3 DEF Arrived
<1>19. Flow(n, tail)'
  <2>1. tail[Len(received')] = buffer' \o pipe'
    BY <1>2, <1>15, <1>16, <1>17
  <2>2. \A i \in (r + 1)..n : tail[i - 1] = Wire(order[i]) \o tail[i]
    BY <1>7, <1>13 DEF Flow
  <2>3. \A i \in (r + 1 + 1)..n : tail[i - 1] = Wire(order[i])' \o tail[i]
    BY <1>8, <1>9, <1>10, <1>14, <2>2
  <2>4. \A i \in (Len(received') + 1)..n : tail[i - 1] = Wire(order[i])' \o tail[i]
    BY <1>17, <2>3
  <2>5. n = Len(order') => tail[n] = <<>>
    BY <1>2, <1>13 DEF Flow
  <2>6. n < Len(order') /\ sender'[order'[n + 1]].at = "sending" =>
          tail[n] \o sender'[order'[n + 1]].left = Wire(order[n + 1])'
    BY <1>2, <1>12, <1>13 DEF Flow
  <2> QED BY <2>1, <2>4, <2>5, <2>6 DEF Flow
<1>20. OnTheWay(n)'
  BY <1>2, <1>6, <1>8, <1>14, <1>17, <1>19 DEF OnTheWay
<1> QED BY <1>1, <1>18, <1>20 DEF WireInv

LEMMA NoFrameInNothing == ~HasFrame(<<>>)
<1>1. Len(<<>>) < CountSize
  BY DEF CountSize
<1> QED BY <1>1 DEF HasFrame, FrameEnd, Short

LEMMA TakeFrameKeeps ==
  ASSUME WireAssumption, WireInv, TakeFrame
  PROVE  WireInv'
<1>1. buffer # <<>>
  BY NoFrameInNothing DEF TakeFrame
<1>2. medium = "stream"
  BY <1>1 DEF WireInv, SendInv, Arrived
<1>3. /\ Readable /\ HasFrame(buffer) /\ receiver # "idle"
      /\ UNCHANGED <<sending, pipe, told, missed>>
      /\ received' = Append(received, DecodeFrame(Parts(buffer)))
      /\ buffer' = Rest(buffer)
  BY DEF TakeFrame, Arrives
<1> QED BY <1>2, <1>3, FrameTaken

(* With nothing on its way, what can no longer be read was received. *)
LEMMA AllReceived ==
  ASSUME WireAssumption, WireInv, medium = "stream", pipe = <<>>,
         ~ (Readable /\ HasFrame(buffer)), NEW n \in Nat, OnTheWay(n)
  PROVE  Len(received) = n
<1>1. Finished(n) /\ Len(received) <= n /\ SendInv
  BY DEF OnTheWay, WireInv
<1>2. Len(received) \in Nat /\ Len(order) \in Nat /\ buffer \in Seq(Bytes)
      /\ script \in [Senders -> TransportFrames]
  BY <1>1, Known
<1>3. SUFFICES ASSUME Len(received) < n PROVE FALSE
  BY <1>1, <1>2
<1>4. Readable
  <2>1. Intact \in n..Len(order)
    BY <1>1, IntactIs
  <2>2. Len(received) < Intact
    BY <1>2, <1>3, <2>1
  <2> QED BY <2>2 DEF Readable
<1>5. PICK tail \in [Nat -> Seq(Bytes)] : Flow(n, tail)
  BY DEF OnTheWay
<1>6. PICK s \in Senders, after \in Seq(Bytes) : buffer \o pipe = Wire(s) \o after
  BY <1>1, <1>3, <1>5, NextFrame
<1>7. HasFrame(buffer)
  <2>1. buffer \o <<>> = Wire(s) \o after
    BY <1>6
  <2> QED BY <1>2, <2>1, BufferHolds
<1> QED BY <1>4, <1>7

LEMMA BeginKeeps ==
  ASSUME WireAssumption, WireInv, Begin("blocking") \/ Begin("nowait")
  PROVE  WireInv'
<1>1. /\ UNCHANGED <<sending, received, missed, pipe, buffer, told>> /\ told # "the end"
  BY DEF Begin
<1>2. pipe \in Seq(Content) /\ buffer \in Seq(Content)
  BY DEF WireInv, Arrived
<1>3. told' # "the end"
  BY <1>1
<1>4. buffer' \o pipe' = buffer \o pipe
  BY <1>1
<1> QED BY <1>1, <1>2, <1>3, <1>4, NothingTaken

LEMMA ReadKeeps ==
  ASSUME WireAssumption, WireInv, Read
  PROVE  WireInv'
<1>1. /\ UNCHANGED <<sending, received, missed, told, receiver>> /\ medium = "stream"
      /\ receiver # "idle" /\ pipe # <<>>
  BY DEF Read, Starved
<1>2. pipe \in Seq(Bytes) /\ buffer \in Seq(Bytes) /\ Content = Bytes /\ told # "the end"
  BY <1>1 DEF WireInv, Arrived, Content
<1>3. Len(pipe) \in Nat
  <2>1. pipe \in Seq(Bytes)
    BY <1>2
  <2> QED BY <2>1, LenProperties
<1>4. PICK k \in 0..Len(pipe) : /\ buffer' = buffer \o SubSeq(pipe, 1, k)
                                /\ pipe' = SubSeq(pipe, k + 1, Len(pipe))
  <2>1. PICK k \in 1..(IF Len(pipe) < ReadSize THEN Len(pipe) ELSE ReadSize) :
          /\ buffer' = buffer \o SubSeq(pipe, 1, k)
          /\ pipe' = SubSeq(pipe, k + 1, Len(pipe))
    BY DEF Read
  <2>2. k \in 0..Len(pipe)
    BY <1>3 DEF WireAssumption
  <2> QED BY <2>1, <2>2
<1> DEFINE a == SubSeq(pipe, 1, k)
           b == SubSeq(pipe, k + 1, Len(pipe))
<1>5. a \in Seq(Bytes) /\ b \in Seq(Bytes) /\ pipe = a \o b
  BY <1>2, CutInTwo
<1> HIDE DEF a, b
<1>6. buffer' = buffer \o a /\ pipe' = b
  BY <1>4 DEF a, b
<1>7. buffer \o a \in Seq(Bytes)
  BY <1>2, <1>5, Joined
<1>8. buffer' \o pipe' = buffer \o pipe
  <2>1. (buffer \o a) \o b = buffer \o (a \o b)
    <3>1. buffer \in Seq(Bytes)
      BY <1>2
    <3> QED BY ONLY <1>5, <3>1, BytesJoined, Zenon
  <2> QED BY <1>5, <1>6, <2>1
<1>9. pipe' \in Seq(Content) /\ buffer' \in Seq(Content)
  BY <1>2, <1>5, <1>6, <1>7
<1>10. told' # "the end" /\ medium # "messages"
  BY <1>1, <1>2
<1> QED BY <1>1, <1>8, <1>9, <1>10, NothingTaken

LEMMA EndOfStreamKeeps ==
  ASSUME WireAssumption, WireInv, EndOfStream \/ EndOfStreamNowait
  PROVE  WireInv'
<1>1. /\ UNCHANGED <<sending, received, missed, pipe, buffer>> /\ medium = "stream"
      /\ pipe = <<>> /\ shut /\ receiver' = "idle"
  BY DEF EndOfStream, EndOfStreamNowait, Returns
<1>2. pipe \in Seq(Content) /\ buffer \in Seq(Content)
  BY DEF WireInv, Arrived
<1>3. buffer' \o pipe' = buffer \o pipe
  BY <1>1
<1>4. ASSUME told' = "the end", NEW n \in Nat, OnTheWay(n)
      PROVE  Len(received) = n
  <2>1. ~HasFrame(buffer)
    BY <1>4 DEF EndOfStream, EndOfStreamNowait, Starved
  <2> QED BY <1>1, <1>4, <2>1, AllReceived
<1> QED BY <1>1, <1>2, <1>3, <1>4, NothingTaken

LEMMA TakeFrameNowaitKeeps ==
  ASSUME WireAssumption, WireInv, TakeFrameNowait
  PROVE  WireInv'
<1>1. CASE Readable /\ HasFrame(buffer)
  <2>1. /\ medium = "stream" /\ receiver # "idle"
        /\ UNCHANGED <<sending, pipe, told, missed>>
        /\ received' = Append(received, DecodeFrame(Parts(buffer)))
        /\ buffer' = Rest(buffer)
    BY <1>1 DEF TakeFrameNowait, Arrives
  <2> QED BY <1>1, <2>1, FrameTaken
<1>2. CASE ~ (Readable /\ HasFrame(buffer))
  <2>1. /\ medium = "stream" /\ receiver # "idle" /\ pipe = <<>>
        /\ UNCHANGED <<sending, pipe, told, received, buffer>>
        /\ missed' = (missed \/ (AllWhole /\ Len(received) < Cardinality(whole)))
    BY <1>2 DEF TakeFrameNowait
  <2>2. PICK n \in Nat : OnTheWay(n)
    BY DEF WireInv
  <2>3. Len(received) = n
    BY <1>2, <2>1, <2>2, AllReceived
  <2>4. AllWhole => Cardinality(whole) = n
    BY <2>2, WholeIs DEF OnTheWay, WireInv
  <2>5. missed = FALSE /\ told # "the end" /\ pipe \in Seq(Content) /\ buffer \in Seq(Content)
    BY <2>1 DEF WireInv, Arrived
  <2>6. ~ (AllWhole /\ Len(received) < Cardinality(whole))
    BY <2>3, <2>4
  <2>7. UNCHANGED <<sending, received, missed>>
    BY <2>1, <2>5, <2>6
  <2>8. /\ pipe' \in Seq(Content) /\ buffer' \in Seq(Content)
        /\ buffer' \o pipe' = buffer \o pipe
        /\ UNCHANGED <<pipe, buffer>> /\ told' # "the end"
    BY <2>1, <2>5
  <2> QED BY <2>7, <2>8, NothingTaken
<1> QED BY <1>1, <1>2

LEMMA ReceiveNothingKeeps ==
  ASSUME WireAssumption, WireInv, ReceiveNothing
  PROVE  WireInv'
<1>1. /\ UNCHANGED <<sending, received, missed, pipe, buffer, told>> /\ receiver # "idle"
  BY DEF ReceiveNothing
<1>2. pipe \in Seq(Content) /\ buffer \in Seq(Content) /\ told # "the end"
  BY <1>1 DEF WireInv, Arrived
<1>3. told' # "the end" /\ buffer' \o pipe' = buffer \o pipe
  BY <1>1, <1>2
<1> QED BY <1>1, <1>2, <1>3, NothingTaken

LEMMA ReceiveMessageKeeps ==
  ASSUME WireAssumption, WireInv, ReceiveMessage
  PROVE  WireInv'
<1>1. SendInv /\ SendInv'
  BY ReceivingStep DEF WireInv, ReceiveMessage
<1>2. /\ UNCHANGED <<medium, script, sender, order, shut, buffer, told, missed>>
      /\ medium = "messages" /\ pipe # <<>> /\ receiver # "idle"
      /\ received' = Append(received, DecodeFrame(Head(pipe))) /\ pipe' = Tail(pipe)
  BY DEF ReceiveMessage, Arrives, sending
<1>3. PICK n \in Nat : OnTheWay(n)
  BY DEF WireInv
<1>4. Finished(n) /\ Len(received) <= n /\ Queue(n)
  BY <1>2, <1>3 DEF OnTheWay
<1>5. /\ Len(order) \in Nat /\ n <= Len(order) /\ Len(received) \in Nat /\ Len(pipe) \in Nat
      /\ \A i \in 1..Len(order) : order[i] \in Senders
      /\ script \in [Senders -> TransportFrames] /\ pipe \in Seq(Content)
  BY <1>4, Known
<1>6. Finished(n)' /\ Content' = Content
  BY <1>2, <1>4, <1>5, SameFlow
<1>7. told # "the end" /\ received \in Seq(TransportFrames)
      /\ \A i \in 1..Len(received) : received[i] = script[order[i]]
  BY <1>2 DEF WireInv, Arrived
<1>8. /\ Len(pipe) >= 1 /\ Head(pipe) = pipe[1] /\ pipe' \in Seq(Content)
      /\ Len(pipe') = Len(pipe) - 1 /\ \A i \in 1..(Len(pipe) - 1) : pipe'[i] = pipe[i + 1]
  BY <1>2, <1>5, HeadAndTail
<1>9. Len(received) + Len(pipe) <= n
  BY <1>4 DEF Queue
<1>10. Len(received) + 1 \in 1..Len(order)
  BY <1>5, <1>8, <1>9
<1> DEFINE s == order[Len(received) + 1]
           frame == DecodeFrame(Head(pipe))
<1>11. s \in Senders /\ frame = script[s] /\ script[s] \in TransportFrames
  <2>1. s \in Senders
    BY <1>5, <1>10
  <2>2. Head(pipe) = EncodeFrame(script[s])
    <3>1. 1 \in 1..Len(pipe)
      BY <1>5, <1>8
    <3> QED BY <1>4, <1>8, <3>1 DEF Queue
  <2>3. DecodeFrame(EncodeFrame(script[s])) = script[s]
    BY <1>2, <1>5, <2>1, WireIs
  <2> QED BY <1>5, <2>1, <2>2, <2>3
<1>12. received' = Append(received, frame)
  BY <1>2
<1> HIDE DEF frame, s
<1>13. /\ received' \in Seq(TransportFrames) /\ Len(received') = Len(received) + 1
       /\ \A i \in 1..Len(received) : received'[i] = received[i]
       /\ received'[Len(received) + 1] = script[s]
  <2>1. frame \in TransportFrames /\ received \in Seq(TransportFrames)
    BY <1>7, <1>11
  <2>2. /\ received' \in Seq(TransportFrames) /\ Len(received') = Len(received) + 1
        /\ \A i \in 1..Len(received) : received'[i] = received[i]
        /\ received'[Len(received) + 1] = frame
    BY <1>12, <2>1, Appended
  <2> QED BY <1>11, <2>2
<1>14. ASSUME NEW i \in 1..Len(received') PROVE received'[i] = script[order[i]]
  <2>1. CASE i = Len(received) + 1
    BY <1>13, <2>1 DEF s
  <2>2. CASE i # Len(received) + 1
    <3>1. i \in 1..Len(received)
      BY <1>5, <1>13, <2>2
    <3> QED BY <1>7, <1>13, <3>1
  <2> QED BY <2>1, <2>2
<1>15. Arrived'
  BY <1>2, <1>6, <1>7, <1>8, <1>13, <1>14 DEF WireInv, Arrived
<1>16. Queue(n)'
  <2>1. Len(received') + Len(pipe') = Len(received) + Len(pipe)
    BY <1>5, <1>8, <1>13
  <2>2. ASSUME NEW i \in 1..Len(pipe')
        PROVE  pipe'[i] = EncodeFrame(script[order[Len(received') + i]])
    <3>1. i \in 1..(Len(pipe) - 1) /\ i + 1 \in 1..Len(pipe)
      BY <1>5, <1>8
    <3>2. Len(received') + i = Len(received) + (i + 1)
      BY <1>5, <1>13, <3>1
    <3>3. pipe'[i] = pipe[i + 1]
      BY <1>8, <3>1
    <3>4. pipe[i + 1] = EncodeFrame(script[order[Len(received) + (i + 1)]])
      BY <1>4, <3>1 DEF Queue
    <3> QED BY <3>2, <3>3, <3>4
  <2> QED BY <1>2, <1>4, <2>1, <2>2 DEF Queue
<1>17. Len(received') <= n
  BY <1>5, <1>8, <1>9, <1>13
<1>18. OnTheWay(n)'
  BY <1>2, <1>6, <1>7, <1>16, <1>17 DEF OnTheWay
<1> QED BY <1>1, <1>15, <1>18 DEF WireInv

------------------------------------------------------------------------------
LEMMA WireStep ==
  ASSUME WireAssumption, WireInv, [WireNext]_wireVars
  PROVE  WireInv'
<1>1. ASSUME NEW s \in Senders, BeginSend(s)
      PROVE  WireInv'
  BY <1>1, BeginSendKeeps
<1>2. ASSUME NEW s \in Senders, Write(s)
      PROVE  WireInv'
  BY <1>2, WriteKeeps
<1>3. ASSUME NEW s \in Senders, WriteFails(s) \/ CancelSend(s)
      PROVE  WireInv'
  BY <1>3, CutOffKeeps
<1>4. CASE Close
  BY <1>4, CloseKeeps
<1>5. CASE Begin("blocking") \/ Begin("nowait")
  BY <1>5, BeginKeeps
<1>6. CASE TakeFrame
  BY <1>6, TakeFrameKeeps
<1>7. CASE Read
  BY <1>7, ReadKeeps
<1>8. CASE EndOfStream \/ EndOfStreamNowait
  BY <1>8, EndOfStreamKeeps
<1>9. CASE TakeFrameNowait
  BY <1>9, TakeFrameNowaitKeeps
<1>10. CASE ReceiveMessage
  BY <1>10, ReceiveMessageKeeps
<1>11. CASE ReceiveNothing
  BY <1>11, ReceiveNothingKeeps
<1>12. CASE UNCHANGED wireVars
  <2>1. UNCHANGED <<sending, received, missed, pipe, buffer, told, receiver>>
    BY <1>12 DEF wireVars, receiving
  <2>2. /\ pipe' \in Seq(Content) /\ buffer' \in Seq(Content)
        /\ told' = "the end" => shut /\ receiver' = "idle" /\ medium = "stream"
    BY <2>1 DEF WireInv, Arrived
  <2>3. \A n \in Nat : OnTheWay(n) /\ told' = "the end" => Len(received) = n
    BY <2>1 DEF OnTheWay
  <2>4. buffer' \o pipe' = buffer \o pipe
    BY <2>1
  <2> QED BY <2>1, <2>2, <2>3, <2>4, NothingTaken
<1> QED BY <1>1, <1>2, <1>3, <1>4, <1>5, <1>6, <1>7, <1>8, <1>9, <1>10, <1>11, <1>12
        DEF WireNext

LEMMA WireInvariant == WireSpec => []WireInv
<1>1. WireInit => WireInv
  BY WireStarts, WireAssumption
<1>2. WireInv /\ [WireNext]_wireVars => WireInv'
  BY WireStep, WireAssumption
<1> QED BY <1>1, <1>2, PTL DEF WireSpec

(***************************************************************************)
(* Whatever frames are sent, whatever their number, and however their      *)
(* bytes are cut into writes and reads, what receive_frame returns is, in  *)
(* value and type, what send_frame was given, in the order in which the    *)
(* sends got the lock, as long as no send was cut off in the middle.       *)
(***************************************************************************)
THEOREM FramesArrive == WireSpec => []FramesArriveAsSent
<1>1. ASSUME WireInv PROVE FramesArriveAsSent
  <2>1. PICK n \in Nat : OnTheWay(n)
    BY <1>1 DEF WireInv
  <2>2. Finished(n) /\ Len(received) <= n
    BY <2>1 DEF OnTheWay
  <2>3. Len(received) \in Nat /\ Len(order) \in Nat /\ n <= Len(order)
    BY <1>1, <2>2, Known
  <2>4. Len(received) <= Len(order)
    BY <2>2, <2>3
  <2>5. received \in Seq(TransportFrames)
    BY <1>1 DEF WireInv, Arrived
  <2>6. DOMAIN received = 1..Len(received)
    BY <2>5
  <2>7. \A i \in 1..Len(received) : received[i] = script[order[i]]
    BY <1>1 DEF WireInv, Arrived
  <2> QED BY <2>4, <2>6, <2>7 DEF FramesArriveAsSent
<1> QED BY <1>1, WireInvariant, PTL

(***************************************************************************)
(* receive_frame raises the end of the connection only when every frame    *)
(* whose send had returned was returned, and a nowait call never leaves a  *)
(* frame that has arrived whole.                                           *)
(***************************************************************************)
THEOREM EndIsLast == WireSpec => []EndComesLast
<1>1. ASSUME WireInv PROVE EndComesLast
  <2>1. PICK n \in Nat : OnTheWay(n)
    BY <1>1 DEF WireInv
  <2>2. told = "the end" => Len(received) = n
    BY <2>1 DEF OnTheWay
  <2>3. AllWhole => Cardinality(whole) = n
    BY <1>1, <2>1, WholeIs DEF OnTheWay, WireInv
  <2>4. ~missed
    BY <1>1 DEF WireInv, Arrived
  <2> QED BY <2>2, <2>3, <2>4 DEF EndComesLast
<1> QED BY <1>1, WireInvariant, PTL

==============================================================================
