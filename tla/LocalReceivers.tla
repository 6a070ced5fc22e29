---------------------------- MODULE LocalReceivers ----------------------------
(***************************************************************************)
(* The receiving side of the in-process buses: broker/direct.py with       *)
(* endpoints.py for threads, broker/asyncdirect.py with asyncendpoints.py  *)
(* for tasks, and the handlers of broker/dispatch.py on top of them.       *)
(*                                                                         *)
(* A receiver has a queue that emissions fill. Readers take batches from   *)
(* one receiver, or wait in receive_from for the first message of several, *)
(* with a condition that all receivers of the bus share (an event in the   *)
(* asyncio bus). Between threads a step is one access to a queue or one    *)
(* hold of the condition's lock; a task runs until it awaits.              *)
(***************************************************************************)
EXTENDS Naturals, Sequences, FiniteSets, SequencesExt

CONSTANTS Emitters, Readers, Receivers,
          Bounds,        \* pairs a caller gives receive_batch
          NoReader,      \* nobody holds the condition's lock
          MaxMessages,   \* bound on the emissions
          MaxReceives    \* bound on the receive calls of a reader

ASSUME ReceiversAssumption ==
  /\ Readers \cap Emitters = {} /\ NoReader \notin Readers
  /\ Bounds \subseteq Nat \X Nat
  /\ MaxMessages \in Nat /\ MaxReceives \in Nat

VARIABLES
  style,      \* which bus it is: "threads" or "tasks"
  subscribed, \* the receivers there are: each is in the core's list
  queue,      \* _BrokerReceiver._queue of each receiver
  holder,     \* the reader inside the condition's lock, or NoReader
  woken,      \* the waiting readers that were notified
  event,      \* _AsyncReceiveMonitor._event
  pc,         \* where each emitter and each reader is
  matching,   \* for an emitter, the receivers still to be served
  message,    \* for an emitter, the message it emits
  call,       \* for a reader, the call it is in
  messages,   \* for a reader, the list the call has taken so far
  turn,       \* for a reader in receive_from, the receiver it looks at next
  callsMade,  \* how many calls each reader has made
  emitted,    \* how many messages there have been
  delivered,  \* history: what came into each receiver's queue, in order
  given,      \* history: what each reader was given, in order
  dropped     \* history: what a reader had taken when its call raised

receiversVars ==
  <<style, subscribed, queue, holder, woken, event, pc, matching, message, call,
    messages, turn, callsMade, emitted, delivered, given, dropped>>

busVars == <<style, subscribed>>
monitorVars == <<holder, woken, event>>
emitterVars == <<matching, message, emitted, delivered>>
readerVars == <<call, messages, turn, callsMade>>
resultVars == <<given, dropped>>

------------------------------------------------------------------------------
(* The calls of a receiver: how many messages they wait for, how many they *)
(* take at most, and whether they return one message instead of a list.    *)

NoLimit == MaxMessages + 1

Batch(min, max) == [min |-> min, max |-> max, single |-> FALSE]

Receive == [min |-> 1, max |-> 1, single |-> TRUE]
ReceiveNowait == [min |-> 0, max |-> 1, single |-> TRUE]
ReceiveAvailable == Batch(0, NoLimit)
ReceiveMany(count) == Batch(1, count)

AsyncReceive == [min |-> 1, max |-> 1, single |-> TRUE]
AsyncReceiveNowait == [min |-> 0, max |-> 1, single |-> TRUE]
AsyncReceiveAvailable == Batch(0, NoLimit)
AsyncReceiveMany(count) == Batch(1, count)

(* receive_batch refuses a minimum above the maximum. *)
ReceiveBatches == {Batch(b[1], b[2]) : b \in {b \in Bounds : b[1] <= b[2]}}

AsyncReceiveBatches == {Batch(b[1], b[2]) : b \in {b \in Bounds : b[1] <= b[2]}}

ThreadCalls ==
  {Receive, ReceiveNowait, ReceiveAvailable}
    \cup {ReceiveMany(count) : count \in 1..MaxMessages} \cup ReceiveBatches

TaskCalls ==
  {AsyncReceive, AsyncReceiveNowait, AsyncReceiveAvailable}
    \cup {AsyncReceiveMany(count) : count \in 1..MaxMessages}
    \cup AsyncReceiveBatches

(* A call for a list, or for a batch to be handed to a handler *)
Calls(batches, handled) ==
  [kind : {"batch"}, from : {<<r>> : r \in subscribed}, batch : batches]
    \cup [kind : {"handled"}, from : {<<r>> : r \in subscribed},
          batch : handled]

RunReceiverBatch == Calls(ThreadCalls, ReceiveBatches)
RunAsyncReceiverBatch == Calls(TaskCalls, AsyncReceiveBatches)

(* What the caller gets: receive and receive_nowait give the first message. *)
Returned(c, list) ==
  IF c.single /\ list # <<>> THEN <<Head(list)>> ELSE list

(* receive_from refuses an empty selection, and receivers of another bus. *)
Selections == {s \in SeqOf(subscribed, Cardinality(subscribed)) :
                 s # <<>> /\ IsInjective(s)}

NoCall == [kind |-> "none", from |-> <<>>, batch |-> Receive]

------------------------------------------------------------------------------
ReceiversInit ==
  /\ style \in {"threads", "tasks"}
  /\ subscribed = {}
  /\ queue = [r \in Receivers |-> <<>>]
  /\ holder = NoReader /\ woken = {} /\ event = FALSE
  /\ pc = [x \in Emitters \cup Readers |-> "idle"]
  /\ matching = [e \in Emitters |-> {}]
  /\ message = [e \in Emitters |-> 0]
  /\ call = [x \in Readers |-> NoCall]
  /\ messages = [x \in Readers |-> <<>>]
  /\ turn = [x \in Readers |-> 1]
  /\ callsMade = [x \in Readers |-> 0]
  /\ emitted = 0
  /\ delivered = [r \in Receivers |-> <<>>]
  /\ given = [x \in Readers |-> <<>>]
  /\ dropped = {}

Goto(x, label) == pc' = [pc EXCEPT ![x] = label]

(* A reader's call ends: it returns or raises. *)
EndCall(x) ==
  /\ Goto(x, "idle")
  /\ call' = [call EXCEPT ![x] = NoCall]
  /\ messages' = [messages EXCEPT ![x] = <<>>]

------------------------------------------------------------------------------
(* subscribe: the new receiver is in the core before the caller has it. *)

AddReceiver(r) ==
  /\ r \notin subscribed
  /\ subscribed' = subscribed \cup {r}
  /\ UNCHANGED <<style, queue, monitorVars, pc, emitterVars, readerVars,
                 resultVars>>

DirectSubscribe(r) == style = "threads" /\ AddReceiver(r)

AsyncSubscribe(r) == style = "tasks" /\ AddReceiver(r)

------------------------------------------------------------------------------
(* The threaded bus: the emitting thread puts the message into one queue *)
(* after the other, and notifies the condition after each.               *)

Emit(e) ==
  /\ style = "threads" /\ pc[e] = "idle"
  /\ emitted < MaxMessages
  /\ \E matched \in SUBSET subscribed :
       matching' = [matching EXCEPT ![e] = matched]
  /\ emitted' = emitted + 1
  /\ message' = [message EXCEPT ![e] = emitted + 1]
  /\ Goto(e, "put")
  /\ UNCHANGED <<busVars, queue, monitorVars, readerVars, delivered,
                 resultVars>>

Put(r, m) ==
  /\ queue' = [queue EXCEPT ![r] = Append(@, m)]
  /\ delivered' = [delivered EXCEPT ![r] = Append(@, m)]

DeliverPut(e) ==
  /\ pc[e] = "put"
  /\ \E r \in matching[e] :
       /\ Put(r, message[e])
       /\ matching' = [matching EXCEPT ![e] = @ \ {r}]
  /\ Goto(e, "notify")
  /\ UNCHANGED <<busVars, monitorVars, message, emitted, readerVars,
                 resultVars>>

EmitReturns(e) ==
  /\ pc[e] = "put" /\ matching[e] = {}
  /\ Goto(e, "idle")
  /\ UNCHANGED <<busVars, queue, monitorVars, emitterVars, readerVars,
                 resultVars>>

Waiting == {x \in Readers : pc[x] = "waiting"}

(* Mutant: notify() instead of notify_all(). *)
NotifyDelivery_one(e) ==
  /\ pc[e] = "notify"
  /\ holder = NoReader
  /\ \/ Waiting \subseteq woken /\ UNCHANGED woken
     \/ \E x \in Waiting \ woken : woken' = woken \cup {x}
  /\ Goto(e, "put")
  /\ UNCHANGED <<busVars, queue, holder, event, emitterVars, readerVars,
                 resultVars>>

(* notify_all needs the lock, which a reader holds while it looks. *)
NotifyDelivery(e) ==
  /\ pc[e] = "notify"
  /\ holder = NoReader
  /\ woken' = woken \cup Waiting
  /\ Goto(e, "put")
  /\ UNCHANGED <<busVars, queue, holder, event, emitterVars, readerVars,
                 resultVars>>

------------------------------------------------------------------------------
(* receive_batch on the threaded bus *)

StartCall(x, c) ==
  /\ pc[x] = "idle"
  /\ callsMade[x] < MaxReceives
  /\ callsMade' = [callsMade EXCEPT ![x] = @ + 1]
  /\ call' = [call EXCEPT ![x] = c]
  /\ messages' = [messages EXCEPT ![x] = <<>>]

BatchCall(x) ==
  /\ style = "threads"
  /\ \E c \in RunReceiverBatch : StartCall(x, c)
  /\ Goto(x, "get")
  /\ UNCHANGED <<busVars, queue, monitorVars, emitterVars, turn, resultVars>>

Source(x) == Head(call[x].from)

Take(x, r, count) ==
  /\ messages' = [messages EXCEPT ![x] = @ \o SubSeq(queue[r], 1, count)]
  /\ queue' = [queue EXCEPT ![r] = SubSeq(@, count + 1, Len(@))]

(* queue.get() waits for a message ... *)
BatchGet(x) ==
  /\ style = "threads" /\ pc[x] = "get"
  /\ Len(messages[x]) < call[x].batch.min
  /\ queue[Source(x)] # <<>>
  /\ Take(x, Source(x), 1)
  /\ UNCHANGED <<busVars, monitorVars, emitterVars, pc, call, turn, callsMade,
                 resultVars>>

(* Mutant: the limit is looked at one message too late. *)
BatchGetNowait_oneTooMany(x) ==
  /\ style = "threads" /\ pc[x] = "get"
  /\ Len(messages[x]) \in call[x].batch.min..call[x].batch.max
  /\ queue[Source(x)] # <<>>
  /\ Take(x, Source(x), 1)
  /\ UNCHANGED <<busVars, monitorVars, emitterVars, pc, call, turn, callsMade,
                 resultVars>>

(* ... and get_nowait() takes one that is there. *)
BatchGetNowait(x) ==
  /\ style = "threads" /\ pc[x] = "get"
  /\ Len(messages[x]) \in call[x].batch.min..(call[x].batch.max - 1)
  /\ queue[Source(x)] # <<>>
  /\ Take(x, Source(x), 1)
  /\ UNCHANGED <<busVars, monitorVars, emitterVars, pc, call, turn, callsMade,
                 resultVars>>

Give(x, r, list) ==
  given' = [given EXCEPT ![x] = @ \o [i \in DOMAIN list |-> <<r, list[i]>>]]

BatchReturn(x) ==
  /\ style = "threads" /\ pc[x] = "get"
  /\ Len(messages[x]) >= call[x].batch.min
  /\ Len(messages[x]) >= call[x].batch.max \/ queue[Source(x)] = <<>>
  /\ IF call[x].kind = "handled"
       THEN Goto(x, "handle") /\ UNCHANGED <<call, messages, given>>
       ELSE /\ EndCall(x)
            /\ Give(x, Source(x), Returned(call[x].batch, messages[x]))
  /\ UNCHANGED <<busVars, queue, monitorVars, emitterVars, turn, callsMade,
                 dropped>>

(* The handler takes one message after the other; when it raises, the *)
(* messages behind the one it raised for are given to nobody.         *)
HandleMessage(x) ==
  /\ pc[x] = "handle" /\ messages[x] # <<>>
  /\ Give(x, Source(x), <<Head(messages[x])>>)
  /\ \/ /\ messages' = [messages EXCEPT ![x] = Tail(@)]
        /\ UNCHANGED <<pc, call, dropped>>
     \/ /\ EndCall(x)
        /\ dropped' = dropped \cup
             {<<Source(x), m>> : m \in Range(Tail(messages[x]))}
  /\ UNCHANGED <<busVars, queue, monitorVars, emitterVars, turn, callsMade>>

HandleReturn(x) ==
  /\ pc[x] = "handle" /\ messages[x] = <<>>
  /\ EndCall(x)
  /\ UNCHANGED <<busVars, queue, monitorVars, emitterVars, turn, callsMade,
                 resultVars>>

------------------------------------------------------------------------------
(* receive_from on the threaded bus: look and wait under one lock. *)

ReceiveFromCall(x) ==
  /\ \E selection \in Selections :
       StartCall(x, [kind |-> "from", from |-> selection, batch |-> Receive])
  /\ Goto(x, "enter")
  /\ UNCHANGED <<busVars, queue, monitorVars, emitterVars, turn, resultVars>>

BeginLook(x) ==
  /\ Goto(x, "look")
  /\ turn' = [turn EXCEPT ![x] = 1]

(* Mutant: the receivers are looked at before the lock is taken. *)
MonitorEnter_unlocked(x) ==
  /\ style = "threads" /\ pc[x] = "enter"
  /\ holder = NoReader
  /\ BeginLook(x)
  /\ UNCHANGED <<busVars, queue, monitorVars, emitterVars, call, messages,
                 callsMade, resultVars>>

MonitorEnter(x) ==
  /\ style = "threads" /\ pc[x] = "enter"
  /\ holder = NoReader
  /\ holder' = x
  /\ BeginLook(x)
  /\ UNCHANGED <<busVars, queue, woken, event, emitterVars, call, messages,
                 callsMade, resultVars>>

ReturnFrom(x, r) ==
  /\ queue' = [queue EXCEPT ![r] = Tail(@)]
  /\ Give(x, r, <<Head(queue[r])>>)
  /\ EndCall(x)

MonitorLook(x) ==
  /\ pc[x] = "look" /\ turn[x] <= Len(call[x].from)
  /\ LET r == call[x].from[turn[x]] IN
       IF queue[r] # <<>>
         THEN /\ ReturnFrom(x, r)
              /\ holder' = NoReader
              /\ turn' = [turn EXCEPT ![x] = 1]
         ELSE /\ turn' = [turn EXCEPT ![x] = @ + 1]
              /\ UNCHANGED <<queue, given, pc, holder, call, messages>>
  /\ UNCHANGED <<busVars, woken, event, emitterVars, callsMade, dropped>>

(* wait() lets the lock go and waits in one step. *)
MonitorWait(x) ==
  /\ pc[x] = "look" /\ turn[x] > Len(call[x].from)
  /\ Goto(x, "waiting")
  /\ holder' = NoReader
  /\ turn' = [turn EXCEPT ![x] = 1]
  /\ UNCHANGED <<busVars, queue, woken, event, emitterVars, call, messages,
                 callsMade, resultVars>>

MonitorWake(x) ==
  /\ style = "threads" /\ pc[x] = "waiting"
  /\ x \in woken /\ holder = NoReader
  /\ woken' = woken \ {x}
  /\ holder' = x
  /\ BeginLook(x)
  /\ UNCHANGED <<busVars, queue, event, emitterVars, call, messages, callsMade,
                 resultVars>>

------------------------------------------------------------------------------
(* The asyncio bus: an emission never awaits, a reader only where it waits. *)

PutAll(matched, m) ==
  /\ queue' = [r \in Receivers |->
                 IF r \in matched THEN Append(queue[r], m) ELSE queue[r]]
  /\ delivered' = [r \in Receivers |->
                   IF r \in matched THEN Append(delivered[r], m)
                                    ELSE delivered[r]]

AsyncNotifyDelivery ==
  /\ event' = TRUE
  /\ woken' = woken \cup Waiting

AsyncEmit(e) ==
  /\ style = "tasks" /\ pc[e] = "idle"
  /\ emitted < MaxMessages
  /\ emitted' = emitted + 1
  /\ \E matched \in SUBSET subscribed :
       /\ PutAll(matched, emitted + 1)
       /\ IF matched # {} THEN AsyncNotifyDelivery ELSE UNCHANGED <<event,
                                                                    woken>>
  /\ UNCHANGED <<busVars, holder, pc, matching, message, readerVars,
                 resultVars>>

AsyncBatchCall(x) ==
  /\ style = "tasks"
  /\ \E c \in RunAsyncReceiverBatch : StartCall(x, c)
  /\ Goto(x, "get")
  /\ UNCHANGED <<busVars, queue, monitorVars, emitterVars, turn, resultVars>>

Smaller(a, b) == IF a < b THEN a ELSE b

(* All that is there up to the limit; with too few, the task waits again. *)
AsyncReceiveBatch(x) ==
  LET r == Source(x)
      batch == call[x].batch
      count == Smaller(Len(queue[r]), batch.max - Len(messages[x]))
      taken == messages[x] \o SubSeq(queue[r], 1, count)
  IN
  /\ style = "tasks" /\ pc[x] = "get"
  /\ queue[r] # <<>> \/ Len(messages[x]) >= batch.min
  /\ queue' = [queue EXCEPT ![r] = SubSeq(@, count + 1, Len(@))]
  /\ IF Len(taken) < batch.min \/ call[x].kind = "handled"
       THEN /\ messages' = [messages EXCEPT ![x] = taken]
            /\ Goto(x, IF Len(taken) < batch.min THEN "get" ELSE "handle")
            /\ UNCHANGED <<call, given>>
       ELSE /\ EndCall(x)
            /\ Give(x, r, Returned(batch, taken))
  /\ UNCHANGED <<busVars, monitorVars, emitterVars, turn, callsMade, dropped>>

Available(x) == {i \in DOMAIN call[x].from : queue[call[x].from[i]] # <<>>}

(* _take_available_from: the first of the selection that has a message *)
AsyncTakeAvailable(x) ==
  LET first == CHOOSE i \in Available(x) : \A j \in Available(x) : i <= j IN
  /\ Available(x) # {}
  /\ ReturnFrom(x, call[x].from[first])

(* Nothing there: clear the event, look again (nobody has run), wait. *)
AsyncClearAndWait(x) ==
  /\ Available(x) = {}
  /\ event' = FALSE
  /\ Goto(x, "waiting")

AsyncReceiveFrom(x) ==
  /\ style = "tasks" /\ pc[x] = "enter"
  /\ \/ AsyncTakeAvailable(x) /\ UNCHANGED event
     \/ AsyncClearAndWait(x) /\ UNCHANGED <<queue, given, call, messages>>
  /\ UNCHANGED <<busVars, holder, woken, emitterVars, turn, callsMade, dropped>>

AsyncWake(x) ==
  /\ style = "tasks" /\ pc[x] = "waiting"
  /\ x \in woken
  /\ woken' = woken \ {x}
  /\ \/ AsyncTakeAvailable(x) /\ UNCHANGED event
     \/ AsyncClearAndWait(x) /\ UNCHANGED <<queue, given, call, messages>>
  /\ UNCHANGED <<busVars, holder, emitterVars, turn, callsMade, dropped>>

(* A task is cancelled where it waits; what its call has taken is gone. *)
Cancel(x) ==
  /\ style = "tasks" /\ pc[x] \in {"get", "waiting", "handle"}
  /\ EndCall(x)
  /\ woken' = woken \ {x}
  /\ dropped' = dropped \cup {<<Source(x), m>> : m \in Range(messages[x])}
  /\ UNCHANGED <<busVars, queue, holder, event, emitterVars, turn, callsMade,
                 given>>

------------------------------------------------------------------------------
EmitterStep(e) ==
  \/ DeliverPut(e) \/ EmitReturns(e) \/ NotifyDelivery(e)

ReaderStep(x) ==
  \/ BatchGet(x) \/ BatchGetNowait(x) \/ BatchReturn(x)
  \/ HandleMessage(x) \/ HandleReturn(x)
  \/ MonitorEnter(x) \/ MonitorLook(x) \/ MonitorWait(x) \/ MonitorWake(x)
  \/ AsyncReceiveBatch(x) \/ AsyncReceiveFrom(x) \/ AsyncWake(x)

ReceiversNext ==
  \/ \E r \in Receivers : DirectSubscribe(r) \/ AsyncSubscribe(r)
  \/ \E e \in Emitters : Emit(e) \/ AsyncEmit(e) \/ EmitterStep(e)
  \/ \E x \in Readers : \/ BatchCall(x) \/ AsyncBatchCall(x)
                        \/ ReceiveFromCall(x) \/ ReaderStep(x) \/ Cancel(x)

(* An emission that has begun goes on, and so does a reader that can. *)
ReceiversFairness ==
  /\ \A e \in Emitters : WF_receiversVars(EmitterStep(e))
  /\ \A x \in Readers : WF_receiversVars(ReaderStep(x))

ReceiversSpec ==
  ReceiversInit /\ [][ReceiversNext]_receiversVars /\ ReceiversFairness

------------------------------------------------------------------------------
(* Properties *)

(* The messages of receiver r that the readers hold in unfinished calls. *)
InHand(r) ==
  UNION {Range(messages[x]) : x \in {x \in Readers :
           call[x].kind # "none" /\ Source(x) = r}}

GivenOf(r) ==
  UNION {{g[2] : g \in {g \in Range(given[x]) : g[1] = r}} : x \in Readers}

DroppedOf(r) == {d[2] : d \in {d \in dropped : d[1] = r}}

PlaceOf(r, m) == CHOOSE i \in DOMAIN delivered[r] : delivered[r][i] = m

(***************************************************************************)
(* What comes into a receiver goes to one reader, once, and a reader gets  *)
(* the receiver's messages in the order they came: a message is in the     *)
(* queue, in the hands of one call, given, or dropped by a call that       *)
(* raised, and in one of these places only.                                *)
(***************************************************************************)
GivenOnceInOrder ==
  \A r \in Receivers :
    /\ Range(delivered[r]) =
         UNION {Range(queue[r]), InHand(r), GivenOf(r), DroppedOf(r)}
    /\ Len(delivered[r]) = Len(queue[r]) + Cardinality(InHand(r))
         + Cardinality(GivenOf(r)) + Cardinality(DroppedOf(r))
    /\ \A x \in Readers : \A i, j \in {k \in DOMAIN given[x] : given[x][k][1] = r} :
         i < j => PlaceOf(r, given[x][i][2]) < PlaceOf(r, given[x][j][2])

(***************************************************************************)
(* receive_from never sleeps over a message, whatever other readers take   *)
(* from the same receivers: it returns, unless its receivers become empty  *)
(* or its task is cancelled, which also ends the call.                     *)
(***************************************************************************)
WaitersReturn ==
  \A x \in Readers :
    []<>(pc[x] \notin {"enter", "look", "waiting"} \/ Available(x) = {})

=============================================================================
