----------------------------- MODULE RequestReply -----------------------------
(***************************************************************************)
(* The request and reply helpers: client/request.py for threads and        *)
(* client/asyncrequest.py for tasks. Callers share one RequestClient, its  *)
(* Requester and the one receiver all its replies come to; workers share   *)
(* one RequestService, or handle procedures on it. The bus between them    *)
(* delivers in order and once (LocalReceivers, TransportSession); on the   *)
(* direct bus the reply receiver also gets the replies to other            *)
(* requesters on its topic, whose correlation IDs are counted from 0 too.  *)
(*                                                                         *)
(* One caller at a time gets every reply, in whatever order it asks. Two   *)
(* callers at once can take each other's: the helpers have no lock and no  *)
(* way to wake the caller whose reply another one holds.                   *)
(***************************************************************************)
EXTENDS Naturals, Sequences, FiniteSets, SequencesExt

CONSTANTS Callers, Workers,
          Programs,      \* who runs, and the RequestClientLimits
          MaxRequests,   \* bound on the requests that are sent
          MaxReceives,   \* bound on the calls of receive
          MaxFaults      \* bound on what raises, is cancelled or comes astray

ASSUME ConstantsAssumption ==
  /\ Callers \cap Workers = {} /\ Callers # {} /\ IsFiniteSet(Callers)
  /\ Programs \subseteq [actors : SUBSET (Callers \cup Workers),
                          maxPending : Nat, maxReady : Nat, maxRetired : Nat]
  /\ MaxRequests \in Nat /\ MaxReceives \in Nat /\ MaxFaults \in Nat

VARIABLES
  style,            \* "threads" or "tasks"
  program,          \* the callers and workers there are, and the limits
  nextCorrelation,  \* Requester._next_correlation_value
  pendingRequests,  \* Requester._pending_requests
  held,             \* _ReplyBuffer._held_replies
  pending,          \* _RequestLifecycleTable._pending
  retired,          \* _RetiredRequestCache._order
  replies,          \* the queue of the reply receiver
  requests,         \* the queue of the service's request receiver
  replied,          \* the service requests whose _replied is set
  open,             \* the service requests the program has received
  batch,            \* for a worker of a ProcedureService, its requests
  answering,        \* for a worker, the request it replies to
  pc,
  handle,           \* for a caller, the request it is about
  correlation,      \* for a caller, the correlation ID it has read
  calling,          \* whether it is in call(), which keeps the handle
  message,          \* for a caller, the message it has taken
  handles,          \* the handles send has returned to the program
  requestOf,        \* for each request sent, its correlation ID
  answers,          \* history: how often each request was answered
  results,          \* history: which reply each receive returned for a handle
  lost,             \* history: replies discarded by the client, and why
  dropped,          \* history: requests a worker took and let go by raising
  overlapped,       \* history: two callers have been in the client at once
  raced,            \* history: requests two workers were replying to at once
  receives, faults  \* counters for the bounds

kind == <<style, program>>
clientVars == <<nextCorrelation, pendingRequests, held, pending, retired>>
callerVars == <<handle, correlation, calling, message, handles>>
serviceVars == <<replied, open, batch, answering, answers, dropped, raced>>
historyVars == <<results, lost, overlapped>>
boundVars == <<receives, faults>>

vars == <<kind, clientVars, replies, requests, serviceVars, pc, callerVars,
          requestOf, historyVars, boundVars>>

Nobody == 0

(* A message that is no request: a publication, or a reply of the service *)
NoRequest == 0

Reply(to, number) ==
  [operation |-> "reply", to |-> to, correlation |-> number]
Publication == [operation |-> "publish", to |-> Nobody, correlation |-> 0]
NoMessage == [operation |-> "none", to |-> Nobody, correlation |-> 0]

Init ==
  /\ style \in {"threads", "tasks"} /\ program \in Programs
  /\ nextCorrelation = 0 /\ pendingRequests = {} /\ held = {}
  /\ pending = {} /\ retired = <<>>
  /\ replies = <<>> /\ requests = <<>>
  /\ replied = {} /\ open = {}
  /\ batch = [w \in Workers |-> <<>>]
  /\ answering = [w \in Workers |-> Nobody]
  /\ pc = [x \in Callers \cup Workers |-> "idle"]
  /\ handle = [c \in Callers |-> Nobody]
  /\ correlation = [c \in Callers |-> 0]
  /\ calling = [c \in Callers |-> FALSE]
  /\ message = [c \in Callers |-> NoMessage]
  /\ handles = {} /\ requestOf = <<>>
  /\ answers = [r \in 1..MaxRequests |-> 0]
  /\ results = <<>> /\ lost = {} /\ dropped = {} /\ overlapped = FALSE
  /\ raced = {}
  /\ receives = 0 /\ faults = 0

Goto(x, label) == pc' = [pc EXCEPT ![x] = label]

Fault == faults < MaxFaults /\ faults' = faults + 1

Sending == {c \in Callers : pc[c] \in {"emit", "emitted", "recorded"}}

(* A caller enters the client: is another one inside? *)
Enter(c) ==
  overlapped' = (overlapped \/ \E d \in Callers \ {c} : pc[d] # "idle")

Attempts == Len(requestOf) + Cardinality({c \in Callers : pc[c] = "emit"})

------------------------------------------------------------------------------
(* RequestClient.send, and the first half of call *)

(* Mutant: the limit is looked at one request too late. *)
CanStart_oneTooMany == Cardinality(pending) <= program.maxPending

CanStart == Cardinality(pending) < program.maxPending

StartSend(c) ==
  /\ c \in program.actors
  /\ style = "threads" /\ pc[c] = "idle"
  /\ Attempts < MaxRequests
  /\ CanStart
  /\ Enter(c)
  /\ correlation' = [correlation EXCEPT ![c] = nextCorrelation]
  /\ \E isCall \in BOOLEAN : calling' = [calling EXCEPT ![c] = isCall]
  /\ Goto(c, "emit")
  /\ UNCHANGED <<kind, clientVars, replies, requests, serviceVars, handle,
                 message, handles, requestOf, results, lost, boundVars>>

Publish(c, id) ==
  /\ requestOf' = Append(requestOf, id)
  /\ requests' = Append(requests, Len(requestOf) + 1)
  /\ handle' = [handle EXCEPT ![c] = Len(requestOf) + 1]
  /\ Goto(c, "emitted")

GiveUp(c) ==
  /\ Goto(c, "idle")
  /\ handle' = [handle EXCEPT ![c] = Nobody]
  /\ calling' = [calling EXCEPT ![c] = FALSE]

(* The counter is read twice, for the ID and to be incremented. The emission *)
(* raises (a payload that cannot be encoded, a closed session) or sends the  *)
(* request; the reply may come before it returns.                            *)
EmitRequest(c) ==
  /\ style = "threads" /\ pc[c] = "emit"
  /\ \E loaded \in {correlation[c], nextCorrelation} :
       nextCorrelation' = loaded + 1
  /\ \/ Publish(c, correlation[c]) /\ UNCHANGED <<calling, faults>>
     \/ Fault /\ GiveUp(c) /\ UNCHANGED <<requestOf, requests>>
  /\ correlation' = [correlation EXCEPT ![c] = 0]
  /\ UNCHANGED <<kind, pendingRequests, held, pending, retired, replies,
                 serviceVars, message, handles,
                 historyVars, receives>>

(* The emission returns, or it raises although the request is out: its *)
(* result never came, or the task was cancelled.                       *)
RecordRequest(c) ==
  /\ style = "threads" /\ pc[c] = "emitted"
  /\ \/ /\ pendingRequests' = pendingRequests \cup {handle[c]}
        /\ Goto(c, "recorded")
        /\ UNCHANGED <<handle, calling, faults>>
     \/ Fault /\ GiveUp(c) /\ UNCHANGED pendingRequests
  /\ UNCHANGED <<kind, nextCorrelation, held, pending, retired, replies,
                 requests, serviceVars, correlation, message, handles,
                 requestOf, historyVars, receives>>

(* send returns the handle; call goes on to receive its reply. *)
HandOver(c) ==
  /\ pending' = pending \cup {handle[c]}
  /\ calling' = [calling EXCEPT ![c] = FALSE]
  /\ IF calling[c]
       THEN Goto(c, "validate") /\ UNCHANGED <<handle, handles>>
       ELSE /\ Goto(c, "idle")
            /\ handles' = handles \cup {handle[c]}
            /\ handle' = [handle EXCEPT ![c] = Nobody]

AddPending(c) ==
  /\ style = "threads" /\ pc[c] = "recorded"
  /\ HandOver(c)
  /\ UNCHANGED <<kind, nextCorrelation, pendingRequests, held, retired, replies,
                 requests, serviceVars, correlation, message, requestOf,
                 historyVars, boundVars>>

(* A task does all before the emission's await in one step ... *)
AsyncSend(c) ==
  /\ c \in program.actors
  /\ style = "tasks" /\ pc[c] = "idle"
  /\ Attempts < MaxRequests
  /\ CanStart
  /\ Enter(c)
  /\ nextCorrelation' = nextCorrelation + 1
  /\ \E isCall \in BOOLEAN : calling' = [calling EXCEPT ![c] = isCall]
  /\ Publish(c, nextCorrelation)
  /\ UNCHANGED <<kind, pendingRequests, held, pending, retired, replies,
                 serviceVars, correlation, message, handles, results, lost,
                 boundVars>>

(* ... and all behind it in another. *)
AsyncRecord(c) ==
  /\ style = "tasks" /\ pc[c] = "emitted"
  /\ \/ /\ pendingRequests' = pendingRequests \cup {handle[c]}
        /\ HandOver(c) /\ UNCHANGED faults
     \/ Fault /\ GiveUp(c) /\ UNCHANGED <<pendingRequests, pending, handles>>
  /\ UNCHANGED <<kind, nextCorrelation, held, retired, replies, requests,
                 serviceVars, correlation, message, requestOf,
                 historyVars, receives>>

------------------------------------------------------------------------------
(* RequestClient.receive and Requester.receive_reply *)

(* The call ends without a reply: what raised is told to the program. *)
Leave(c) ==
  /\ Goto(c, "idle")
  /\ handle' = [handle EXCEPT ![c] = Nobody]
  /\ message' = [message EXCEPT ![c] = NoMessage]

StartReceive(c) ==
  /\ c \in program.actors
  /\ pc[c] = "idle" /\ receives < MaxReceives
  /\ receives' = receives + 1
  /\ Enter(c)
  /\ \E h \in handles : handle' = [handle EXCEPT ![c] = h]
  /\ calling' = [calling EXCEPT ![c] = FALSE]
  /\ Goto(c, "validate")
  /\ UNCHANGED <<kind, clientVars, replies, requests, serviceVars, correlation,
                 message, handles, requestOf, results, lost, faults>>

(* Completed if the cache still has it, unknown if not: it raises. *)
ValidatePending(c) ==
  /\ style = "threads" /\ pc[c] = "validate"
  /\ IF handle[c] \in pending
       THEN Goto(c, "take") /\ UNCHANGED <<handle, message>>
       ELSE Leave(c)
  /\ UNCHANGED <<kind, clientVars, replies, requests, serviceVars, correlation,
                 calling, handles, requestOf, historyVars, boundVars>>

(***************************************************************************)
(* The reply is there: it leaves the requester's table and the lifecycle   *)
(* table, and the handle goes to the cache of retired ones. Another thread *)
(* that received on the same handle may have been first: KeyError.         *)
(***************************************************************************)
Retire(h) ==
  IF program.maxRetired = 0 THEN retired
  ELSE LET order == Append(retired, h) IN
       IF Len(order) > program.maxRetired THEN Tail(order) ELSE order

Finish(c, m) ==
  /\ Leave(c)
  /\ IF handle[c] \in pendingRequests
       THEN /\ pendingRequests' = pendingRequests \ {handle[c]}
            /\ pending' = pending \ {handle[c]}
            /\ retired' = Retire(handle[c])
            /\ results' = Append(results, <<handle[c], m.to>>)
       ELSE UNCHANGED <<pendingRequests, pending, retired, results>>

(* Mutant: the held replies are not looked through. *)
TakeHeld_skipped(c) == FALSE

TakeHeld(c) == handle[c] \in held

TakeReply(c) ==
  /\ handle[c] \in pendingRequests
  /\ TakeHeld(c)
  /\ held' = held \ {handle[c]}

ReceiveReply(c) ==
  /\ style = "threads" /\ pc[c] = "take"
  /\ \/ /\ TakeReply(c)
        /\ message' = [message EXCEPT ![c] =
             Reply(handle[c], requestOf[handle[c]])]
        /\ Goto(c, "matched")
        /\ UNCHANGED handle
     \/ /\ handle[c] \in pendingRequests /\ ~TakeHeld(c)
        /\ Goto(c, "read")
        /\ UNCHANGED <<held, message, handle>>
     \/ /\ handle[c] \notin pendingRequests
        /\ Leave(c)
        /\ UNCHANGED held
  /\ UNCHANGED <<kind, nextCorrelation, pendingRequests, pending, retired,
                 replies, requests, serviceVars, correlation, calling, handles,
                 requestOf, historyVars, boundVars>>

AsyncReceiveReply(c) ==
  /\ style = "tasks" /\ pc[c] = "validate"
  /\ \/ /\ handle[c] \in pending /\ TakeReply(c)
        /\ Finish(c, Reply(handle[c], requestOf[handle[c]]))
     \/ /\ handle[c] \in pending \cap pendingRequests /\ ~TakeHeld(c)
        /\ Goto(c, "read")
        /\ UNCHANGED <<held, message, handle, pendingRequests, pending, retired,
                       results>>
     \/ /\ handle[c] \notin pending \cap pendingRequests
        /\ Leave(c)
        /\ UNCHANGED <<held, pendingRequests, pending, retired, results>>
  /\ UNCHANGED <<kind, nextCorrelation, replies, requests, serviceVars,
                 correlation, calling, handles, requestOf, lost, overlapped,
                 boundVars>>

(* receive() waits for a message and takes the first. *)
ReadMessage(c) ==
  /\ style = "threads" /\ pc[c] = "read"
  /\ replies # <<>>
  /\ message' = [message EXCEPT ![c] = Head(replies)]
  /\ replies' = Tail(replies)
  /\ Goto(c, "got")
  /\ UNCHANGED <<kind, clientVars, requests, serviceVars, handle, correlation,
                 calling, handles, requestOf, historyVars, boundVars>>

IsReply(m) == m.operation = "reply"

(* Mutant: a reply is known by its correlation ID alone. *)
Matches_correlationOnly(c, m) ==
  /\ IsReply(m)
  /\ m.correlation = requestOf[handle[c]]

Matches(c, m) ==
  /\ IsReply(m)
  /\ m.to = handle[c]
  /\ m.correlation = requestOf[handle[c]]

ReadOn(c) ==
  /\ Goto(c, "read")
  /\ message' = [message EXCEPT ![c] = NoMessage]
  /\ UNCHANGED handle

Discard(m, reason) ==
  lost' = lost \cup {<<to, reason>> : to \in {m.to} \ {Nobody}}

(* Mutant: a reply to another request is passed over. *)
Hold_passedOver(c, m) ==
  ReadOn(c) /\ Discard(m, "passed over") /\ UNCHANGED held

(* hold() raises for a second reply, and when the buffer is full. *)
Hold(c, m) ==
  \/ /\ m.to \in held
     /\ Leave(c) /\ Discard(m, "duplicate") /\ UNCHANGED held
  \/ /\ m.to \notin held /\ Cardinality(held) >= program.maxReady
     /\ Leave(c) /\ Discard(m, "full") /\ UNCHANGED held
  \/ /\ m.to \notin held /\ Cardinality(held) < program.maxReady
     /\ held' = held \cup {m.to}
     /\ ReadOn(c) /\ UNCHANGED lost

(***************************************************************************)
(* A message that is not the reply waited for: no reply at all, a reply to *)
(* a request that is not in the table (of another requester, completed, or *)
(* one that another caller has sent and not recorded yet), a wrong         *)
(* correlation ID, or a reply to be held for another call.                 *)
(***************************************************************************)
SortOut(c, m) ==
  \/ /\ ~IsReply(m)
     /\ Leave(c) /\ UNCHANGED <<held, lost>>
  \/ /\ IsReply(m) /\ m.to \notin pendingRequests
     /\ ReadOn(c) /\ Discard(m, "unrecorded") /\ UNCHANGED held
  \/ /\ IsReply(m) /\ m.to \in pendingRequests
     /\ IF m.correlation = requestOf[m.to]
          THEN ~Matches(c, m) /\ Hold(c, m)
          ELSE Leave(c) /\ Discard(m, "mismatch") /\ UNCHANGED held

Matching(c, m) == m.to \in pendingRequests /\ Matches(c, m)

ProcessMessage(c) ==
  /\ style = "threads" /\ pc[c] = "got"
  /\ \/ /\ Matching(c, message[c])
        /\ Goto(c, "matched")
        /\ UNCHANGED <<held, lost, message, handle>>
     \/ SortOut(c, message[c])
  /\ UNCHANGED <<kind, nextCorrelation, pendingRequests, pending, retired,
                 replies, requests, serviceVars, correlation, calling, handles,
                 requestOf, results, overlapped, boundVars>>

CompleteRequest(c) ==
  /\ style = "threads" /\ pc[c] = "matched"
  /\ Finish(c, message[c])
  /\ UNCHANGED <<kind, nextCorrelation, held, replies, requests, serviceVars,
                 correlation, calling, handles, requestOf, lost, overlapped,
                 boundVars>>

AsyncReadMessage(c) ==
  /\ style = "tasks" /\ pc[c] = "read"
  /\ replies # <<>>
  /\ replies' = Tail(replies)
  /\ \/ /\ Matching(c, Head(replies))
        /\ Finish(c, Head(replies))
        /\ UNCHANGED <<held, lost>>
     \/ /\ SortOut(c, Head(replies))
        /\ UNCHANGED <<pendingRequests, pending, retired, results>>
  /\ UNCHANGED <<kind, nextCorrelation, requests, serviceVars, correlation,
                 calling, handles, requestOf, overlapped, boundVars>>

(* A task that waits for its reply is cancelled; the request stays pending. *)
CancelReceive(c) ==
  /\ style = "tasks" /\ pc[c] = "read"
  /\ Fault /\ Leave(c)
  /\ UNCHANGED <<kind, clientVars, replies, requests, serviceVars, correlation,
                 calling, handles, requestOf, historyVars, receives>>

------------------------------------------------------------------------------
(* The service: requests are received singly or in batches, each becomes a *)
(* ServiceRequest, and each is answered at most once.                      *)

AllRequests(taken) == NoRequest \notin Range(taken)

(* A receive call takes the oldest messages, one or all or as many as asked. *)
Take(w, taken) ==
  /\ w \in program.actors /\ pc[w] = "idle"
  /\ \E count \in 1..Len(requests) :
       /\ taken = SubSeq(requests, 1, count)
       /\ requests' = SubSeq(requests, count + 1, Len(requests))

Takeable == {SubSeq(requests, 1, count) : count \in 1..Len(requests)}

(* One message that is no request makes the receive call raise, and the *)
(* other messages it took are given to nobody.                          *)
Refuse(taken) ==
  /\ ~AllRequests(taken)
  /\ dropped' = dropped \cup (Range(taken) \ {NoRequest})

GiveToProgram(taken) ==
  \/ Refuse(taken) /\ UNCHANGED open
  \/ /\ AllRequests(taken)
     /\ open' = open \cup Range(taken)
     /\ UNCHANGED dropped

ReceiveRequests(w) ==
  /\ style = "threads"
  /\ \E taken \in Takeable : Take(w, taken) /\ GiveToProgram(taken)
  /\ UNCHANGED <<kind, clientVars, replies, replied, batch, answering, answers,
                 raced, pc, callerVars, requestOf, historyVars, boundVars>>

GiveToHandler(w, taken) ==
  \/ Refuse(taken) /\ UNCHANGED <<batch, pc>>
  \/ /\ AllRequests(taken)
     /\ batch' = [batch EXCEPT ![w] = taken]
     /\ Goto(w, "handle")
     /\ UNCHANGED dropped

ServeRequests(w) ==
  /\ style = "threads"
  /\ \E taken \in Takeable : Take(w, taken) /\ GiveToHandler(w, taken)
  /\ UNCHANGED <<kind, clientVars, replies, replied, open, answering, answers,
                 raced, callerVars, requestOf, historyVars, boundVars>>

AsyncTake(w, taken) == style = "tasks" /\ Take(w, taken)

AsyncReceiveRequests(w) ==
  /\ \E taken \in Takeable : AsyncTake(w, taken) /\ GiveToProgram(taken)
  /\ UNCHANGED <<kind, clientVars, replies, replied, batch, answering, answers,
                 raced, pc, callerVars, requestOf, historyVars, boundVars>>

AsyncServeRequests(w) ==
  /\ \E taken \in Takeable : AsyncTake(w, taken) /\ GiveToHandler(w, taken)
  /\ UNCHANGED <<kind, clientVars, replies, replied, open, answering, answers,
                 raced, callerVars, requestOf, historyVars, boundVars>>

(* What a worker raises ends its batch. *)
Abandon(w) ==
  /\ dropped' = dropped \cup Range(batch[w]) \cup ({answering[w]} \ {Nobody})
  /\ batch' = [batch EXCEPT ![w] = <<>>]
  /\ answering' = [answering EXCEPT ![w] = Nobody]
  /\ Goto(w, "idle")

(* The handler returns what to reply, or it raises. *)
CallHandler(w) ==
  /\ pc[w] = "handle" /\ batch[w] # <<>>
  /\ \/ Fault /\ Abandon(w)
     \/ /\ answering' = [answering EXCEPT ![w] = Head(batch[w])]
        /\ batch' = [batch EXCEPT ![w] = Tail(@)]
        /\ Goto(w, "check")
        /\ UNCHANGED <<dropped, faults>>
  /\ UNCHANGED <<kind, clientVars, replies, requests, replied, open, answers,
                 raced, callerVars, requestOf, historyVars, receives>>

HandleRequest(w) == style = "threads" /\ CallHandler(w)

AsyncHandleRequest(w) == style = "tasks" /\ CallHandler(w)

(* The program replies to a request it has received, perhaps once more. *)
StartAnswer(w) ==
  /\ w \in program.actors
  /\ pc[w] = "idle"
  /\ \E r \in open : answering' = [answering EXCEPT ![w] = r]
  /\ Goto(w, "check")
  /\ UNCHANGED <<kind, clientVars, replies, requests, replied, open, batch,
                 answers, dropped, raced, callerVars, requestOf, historyVars,
                 boundVars>>

(* Mutant: reply() does not look whether it has replied. *)
Answerable_always(w) == TRUE

Answerable(w) == answering[w] \notin replied

RacedWith(w) ==
  {answering[v] : v \in {v \in Workers \ {w} : pc[v] \in {"replying", "mark"}}}
    \cap {answering[w]}

CheckReplied(w) ==
  /\ style = "threads" /\ pc[w] = "check"
  /\ \/ /\ Answerable(w)
        /\ Goto(w, "replying")
        /\ raced' = raced \cup RacedWith(w)
        /\ UNCHANGED <<batch, answering, dropped>>
     \/ ~Answerable(w) /\ Abandon(w) /\ UNCHANGED raced
  /\ UNCHANGED <<kind, clientVars, replies, requests, replied, open, answers,
                 callerVars, requestOf, historyVars, boundVars>>

EmitAnswer(w) ==
  /\ replies' = Append(replies, Reply(answering[w], requestOf[answering[w]]))
  /\ answers' = [answers EXCEPT ![answering[w]] = @ + 1]
  /\ Goto(w, "mark")

(* Responder.reply: it raises, and the request may be answered again, or *)
(* the reply is on its way.                                              *)
EmitReply(w) ==
  /\ style = "threads" /\ pc[w] = "replying"
  /\ \/ EmitAnswer(w) /\ UNCHANGED <<batch, answering, dropped, faults>>
     \/ Fault /\ Abandon(w) /\ UNCHANGED <<replies, answers>>
  /\ UNCHANGED <<kind, clientVars, requests, replied, open, raced, callerVars,
                 requestOf, historyVars, receives>>

(* Mutant: the first reply ends the batch. *)
MarkReplied_onlyFirst(w) ==
  /\ pc[w] = "mark"
  /\ replied' = replied \cup {answering[w]}
  /\ answering' = [answering EXCEPT ![w] = Nobody]
  /\ batch' = [batch EXCEPT ![w] = <<>>]
  /\ Goto(w, "idle")
  /\ UNCHANGED <<kind, clientVars, replies, requests, open, answers, dropped,
                 raced, callerVars, requestOf, historyVars, boundVars>>

MarkReplied(w) ==
  /\ pc[w] = "mark"
  /\ replied' = replied \cup {answering[w]}
  /\ answering' = [answering EXCEPT ![w] = Nobody]
  /\ Goto(w, IF batch[w] = <<>> THEN "idle" ELSE "handle")
  /\ UNCHANGED <<kind, clientVars, replies, requests, open, batch, answers,
                 dropped, raced, callerVars, requestOf, historyVars, boundVars>>

(* A task looks and sends without an await in between ... *)
AsyncReply(w) ==
  /\ style = "tasks" /\ pc[w] = "check"
  /\ \/ /\ Answerable(w)
        /\ EmitAnswer(w)
        /\ raced' = raced \cup RacedWith(w)
        /\ UNCHANGED <<batch, answering, dropped, faults>>
     \/ /\ Answerable(w) => Fault
        /\ ~Answerable(w) => UNCHANGED faults
        /\ Abandon(w)
        /\ UNCHANGED <<replies, answers, raced>>
  /\ UNCHANGED <<kind, clientVars, requests, replied, open, callerVars,
                 requestOf, historyVars, receives>>

(* ... and whoever sent it does not come to mark it: the task is cancelled, *)
(* or the result of the emission never arrives.                             *)
LoseResult(w) ==
  /\ pc[w] = "mark"
  /\ raced' = raced \cup {answering[w]}
  /\ Fault /\ Abandon(w)
  /\ UNCHANGED <<kind, clientVars, replies, requests, replied, open, answers,
                 callerVars, requestOf, historyVars, receives>>

------------------------------------------------------------------------------
(* What else comes to the two receivers: other topics' traffic a filter lets *)
(* in, and the replies of other requesters.                                  *)

Stray ==
  /\ Fault
  /\ \/ /\ requests' = Append(requests, NoRequest) /\ UNCHANGED replies
     \/ /\ \E m \in {Publication, Reply(Nobody, 0)} :
             replies' = Append(replies, m)
        /\ UNCHANGED requests
  /\ UNCHANGED <<kind, clientVars, serviceVars, pc, callerVars, requestOf,
                 historyVars, receives>>

------------------------------------------------------------------------------
CallerStep(c) ==
  \/ EmitRequest(c) \/ RecordRequest(c) \/ AddPending(c) \/ AsyncRecord(c)
  \/ ValidatePending(c) \/ ReceiveReply(c) \/ AsyncReceiveReply(c)
  \/ ReadMessage(c) \/ ProcessMessage(c) \/ CompleteRequest(c)
  \/ AsyncReadMessage(c)

WorkerStep(w) ==
  \/ HandleRequest(w) \/ AsyncHandleRequest(w)
  \/ CheckReplied(w) \/ EmitReply(w) \/ AsyncReply(w) \/ MarkReplied(w)

Next ==
  \/ \E c \in Callers : \/ StartSend(c) \/ AsyncSend(c) \/ StartReceive(c)
                        \/ CallerStep(c) \/ CancelReceive(c)
  \/ \E w \in Workers : \/ ReceiveRequests(w) \/ ServeRequests(w)
                        \/ AsyncReceiveRequests(w) \/ AsyncServeRequests(w)
                        \/ StartAnswer(w)
                        \/ WorkerStep(w) \/ LoseResult(w)
  \/ Stray

Spec == Init /\ [][Next]_vars

------------------------------------------------------------------------------
(* receive returns the reply to the very request its handle stands for, *)
(* and no handle brings two replies.                                    *)
OwnReplyOnce ==
  /\ \A i \in DOMAIN results : results[i][1] = results[i][2]
  /\ \A i, j \in DOMAIN results : results[i][1] = results[j][1] => i = j

(* The reply to h can still reach a caller. *)
Reachable(h) ==
  \/ h \in held
  \/ \E i \in DOMAIN replies : replies[i].to = h
  \/ \E c \in Callers : message[c].to = h

(***************************************************************************)
(* Callers that take turns lose no reply, in whatever order they ask for   *)
(* them: the reply to a pending request waits for it, unless the buffer of *)
(* held replies was full when another call met it.                         *)
(***************************************************************************)
NoReplyLost ==
  ~overlapped => \A h \in pendingRequests :
    answers[h] > 0 => Reachable(h) \/ <<h, "full">> \in lost

(***************************************************************************)
(* No caller waits for a message while its reply lies in the buffer, which *)
(* is what would leave it waiting for ever: callers that take turns find   *)
(* every reply that another call has put aside.                            *)
(***************************************************************************)
NobodyStranded ==
  ~overlapped => \A c \in Callers : pc[c] = "read" => handle[c] \notin held

(***************************************************************************)
(* The limits hold: max_ready_replies and max_retired always, max_pending  *)
(* for callers that take turns; callers that start at once pass it by no   *)
(* more than one request each.                                             *)
(***************************************************************************)
LimitsKept ==
  /\ Cardinality(held) <= program.maxReady /\ Len(retired) <= program.maxRetired
  /\ ~overlapped => Cardinality(pending) <= program.maxPending
  /\ Cardinality(pending) + Cardinality(Sending)
       < program.maxPending + Cardinality(Callers)

(***************************************************************************)
(* A service request is answered at most once, except when two workers     *)
(* reply to it at the same time or a reply is cancelled on its way.  It is *)
(* waiting, in a worker's hands, answered or known to the program, or its  *)
(* worker has raised: none is forgotten.                                   *)
(***************************************************************************)
AnsweredOnce ==
  \A r \in 1..MaxRequests : answers[r] <= 1 \/ r \in raced

NoRequestForgotten ==
  \A r \in DOMAIN requestOf :
    \/ r \in Range(requests) \cup open \cup replied \cup dropped \cup raced
    \/ \E w \in Workers : r \in Range(batch[w]) \cup {answering[w]}

RequestsAccountedFor == AnsweredOnce /\ NoRequestForgotten

=============================================================================
