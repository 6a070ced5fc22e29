------------------------- MODULE RequestReply_proofs -------------------------
(***************************************************************************)
(* The request and reply helpers, for any number of callers and workers,   *)
(* any limits, and any number of requests, receives and faults.            *)
(***************************************************************************)
EXTENDS RequestReply, SequenceLemmas, FiniteSetTheorems

CallerLabels == {"idle", "emit", "emitted", "recorded", "validate", "take",
                 "read", "got", "matched"}

WorkerLabels == {"idle", "handle", "check", "replying", "mark"}

Messages == [operation : {"reply", "publish", "none"}, to : Nat, correlation : Nat]

Sent(sequence) == DOMAIN sequence

(* A message is to a request that has been sent, and repeats its           *)
(* correlation ID, or it is to no request of this client.                  *)
MessageFits(m, sent) ==
  /\ m \in Messages
  /\ m.to # Nobody => /\ IsReply(m) /\ m.to \in Sent(sent)
                      /\ m.correlation = sent[m.to]

(* What a caller has in its hands, by where it is. *)
CallerFits(label, h, m, sent) ==
  /\ label \in CallerLabels /\ h \in {Nobody} \cup Sent(sent)
  /\ label \notin {"idle", "emit"} => h # Nobody
  /\ MessageFits(m, sent)
  /\ label \notin {"got", "matched"} => m = NoMessage
  /\ label = "matched" => m.to = h

(* And what a worker has. *)
WorkerFits(label, list, r, sent) ==
  /\ label \in WorkerLabels
  /\ list \in Seq(Sent(sent)) /\ r \in {Nobody} \cup Sent(sent)
  /\ label = "idle" => list = <<>>
  /\ label \in {"idle", "handle"} <=> r = Nobody

TypeOK ==
  /\ program \in Programs
  /\ nextCorrelation \in Nat
  /\ requestOf \in Seq(Nat)
  /\ pendingRequests \cup held \cup pending \cup handles \subseteq Sent(requestOf)
  /\ IsFiniteSet(held) /\ IsFiniteSet(pending)
  /\ retired \in Seq(Nat) /\ results \in Seq(Nat \X Nat)
  /\ replies \in Seq(Messages) /\ requests \in Seq(Nat)
  /\ \A i \in DOMAIN replies : MessageFits(replies[i], requestOf)
  /\ Range(requests) \subseteq {NoRequest} \cup Sent(requestOf)
  /\ open \subseteq Sent(requestOf)
  /\ pc = [x \in Callers \cup Workers |-> pc[x]]
  /\ handle = [c \in Callers |-> handle[c]]
  /\ correlation \in [Callers -> Nat]
  /\ message = [c \in Callers |-> message[c]]
  /\ \A c \in Callers : CallerFits(pc[c], handle[c], message[c], requestOf)
  /\ batch = [w \in Workers |-> batch[w]]
  /\ answering = [w \in Workers |-> answering[w]]
  /\ \A w \in Workers : WorkerFits(pc[w], batch[w], answering[w], requestOf)
  /\ answers \in [1..MaxRequests -> Nat]
  /\ overlapped \in BOOLEAN

(***************************************************************************)
(* A request's number is new until its caller has recorded it, and is not  *)
(* in the table any more when its reply has been given out.                *)
(***************************************************************************)
ResultInv ==
  /\ \A i \in DOMAIN results :
       /\ results[i][1] = results[i][2]
       /\ results[i][1] \in Sent(requestOf) \ pendingRequests
       /\ \A c \in Callers : pc[c] = "emitted" => handle[c] # results[i][1]
  /\ \A i, j \in DOMAIN results : results[i][1] = results[j][1] => i = j
  /\ \A c \in Callers : pc[c] = "emitted" => handle[c] \notin pendingRequests
  /\ \A c, d \in Callers :
       pc[c] = "emitted" /\ pc[d] = "emitted" /\ handle[c] = handle[d] => c = d

(* Callers that take turns: at most one is in the client. *)
TurnInv ==
  ~overlapped =>
    \A c, d \in Callers : pc[c] # "idle" /\ pc[d] # "idle" => c = d

(* Whoever waits has looked through the held replies, and holds no own one. *)
StrandedInv ==
  ~overlapped =>
    \A c \in Callers : pc[c] \in {"read", "got"} => handle[c] \notin held

(***************************************************************************)
(* Numbers are given out within the bound.  What has been answered has     *)
(* been sent, and its reply is on its way to the client, or in it, from    *)
(* the emission on: not only once the request is in the table.             *)
(***************************************************************************)
BoundInv == Attempts <= MaxRequests

Expected(h) ==
  h \in pendingRequests \/ \E c \in Callers : pc[c] = "emitted" /\ handle[c] = h

ReplyInv ==
  /\ \A r \in 1..MaxRequests : answers[r] > 0 => r \in Sent(requestOf)
  /\ ~overlapped => \A h \in Nat : Expected(h) =>
       (answers[h] > 0 => Reachable(h) \/ <<h, "full">> \in lost)

(* The limits count the requests that are being sent, too. *)
LimitInv ==
  /\ LimitsKept
  /\ ~overlapped => Cardinality(pending) + Cardinality(Sending) <= program.maxPending

(***************************************************************************)
(* A request that two workers never replied to at once is with one worker, *)
(* and a worker that is about to reply to it is the first.                 *)
(***************************************************************************)
With(w, r) == pc[w] \in {"replying", "mark"} /\ answering[w] = r

AnswerInv ==
  \A r \in (1..MaxRequests) \ raced :
    /\ \A v, w \in Workers : With(v, r) /\ With(w, r) => v = w
    /\ answers[r] <= 1
    /\ answers[r] > 0 =>
         r \in replied \/ \E w \in Workers : pc[w] = "mark" /\ answering[w] = r
    /\ \A w \in Workers : pc[w] = "replying" /\ answering[w] = r =>
         answers[r] = 0 /\ r \notin replied

------------------------------------------------------------------------------
(* What has been sent stays sent. *)

LEMMA Longer ==
  ASSUME NEW sent \in Seq(Nat), NEW id \in Nat
  PROVE  /\ Append(sent, id) \in Seq(Nat)
         /\ Sent(sent) = 1..Len(sent) /\ Len(sent) \in Nat
         /\ Sent(Append(sent, id)) = 1..(Len(sent) + 1)
         /\ Len(sent) + 1 \notin Sent(sent)
         /\ \A i \in Sent(sent) : Append(sent, id)[i] = sent[i]
  BY Appended DEF Sent

LEMMA FitsLonger ==
  ASSUME NEW sent \in Seq(Nat), NEW id \in Nat
  PROVE  /\ \A m : MessageFits(m, sent) => MessageFits(m, Append(sent, id))
         /\ \A label, h, m : CallerFits(label, h, m, sent)
                               => CallerFits(label, h, m, Append(sent, id))
         /\ \A label, list, r : WorkerFits(label, list, r, sent)
                                  => WorkerFits(label, list, r, Append(sent, id))
<1> DEFINE more == Append(sent, id)
<1>1. Sent(sent) \subseteq Sent(more) /\ \A i \in Sent(sent) : more[i] = sent[i]
  BY Longer
<1> HIDE DEF more
<1>2. \A m : MessageFits(m, sent) => MessageFits(m, more)
  BY <1>1 DEF MessageFits
<1>3. \A label, h, m : CallerFits(label, h, m, sent) => CallerFits(label, h, m, more)
  BY <1>1, <1>2 DEF CallerFits
<1>4. ASSUME NEW list \in Seq(Sent(sent)) PROVE list \in Seq(Sent(more))
  BY <1>1
<1>5. \A label, list, r : WorkerFits(label, list, r, sent)
                            => WorkerFits(label, list, r, more)
  BY <1>1, <1>4 DEF WorkerFits
<1> QED BY <1>2, <1>3, <1>5 DEF more

LEMMA NoMessageFits == \A sent : MessageFits(NoMessage, sent)
  BY DEF NoMessage, MessageFits, Messages, Nobody

LEMMA Limits ==
  ASSUME program \in Programs
  PROVE  /\ program.maxPending \in Nat /\ program.maxReady \in Nat
         /\ program.maxRetired \in Nat
  BY ConstantsAssumption

LEMMA InitType == Init => TypeOK
<1> SUFFICES ASSUME Init PROVE TypeOK
  OBVIOUS
<1>1. \A x \in Callers \cup Workers : pc[x] = "idle"
  BY DEF Init
<1>2. requestOf \in Seq(Nat) /\ Sent(requestOf) = {}
  BY DEF Init, Sent
<1>3. ASSUME NEW c \in Callers
      PROVE  CallerFits(pc[c], handle[c], message[c], requestOf)
  BY <1>1, NoMessageFits DEF Init, CallerFits, CallerLabels
<1>4. ASSUME NEW w \in Workers
      PROVE  WorkerFits(pc[w], batch[w], answering[w], requestOf)
  BY <1>1 DEF Init, WorkerFits, WorkerLabels
<1>5. Range(requests) = {} /\ \A i \in DOMAIN replies : FALSE
  BY RangeOfEmpty DEF Init
<1>6. IsFiniteSet(held) /\ IsFiniteSet(pending)
  BY FS_EmptySet DEF Init
<1>7. /\ <<>> \in Seq(Nat) /\ <<>> \in Seq(Nat \X Nat) /\ <<>> \in Seq(Messages)
      /\ 0 \in Nat /\ FALSE \in BOOLEAN
  OBVIOUS
<1>8. /\ correlation \in [Callers -> Nat] /\ answers \in [1..MaxRequests -> Nat]
      /\ pc = [x \in Callers \cup Workers |-> pc[x]]
      /\ handle = [c \in Callers |-> handle[c]]
      /\ message = [c \in Callers |-> message[c]]
      /\ batch = [w \in Workers |-> batch[w]]
      /\ answering = [w \in Workers |-> answering[w]]
  BY DEF Init
<1> QED BY <1>2, <1>3, <1>4, <1>5, <1>6, <1>7, <1>8 DEF Init, TypeOK

------------------------------------------------------------------------------
(* What the step of a caller, and that of a worker, leave alone. *)

CallerAct(c) == \/ StartSend(c) \/ AsyncSend(c) \/ StartReceive(c)
                \/ CallerStep(c) \/ CancelReceive(c)

WorkerAct(w) == \/ ReceiveRequests(w) \/ ServeRequests(w)
                \/ AsyncReceiveRequests(w) \/ AsyncServeRequests(w)
                \/ StartAnswer(w) \/ WorkerStep(w) \/ LoseResult(w)

LEMMA NextIsAct ==
  [Next]_vars => \/ \E c \in Callers : CallerAct(c)
                 \/ \E w \in Workers : WorkerAct(w)
                 \/ Stray \/ UNCHANGED vars
  BY DEF Next, CallerAct, WorkerAct

LEMMA CallerFrame ==
  ASSUME TypeOK, NEW c \in Callers, CallerAct(c)
  PROVE  /\ UNCHANGED <<kind, serviceVars>>
         /\ \A d \in Callers \ {c} : /\ pc'[d] = pc[d] /\ handle'[d] = handle[d]
                                     /\ message'[d] = message[d]
         /\ \A w \in Workers : pc'[w] = pc[w]
         /\ pc' = [x \in Callers \cup Workers |-> pc'[x]]
         /\ handle' = [d \in Callers |-> handle'[d]]
         /\ message' = [d \in Callers |-> message'[d]]
<1> USE DEF TypeOK, kind, serviceVars, callerVars, Goto, GiveUp, Leave
<1>0. \A w \in Workers : w # c
  BY ConstantsAssumption
<1>1. CASE StartSend(c) \/ AsyncSend(c) \/ StartReceive(c)
  BY <1>0, <1>1 DEF StartSend, AsyncSend, StartReceive, Publish
<1>2. CASE EmitRequest(c) \/ RecordRequest(c)
  BY <1>0, <1>2 DEF EmitRequest, RecordRequest, Publish
<1>3. CASE AddPending(c) \/ AsyncRecord(c)
  BY <1>0, <1>3 DEF AddPending, AsyncRecord, HandOver
<1>4. CASE ValidatePending(c) \/ ReceiveReply(c) \/ AsyncReceiveReply(c)
  BY <1>0, <1>4 DEF ValidatePending, ReceiveReply, AsyncReceiveReply, Finish
<1>5. CASE ReadMessage(c) \/ ProcessMessage(c) \/ CompleteRequest(c)
  BY <1>0, <1>5 DEF ReadMessage, ProcessMessage, CompleteRequest, SortOut, Hold,
       ReadOn, Finish
<1>6. CASE AsyncReadMessage(c) \/ CancelReceive(c)
  BY <1>0, <1>6 DEF AsyncReadMessage, CancelReceive, SortOut, Hold, ReadOn, Finish
<1> QED BY <1>1, <1>2, <1>3, <1>4, <1>5, <1>6 DEF CallerAct, CallerStep

LEMMA WorkerFrame ==
  ASSUME TypeOK, NEW w \in Workers, WorkerAct(w)
  PROVE  /\ UNCHANGED <<kind, clientVars, callerVars, requestOf, historyVars>>
         /\ \A v \in Workers \ {w} :
              /\ pc'[v] = pc[v] /\ batch'[v] = batch[v]
              /\ answering'[v] = answering[v]
         /\ \A c \in Callers : pc'[c] = pc[c]
         /\ pc' = [x \in Callers \cup Workers |-> pc'[x]]
         /\ batch' = [v \in Workers |-> batch'[v]]
         /\ answering' = [v \in Workers |-> answering'[v]]
<1> USE DEF TypeOK, kind, callerVars, Goto, Abandon
<1>0. \A c \in Callers : w # c
  BY ConstantsAssumption
<1>1. CASE ReceiveRequests(w) \/ AsyncReceiveRequests(w)
  BY <1>0, <1>1 DEF ReceiveRequests, AsyncReceiveRequests
<1>2. CASE ServeRequests(w) \/ AsyncServeRequests(w)
  BY <1>0, <1>2 DEF ServeRequests, AsyncServeRequests, GiveToHandler
<1>3. CASE StartAnswer(w) \/ HandleRequest(w) \/ AsyncHandleRequest(w)
  BY <1>0, <1>3 DEF StartAnswer, HandleRequest, AsyncHandleRequest, CallHandler
<1>4. CASE CheckReplied(w) \/ EmitReply(w) \/ AsyncReply(w)
  BY <1>0, <1>4 DEF CheckReplied, EmitReply, AsyncReply, EmitAnswer
<1>5. CASE MarkReplied(w) \/ LoseResult(w)
  BY <1>0, <1>5 DEF MarkReplied, LoseResult
<1> QED BY <1>1, <1>2, <1>3, <1>4, <1>5 DEF WorkerAct, WorkerStep

------------------------------------------------------------------------------
(* Types: the steps of callers. *)

LEMMA Left ==
  ASSUME TypeOK, NEW c \in Callers, Leave(c)
  PROVE  /\ pc'[c] = "idle" /\ handle'[c] = Nobody /\ message'[c] = NoMessage
         /\ CallerFits(pc'[c], handle'[c], message'[c], requestOf)
<1>1. pc'[c] = "idle" /\ handle'[c] = Nobody /\ message'[c] = NoMessage
  BY DEF Leave, Goto, TypeOK
<1> QED BY <1>1, NoMessageFits DEF CallerFits, CallerLabels

LEMMA SortedOut ==
  ASSUME TypeOK, NEW c \in Callers, NEW m, MessageFits(m, requestOf),
         pc[c] \in {"read", "got"}, SortOut(c, m)
  PROVE  /\ pc'[c] \in {"idle", "read"} /\ message'[c] = NoMessage
         /\ CallerFits(pc'[c], handle'[c], message'[c], requestOf)
         /\ held' \subseteq held \cup pendingRequests /\ IsFiniteSet(held')
<1>1. CallerFits(pc[c], handle[c], message[c], requestOf)
  BY DEF TypeOK
<1>2. ASSUME ReadOn(c)
      PROVE  /\ pc'[c] = "read" /\ message'[c] = NoMessage
             /\ CallerFits(pc'[c], handle'[c], message'[c], requestOf)
  <2>1. pc'[c] = "read" /\ message'[c] = NoMessage /\ handle'[c] = handle[c]
    BY <1>2 DEF ReadOn, Goto, TypeOK
  <2> QED BY <1>1, <2>1, NoMessageFits DEF CallerFits, CallerLabels
<1>3. (ReadOn(c) \/ Leave(c))
        /\ (held' = held \/ (held' = held \cup {m.to} /\ m.to \in pendingRequests))
  BY DEF SortOut, Hold
<1>4. IsFiniteSet(held \cup {m.to})
  BY FS_AddElement DEF TypeOK
<1> QED BY <1>2, <1>3, <1>4, Left DEF TypeOK

LEMMA Finished ==
  ASSUME TypeOK, NEW c \in Callers, NEW m, MessageFits(m, requestOf), Finish(c, m)
  PROVE  /\ CallerFits(pc'[c], handle'[c], message'[c], requestOf)
         /\ pendingRequests' \subseteq pendingRequests
         /\ pending' \subseteq pending /\ IsFiniteSet(pending')
         /\ retired' \in Seq(Nat) /\ results' \in Seq(Nat \X Nat)
<1>1. handle[c] \in Nat /\ m.to \in Nat /\ retired \in Seq(Nat)
      /\ results \in Seq(Nat \X Nat) /\ IsFiniteSet(pending)
  <2>1. requestOf \in Seq(Nat) /\ CallerFits(pc[c], handle[c], message[c], requestOf)
    BY DEF TypeOK
  <2>2. Sent(requestOf) \subseteq Nat
    BY <2>1 DEF Sent
  <2> QED BY <2>1, <2>2 DEF TypeOK, CallerFits, MessageFits, Messages, Nobody
<1>2. IsFiniteSet(pending \ {handle[c]})
  BY <1>1, FS_RemoveElement
<1>3. Append(retired, handle[c]) \in Seq(Nat)
      /\ Append(retired, handle[c]) # <<>>
      /\ Tail(Append(retired, handle[c])) \in Seq(Nat)
  <2>1. /\ Append(retired, handle[c]) \in Seq(Nat)
        /\ Len(Append(retired, handle[c])) = Len(retired) + 1 /\ Len(retired) \in Nat
    BY <1>1, Appended
  <2>2. Append(retired, handle[c]) # <<>>
    BY <2>1
  <2> QED BY <2>1, <2>2, HeadAndTail
<1>4. Append(results, <<handle[c], m.to>>) \in Seq(Nat \X Nat)
  BY <1>1
<1>5. Leave(c)
  BY DEF Finish
<1> QED BY <1>1, <1>2, <1>3, <1>4, <1>5, Left DEF Finish, Retire

(* What the caller itself has afterwards, and what has been sent by then. *)
LEMMA CallerOwn ==
  ASSUME TypeOK, NEW c \in Callers, CallerAct(c)
  PROVE  /\ CallerFits(pc'[c], handle'[c], message'[c], requestOf')
         /\ \/ UNCHANGED <<requestOf, requests>>
            \/ \E id \in Nat : /\ requestOf' = Append(requestOf, id)
                               /\ requests' = Append(requests, Len(requestOf) + 1)
                               /\ pc[c] \in {"idle", "emit"}
                               /\ pc'[c] = "emitted"
                               /\ handle'[c] = Len(requestOf) + 1
                               /\ UNCHANGED <<pendingRequests, held, pending,
                                    message, replies, handles, results, lost>>
<1>0. /\ CallerFits(pc[c], handle[c], message[c], requestOf)
      /\ requestOf \in Seq(Nat) /\ nextCorrelation \in Nat /\ correlation[c] \in Nat
  BY DEF TypeOK
<1>1. ASSUME NEW id \in Nat, Publish(c, id), message' = message,
             pc[c] \in {"idle", "emit"},
             UNCHANGED <<pendingRequests, held, pending, replies, handles, results, lost>>
      PROVE  /\ CallerFits(pc'[c], handle'[c], message'[c], requestOf')
             /\ requestOf' = Append(requestOf, id)
             /\ requests' = Append(requests, Len(requestOf) + 1)
             /\ pc'[c] = "emitted" /\ handle'[c] = Len(requestOf) + 1
  <2>1. /\ requestOf' = Append(requestOf, id) /\ pc'[c] = "emitted"
        /\ handle'[c] = Len(requestOf) + 1 /\ message'[c] = message[c]
        /\ requests' = Append(requests, Len(requestOf) + 1)
    BY <1>1 DEF Publish, Goto, TypeOK
  <2>2. message[c] = NoMessage
    BY <1>0, <1>1 DEF CallerFits
  <2>3. Len(requestOf) + 1 \in Sent(requestOf') /\ Len(requestOf) + 1 # Nobody
    BY <1>0, <2>1, Longer DEF Nobody
  <2> QED BY <2>1, <2>2, <2>3, NoMessageFits DEF CallerFits, CallerLabels
<1>2. ASSUME GiveUp(c), pc[c] \in {"emit", "emitted"}, message' = message
      PROVE  CallerFits(pc'[c], handle'[c], message'[c], requestOf)
  <2>1. pc'[c] = "idle" /\ handle'[c] = Nobody /\ message'[c] = NoMessage
    BY <1>0, <1>2 DEF GiveUp, Goto, TypeOK, CallerFits
  <2> QED BY <2>1, NoMessageFits DEF CallerFits, CallerLabels
<1>3. ASSUME NEW label \in CallerLabels \ {"got", "matched"}, Goto(c, label),
             message' = message, pc[c] \notin {"got", "matched"},
             \/ UNCHANGED handle /\ (label = "emit" \/ handle[c] # Nobody)
             \/ \E h \in Sent(requestOf) : handle' = [handle EXCEPT ![c] = h]
      PROVE  CallerFits(pc'[c], handle'[c], message'[c], requestOf)
  <2>1. pc'[c] = label /\ message'[c] = NoMessage
    BY <1>0, <1>3 DEF Goto, TypeOK, CallerFits
  <2>2. handle'[c] \in {Nobody} \cup Sent(requestOf)
        /\ (label = "emit" \/ handle'[c] # Nobody)
    BY <1>0, <1>3 DEF TypeOK, CallerFits, Sent, Nobody
  <2> QED BY <2>1, <2>2, NoMessageFits DEF CallerFits
<1>4. CASE StartSend(c)
  BY <1>3, <1>4 DEF StartSend, CallerLabels
<1>5. CASE StartReceive(c)
  <2>1. handles \subseteq Sent(requestOf)
    BY DEF TypeOK
  <2> QED BY <1>3, <1>5, <2>1 DEF StartReceive, CallerLabels
<1>6. CASE AsyncSend(c)
  <2>1. Publish(c, nextCorrelation) /\ UNCHANGED <<pendingRequests, held, pending,
          message, replies, handles, results, lost>> /\ pc[c] = "idle"
    BY <1>6 DEF AsyncSend
  <2> QED BY <1>0, <1>1, <2>1
<1>7. CASE EmitRequest(c)
  <2>1. UNCHANGED <<pendingRequests, held, pending,
          message, replies, handles, results, lost>> /\ pc[c] = "emit"
    BY <1>7 DEF EmitRequest, historyVars
  <2>2. CASE Publish(c, correlation[c])
    BY <1>0, <1>1, <2>1, <2>2
  <2>3. CASE GiveUp(c) /\ UNCHANGED <<requestOf, requests>>
    BY <1>2, <2>1, <2>3
  <2> QED BY <1>7, <2>2, <2>3 DEF EmitRequest
<1>8. CASE RecordRequest(c)
  BY <1>0, <1>2, <1>3, <1>8 DEF RecordRequest, CallerLabels, CallerFits
<1>9. CASE AddPending(c) \/ AsyncRecord(c)
  <2>1. ASSUME HandOver(c), message' = message, pc[c] \in {"emitted", "recorded"}
        PROVE  CallerFits(pc'[c], handle'[c], message'[c], requestOf)
    <3>1. message'[c] = NoMessage /\ handle[c] # Nobody
      BY <1>0, <2>1 DEF CallerFits
    <3>2. \/ pc'[c] = "validate" /\ handle'[c] = handle[c]
          \/ pc'[c] = "idle" /\ handle'[c] = Nobody
      BY <2>1 DEF HandOver, Goto, TypeOK
    <3> QED BY <1>0, <3>1, <3>2, NoMessageFits DEF CallerFits, CallerLabels
  <2> QED BY <1>2, <1>9, <2>1 DEF AddPending, AsyncRecord
<1>10. CASE ValidatePending(c)
  BY <1>0, <1>3, <1>10, Left DEF ValidatePending, CallerLabels, CallerFits
<1>11. CASE ReceiveReply(c)
  <2>1. CASE Leave(c)
    BY <1>11, <2>1, Left DEF ReceiveReply
  <2>2. CASE Goto(c, "read") /\ UNCHANGED <<message, handle>>
    BY <1>0, <1>3, <1>11, <2>2 DEF ReceiveReply, CallerLabels, CallerFits
  <2>3. CASE /\ message' = [message EXCEPT ![c] =
                              Reply(handle[c], requestOf[handle[c]])]
             /\ Goto(c, "matched") /\ UNCHANGED handle
    <3>1. /\ message'[c] = Reply(handle[c], requestOf[handle[c]])
          /\ pc'[c] = "matched" /\ handle'[c] = handle[c]
      BY <2>3 DEF Goto, TypeOK
    <3>2. handle[c] \in Sent(requestOf) /\ handle[c] # Nobody
      BY <1>0, <1>11 DEF ReceiveReply, CallerFits
    <3>3. requestOf[handle[c]] \in Nat /\ handle[c] \in Nat
      BY <1>0, <3>2 DEF Sent
    <3>4. MessageFits(message'[c], requestOf) /\ message'[c].to = handle[c]
      BY <3>1, <3>2, <3>3 DEF MessageFits, Reply, Messages, IsReply
    <3> QED BY <1>11, <3>1, <3>2, <3>4 DEF ReceiveReply, CallerFits, CallerLabels
  <2> QED BY <1>11, <2>1, <2>2, <2>3 DEF ReceiveReply
<1>12. CASE AsyncReceiveReply(c)
  <2>1. CASE Leave(c)
    BY <1>12, <2>1, Left DEF AsyncReceiveReply
  <2>2. CASE Goto(c, "read") /\ UNCHANGED <<message, handle>>
    BY <1>0, <1>3, <1>12, <2>2 DEF AsyncReceiveReply, CallerLabels, CallerFits
  <2> QED BY <1>12, <2>1, <2>2 DEF AsyncReceiveReply, Finish
<1>13. CASE ReadMessage(c)
  <2>1. replies # <<>> /\ replies \in Seq(Messages)
        /\ MessageFits(Head(replies), requestOf)
    BY <1>13, HeadAndTail DEF ReadMessage, TypeOK
  <2>2. /\ pc'[c] = "got" /\ handle'[c] = handle[c] /\ message'[c] = Head(replies)
        /\ requestOf' = requestOf /\ requests' = requests /\ pc[c] = "read"
    BY <1>13 DEF ReadMessage, Goto, TypeOK
  <2> QED BY <1>0, <2>1, <2>2 DEF CallerFits, CallerLabels
<1>14. CASE ProcessMessage(c)
  <2>1. MessageFits(message[c], requestOf)
    BY <1>0 DEF CallerFits
  <2>2. CASE SortOut(c, message[c])
    BY <1>14, <2>1, <2>2, SortedOut DEF ProcessMessage
  <2>3. CASE /\ Matching(c, message[c]) /\ Goto(c, "matched")
             /\ UNCHANGED <<message, handle>>
    <3>1. pc'[c] = "matched" /\ message'[c].to = handle[c] /\ handle'[c] = handle[c]
          /\ message'[c] = message[c]
      BY <2>3 DEF Goto, TypeOK, Matching, Matches
    <3> QED BY <1>0, <1>14, <2>1, <3>1 DEF ProcessMessage, CallerFits, CallerLabels
  <2> QED BY <1>14, <2>2, <2>3 DEF ProcessMessage
<1>15. CASE CompleteRequest(c) \/ CancelReceive(c)
  BY <1>15, Left DEF CompleteRequest, CancelReceive, Finish
<1>16. CASE AsyncReadMessage(c)
  <2>1. MessageFits(Head(replies), requestOf)
    BY <1>16, HeadAndTail DEF AsyncReadMessage, TypeOK
  <2> QED BY <1>16, <2>1, SortedOut, Left DEF AsyncReadMessage, Finish
<1> QED BY <1>4, <1>5, <1>6, <1>7, <1>8, <1>9, <1>10, <1>11, <1>12, <1>13, <1>14,
           <1>15, <1>16 DEF CallerAct, CallerStep

(* The tables that the callers share. *)
LEMMA CallerTables ==
  ASSUME TypeOK, NEW c \in Callers, CallerAct(c)
  PROVE  /\ pendingRequests' \cup held' \cup pending' \cup handles'
              \subseteq Sent(requestOf)
         /\ IsFiniteSet(held') /\ IsFiniteSet(pending')
         /\ retired' \in Seq(Nat) /\ results' \in Seq(Nat \X Nat)
         /\ nextCorrelation' \in Nat /\ correlation' \in [Callers -> Nat]
         /\ overlapped' \in BOOLEAN
         /\ replies' = replies \/ (replies # <<>> /\ replies' = Tail(replies))
<1> USE DEF clientVars, historyVars, boundVars
<1>0. /\ CallerFits(pc[c], handle[c], message[c], requestOf)
      /\ nextCorrelation \in Nat /\ correlation \in [Callers -> Nat]
      /\ correlation[c] + 1 \in Nat /\ nextCorrelation + 1 \in Nat
      /\ pendingRequests \cup held \cup pending \cup handles \subseteq Sent(requestOf)
      /\ IsFiniteSet(held) /\ IsFiniteSet(pending)
      /\ retired \in Seq(Nat) /\ results \in Seq(Nat \X Nat) /\ overlapped \in BOOLEAN
  BY DEF TypeOK
<1>1. CASE StartSend(c) \/ AsyncSend(c) \/ StartReceive(c)
  BY <1>0, <1>1 DEF StartSend, AsyncSend, StartReceive, Enter
<1>2. CASE EmitRequest(c)
  BY <1>0, <1>2 DEF EmitRequest
<1>3. CASE RecordRequest(c) \/ AddPending(c) \/ AsyncRecord(c)
  <2>1. handle[c] \in Sent(requestOf)
    BY <1>0, <1>3 DEF RecordRequest, AddPending, AsyncRecord, CallerFits
  <2>2. IsFiniteSet(pending \cup {handle[c]})
    BY <1>0, FS_AddElement
  <2> QED BY <1>0, <1>3, <2>1, <2>2
          DEF RecordRequest, AddPending, AsyncRecord, HandOver
<1>4. CASE ValidatePending(c) \/ ReadMessage(c) \/ CancelReceive(c)
  BY <1>0, <1>4 DEF ValidatePending, ReadMessage, CancelReceive
<1>5. IsFiniteSet(held \ {handle[c]})
  BY <1>0, FS_RemoveElement
<1>6. CASE ReceiveReply(c)
  BY <1>0, <1>5, <1>6 DEF ReceiveReply, TakeReply
<1>7. CASE AsyncReceiveReply(c)
  <2>1. ASSUME TakeReply(c) PROVE Reply(handle[c], requestOf[handle[c]]).to = handle[c]
                              /\ MessageFits(Reply(handle[c], requestOf[handle[c]]),
                                             requestOf)
    <3>1. handle[c] \in Sent(requestOf) /\ requestOf \in Seq(Nat)
      BY <1>0, <2>1 DEF TakeReply, TypeOK
    <3>2. handle[c] \in Nat /\ requestOf[handle[c]] \in Nat
      BY <3>1 DEF Sent
    <3> QED BY <3>1, <3>2 DEF MessageFits, Reply, Messages, IsReply
  <2>2. CASE Finish(c, Reply(handle[c], requestOf[handle[c]])) /\ TakeReply(c)
    BY <1>0, <1>5, <1>7, <2>1, <2>2, Finished DEF AsyncReceiveReply, TakeReply
  <2>3. CASE UNCHANGED <<held, pendingRequests, pending, retired, results>>
    BY <1>0, <1>7, <2>3 DEF AsyncReceiveReply
  <2> QED BY <1>7, <2>2, <2>3 DEF AsyncReceiveReply
<1>8. CASE ProcessMessage(c)
  <2>1. MessageFits(message[c], requestOf) /\ pc[c] = "got"
    BY <1>0, <1>8 DEF CallerFits, ProcessMessage
  <2>2. held' \cup pendingRequests \subseteq Sent(requestOf) /\ IsFiniteSet(held')
    BY <1>0, <1>8, <2>1, SortedOut DEF ProcessMessage
  <2> QED BY <1>0, <1>8, <2>2 DEF ProcessMessage
<1>9. CASE CompleteRequest(c)
  <2>1. MessageFits(message[c], requestOf)
    BY <1>0 DEF CallerFits
  <2> QED BY <1>0, <1>9, <2>1, Finished DEF CompleteRequest
<1>10. CASE AsyncReadMessage(c)
  <2>1. MessageFits(Head(replies), requestOf) /\ pc[c] = "read"
    BY <1>10, HeadAndTail DEF AsyncReadMessage, TypeOK
  <2>2. CASE Finish(c, Head(replies)) /\ UNCHANGED <<held, lost>>
    BY <1>0, <1>10, <2>1, <2>2, Finished DEF AsyncReadMessage
  <2>3. CASE /\ SortOut(c, Head(replies))
             /\ UNCHANGED <<pendingRequests, pending, retired, results>>
    <3>1. held' \subseteq Sent(requestOf) /\ IsFiniteSet(held')
      BY <1>0, <2>1, <2>3, SortedOut
    <3> QED BY <1>0, <1>10, <2>3, <3>1 DEF AsyncReadMessage
  <2> QED BY <1>10, <2>2, <2>3 DEF AsyncReadMessage
<1> QED BY <1>1, <1>2, <1>3, <1>4, <1>6, <1>7, <1>8, <1>9, <1>10
        DEF CallerAct, CallerStep

LEMMA CallerType ==
  ASSUME TypeOK, NEW c \in Callers, CallerAct(c)
  PROVE  TypeOK'
<1>1. /\ requestOf' \in Seq(Nat) /\ Sent(requestOf) \subseteq Sent(requestOf')
      /\ \A m : MessageFits(m, requestOf) => MessageFits(m, requestOf')
      /\ \A d \in Callers \ {c} :
           CallerFits(pc[d], handle[d], message[d], requestOf')
      /\ \A w \in Workers : WorkerFits(pc[w], batch[w], answering[w], requestOf')
  <2>0. requestOf \in Seq(Nat)
    BY DEF TypeOK
  <2>1. requestOf' = requestOf \/ \E id \in Nat : requestOf' = Append(requestOf, id)
    BY CallerOwn
  <2>2. requestOf' \in Seq(Nat) /\ Sent(requestOf) \subseteq Sent(requestOf')
    BY <2>0, <2>1, Longer
  <2>3. /\ \A m : MessageFits(m, requestOf) => MessageFits(m, requestOf')
        /\ \A d \in Callers \ {c} :
             CallerFits(pc[d], handle[d], message[d], requestOf')
        /\ \A w \in Workers : WorkerFits(pc[w], batch[w], answering[w], requestOf')
    <3>1. CASE requestOf' = requestOf
      BY <3>1 DEF TypeOK
    <3>2. ASSUME NEW id \in Nat, requestOf' = Append(requestOf, id)
          PROVE  /\ \A m : MessageFits(m, requestOf) => MessageFits(m, requestOf')
                 /\ \A label, h, m : CallerFits(label, h, m, requestOf)
                                       => CallerFits(label, h, m, requestOf')
                 /\ \A label, list, r : WorkerFits(label, list, r, requestOf)
                                          => WorkerFits(label, list, r, requestOf')
      <4>1. requestOf' = Append(requestOf, id) /\ id \in Nat
        BY <3>2
      <4> QED BY ONLY <2>0, <4>1, FitsLonger
    <3> QED BY <2>1, <3>1, <3>2 DEF TypeOK
  <2> QED BY <2>2, <2>3
<1>2. \A d \in Callers : CallerFits(pc'[d], handle'[d], message'[d], requestOf')
  BY <1>1, CallerFrame, CallerOwn
<1>3. \A w \in Workers : WorkerFits(pc'[w], batch'[w], answering'[w], requestOf')
  BY <1>1, CallerFrame DEF serviceVars
<1>4. requests' \in Seq(Nat) /\ Range(requests') \subseteq {NoRequest} \cup Sent(requestOf')
  <2>1. requests \in Seq(Nat) /\ Range(requests) \subseteq {NoRequest} \cup Sent(requestOf)
        /\ requestOf \in Seq(Nat)
    BY DEF TypeOK
  <2>2. CASE requests' = requests
    BY <1>1, <2>1, <2>2
  <2>3. ASSUME NEW id \in Nat, requestOf' = Append(requestOf, id),
               requests' = Append(requests, Len(requestOf) + 1)
        PROVE  /\ requests' \in Seq(Nat)
               /\ Range(requests') \subseteq {NoRequest} \cup Sent(requestOf')
    <3>1. Len(requestOf) + 1 \in Sent(requestOf') /\ Len(requestOf) + 1 \in Nat
      BY <2>1, <2>3, Longer
    <3>2. Range(requests') = Range(requests) \cup {Len(requestOf) + 1}
      <4>1. requests \in Seq(Nat) /\ Len(requestOf) + 1 \in Nat
        BY <2>1, <3>1
      <4>2. Range(Append(requests, Len(requestOf) + 1))
              = Range(requests) \cup {Len(requestOf) + 1}
        BY ONLY <4>1, RangeOfAppended
      <4> QED BY <2>3, <4>2
    <3> QED BY <1>1, <2>1, <2>3, <3>1, <3>2
  <2> QED BY <2>2, <2>3, CallerOwn
<1>5. /\ replies' \in Seq(Messages)
      /\ \A i \in DOMAIN replies' : MessageFits(replies'[i], requestOf')
  <2>1. /\ replies \in Seq(Messages)
        /\ \A i \in DOMAIN replies : MessageFits(replies[i], requestOf')
    BY <1>1 DEF TypeOK
  <2>2. CASE replies # <<>> /\ replies' = Tail(replies)
    BY <2>1, <2>2, HeadAndTail
  <2> QED BY <2>1, <2>2, CallerTables
<1> QED BY <1>1, <1>2, <1>3, <1>4, <1>5, CallerTables, CallerFrame
        DEF TypeOK, kind, serviceVars

------------------------------------------------------------------------------
(* Types: the steps of workers. *)

LEMMA Taken ==
  ASSUME TypeOK, NEW w \in Workers, NEW taken \in Takeable, Take(w, taken)
  PROVE  /\ pc[w] = "idle" /\ batch[w] = <<>> /\ answering[w] = Nobody
         /\ taken \in Seq(Nat) /\ requests' \in Seq(Nat)
         /\ Range(requests) = Range(taken) \cup Range(requests')
         /\ AllRequests(taken) => Range(taken) \subseteq Sent(requestOf)
                                  /\ taken \in Seq(Sent(requestOf))
<1>1. /\ requests \in Seq(Nat) /\ Range(requests) \subseteq {NoRequest} \cup Sent(requestOf)
      /\ WorkerFits(pc[w], batch[w], answering[w], requestOf)
  BY DEF TypeOK
<1>2. PICK count \in 1..Len(requests) :
        /\ taken = SubSeq(requests, 1, count)
        /\ requests' = SubSeq(requests, count + 1, Len(requests))
  BY DEF Take
<1>3. /\ taken \in Seq(Nat) /\ requests' \in Seq(Nat)
      /\ Range(requests) = Range(taken) \cup Range(requests')
  BY <1>1, <1>2, Split
<1>4. ASSUME AllRequests(taken)
      PROVE  Range(taken) \subseteq Sent(requestOf) /\ taken \in Seq(Sent(requestOf))
  <2>1. Range(taken) \subseteq Sent(requestOf)
    BY <1>1, <1>3, <1>4 DEF AllRequests
  <2>2. \A i \in 1..Len(taken) : taken[i] \in Sent(requestOf)
    BY <1>3, <2>1 DEF Range
  <2>3. Len(taken) \in Nat /\ taken = [i \in 1..Len(taken) |-> taken[i]]
    BY <1>3
  <2> QED BY <2>1, <2>2, <2>3
<1> QED BY <1>1, <1>3, <1>4 DEF Take, WorkerFits

LEMMA Abandoned ==
  ASSUME TypeOK, NEW w \in Workers, Abandon(w)
  PROVE  WorkerFits(pc'[w], batch'[w], answering'[w], requestOf)
<1>1. pc'[w] = "idle" /\ batch'[w] = <<>> /\ answering'[w] = Nobody
  BY DEF Abandon, Goto, TypeOK
<1> QED BY <1>1 DEF WorkerFits, WorkerLabels

LEMMA Answered ==
  ASSUME TypeOK, NEW w \in Workers, EmitAnswer(w), pc[w] \in {"check", "replying"}
  PROVE  /\ answering[w] \in Sent(requestOf) /\ answering[w] # Nobody
         /\ replies' = Append(replies, Reply(answering[w], requestOf[answering[w]]))
         /\ Reply(answering[w], requestOf[answering[w]]) \in Messages
         /\ MessageFits(Reply(answering[w], requestOf[answering[w]]), requestOf)
         /\ replies' \in Seq(Messages) /\ answers' \in [1..MaxRequests -> Nat]
         /\ \A i \in DOMAIN replies' : MessageFits(replies'[i], requestOf)
         /\ pc'[w] = "mark"
<1> DEFINE r == answering[w]
           m == Reply(r, requestOf[r])
<1>1. r \in Sent(requestOf) /\ r # Nobody /\ requestOf \in Seq(Nat)
  BY DEF TypeOK, WorkerFits
<1>2. r \in Nat /\ requestOf[r] \in Nat
  BY <1>1 DEF Sent
<1>3. m \in Messages /\ MessageFits(m, requestOf)
  BY <1>1, <1>2 DEF Reply, Messages, MessageFits, IsReply
<1>4. replies' = Append(replies, m) /\ pc'[w] = "mark"
  BY DEF EmitAnswer, Goto, TypeOK
<1> HIDE DEF m
<1>5. replies \in Seq(Messages) /\ \A i \in DOMAIN replies : MessageFits(replies[i], requestOf)
  BY DEF TypeOK
<1>6. /\ replies' \in Seq(Messages)
      /\ \A i \in DOMAIN replies' : MessageFits(replies'[i], requestOf)
  BY <1>3, <1>4, <1>5, Appended
<1>7. answers' \in [1..MaxRequests -> Nat]
  <2>1. answers \in [1..MaxRequests -> Nat] /\ answers' = [answers EXCEPT ![r] = @ + 1]
    BY DEF EmitAnswer, TypeOK
  <2>2. CASE r \in 1..MaxRequests
    <3>1. answers[r] + 1 \in Nat
      BY <2>1, <2>2
    <3> QED BY <2>1, <3>1
  <2>3. CASE r \notin 1..MaxRequests
    BY <2>1, <2>3
  <2> QED BY <2>2, <2>3
<1> QED BY <1>1, <1>3, <1>4, <1>6, <1>7 DEF m

LEMMA AnswerOrNot ==
  ASSUME NEW w \in Workers, WorkerAct(w)
  PROVE  \/ EmitAnswer(w) /\ pc[w] \in {"check", "replying"}
         \/ UNCHANGED <<replies, answers>>
  BY DEF WorkerAct, WorkerStep, ReceiveRequests, ServeRequests, AsyncReceiveRequests,
     AsyncServeRequests, StartAnswer, HandleRequest, AsyncHandleRequest, CallHandler,
     CheckReplied, EmitReply, AsyncReply, MarkReplied, LoseResult

LEMMA WorkerType ==
  ASSUME TypeOK, NEW w \in Workers, WorkerAct(w)
  PROVE  TypeOK'
<1> USE DEF clientVars, callerVars, historyVars, boundVars, kind
<1>0. /\ WorkerFits(pc[w], batch[w], answering[w], requestOf)
      /\ requestOf \in Seq(Nat) /\ answers \in [1..MaxRequests -> Nat]
      /\ replies \in Seq(Messages) /\ requests \in Seq(Nat)
      /\ \A i \in DOMAIN replies : MessageFits(replies[i], requestOf)
      /\ Range(requests) \subseteq {NoRequest} \cup Sent(requestOf)
      /\ open \subseteq Sent(requestOf)
  BY DEF TypeOK
<1>1. UNCHANGED <<kind, clientVars, callerVars, requestOf, historyVars>>
  BY WorkerFrame
<1>2. WorkerFits(pc'[w], batch'[w], answering'[w], requestOf)
  <2>1. CASE ReceiveRequests(w) \/ AsyncReceiveRequests(w)
    BY <1>0, <2>1 DEF ReceiveRequests, AsyncReceiveRequests
  <2>2. ASSUME NEW taken \in Takeable, Take(w, taken), GiveToHandler(w, taken),
               UNCHANGED answering
        PROVE  WorkerFits(pc'[w], batch'[w], answering'[w], requestOf)
    <3>1. CASE UNCHANGED <<batch, pc>>
      BY <1>0, <2>2, <3>1
    <3>2. CASE AllRequests(taken) /\ batch' = [batch EXCEPT ![w] = taken]
               /\ Goto(w, "handle")
      <4>1. taken \in Seq(Sent(requestOf)) /\ answering[w] = Nobody
        BY <2>2, <3>2, Taken
      <4>2. pc'[w] = "handle" /\ batch'[w] = taken /\ answering'[w] = Nobody
        BY <2>2, <3>2, <4>1 DEF Goto, TypeOK
      <4> QED BY <4>1, <4>2 DEF WorkerFits, WorkerLabels
    <3> QED BY <2>2, <3>1, <3>2 DEF GiveToHandler
  <2>3. CASE ServeRequests(w) \/ AsyncServeRequests(w)
    BY <2>2, <2>3 DEF ServeRequests, AsyncServeRequests, AsyncTake
  <2>4. CASE CallHandler(w)
    <3>1. CASE Abandon(w)
      BY <3>1, Abandoned
    <3>2. CASE /\ answering' = [answering EXCEPT ![w] = Head(batch[w])]
               /\ batch' = [batch EXCEPT ![w] = Tail(@)] /\ Goto(w, "check")
      <4>1. /\ Head(batch[w]) \in Sent(requestOf)
            /\ Tail(batch[w]) \in Seq(Sent(requestOf))
        BY <1>0, <2>4, HeadAndTail DEF CallHandler, WorkerFits
      <4>2. Head(batch[w]) # Nobody
        BY <1>0, <4>1 DEF Sent, Nobody
      <4>3. /\ pc'[w] = "check" /\ batch'[w] = Tail(batch[w])
            /\ answering'[w] = Head(batch[w])
        BY <3>2 DEF Goto, TypeOK
      <4> QED BY <4>1, <4>2, <4>3 DEF WorkerFits, WorkerLabels
    <3> QED BY <2>4, <3>1, <3>2 DEF CallHandler
  <2>5. CASE StartAnswer(w)
    <3>1. PICK r \in open : answering' = [answering EXCEPT ![w] = r]
      BY <2>5 DEF StartAnswer
    <3>2. r \in Sent(requestOf) /\ r # Nobody
      BY <1>0 DEF Sent, Nobody
    <3>3. pc'[w] = "check" /\ batch'[w] = batch[w] /\ answering'[w] = r
      BY <2>5, <3>1 DEF StartAnswer, Goto, TypeOK
    <3> QED BY <1>0, <3>2, <3>3 DEF WorkerFits, WorkerLabels
  <2>6. CASE CheckReplied(w)
    <3>1. CASE Goto(w, "replying") /\ UNCHANGED <<batch, answering>>
      BY <1>0, <2>6, <3>1 DEF CheckReplied, Goto, TypeOK, WorkerFits, WorkerLabels
    <3> QED BY <2>6, <3>1, Abandoned DEF CheckReplied
  <2>7. CASE EmitReply(w) \/ AsyncReply(w)
    <3>1. CASE EmitAnswer(w) /\ UNCHANGED <<batch, answering>>
      <4>1. pc'[w] = "mark" /\ answering[w] # Nobody
        BY <2>7, <3>1, Answered DEF EmitReply, AsyncReply
      <4> QED BY <1>0, <3>1, <4>1 DEF WorkerFits, WorkerLabels
    <3> QED BY <2>7, <3>1, Abandoned DEF EmitReply, AsyncReply
  <2>8. CASE MarkReplied(w)
    BY <1>0, <2>8 DEF MarkReplied, Goto, TypeOK, WorkerFits, WorkerLabels
  <2>9. CASE LoseResult(w)
    BY <2>9, Abandoned DEF LoseResult
  <2> QED BY <2>1, <2>3, <2>4, <2>5, <2>6, <2>7, <2>8, <2>9
          DEF WorkerAct, WorkerStep, HandleRequest, AsyncHandleRequest
<1>3. /\ replies' \in Seq(Messages) /\ answers' \in [1..MaxRequests -> Nat]
      /\ \A i \in DOMAIN replies' : MessageFits(replies'[i], requestOf)
  BY <1>0, AnswerOrNot, Answered
<1>4. /\ requests' \in Seq(Nat) /\ open' \subseteq Sent(requestOf)
      /\ Range(requests') \subseteq {NoRequest} \cup Sent(requestOf)
  <2>1. ASSUME NEW taken \in Takeable, Take(w, taken), open' = open
                 \/ (AllRequests(taken) /\ open' = open \cup Range(taken))
        PROVE  /\ requests' \in Seq(Nat) /\ open' \subseteq Sent(requestOf)
               /\ Range(requests') \subseteq {NoRequest} \cup Sent(requestOf)
    BY <1>0, <2>1, Taken
  <2>2. CASE UNCHANGED <<requests, open>>
    BY <1>0, <2>2
  <2> QED BY <2>1, <2>2 DEF WorkerAct, WorkerStep, ReceiveRequests, ServeRequests,
          AsyncReceiveRequests, AsyncServeRequests, AsyncTake, GiveToProgram,
          StartAnswer, HandleRequest, AsyncHandleRequest, CallHandler, CheckReplied,
          EmitReply, AsyncReply, MarkReplied, LoseResult
<1>5. \A v \in Workers : WorkerFits(pc'[v], batch'[v], answering'[v], requestOf')
  BY <1>1, <1>2, WorkerFrame DEF TypeOK
<1>6. \A c \in Callers : CallerFits(pc'[c], handle'[c], message'[c], requestOf')
  BY <1>1, WorkerFrame DEF TypeOK
<1> QED BY <1>1, <1>3, <1>4, <1>5, <1>6, WorkerFrame DEF TypeOK

LEMMA StrayType ==
  ASSUME TypeOK, Stray
  PROVE  TypeOK'
<1> USE DEF clientVars, callerVars, serviceVars, historyVars, boundVars, kind
<1>1. /\ requests' \in Seq(Nat)
      /\ Range(requests') \subseteq {NoRequest} \cup Sent(requestOf)
  <2>1. NoRequest \in Nat
    BY DEF NoRequest
  <2>2. requests \in Seq(Nat) /\ Range(requests) \subseteq {NoRequest} \cup Sent(requestOf)
    BY DEF TypeOK
  <2>3. /\ Append(requests, NoRequest) \in Seq(Nat)
        /\ Range(Append(requests, NoRequest)) = Range(requests) \cup {NoRequest}
    BY <2>1, <2>2, Appended, RangeOfAppended
  <2>4. requests' = requests \/ requests' = Append(requests, NoRequest)
    BY DEF Stray
  <2> QED BY <2>2, <2>3, <2>4
<1>2. /\ replies' \in Seq(Messages)
      /\ \A i \in DOMAIN replies' : MessageFits(replies'[i], requestOf)
  <2>1. replies \in Seq(Messages) /\ \A i \in DOMAIN replies : MessageFits(replies[i], requestOf)
    BY DEF TypeOK
  <2>2. ASSUME NEW m \in {Publication, Reply(Nobody, 0)}, replies' = Append(replies, m)
        PROVE  /\ replies' \in Seq(Messages)
               /\ \A i \in DOMAIN replies' : MessageFits(replies'[i], requestOf)
    <3>1. m \in Messages /\ MessageFits(m, requestOf)
      BY <2>2 DEF Publication, Reply, Nobody, Messages, MessageFits
    <3> QED BY <2>1, <2>2, <3>1, Appended
  <2> QED BY <2>1, <2>2 DEF Stray
<1> QED BY <1>1, <1>2 DEF Stray, TypeOK

LEMMA NextType ==
  ASSUME TypeOK, [Next]_vars
  PROVE  TypeOK'
<1>1. CASE UNCHANGED vars
  BY <1>1 DEF vars, TypeOK, kind, clientVars, callerVars, serviceVars, historyVars,
       boundVars
<1> QED BY <1>1, NextIsAct, CallerType, WorkerType, StrayType

LEMMA Typing == Spec => []TypeOK
<1>1. TypeOK /\ [Next]_vars => TypeOK'
  BY NextType
<1> QED BY InitType, <1>1, PTL DEF Spec

------------------------------------------------------------------------------
(* Every reply that is given out is the request's own, and its only one. *)

(* What becomes of the requester's table. *)
LEMMA TableSteps ==
  ASSUME TypeOK, NEW c \in Callers, CallerAct(c)
  PROVE  \/ /\ UNCHANGED <<pendingRequests, results>> /\ requestOf' = requestOf
            /\ pc'[c] # "emitted"
         \/ /\ UNCHANGED <<pendingRequests, results>>
            /\ pc'[c] = "emitted" /\ handle'[c] = Len(requestOf) + 1
            /\ \E id \in Nat : requestOf' = Append(requestOf, id)
         \/ /\ pc[c] = "emitted" /\ handle[c] # Nobody /\ pc'[c] # "emitted"
            /\ pendingRequests' = pendingRequests \cup {handle[c]}
            /\ UNCHANGED <<results, requestOf>>
         \/ /\ handle[c] \in pendingRequests /\ pc'[c] = "idle"
            /\ pendingRequests' = pendingRequests \ {handle[c]}
            /\ results' = Append(results, <<handle[c], handle[c]>>)
            /\ requestOf' = requestOf
<1> USE DEF clientVars, historyVars, boundVars
<1>0. /\ CallerFits(pc[c], handle[c], message[c], requestOf)
  BY DEF TypeOK
<1>1. ASSUME NEW label, Goto(c, label) PROVE pc'[c] = label
  BY <1>1 DEF Goto, TypeOK
<1>2. CASE StartSend(c) \/ StartReceive(c) \/ ValidatePending(c)
  BY <1>1, <1>2 DEF StartSend, StartReceive, ValidatePending, Leave
<1>3. CASE AsyncSend(c) \/ EmitRequest(c)
  <2>1. UNCHANGED <<pendingRequests, results>>
    BY <1>3 DEF AsyncSend, EmitRequest
  <2>2. CASE GiveUp(c) /\ UNCHANGED requestOf
    BY <1>1, <2>1, <2>2 DEF GiveUp
  <2>3. CASE Publish(c, correlation[c]) \/ Publish(c, nextCorrelation)
    <3>1. correlation[c] \in Nat /\ nextCorrelation \in Nat
      BY DEF TypeOK
    <3>2. pc'[c] = "emitted" /\ handle'[c] = Len(requestOf) + 1
      BY <1>1, <2>3 DEF Publish, TypeOK
    <3> QED BY <2>1, <2>3, <3>1, <3>2 DEF Publish
  <2> QED BY <1>3, <2>2, <2>3 DEF AsyncSend, EmitRequest
<1>4. CASE RecordRequest(c) \/ AsyncRecord(c)
  <2>1. pc[c] = "emitted" /\ handle[c] # Nobody /\ UNCHANGED <<results, requestOf>>
    BY <1>0, <1>4 DEF RecordRequest, AsyncRecord, CallerFits
  <2>2. pc'[c] # "emitted"
    BY <1>1, <1>4 DEF RecordRequest, AsyncRecord, HandOver, GiveUp
  <2> QED BY <1>4, <2>1, <2>2 DEF RecordRequest, AsyncRecord
<1>5. CASE AddPending(c) \/ ReceiveReply(c) \/ ReadMessage(c) \/ CancelReceive(c)
  BY <1>1, <1>5 DEF AddPending, HandOver, ReceiveReply, ReadMessage, CancelReceive,
       Leave
<1>6. ASSUME NEW m, Finish(c, m), m.to = handle[c], requestOf' = requestOf
      PROVE  \/ UNCHANGED <<pendingRequests, results>> /\ pc'[c] # "emitted"
             \/ /\ handle[c] \in pendingRequests /\ pc'[c] = "idle"
                /\ pendingRequests' = pendingRequests \ {handle[c]}
                /\ results' = Append(results, <<handle[c], handle[c]>>)
  BY <1>1, <1>6 DEF Finish, Leave
<1>7. CASE AsyncReceiveReply(c)
  <2>1. Reply(handle[c], requestOf[handle[c]]).to = handle[c]
    BY DEF Reply
  <2> QED BY <1>1, <1>6, <1>7, <2>1 DEF AsyncReceiveReply, Leave
<1>8. CASE ProcessMessage(c)
  BY <1>1, <1>8 DEF ProcessMessage, SortOut, Hold, ReadOn, Leave
<1>9. CASE CompleteRequest(c)
  <2>1. message[c].to = handle[c]
    BY <1>0, <1>9 DEF CompleteRequest, CallerFits
  <2> QED BY <1>6, <1>9, <2>1 DEF CompleteRequest
<1>10. CASE AsyncReadMessage(c)
  <2>1. CASE Matching(c, Head(replies)) /\ Finish(c, Head(replies))
    BY <1>6, <1>10, <2>1 DEF AsyncReadMessage, Matching, Matches
  <2>2. CASE SortOut(c, Head(replies)) /\ UNCHANGED <<pendingRequests, results>>
    BY <1>1, <1>10, <2>2 DEF AsyncReadMessage, SortOut, Hold, ReadOn, Leave
  <2> QED BY <1>10, <2>1, <2>2 DEF AsyncReadMessage
<1> QED BY <1>2, <1>3, <1>4, <1>5, <1>7, <1>8, <1>9, <1>10 DEF CallerAct, CallerStep

LEMMA InitResult == Init => ResultInv
<1>1. Init => \A c \in Callers : pc[c] = "idle"
  BY DEF Init
<1> QED BY <1>1 DEF Init, ResultInv

LEMMA NextResult ==
  ASSUME TypeOK, ResultInv, [Next]_vars
  PROVE  ResultInv'
<1>1. CASE \/ \E w \in Workers : WorkerAct(w)
           \/ Stray \/ UNCHANGED vars
  <2>1. /\ UNCHANGED <<results, pendingRequests, handle, requestOf>>
        /\ \A c \in Callers : pc'[c] = pc[c]
    BY <1>1, WorkerFrame DEF Stray, vars, clientVars, callerVars, historyVars
  <2> QED BY <2>1 DEF ResultInv
<1>2. ASSUME NEW c \in Callers, CallerAct(c)
      PROVE  ResultInv'
  <2>0. /\ requestOf \in Seq(Nat) /\ results \in Seq(Nat \X Nat)
        /\ pendingRequests \subseteq Sent(requestOf)
        /\ Sent(requestOf) = 1..Len(requestOf) /\ Len(requestOf) \in Nat
        /\ \A d \in Callers : handle[d] \in {Nobody} \cup Sent(requestOf)
        /\ \A d \in Callers : pc[d] = "emitted" => handle[d] \in Sent(requestOf)
    <3>1. Sent(requestOf) = 1..Len(requestOf) /\ Len(requestOf) \in Nat
      BY DEF Sent, TypeOK
    <3> QED BY <3>1 DEF TypeOK, CallerFits
  <2>1. \A d \in Callers \ {c} : pc'[d] = pc[d] /\ handle'[d] = handle[d]
    BY <1>2, CallerFrame
  <2>2. CASE /\ UNCHANGED <<pendingRequests, results, requestOf>>
             /\ pc'[c] # "emitted"
    BY <2>1, <2>2 DEF ResultInv
  <2>3. ASSUME UNCHANGED <<pendingRequests, results>>, pc'[c] = "emitted",
               handle'[c] = Len(requestOf) + 1,
               NEW id \in Nat, requestOf' = Append(requestOf, id)
        PROVE  ResultInv'
    <3>1. /\ Sent(requestOf) \subseteq Sent(requestOf')
          /\ handle'[c] \notin Sent(requestOf)
      BY <2>0, <2>3, Longer
    <3>2. \A i \in DOMAIN results : results[i][1] \in Sent(requestOf)
      BY DEF ResultInv
    <3>3. \A d \in Callers \ {c} : pc[d] = "emitted" => handle[d] # handle'[c]
      BY <2>0, <3>1
    <3>4. handle'[c] \notin pendingRequests
          /\ \A i \in DOMAIN results : handle'[c] # results[i][1]
      BY <2>0, <3>1, <3>2
    <3>5. \A d \in Callers : pc'[d] = "emitted" =>
            d = c \/ (pc[d] = "emitted" /\ handle'[d] = handle[d] /\ d \in Callers \ {c})
      BY <2>1
    <3>6. /\ \A i \in DOMAIN results :
               /\ results[i][1] = results[i][2]
               /\ results[i][1] \in Sent(requestOf') \ pendingRequests
               /\ \A d \in Callers : pc'[d] = "emitted" => handle'[d] # results[i][1]
      BY <3>1, <3>4, <3>5 DEF ResultInv
    <3>7. /\ \A d \in Callers : pc'[d] = "emitted" => handle'[d] \notin pendingRequests
          /\ \A d, e \in Callers :
               pc'[d] = "emitted" /\ pc'[e] = "emitted" /\ handle'[d] = handle'[e]
                 => d = e
      BY <3>3, <3>4, <3>5 DEF ResultInv
    <3> QED BY <2>3, <3>6, <3>7 DEF ResultInv
  <2>4. CASE /\ pc[c] = "emitted" /\ pc'[c] # "emitted"
             /\ pendingRequests' = pendingRequests \cup {handle[c]}
             /\ UNCHANGED <<results, requestOf>>
    BY <2>1, <2>4 DEF ResultInv
  <2>5. CASE /\ handle[c] \in pendingRequests /\ pc'[c] = "idle"
             /\ pendingRequests' = pendingRequests \ {handle[c]}
             /\ results' = Append(results, <<handle[c], handle[c]>>)
             /\ requestOf' = requestOf
    <3> DEFINE pair == <<handle[c], handle[c]>>
    <3>1. pair \in Nat \X Nat /\ pair[1] = handle[c] /\ pair[2] = handle[c]
      BY <2>0, <2>5
    <3> HIDE DEF pair
    <3>2. /\ DOMAIN results = 1..Len(results) /\ Len(results) \in Nat
          /\ DOMAIN results' = 1..(Len(results) + 1)
          /\ \A i \in 1..Len(results) : results'[i] = results[i]
          /\ results'[Len(results) + 1] = pair
      BY <2>0, <2>5, <3>1, Appended DEF pair
    <3>3. \A i \in DOMAIN results : results[i][1] # handle[c]
      BY <2>5 DEF ResultInv
    <3>4. \A i \in DOMAIN results' :
            \/ i \in DOMAIN results /\ results'[i] = results[i]
            \/ i = Len(results) + 1 /\ results'[i] = pair
      BY <3>2
    <3>5. \A d \in Callers : pc'[d] = "emitted" =>
            d # c /\ pc[d] = "emitted" /\ handle'[d] = handle[d]
      BY <2>1, <2>5
    <3>6. \A d \in Callers : pc[d] = "emitted" => handle[d] # handle[c]
      BY <2>5 DEF ResultInv
    <3>7. \A i \in DOMAIN results' :
            /\ results'[i][1] = results'[i][2]
            /\ results'[i][1] \in Sent(requestOf') \ pendingRequests'
            /\ \A d \in Callers : pc'[d] = "emitted" => handle'[d] # results'[i][1]
      BY <2>0, <2>5, <3>1, <3>3, <3>4, <3>5, <3>6 DEF ResultInv
    <3>8. \A i, j \in DOMAIN results' : results'[i][1] = results'[j][1] => i = j
      BY <3>1, <3>3, <3>4 DEF ResultInv
    <3>9. /\ \A d \in Callers : pc'[d] = "emitted" => handle'[d] \notin pendingRequests'
          /\ \A d, e \in Callers :
               pc'[d] = "emitted" /\ pc'[e] = "emitted" /\ handle'[d] = handle'[e]
                 => d = e
      BY <2>5, <3>5 DEF ResultInv
    <3> QED BY <3>7, <3>8, <3>9 DEF ResultInv
  <2> QED BY <1>2, <2>2, <2>3, <2>4, <2>5, TableSteps
<1> QED BY <1>1, <1>2, NextIsAct

(***************************************************************************)
(* However callers interleave, receive gives out the reply to the request  *)
(* its handle stands for, and for no handle a second one                   *)
(* (Requester.receive_reply, _RequestLifecycleTable.complete).             *)
(***************************************************************************)
THEOREM RepliesGivenOnce == Spec => []OwnReplyOnce
<1>1. TypeOK /\ ResultInv /\ [Next]_vars => ResultInv'
  BY NextResult
<1>2. ResultInv => OwnReplyOnce
  BY DEF ResultInv, OwnReplyOnce
<1> QED BY InitResult, Typing, <1>1, <1>2, PTL DEF Spec

------------------------------------------------------------------------------
(* A request is answered once, but for the races. *)

(* How far a worker gets with the request it replies to. *)
LEMMA AnswerSteps ==
  ASSUME TypeOK, NEW w \in Workers, WorkerAct(w)
  PROVE  \/ /\ pc'[w] \notin {"replying", "mark"}
            /\ pc[w] # "mark" \/ raced' = raced \cup {answering[w]}
            /\ UNCHANGED <<answers, replied>> /\ raced \subseteq raced'
         \/ /\ pc[w] = "check" /\ pc'[w] = "replying"
            /\ answering'[w] = answering[w] /\ answering[w] \notin replied
            /\ raced' = raced \cup RacedWith(w) /\ UNCHANGED <<answers, replied>>
         \/ /\ pc'[w] = "mark" /\ answering'[w] = answering[w]
            /\ answers' = [answers EXCEPT ![answering[w]] = @ + 1]
            /\ replied' = replied
            /\ \/ pc[w] = "replying" /\ raced' = raced
               \/ /\ pc[w] = "check" /\ answering[w] \notin replied
                  /\ raced' = raced \cup RacedWith(w)
         \/ /\ pc[w] = "mark" /\ pc'[w] \in {"idle", "handle"}
            /\ replied' = replied \cup {answering[w]}
            /\ UNCHANGED <<answers, raced>>
<1> USE DEF Answerable
<1>1. ASSUME NEW label, Goto(w, label) PROVE pc'[w] = label
  BY <1>1 DEF Goto, TypeOK
<1>2. CASE \/ ReceiveRequests(w) \/ AsyncReceiveRequests(w) \/ ServeRequests(w)
           \/ AsyncServeRequests(w)
  BY <1>1, <1>2 DEF ReceiveRequests, AsyncReceiveRequests, ServeRequests, AsyncTake,
       AsyncServeRequests, Take, GiveToHandler
<1>3. CASE StartAnswer(w) \/ CallHandler(w)
  BY <1>1, <1>3 DEF StartAnswer, CallHandler, Abandon
<1>4. CASE CheckReplied(w)
  BY <1>1, <1>4 DEF CheckReplied, Abandon
<1>5. CASE EmitReply(w) \/ AsyncReply(w)
  BY <1>1, <1>5 DEF EmitReply, AsyncReply, Abandon, EmitAnswer
<1>6. CASE MarkReplied(w) \/ LoseResult(w)
  BY <1>1, <1>6 DEF MarkReplied, LoseResult, Abandon
<1> QED BY <1>2, <1>3, <1>4, <1>5, <1>6
        DEF WorkerAct, WorkerStep, HandleRequest, AsyncHandleRequest

LEMMA InitAnswer == Init => AnswerInv
<1>1. Init => \A w \in Workers : pc[w] = "idle"
  BY DEF Init
<1> QED BY <1>1 DEF Init, AnswerInv, With

LEMMA NextAnswer ==
  ASSUME TypeOK, AnswerInv, [Next]_vars
  PROVE  AnswerInv'
<1>1. CASE \/ \E c \in Callers : CallerAct(c)
           \/ Stray \/ UNCHANGED vars
  <2>1. /\ UNCHANGED <<answers, replied, answering, raced>>
        /\ \A w \in Workers : pc'[w] = pc[w]
    BY <1>1, CallerFrame DEF Stray, vars, serviceVars
  <2> QED BY <2>1 DEF AnswerInv, With
<1>2. ASSUME NEW w \in Workers, WorkerAct(w)
      PROVE  AnswerInv'
  <2>1. \A v \in Workers \ {w} : pc'[v] = pc[v] /\ answering'[v] = answering[v]
    BY <1>2, WorkerFrame
  <2>2. raced \subseteq raced'
    BY <1>2, AnswerSteps
  <2> SUFFICES ASSUME NEW r \in (1..MaxRequests) \ raced'
               PROVE  /\ \A u, v \in Workers : With(u, r)' /\ With(v, r)' => u = v
                      /\ answers'[r] <= 1
                      /\ answers'[r] > 0 => r \in replied' \/ \E v \in Workers :
                           pc'[v] = "mark" /\ answering'[v] = r
                      /\ \A v \in Workers : pc'[v] = "replying" /\ answering'[v] = r
                           => answers'[r] = 0 /\ r \notin replied'
    BY DEF AnswerInv
  <2>3. /\ r \notin raced /\ answers[r] \in Nat
        /\ \A u, v \in Workers : With(u, r) /\ With(v, r) => u = v
        /\ answers[r] <= 1
        /\ answers[r] > 0 => r \in replied \/ \E v \in Workers :
             pc[v] = "mark" /\ answering[v] = r
        /\ \A v \in Workers : pc[v] = "replying" /\ answering[v] = r
             => answers[r] = 0 /\ r \notin replied
    BY <2>2 DEF AnswerInv, TypeOK
  <2>4. \A v \in Workers \ {w} : With(v, r)' <=> With(v, r)
    BY <2>1 DEF With
  <2>5. CASE /\ pc'[w] \notin {"replying", "mark"}
             /\ pc[w] # "mark" \/ raced' = raced \cup {answering[w]}
             /\ UNCHANGED <<answers, replied>>
    <3>1. ~With(w, r)'
      BY <2>5 DEF With
    <3>2. ~(pc[w] = "mark" /\ answering[w] = r)
      BY <2>5
    <3> QED BY <2>1, <2>3, <2>4, <2>5, <3>1, <3>2 DEF With
  <2>6. ASSUME r = answering[w], raced' = raced \cup RacedWith(w)
        PROVE  \A v \in Workers \ {w} : ~With(v, r)
    BY <2>6 DEF RacedWith, With
  <2>7. CASE /\ pc[w] = "check" /\ pc'[w] = "replying"
             /\ answering'[w] = answering[w] /\ answering[w] \notin replied
             /\ raced' = raced \cup RacedWith(w) /\ UNCHANGED <<answers, replied>>
    <3>1. CASE r = answering[w]
      <4>1. \A v \in Workers \ {w} : ~With(v, r)
        BY <2>6, <2>7, <3>1
      <4>2. answers[r] = 0 /\ r \notin replied
        BY <2>3, <2>7, <3>1, <4>1 DEF With
      <4> QED BY <2>1, <2>4, <2>7, <4>1, <4>2 DEF With
    <3>2. CASE r # answering[w]
      <4>1. ~With(w, r)'
        BY <2>7, <3>2 DEF With
      <4> QED BY <2>1, <2>3, <2>4, <2>7, <3>2, <4>1 DEF With
    <3> QED BY <3>1, <3>2
  <2>8. CASE /\ pc'[w] = "mark" /\ answering'[w] = answering[w]
             /\ answers' = [answers EXCEPT ![answering[w]] = @ + 1]
             /\ replied' = replied
             /\ \/ pc[w] = "replying" /\ raced' = raced
                \/ /\ pc[w] = "check" /\ answering[w] \notin replied
                   /\ raced' = raced \cup RacedWith(w)
    <3>1. CASE r = answering[w]
      <4>1. \A v \in Workers \ {w} : ~With(v, r)
        BY <2>3, <2>6, <2>8, <3>1 DEF With
      <4>2. answers[r] = 0
        BY <2>3, <2>8, <3>1, <4>1 DEF With
      <4>3. answers'[r] = 1
        BY <2>8, <3>1, <4>2 DEF TypeOK
      <4> QED BY <2>1, <2>4, <2>8, <3>1, <4>1, <4>3 DEF With
    <3>2. CASE r # answering[w]
      <4>1. ~With(w, r)' /\ answers'[r] = answers[r]
        BY <2>8, <3>2 DEF With, TypeOK
      <4> QED BY <2>1, <2>3, <2>4, <2>8, <3>2, <4>1 DEF With
    <3> QED BY <3>1, <3>2
  <2>9. CASE /\ pc[w] = "mark" /\ pc'[w] \in {"idle", "handle"}
             /\ replied' = replied \cup {answering[w]}
             /\ UNCHANGED <<answers, raced>>
    <3>1. ~With(w, r)'
      BY <2>9 DEF With
    <3>2. CASE r = answering[w]
      <4>1. \A v \in Workers \ {w} : ~With(v, r)
        BY <2>3, <2>9, <3>2 DEF With
      <4> QED BY <2>1, <2>3, <2>4, <2>9, <3>1, <3>2, <4>1 DEF With
    <3>3. CASE r # answering[w]
      BY <2>1, <2>3, <2>4, <2>9, <3>1, <3>3 DEF With
    <3> QED BY <3>2, <3>3
  <2> QED BY <1>2, <2>2, <2>5, <2>7, <2>8, <2>9, AnswerSteps
<1> QED BY <1>1, <1>2, NextIsAct

(* A worker passes on, marks or lets go what it had or takes. *)
LEMMA WorkKept ==
  ASSUME TypeOK, NEW w \in Workers, WorkerAct(w)
  PROVE  /\ open \subseteq open' /\ replied \subseteq replied'
         /\ dropped \subseteq dropped' /\ raced \subseteq raced'
         /\ Range(requests) \subseteq {NoRequest} \cup Range(requests') \cup open'
                                      \cup dropped' \cup Range(batch'[w])
         /\ Range(batch[w]) \cup {answering[w]} \subseteq
              {Nobody} \cup Range(batch'[w]) \cup {answering'[w]}
                \cup dropped' \cup replied'
<1>0. WorkerFits(pc[w], batch[w], answering[w], requestOf)
  BY DEF TypeOK
<1>1. ASSUME Abandon(w)
      PROVE  /\ dropped \subseteq dropped'
             /\ Range(batch[w]) \cup {answering[w]} \subseteq {Nobody} \cup dropped'
  BY <1>1 DEF Abandon
<1>2. ASSUME NEW taken \in Takeable, Take(w, taken), GiveToProgram(taken)
      PROVE  /\ open \subseteq open' /\ dropped \subseteq dropped'
             /\ Range(requests) \subseteq
                  {NoRequest} \cup Range(requests') \cup open' \cup dropped'
  BY <1>2, Taken DEF GiveToProgram, Refuse
<1>3. ASSUME NEW taken \in Takeable, Take(w, taken), GiveToHandler(w, taken),
             UNCHANGED answering
      PROVE  /\ dropped \subseteq dropped'
             /\ Range(requests) \subseteq
                  {NoRequest} \cup Range(requests') \cup dropped' \cup Range(batch'[w])
             /\ Range(batch[w]) \cup {answering[w]} \subseteq {Nobody}
  <2>1. /\ batch[w] = <<>> /\ answering[w] = Nobody
        /\ Range(requests) = Range(taken) \cup Range(requests')
    BY <1>3, Taken
  <2>2. \/ dropped' = dropped \cup (Range(taken) \ {NoRequest})
        \/ batch'[w] = taken /\ dropped' = dropped
    BY <1>3 DEF GiveToHandler, Refuse, TypeOK
  <2> QED BY <2>1, <2>2, RangeOfEmpty
<1>4. CASE ReceiveRequests(w) \/ AsyncReceiveRequests(w)
  BY <1>2, <1>4 DEF ReceiveRequests, AsyncReceiveRequests, AsyncTake
<1>5. CASE ServeRequests(w) \/ AsyncServeRequests(w)
  BY <1>3, <1>5 DEF ServeRequests, AsyncServeRequests, AsyncTake
<1>6. CASE StartAnswer(w)
  BY <1>0, <1>6 DEF StartAnswer, WorkerFits
<1>7. CASE CallHandler(w)
  <2>1. CASE /\ answering' = [answering EXCEPT ![w] = Head(batch[w])]
             /\ batch' = [batch EXCEPT ![w] = Tail(@)] /\ UNCHANGED dropped
    <3>1. answering[w] = Nobody /\ batch[w] \in Seq(Sent(requestOf)) /\ batch[w] # <<>>
      BY <1>0, <1>7 DEF CallHandler, WorkerFits
    <3>2. Range(batch[w]) = {Head(batch[w])} \cup Range(Tail(batch[w]))
      BY <3>1, RangeOfHeadAndTail
    <3>3. answering'[w] = Head(batch[w]) /\ batch'[w] = Tail(batch[w])
      BY <2>1 DEF TypeOK
    <3> QED BY <1>7, <2>1, <3>1, <3>2, <3>3 DEF CallHandler
  <2> QED BY <1>1, <1>7, <2>1 DEF CallHandler
<1>8. CASE CheckReplied(w) \/ EmitReply(w) \/ AsyncReply(w)
  <2>1. UNCHANGED <<requests, replied, open>> /\ raced \subseteq raced'
    BY <1>8 DEF CheckReplied, EmitReply, AsyncReply
  <2> QED BY <1>1, <1>8, <2>1 DEF CheckReplied, EmitReply, AsyncReply
<1>9. CASE MarkReplied(w)
  BY <1>9 DEF MarkReplied
<1>10. CASE LoseResult(w)
  BY <1>1, <1>10 DEF LoseResult
<1> QED BY <1>4, <1>5, <1>6, <1>7, <1>8, <1>9, <1>10
        DEF WorkerAct, WorkerStep, HandleRequest, AsyncHandleRequest

LEMMA NextForgotten ==
  ASSUME TypeOK, NoRequestForgotten, [Next]_vars
  PROVE  NoRequestForgotten'
<1>0. /\ requestOf \in Seq(Nat) /\ requests \in Seq(Nat)
      /\ Nobody \notin DOMAIN requestOf /\ NoRequest \notin DOMAIN requestOf
      /\ DOMAIN requestOf = 1..Len(requestOf) /\ Len(requestOf) \in Nat
  <2>1. requestOf \in Seq(Nat) /\ requests \in Seq(Nat)
    BY DEF TypeOK
  <2> QED BY <2>1 DEF Nobody, NoRequest
<1>1. ASSUME NEW c \in Callers, CallerAct(c)
      PROVE  NoRequestForgotten'
  <2>1. UNCHANGED serviceVars
    BY <1>1, CallerFrame
  <2>2. CASE UNCHANGED <<requestOf, requests>>
    BY <2>1, <2>2 DEF NoRequestForgotten, serviceVars
  <2>3. ASSUME NEW id \in Nat, requestOf' = Append(requestOf, id),
               requests' = Append(requests, Len(requestOf) + 1)
        PROVE  NoRequestForgotten'
    <3>1. /\ DOMAIN requestOf' = 1..(Len(requestOf) + 1)
          /\ Range(requests') = Range(requests) \cup {Len(requestOf) + 1}
      BY <1>0, <2>3, Appended, RangeOfAppended
    <3>2. \A r \in DOMAIN requestOf' : r \in DOMAIN requestOf \/ r = Len(requestOf) + 1
      BY <1>0, <3>1
    <3> QED BY <2>1, <3>1, <3>2 DEF NoRequestForgotten, serviceVars
  <2> QED BY <1>1, <2>2, <2>3, CallerOwn
<1>2. ASSUME NEW w \in Workers, WorkerAct(w)
      PROVE  NoRequestForgotten'
  <2>1. /\ requestOf' = requestOf
        /\ \A v \in Workers \ {w} : batch'[v] = batch[v] /\ answering'[v] = answering[v]
    BY <1>2, WorkerFrame
  <2> SUFFICES ASSUME NEW r \in DOMAIN requestOf
               PROVE  \/ r \in Range(requests') \cup open' \cup replied' \cup dropped'
                               \cup raced'
                      \/ \E v \in Workers : r \in Range(batch'[v]) \cup {answering'[v]}
    BY <2>1 DEF NoRequestForgotten
  <2>2. r # Nobody /\ r # NoRequest
    BY <1>0
  <2>3. CASE r \in Range(requests) \cup open \cup replied \cup dropped \cup raced
    BY <1>2, <2>2, <2>3, WorkKept
  <2>4. ASSUME NEW v \in Workers, r \in Range(batch[v]) \cup {answering[v]}
        PROVE  \/ r \in replied' \cup dropped'
               \/ \E u \in Workers : r \in Range(batch'[u]) \cup {answering'[u]}
    BY <1>2, <2>1, <2>2, <2>4, WorkKept
  <2> QED BY <2>3, <2>4 DEF NoRequestForgotten
<1>3. CASE Stray
  <2>1. Range(requests) \subseteq Range(requests')
    <3>1. NoRequest \in Nat
      BY DEF NoRequest
    <3>2. Range(Append(requests, NoRequest)) = Range(requests) \cup {NoRequest}
      BY <1>0, <3>1, RangeOfAppended
    <3> QED BY <1>3, <3>2 DEF Stray
  <2> QED BY <1>3, <2>1 DEF Stray, NoRequestForgotten, serviceVars
<1>4. CASE UNCHANGED vars
  BY <1>4 DEF vars, serviceVars, NoRequestForgotten
<1> QED BY <1>1, <1>2, <1>3, <1>4, NextIsAct

(***************************************************************************)
(* However many workers serve, in either style and with whatever raised or *)
(* cancelled, a request is answered at most once unless two replied to it  *)
(* at once or a reply's outcome was lost; and it is always in the queue,   *)
(* with a worker, with the program, answered, or its worker has raised     *)
(* (ServiceRequest.reply, ProcedureService._handle_request).               *)
(***************************************************************************)
THEOREM RequestsAnswered == Spec => []RequestsAccountedFor
<1>1. Init => NoRequestForgotten
  BY DEF Init, NoRequestForgotten
<1>2. /\ TypeOK /\ AnswerInv /\ [Next]_vars => AnswerInv'
      /\ TypeOK /\ NoRequestForgotten /\ [Next]_vars => NoRequestForgotten'
  BY NextAnswer, NextForgotten
<1>3. AnswerInv /\ NoRequestForgotten => RequestsAccountedFor
  BY DEF AnswerInv, RequestsAccountedFor, AnsweredOnce
<1> QED BY InitAnswer, Typing, <1>1, <1>2, <1>3, PTL DEF Spec

------------------------------------------------------------------------------
(* The limits. *)

LEMMA Fewer ==
  ASSUME NEW S, IsFiniteSet(S), NEW T \in SUBSET S
  PROVE  /\ IsFiniteSet(T) /\ Cardinality(T) \in Nat /\ Cardinality(S) \in Nat
         /\ Cardinality(T) <= Cardinality(S)
  BY FS_Subset, FS_CardinalityType

LEMMA SendingFinite ==
  /\ Sending \subseteq Callers /\ IsFiniteSet(Sending) /\ Cardinality(Sending) \in Nat
  /\ Cardinality(Sending) <= Cardinality(Callers)
<1>1. Sending \subseteq Callers
  BY DEF Sending
<1> QED BY <1>1, Fewer, ConstantsAssumption

(* A caller starts, hands its request over, or neither. *)
LEMMA SendingSteps ==
  ASSUME TypeOK, NEW c \in Callers, CallerAct(c)
  PROVE  /\ ~overlapped' => ~overlapped
         /\ \/ Sending' \subseteq Sending /\ pending' \subseteq pending
            \/ /\ c \notin Sending /\ Sending' = Sending \cup {c}
               /\ CanStart /\ pending' = pending
               /\ ~overlapped' => \A d \in Callers \ {c} : pc[d] = "idle"
            \/ /\ c \in Sending /\ Sending' = Sending \ {c}
               /\ pending' = pending \cup {handle[c]}
<1> USE DEF clientVars, historyVars, boundVars
<1>0. \A d \in Callers \ {c} : pc'[d] = pc[d]
  BY CallerFrame
<1>1. ASSUME NEW label, Goto(c, label) PROVE pc'[c] = label
  BY <1>1 DEF Goto, TypeOK
<1>2. ASSUME pc'[c] \notin {"emit", "emitted", "recorded"} \/ c \in Sending
      PROVE  Sending' \subseteq Sending
  BY <1>0, <1>2 DEF Sending
<1>3. CASE StartSend(c) \/ AsyncSend(c)
  <2>1. /\ pc[c] = "idle" /\ CanStart /\ pending' = pending /\ Enter(c)
        /\ pc'[c] \in {"emit", "emitted"}
    BY <1>1, <1>3 DEF StartSend, AsyncSend, Publish
  <2>2. c \notin Sending /\ Sending' = Sending \cup {c}
    BY <1>0, <2>1 DEF Sending
  <2> QED BY <2>1, <2>2 DEF Enter
<1>4. CASE StartReceive(c)
  <2>1. pc'[c] = "validate" /\ pending' = pending /\ Enter(c)
    BY <1>1, <1>4 DEF StartReceive
  <2> QED BY <1>2, <2>1 DEF Enter
<1>5. CASE EmitRequest(c)
  <2>1. c \in Sending
    BY <1>5 DEF EmitRequest, Sending
  <2> QED BY <1>2, <1>5, <2>1 DEF EmitRequest
<1>6. CASE RecordRequest(c)
  <2>1. c \in Sending
    BY <1>6 DEF RecordRequest, Sending
  <2> QED BY <1>2, <1>6, <2>1 DEF RecordRequest
<1>7. CASE AddPending(c) \/ AsyncRecord(c)
  <2>1. c \in Sending /\ overlapped' = overlapped
    BY <1>7 DEF AddPending, AsyncRecord, Sending
  <2>2. CASE HandOver(c)
    <3>1. pc'[c] \in {"validate", "idle"} /\ pending' = pending \cup {handle[c]}
      BY <1>1, <2>2 DEF HandOver
    <3>2. Sending' = Sending \ {c}
      BY <1>0, <3>1 DEF Sending
    <3> QED BY <2>1, <3>1, <3>2
  <2>3. CASE GiveUp(c) /\ UNCHANGED pending
    BY <1>2, <2>1, <2>3
  <2> QED BY <1>7, <2>2, <2>3 DEF AddPending, AsyncRecord
<1>8. CASE ValidatePending(c) \/ ReceiveReply(c) \/ ReadMessage(c) \/ CancelReceive(c)
  <2>1. pc'[c] \in {"take", "matched", "read", "got", "idle"}
    BY <1>1, <1>8 DEF ValidatePending, ReceiveReply, ReadMessage, CancelReceive, Leave
  <2> QED BY <1>2, <1>8, <2>1 DEF ValidatePending, ReceiveReply, ReadMessage,
                                  CancelReceive
<1>9. CASE \/ AsyncReceiveReply(c) \/ ProcessMessage(c) \/ CompleteRequest(c)
           \/ AsyncReadMessage(c)
  <2>1. pc'[c] \in {"matched", "read", "idle"}
    BY <1>1, <1>9 DEF AsyncReceiveReply, ProcessMessage, CompleteRequest,
       AsyncReadMessage, Finish, SortOut, Hold, ReadOn, Leave
  <2>2. pending' \subseteq pending /\ overlapped' = overlapped
    BY <1>9 DEF AsyncReceiveReply, ProcessMessage, CompleteRequest, AsyncReadMessage,
       Finish
  <2> QED BY <1>2, <2>1, <2>2
<1> QED BY <1>3, <1>4, <1>5, <1>6, <1>7, <1>8, <1>9 DEF CallerAct, CallerStep

(* The buffer grows by one if there is room; the cache drops its oldest. *)
LEMMA RoomSteps ==
  ASSUME TypeOK, NEW c \in Callers, CallerAct(c)
  PROVE  /\ \/ held' \subseteq held
            \/ \E h : /\ held' = held \cup {h}
                      /\ Cardinality(held) < program.maxReady
         /\ retired' = retired \/ retired' = Retire(handle[c])
<1> USE DEF clientVars, historyVars, boundVars
<1>1. ASSUME NEW m, SortOut(c, m)
      PROVE  \/ held' \subseteq held
             \/ \E h : held' = held \cup {h} /\ Cardinality(held) < program.maxReady
  BY <1>1 DEF SortOut, Hold
<1>2. CASE \/ StartSend(c) \/ AsyncSend(c) \/ StartReceive(c) \/ EmitRequest(c)
           \/ RecordRequest(c) \/ AddPending(c) \/ AsyncRecord(c)
  BY <1>2 DEF StartSend, AsyncSend, StartReceive, EmitRequest, RecordRequest,
       AddPending, AsyncRecord
<1>3. CASE \/ ValidatePending(c) \/ ReceiveReply(c) \/ ReadMessage(c)
           \/ CancelReceive(c) \/ AsyncReceiveReply(c)
  BY <1>3 DEF ValidatePending, ReceiveReply, ReadMessage, CancelReceive, TakeReply,
       AsyncReceiveReply, Finish
<1>4. CASE ProcessMessage(c) \/ CompleteRequest(c) \/ AsyncReadMessage(c)
  BY <1>1, <1>4 DEF ProcessMessage, CompleteRequest, AsyncReadMessage, Finish
<1> QED BY <1>2, <1>3, <1>4 DEF CallerAct, CallerStep

LEMMA InitLimits == Init => LimitInv
<1> SUFFICES ASSUME Init PROVE LimitInv
  OBVIOUS
<1>1. Cardinality(held) = 0 /\ Cardinality(pending) = 0 /\ Len(retired) = 0
  BY FS_EmptySet DEF Init
<1>2. Sending = {} /\ Cardinality(Sending) = 0
  <2>1. \A c \in Callers : pc[c] = "idle"
    BY DEF Init
  <2> QED BY <2>1, FS_EmptySet DEF Sending
<1>3. Cardinality(Callers) \in Nat \ {0}
  BY ConstantsAssumption, FS_CardinalityType, FS_EmptySet
<1>4. program \in Programs
  BY DEF Init
<1> QED BY <1>1, <1>2, <1>3, <1>4, Limits DEF LimitInv, LimitsKept

LEMMA NextLimits ==
  ASSUME TypeOK, LimitInv, [Next]_vars
  PROVE  LimitInv'
<1>1. CASE \/ \E w \in Workers : WorkerAct(w)
           \/ Stray \/ UNCHANGED vars
  <2>1. UNCHANGED <<held, pending, retired, program, overlapped>>
    BY <1>1, WorkerFrame DEF Stray, vars, kind, clientVars, historyVars
  <2>2. \A c \in Callers : pc'[c] = pc[c]
    BY <1>1, WorkerFrame DEF Stray, vars
  <2> QED BY <2>1, <2>2 DEF LimitInv, LimitsKept, Sending
<1>2. ASSUME NEW c \in Callers, CallerAct(c)
      PROVE  LimitInv'
  <2>0. /\ program' = program
        /\ program.maxPending \in Nat /\ program.maxReady \in Nat
        /\ program.maxRetired \in Nat
        /\ IsFiniteSet(pending) /\ IsFiniteSet(held) /\ retired \in Seq(Nat)
        /\ Cardinality(pending) \in Nat /\ Cardinality(held) \in Nat
        /\ Cardinality(Callers) \in Nat
    BY <1>2, CallerFrame, Limits, FS_CardinalityType, ConstantsAssumption
       DEF TypeOK, kind
  <2>1. Cardinality(held') <= program.maxReady
    <3>1. Cardinality(held) <= program.maxReady
      BY DEF LimitInv, LimitsKept
    <3>2. CASE held' \subseteq held
      BY <2>0, <3>1, <3>2, Fewer
    <3>3. ASSUME NEW h, held' = held \cup {h}, Cardinality(held) < program.maxReady
          PROVE  Cardinality(held') <= program.maxReady
      <4>1. \/ Cardinality(held \cup {h}) = Cardinality(held)
            \/ Cardinality(held \cup {h}) = Cardinality(held) + 1
        BY <2>0, FS_AddElement
      <4> QED BY <2>0, <3>3, <4>1
    <3> QED BY <1>2, <3>2, <3>3, RoomSteps
  <2>2. Len(retired') <= program.maxRetired
    <3>1. Len(retired) <= program.maxRetired
      BY DEF LimitInv, LimitsKept
    <3>2. CASE retired' = Retire(handle[c])
      <4>1. handle[c] \in Nat
        <5>1. requestOf \in Seq(Nat) /\ handle[c] \in {Nobody} \cup Sent(requestOf)
          BY DEF TypeOK, CallerFits
        <5> QED BY <5>1 DEF Nobody, Sent
      <4>2. /\ Append(retired, handle[c]) \in Seq(Nat) /\ Len(retired) \in Nat
            /\ Len(Append(retired, handle[c])) = Len(retired) + 1
        BY <2>0, <4>1, Appended
      <4>3. Append(retired, handle[c]) # <<>>
        BY <4>2
      <4>4. Len(Tail(Append(retired, handle[c]))) = Len(retired)
        BY <4>2, <4>3, HeadAndTail
      <4> QED BY <2>0, <3>1, <3>2, <4>2, <4>4 DEF Retire
    <3> QED BY <1>2, <3>1, <3>2, RoomSteps
  <2>3. /\ Cardinality(pending') \in Nat /\ Cardinality(Sending') \in Nat
        /\ Cardinality(pending') + Cardinality(Sending')
             < program.maxPending + Cardinality(Callers)
        /\ ~overlapped' =>
             Cardinality(pending') + Cardinality(Sending') <= program.maxPending
    <3>1. /\ Cardinality(pending) + Cardinality(Sending)
               < program.maxPending + Cardinality(Callers)
          /\ ~overlapped =>
               Cardinality(pending) + Cardinality(Sending) <= program.maxPending
      BY DEF LimitInv, LimitsKept
    <3>2. /\ IsFiniteSet(Sending) /\ Cardinality(Sending) \in Nat
          /\ Sending' \subseteq Callers
      BY SendingFinite DEF Sending
    <3>3. CASE Sending' \subseteq Sending /\ pending' \subseteq pending
      <4>1. /\ Cardinality(pending') \in Nat /\ Cardinality(Sending') \in Nat
            /\ Cardinality(pending') <= Cardinality(pending)
            /\ Cardinality(Sending') <= Cardinality(Sending)
        BY <2>0, <3>2, <3>3, Fewer
      <4> QED BY <1>2, <2>0, <3>1, <3>2, <4>1, SendingSteps
    <3>4. CASE /\ c \notin Sending /\ Sending' = Sending \cup {c}
               /\ CanStart /\ pending' = pending
               /\ ~overlapped' => \A d \in Callers \ {c} : pc[d] = "idle"
      <4>1. Cardinality(pending) < program.maxPending
        BY <3>4 DEF CanStart
      <4>2. /\ Cardinality(Sending') = Cardinality(Sending) + 1
            /\ Cardinality(Sending') <= Cardinality(Callers)
        BY <3>2, <3>4, FS_AddElement, Fewer, ConstantsAssumption
      <4>3. ~overlapped' => Cardinality(Sending) = 0
        <5>1. ~overlapped' => Sending = {}
          BY <3>4 DEF Sending
        <5> QED BY <5>1, FS_EmptySet
      <4> QED BY <2>0, <3>2, <3>4, <4>1, <4>2, <4>3
    <3>5. CASE /\ c \in Sending /\ Sending' = Sending \ {c}
               /\ pending' = pending \cup {handle[c]}
      <4>1. /\ Cardinality(Sending') = Cardinality(Sending) - 1
            /\ Cardinality(Sending) # 0
        BY <3>2, <3>5, FS_RemoveElement, FS_EmptySet
      <4>2. \/ Cardinality(pending') = Cardinality(pending)
            \/ Cardinality(pending') = Cardinality(pending) + 1
        BY <2>0, <3>5, FS_AddElement
      <4> QED BY <1>2, <2>0, <3>1, <3>2, <4>1, <4>2, SendingSteps
    <3> QED BY <1>2, <3>3, <3>4, <3>5, SendingSteps
  <2>4. ~overlapped' => Cardinality(pending') <= program.maxPending
    BY <2>0, <2>3
  <2> QED BY <2>0, <2>1, <2>2, <2>3, <2>4 DEF LimitInv, LimitsKept
<1> QED BY <1>1, <1>2, NextIsAct

(***************************************************************************)
(* However many callers start at once, the replies put aside and the       *)
(* handles remembered never pass their limits, and the pending requests    *)
(* pass theirs by no more than one for each caller but one; callers that   *)
(* take turns keep it (_RequestLifecycleTable.ensure_can_start).           *)
(***************************************************************************)
THEOREM LimitsHold == Spec => []LimitsKept
<1>1. TypeOK /\ LimitInv /\ [Next]_vars => LimitInv'
  BY NextLimits
<1>2. LimitInv => LimitsKept
  BY DEF LimitInv
<1> QED BY InitLimits, Typing, <1>1, <1>2, PTL DEF Spec

------------------------------------------------------------------------------
(* Callers that take turns: nobody is stranded. *)

LEMMA EnterSteps ==
  ASSUME TypeOK, NEW c \in Callers, CallerAct(c)
  PROVE  \/ pc[c] = "idle" /\ Enter(c)
         \/ pc[c] # "idle" /\ overlapped' = overlapped
<1> USE DEF clientVars, historyVars, boundVars
<1>1. CASE \/ StartSend(c) \/ AsyncSend(c) \/ StartReceive(c) \/ EmitRequest(c)
           \/ RecordRequest(c) \/ AddPending(c) \/ AsyncRecord(c) \/ ValidatePending(c)
  BY <1>1 DEF StartSend, AsyncSend, StartReceive, EmitRequest, RecordRequest,
       AddPending, AsyncRecord, ValidatePending
<1>2. CASE \/ ReceiveReply(c) \/ AsyncReceiveReply(c) \/ ReadMessage(c)
           \/ ProcessMessage(c) \/ CompleteRequest(c) \/ AsyncReadMessage(c)
           \/ CancelReceive(c)
  BY <1>2 DEF ReceiveReply, AsyncReceiveReply, ReadMessage, ProcessMessage,
       CompleteRequest, AsyncReadMessage, CancelReceive
<1> QED BY <1>1, <1>2 DEF CallerAct, CallerStep

LEMMA TakingTurns ==
  ASSUME TypeOK, TurnInv, NEW c \in Callers, CallerAct(c), ~overlapped'
  PROVE  /\ ~overlapped
         /\ \A d \in Callers \ {c} : pc[d] = "idle" /\ pc'[d] = "idle"
<1>1. \A d \in Callers \ {c} : pc'[d] = pc[d]
  BY CallerFrame
<1>2. ~overlapped /\ \A d \in Callers \ {c} : pc[d] = "idle"
  BY EnterSteps DEF Enter, TurnInv
<1> QED BY <1>1, <1>2

LEMMA NextTurn ==
  ASSUME TypeOK, TurnInv, [Next]_vars
  PROVE  TurnInv'
<1>1. CASE \/ \E w \in Workers : WorkerAct(w)
           \/ Stray \/ UNCHANGED vars
  <2>1. overlapped' = overlapped /\ \A c \in Callers : pc'[c] = pc[c]
    BY <1>1, WorkerFrame DEF Stray, vars, historyVars
  <2> QED BY <2>1 DEF TurnInv
<1>2. ASSUME NEW c \in Callers, CallerAct(c)
      PROVE  TurnInv'
  BY <1>2, TakingTurns DEF TurnInv
<1> QED BY <1>1, <1>2, NextIsAct

(* A caller reads on only when the buffer has nothing for it. *)
LEMMA ReadSteps ==
  ASSUME TypeOK, NEW c \in Callers, CallerAct(c), pc'[c] \in {"read", "got"}
  PROVE  /\ handle'[c] = handle[c]
         /\ \/ handle[c] \notin held'
            \/ pc[c] \in {"read", "got"} /\ (handle[c] \in held' => handle[c] \in held)
<1> USE DEF clientVars, historyVars, boundVars
<1>1. ASSUME NEW label, Goto(c, label) PROVE pc'[c] = label
  BY <1>1 DEF Goto, TypeOK
<1>2. \/ ReceiveReply(c) \/ AsyncReceiveReply(c) \/ ReadMessage(c)
      \/ ProcessMessage(c) \/ AsyncReadMessage(c)
  <2>1. ~(StartSend(c) \/ AsyncSend(c) \/ StartReceive(c) \/ EmitRequest(c))
    BY <1>1 DEF StartSend, AsyncSend, StartReceive, EmitRequest, Publish, GiveUp
  <2>2. ~(RecordRequest(c) \/ AddPending(c) \/ AsyncRecord(c) \/ ValidatePending(c))
    BY <1>1 DEF RecordRequest, AddPending, AsyncRecord, ValidatePending, HandOver,
         GiveUp, Leave
  <2>3. ~(CompleteRequest(c) \/ CancelReceive(c))
    BY <1>1 DEF CompleteRequest, CancelReceive, Finish, Leave
  <2> QED BY <2>1, <2>2, <2>3 DEF CallerAct, CallerStep
<1>3. CASE ReceiveReply(c) \/ AsyncReceiveReply(c)
  <2>1. handle' = handle /\ held' = held /\ ~TakeHeld(c)
    BY <1>1, <1>3 DEF ReceiveReply, AsyncReceiveReply, Finish, Leave
  <2> QED BY <2>1 DEF TakeHeld
<1>4. CASE ReadMessage(c)
  BY <1>4 DEF ReadMessage
<1>5. ASSUME NEW m, SortOut(c, m), pc[c] \in {"read", "got"}
      PROVE  /\ handle'[c] = handle[c]
             /\ handle[c] \in held' => handle[c] \in held
  <2>1. ~Leave(c)
    BY <1>1 DEF Leave
  <2>2. handle' = handle
    BY <1>5, <2>1 DEF SortOut, Hold, ReadOn
  <2>3. held' = held \/ (held' = held \cup {m.to} /\ IsReply(m)
                         /\ m.correlation = requestOf[m.to] /\ ~Matches(c, m))
    BY <1>5, <2>1 DEF SortOut, Hold
  <2> QED BY <2>2, <2>3 DEF Matches
<1>6. CASE ProcessMessage(c) \/ AsyncReadMessage(c)
  <2>1. pc[c] \in {"read", "got"}
    BY <1>6 DEF ProcessMessage, AsyncReadMessage
  <2>2. (\E m : SortOut(c, m))
    BY <1>1, <1>6 DEF ProcessMessage, AsyncReadMessage, Finish, Leave
  <2> QED BY <1>5, <2>1, <2>2
<1> QED BY <1>2, <1>3, <1>4, <1>6

LEMMA NextStranded ==
  ASSUME TypeOK, TurnInv, StrandedInv, [Next]_vars
  PROVE  StrandedInv'
<1>1. CASE \/ \E w \in Workers : WorkerAct(w)
           \/ Stray \/ UNCHANGED vars
  <2>1. UNCHANGED <<overlapped, held, handle>> /\ \A c \in Callers : pc'[c] = pc[c]
    BY <1>1, WorkerFrame DEF Stray, vars, historyVars, clientVars, callerVars
  <2> QED BY <2>1 DEF StrandedInv
<1>2. ASSUME NEW c \in Callers, CallerAct(c)
      PROVE  StrandedInv'
  <2> SUFFICES ASSUME ~overlapped', NEW d \in Callers, pc'[d] \in {"read", "got"}
               PROVE  handle'[d] \notin held'
    BY DEF StrandedInv
  <2>1. d = c /\ ~overlapped
    BY <1>2, TakingTurns
  <2> QED BY <1>2, <2>1, ReadSteps DEF StrandedInv
<1> QED BY <1>1, <1>2, NextIsAct

LEMMA TakeTurns == Spec => [](TypeOK /\ TurnInv /\ StrandedInv)
<1>1. Init => TurnInv /\ StrandedInv
  <2>1. Init => \A c \in Callers : pc[c] = "idle"
    BY DEF Init
  <2> QED BY <2>1 DEF TurnInv, StrandedInv
<1>2. TypeOK /\ TurnInv /\ StrandedInv /\ [Next]_vars => TurnInv' /\ StrandedInv'
  BY NextTurn, NextStranded
<1> QED BY Typing, <1>1, <1>2, PTL DEF Spec

(***************************************************************************)
(* No caller of those that take turns waits for a message while its own    *)
(* reply lies in the buffer: whatever another call has put aside is found  *)
(* (Requester.receive_reply, which asks _ReplyBuffer.take first).          *)
(***************************************************************************)
THEOREM NobodyWaitsInVain == Spec => []NobodyStranded
<1>1. StrandedInv => NobodyStranded
  BY DEF StrandedInv, NobodyStranded
<1> QED BY TakeTurns, <1>1, PTL

------------------------------------------------------------------------------
(* Callers that take turns: no reply is lost. *)

Emitting == {c \in Callers : pc[c] = "emit"}

LEMMA BoundSteps ==
  ASSUME TypeOK, NEW c \in Callers, CallerAct(c)
  PROVE  \/ /\ c \notin Emitting /\ Emitting' = Emitting \cup {c}
            /\ Attempts < MaxRequests /\ requestOf' = requestOf
         \/ /\ c \in Emitting /\ Emitting' = Emitting \ {c}
            /\ requestOf' = requestOf \/ \E id \in Nat : requestOf' = Append(requestOf, id)
         \/ /\ Attempts < MaxRequests /\ Emitting' = Emitting
            /\ \E id \in Nat : requestOf' = Append(requestOf, id)
         \/ Emitting' = Emitting /\ requestOf' = requestOf
<1> USE DEF clientVars, historyVars, boundVars
<1>0. (\A d \in Callers \ {c} : pc'[d] = pc[d])
  BY CallerFrame
<1>1. ASSUME NEW label, Goto(c, label) PROVE pc'[c] = label
  BY <1>1 DEF Goto, TypeOK
<1>2. ASSUME pc[c] # "emit", pc'[c] # "emit"
      PROVE  Emitting' = Emitting
  BY <1>0, <1>2 DEF Emitting
<1>3. CASE StartSend(c)
  <2>1. pc[c] = "idle" /\ pc'[c] = "emit"
    BY <1>1, <1>3 DEF StartSend
  <2>2. c \notin Emitting /\ Emitting' = Emitting \cup {c}
    BY <1>0, <2>1 DEF Emitting
  <2> QED BY <1>3, <2>2 DEF StartSend
<1>4. CASE AsyncSend(c)
  <2>1. pc[c] = "idle" /\ pc'[c] = "emitted"
    BY <1>1, <1>4 DEF AsyncSend, Publish
  <2> QED BY <1>2, <1>4, <2>1 DEF AsyncSend, Publish, TypeOK
<1>5. CASE EmitRequest(c)
  <2>1. pc[c] = "emit" /\ pc'[c] # "emit"
    BY <1>1, <1>5 DEF EmitRequest, Publish, GiveUp
  <2>2. c \in Emitting /\ Emitting' = Emitting \ {c}
    BY <1>0, <2>1 DEF Emitting
  <2> QED BY <1>5, <2>2 DEF EmitRequest, Publish, TypeOK
<1>6. CASE \/ StartReceive(c) \/ RecordRequest(c) \/ AddPending(c) \/ AsyncRecord(c)
           \/ ValidatePending(c)
  <2>1. pc[c] # "emit" /\ pc'[c] # "emit" /\ requestOf' = requestOf
    BY <1>1, <1>6 DEF StartReceive, RecordRequest, AddPending, AsyncRecord,
       ValidatePending, HandOver, GiveUp, Leave
  <2> QED BY <1>2, <2>1
<1>7. CASE \/ ReceiveReply(c) \/ AsyncReceiveReply(c) \/ ReadMessage(c)
           \/ ProcessMessage(c) \/ CompleteRequest(c) \/ AsyncReadMessage(c)
           \/ CancelReceive(c)
  <2>1. pc[c] # "emit" /\ pc'[c] # "emit" /\ requestOf' = requestOf
    BY <1>1, <1>7 DEF ReceiveReply, AsyncReceiveReply, ReadMessage, ProcessMessage,
       CompleteRequest, AsyncReadMessage, CancelReceive, Finish, SortOut, Hold, ReadOn,
       Leave
  <2> QED BY <1>2, <2>1
<1> QED BY <1>3, <1>4, <1>5, <1>6, <1>7 DEF CallerAct, CallerStep

LEMMA NextBound ==
  ASSUME TypeOK, BoundInv, [Next]_vars
  PROVE  BoundInv'
<1>0. Attempts = Len(requestOf) + Cardinality(Emitting)
      /\ Attempts' = Len(requestOf') + Cardinality(Emitting')
  BY DEF Attempts, Emitting
<1>1. CASE \/ \E w \in Workers : WorkerAct(w)
           \/ Stray \/ UNCHANGED vars
  <2>1. requestOf' = requestOf /\ \A c \in Callers : pc'[c] = pc[c]
    BY <1>1, WorkerFrame DEF Stray, vars
  <2>2. Emitting' = Emitting
    BY <2>1 DEF Emitting
  <2> QED BY <1>0, <2>1, <2>2 DEF BoundInv
<1>2. ASSUME NEW c \in Callers, CallerAct(c)
      PROVE  BoundInv'
  <2>1. /\ IsFiniteSet(Emitting) /\ Cardinality(Emitting) \in Nat
        /\ requestOf \in Seq(Nat) /\ Len(requestOf) \in Nat /\ MaxRequests \in Nat
    <3>1. Emitting \subseteq Callers
      BY DEF Emitting
    <3> QED BY <3>1, Fewer, ConstantsAssumption DEF TypeOK
  <2>2. \A id \in Nat : Len(Append(requestOf, id)) = Len(requestOf) + 1
    BY <2>1
  <2>3. Cardinality(Emitting \cup {c}) <= Cardinality(Emitting) + 1
        /\ Cardinality(Emitting \cup {c}) \in Nat
    <3>1. Cardinality(Emitting \cup {c}) =
            IF c \in Emitting THEN Cardinality(Emitting) ELSE Cardinality(Emitting) + 1
      BY <2>1, FS_AddElement
    <3> QED BY <2>1, <3>1
  <2>4. c \in Emitting => Cardinality(Emitting \ {c}) = Cardinality(Emitting) - 1
    BY <2>1, FS_RemoveElement
  <2>5. Len(requestOf) + Cardinality(Emitting) <= MaxRequests
    BY <1>0 DEF BoundInv
  <2> DEFINE now == Cardinality(Emitting')
             sent == Len(requestOf')
  <2>6. \/ Attempts < MaxRequests /\ now <= Cardinality(Emitting) + 1 /\ now \in Nat
           /\ sent = Len(requestOf)
        \/ now = Cardinality(Emitting) - 1
           /\ (sent = Len(requestOf) \/ sent = Len(requestOf) + 1)
        \/ Attempts < MaxRequests /\ now = Cardinality(Emitting)
           /\ sent = Len(requestOf) + 1
        \/ now = Cardinality(Emitting) /\ sent = Len(requestOf)
    BY <1>2, <2>2, <2>3, <2>4, BoundSteps
  <2> HIDE DEF now, sent
  <2>7. sent + now <= MaxRequests
    BY <1>0, <2>1, <2>5, <2>6
  <2> QED BY <1>0, <2>7 DEF BoundInv, now, sent
<1> QED BY <1>1, <1>2, NextIsAct

(* Where the reply to a request is, as one caller sees it. *)
Near(c) == held \cup {replies[i].to : i \in DOMAIN replies} \cup {message[c].to}

LEMMA ReplySteps ==
  ASSUME TypeOK, NEW c \in Callers, CallerAct(c)
  PROVE  /\ lost \subseteq lost'
         /\ \A h \in Near(c) \ {Nobody} :
              \/ h \in Near(c)' \/ <<h, "full">> \in lost'
              \/ h \notin pendingRequests' /\ pc'[c] # "emitted"
<1> USE DEF clientVars, historyVars, boundVars
<1>0. /\ CallerFits(pc[c], handle[c], message[c], requestOf)
      /\ replies \in Seq(Messages)
      /\ \A i \in DOMAIN replies : MessageFits(replies[i], requestOf)
  BY DEF TypeOK
<1>1. ASSUME NEW label, Goto(c, label) PROVE pc'[c] = label
  BY <1>1 DEF Goto, TypeOK
<1>2. ASSUME NEW m PROVE message' = [message EXCEPT ![c] = m] => message'[c] = m
  BY DEF TypeOK
<1>3. CASE \/ StartSend(c) \/ AsyncSend(c) \/ StartReceive(c) \/ EmitRequest(c)
           \/ RecordRequest(c) \/ AddPending(c) \/ AsyncRecord(c)
  <2>1. UNCHANGED <<held, replies, message, lost>>
    BY <1>3 DEF StartSend, AsyncSend, StartReceive, EmitRequest, RecordRequest,
       AddPending, AsyncRecord
  <2> QED BY <2>1 DEF Near
<1>4. ASSUME NEW m, MessageFits(m, requestOf), SortOut(c, m)
      PROVE  /\ lost \subseteq lost' /\ held \subseteq held'
             /\ m.to = Nobody \/ m.to \in held' \/ <<m.to, "full">> \in lost'
                  \/ (m.to \notin pendingRequests /\ pc'[c] # "emitted")
  <2>1. pc'[c] \in {"read", "idle"}
    BY <1>1, <1>4 DEF SortOut, Hold, ReadOn, Leave
  <2>2. IsReply(m) /\ m.to # Nobody => m.correlation = requestOf[m.to]
    BY <1>4 DEF MessageFits
  <2>3. ~IsReply(m) => m.to = Nobody
    BY <1>4 DEF MessageFits
  <2> QED BY <1>4, <2>1, <2>2, <2>3 DEF SortOut, Hold, Discard
<1>5. CASE ValidatePending(c) \/ CancelReceive(c)
  <2>1. message[c] = NoMessage /\ UNCHANGED <<held, replies, lost>>
    BY <1>0, <1>5 DEF ValidatePending, CancelReceive, CallerFits
  <2> QED BY <2>1 DEF Near, NoMessage
<1>6. ASSUME NEW m, Finish(c, m)
      PROVE  handle[c] \notin pendingRequests' /\ pc'[c] = "idle"
  BY <1>1, <1>6 DEF Finish, Leave
<1>7. CASE ReceiveReply(c) \/ AsyncReceiveReply(c)
  <2>1. message[c] = NoMessage /\ UNCHANGED <<replies, lost>>
    BY <1>0, <1>7 DEF ReceiveReply, AsyncReceiveReply, CallerFits
  <2>2. CASE held' = held
    BY <2>1, <2>2 DEF Near, NoMessage
  <2>3. CASE held' = held \ {handle[c]} /\ message'[c].to = handle[c]
    BY <2>1, <2>3 DEF Near, NoMessage
  <2>4. CASE held' = held \ {handle[c]} /\ handle[c] \notin pendingRequests'
             /\ pc'[c] = "idle"
    BY <2>1, <2>4 DEF Near, NoMessage
  <2> QED BY <1>2, <1>6, <1>7, <2>2, <2>3, <2>4
          DEF ReceiveReply, AsyncReceiveReply, TakeReply, Reply
<1>8. ASSUME replies # <<>>, replies' = Tail(replies), pc[c] = "read"
      PROVE  /\ \A h \in Near(c) \ {Nobody} :
                  \/ h = Head(replies).to \/ h \in held
                  \/ \E i \in DOMAIN replies' : replies'[i].to = h
             /\ MessageFits(Head(replies), requestOf)
  <2>1. /\ DOMAIN replies = 1..Len(replies) /\ Len(replies) \in Nat
        /\ Head(replies) = replies[1] /\ DOMAIN replies' = 1..(Len(replies) - 1)
        /\ \A i \in 1..(Len(replies) - 1) : replies'[i] = replies[i + 1]
    BY <1>0, <1>8, HeadAndTail
  <2>2. message[c] = NoMessage /\ NoMessage.to = Nobody
    BY <1>0, <1>8 DEF CallerFits, NoMessage
  <2>3. ASSUME NEW i \in DOMAIN replies
        PROVE  \/ replies[i] = Head(replies)
               \/ \E j \in DOMAIN replies' : replies'[j] = replies[i]
    <3>1. CASE i = 1
      BY <2>1, <3>1
    <3>2. CASE i # 1
      <4>1. i - 1 \in DOMAIN replies' /\ replies'[i - 1] = replies[i]
        BY <2>1, <3>2
      <4> QED BY <4>1
    <3> QED BY <3>1, <3>2
  <2>4. MessageFits(Head(replies), requestOf)
    BY <1>0, <1>8, HeadAndTail
  <2> QED BY <2>2, <2>3, <2>4 DEF Near
<1>9. CASE ReadMessage(c)
  <2>1. message'[c] = Head(replies) /\ UNCHANGED <<held, lost>>
    BY <1>2, <1>9 DEF ReadMessage
  <2> QED BY <1>8, <1>9, <2>1 DEF ReadMessage, Near
<1>10. CASE ProcessMessage(c)
  <2>1. MessageFits(message[c], requestOf) /\ UNCHANGED <<replies, pendingRequests>>
    BY <1>0, <1>10 DEF CallerFits, ProcessMessage
  <2>2. CASE SortOut(c, message[c])
    BY <1>4, <2>1, <2>2 DEF Near
  <2> QED BY <1>10, <2>1, <2>2 DEF ProcessMessage, Near
<1>11. CASE CompleteRequest(c)
  <2>1. message[c].to = handle[c] /\ UNCHANGED <<replies, held, lost>>
    BY <1>0, <1>11 DEF CompleteRequest, CallerFits
  <2> QED BY <1>6, <1>11, <2>1 DEF CompleteRequest, Near
<1>12. CASE AsyncReadMessage(c)
  <2>1. CASE Matching(c, Head(replies)) /\ Finish(c, Head(replies))
             /\ UNCHANGED <<held, lost>>
    <3>1. Head(replies).to = handle[c] /\ handle[c] \notin pendingRequests'
          /\ pc'[c] = "idle"
      BY <1>6, <2>1 DEF Matching, Matches
    <3> QED BY <1>8, <1>12, <2>1, <3>1 DEF AsyncReadMessage, Near
  <2>2. CASE SortOut(c, Head(replies)) /\ UNCHANGED pendingRequests
    <3> DEFINE m == Head(replies)
    <3>1. MessageFits(m, requestOf) /\ UNCHANGED pendingRequests
      BY <1>8, <1>12, <2>2 DEF AsyncReadMessage
    <3>2. /\ lost \subseteq lost' /\ held \subseteq held'
          /\ m.to = Nobody \/ m.to \in held' \/ <<m.to, "full">> \in lost'
               \/ (m.to \notin pendingRequests /\ pc'[c] # "emitted")
      BY <1>4, <2>2, <3>1
    <3>3. \A h \in Near(c) \ {Nobody} :
            h = m.to \/ h \in held \/ \E i \in DOMAIN replies' : replies'[i].to = h
      BY <1>8, <1>12 DEF AsyncReadMessage
    <3> HIDE DEF m
    <3> QED BY <3>1, <3>2, <3>3 DEF Near
  <2> QED BY <1>12, <2>1, <2>2 DEF AsyncReadMessage
<1> QED BY <1>3, <1>5, <1>7, <1>9, <1>10, <1>11, <1>12 DEF CallerAct, CallerStep

LEMMA NextReply ==
  ASSUME TypeOK, TurnInv, BoundInv, BoundInv', ReplyInv, [Next]_vars
  PROVE  ReplyInv'
<1>0. /\ requestOf \in Seq(Nat) /\ Sent(requestOf) = 1..Len(requestOf)
      /\ Len(requestOf) \in Nat
      /\ answers \in [1..MaxRequests -> Nat] /\ MaxRequests \in Nat
      /\ replies \in Seq(Messages)
      /\ pendingRequests \subseteq Sent(requestOf)
      /\ \A c \in Callers : CallerFits(pc[c], handle[c], message[c], requestOf)
  <2>1. requestOf \in Seq(Nat)
    BY DEF TypeOK
  <2> QED BY <2>1, ConstantsAssumption DEF TypeOK, Sent
<1>1. ASSUME NEW c \in Callers, CallerAct(c)
      PROVE  ReplyInv'
  <2>1. answers' = answers /\ Sent(requestOf) \subseteq Sent(requestOf')
    <3>1. requestOf' = requestOf \/ \E id \in Nat : requestOf' = Append(requestOf, id)
      BY <1>1, CallerOwn
    <3>2. \A id \in Nat : Sent(requestOf) \subseteq Sent(Append(requestOf, id))
      BY <1>0, Longer
    <3> QED BY <1>1, <3>1, <3>2, CallerFrame DEF serviceVars
  <2>2. \A r \in 1..MaxRequests : answers'[r] > 0 => r \in Sent(requestOf')
    BY <2>1 DEF ReplyInv
  <2>3. ASSUME ~overlapped', NEW h \in Nat, Expected(h)', answers'[h] > 0
        PROVE  Reachable(h)' \/ <<h, "full">> \in lost'
    <3>1. /\ ~overlapped
          /\ \A d \in Callers \ {c} : pc[d] = "idle" /\ pc'[d] = "idle"
      BY <1>1, <2>3, TakingTurns
    <3>2. h \in pendingRequests' \/ (pc'[c] = "emitted" /\ handle'[c] = h)
      BY <2>3, <3>1 DEF Expected
    <3>3. CASE Expected(h)
      <4>1. Reachable(h) \/ <<h, "full">> \in lost
        BY <2>1, <2>3, <3>1, <3>3 DEF ReplyInv
      <4>2. h # Nobody
        <5>1. \A d \in Callers : pc[d] = "emitted" => handle[d] # Nobody
          BY <1>0 DEF CallerFits
        <5>2. Nobody \notin pendingRequests
          BY <1>0 DEF Nobody
        <5> QED BY <3>3, <5>1, <5>2 DEF Expected
      <4>3. \A d \in Callers \ {c} : message[d].to = Nobody
        BY <1>0, <3>1 DEF CallerFits, NoMessage
      <4>4. Reachable(h) => h \in Near(c)
        BY <4>2, <4>3 DEF Reachable, Near
      <4>5. h \in Near(c)' => Reachable(h)'
        BY DEF Reachable, Near
      <4> QED BY <1>1, <3>2, <4>1, <4>2, <4>4, <4>5, ReplySteps
    <3>4. CASE ~Expected(h)
      <4>1. /\ pc'[c] = "emitted" /\ h = Len(requestOf) + 1
            /\ \E id \in Nat : requestOf' = Append(requestOf, id)
        BY <1>1, <3>2, <3>4, TableSteps DEF Expected
      <4>2. h \in 1..MaxRequests
        <5>1. Len(requestOf') = h
          BY <1>0, <4>1
        <5>2. Cardinality(Emitting') \in Nat
          <6>1. Emitting' \subseteq Callers
            BY DEF Emitting
          <6> QED BY <6>1, Fewer, ConstantsAssumption
        <5>3. Len(requestOf') + Cardinality(Emitting') <= MaxRequests
          BY DEF BoundInv, Attempts, Emitting
        <5> QED BY <1>0, <4>1, <5>1, <5>2, <5>3
      <4>3. h \in Sent(requestOf)
        BY <2>1, <2>3, <4>2 DEF ReplyInv
      <4> QED BY <1>0, <4>1, <4>3
    <3> QED BY <3>3, <3>4
  <2> QED BY <2>2, <2>3 DEF ReplyInv
<1>2. ASSUME NEW w \in Workers, WorkerAct(w)
      PROVE  ReplyInv'
  <2>1. /\ UNCHANGED <<held, pendingRequests, message, handle, requestOf, lost,
                       overlapped>>
        /\ \A c \in Callers : pc'[c] = pc[c]
    BY <1>2, WorkerFrame DEF clientVars, callerVars, historyVars
  <2>2. \A h : Expected(h)' => Expected(h)
    BY <2>1 DEF Expected
  <2>3. CASE UNCHANGED <<replies, answers>>
    <3>1. \A h : Reachable(h) => Reachable(h)'
      BY <2>1, <2>3 DEF Reachable
    <3> QED BY <2>1, <2>2, <2>3, <3>1 DEF ReplyInv
  <2>4. ASSUME NEW r \in Sent(requestOf), NEW m \in Messages, m.to = r,
               replies' = Append(replies, m), answers' = [answers EXCEPT ![r] = @ + 1]
        PROVE  ReplyInv'
    <3>2. /\ DOMAIN replies \subseteq DOMAIN replies'
          /\ \A i \in DOMAIN replies : replies'[i] = replies[i]
          /\ \E i \in DOMAIN replies' : replies'[i].to = r
      <4>1. /\ DOMAIN replies = 1..Len(replies) /\ Len(replies) \in Nat
            /\ DOMAIN replies' = 1..(Len(replies) + 1)
            /\ \A i \in 1..Len(replies) : replies'[i] = replies[i]
            /\ replies'[Len(replies) + 1] = m
        BY <1>0, <2>4, Appended
      <4>2. Len(replies) + 1 \in DOMAIN replies'
        BY <4>1
      <4> QED BY <2>4, <4>1, <4>2
    <3>3. \A h : Reachable(h) => Reachable(h)'
      BY <2>1, <3>2 DEF Reachable
    <3>4. Reachable(r)'
      BY <3>2 DEF Reachable
    <3>5. \A h : h # r => answers'[h] = answers[h]
      BY <1>0, <2>4
    <3>6. \A q \in 1..MaxRequests : answers'[q] > 0 => q \in Sent(requestOf')
      BY <2>1, <3>5 DEF ReplyInv
    <3>7. ~overlapped' => \A h \in Nat : Expected(h)' =>
            (answers'[h] > 0 => Reachable(h)' \/ <<h, "full">> \in lost')
      BY <2>1, <2>2, <3>3, <3>4, <3>5 DEF ReplyInv
    <3> QED BY <3>6, <3>7 DEF ReplyInv
  <2>5. CASE EmitAnswer(w) /\ pc[w] \in {"check", "replying"}
    <3>1. Reply(answering[w], requestOf[answering[w]]).to = answering[w]
      BY DEF Reply
    <3> QED BY <2>4, <2>5, <3>1, Answered DEF EmitAnswer
  <2> QED BY <1>2, <2>3, <2>5, AnswerOrNot
<1>3. CASE Stray
  <2>1. /\ UNCHANGED <<held, pendingRequests, message, handle, requestOf, lost,
                       overlapped, answers, pc>>
    BY <1>3 DEF Stray, clientVars, callerVars, historyVars, serviceVars
  <2>2. /\ DOMAIN replies \subseteq DOMAIN replies'
        /\ \A i \in DOMAIN replies : replies'[i] = replies[i]
    <3>1. ASSUME NEW m \in {Publication, Reply(Nobody, 0)}, replies' = Append(replies, m)
          PROVE  /\ DOMAIN replies \subseteq DOMAIN replies'
                 /\ \A i \in DOMAIN replies : replies'[i] = replies[i]
      <4>1. m \in Messages
        BY <3>1 DEF Publication, Reply, Nobody, Messages
      <4> QED BY <1>0, <3>1, <4>1, Appended
    <3> QED BY <1>3, <3>1 DEF Stray
  <2>3. \A h : Reachable(h) => Reachable(h)'
    BY <2>1, <2>2 DEF Reachable
  <2>4. \A h : Expected(h)' => Expected(h)
    BY <2>1 DEF Expected
  <2> QED BY <2>1, <2>3, <2>4 DEF ReplyInv
<1>4. CASE UNCHANGED vars
  <2>1. UNCHANGED <<held, pendingRequests, message, handle, requestOf, lost,
                    overlapped, answers, pc, replies>>
    BY <1>4 DEF vars, clientVars, callerVars, historyVars, serviceVars
  <2>2. \A h : Expected(h)' = Expected(h) /\ Reachable(h)' = Reachable(h)
    BY <2>1 DEF Expected, Reachable
  <2> QED BY <2>1, <2>2 DEF ReplyInv
<1> QED BY <1>1, <1>2, <1>3, <1>4, NextIsAct

(***************************************************************************)
(* Callers that take turns lose no reply, in whatever order they ask for   *)
(* them: from the answer on it is in the receiver, put aside or in a       *)
(* caller's hands, unless max_ready_replies made hold() refuse it          *)
(* (Requester.receive_reply, _ReplyBuffer.hold).                           *)
(***************************************************************************)
THEOREM RepliesKept == Spec => []NoReplyLost
<1>1. Init => BoundInv /\ ReplyInv
  <2> SUFFICES ASSUME Init PROVE BoundInv /\ ReplyInv
    OBVIOUS
  <2>1. \A c \in Callers : pc[c] = "idle"
    BY DEF Init
  <2>2. Emitting = {} /\ Cardinality(Emitting) = 0 /\ Len(requestOf) = 0
    BY <2>1, FS_EmptySet DEF Init, Emitting
  <2>3. BoundInv
    BY <2>2, ConstantsAssumption DEF BoundInv, Attempts, Emitting
  <2>4. \A h \in Nat : ~Expected(h)
    BY <2>1 DEF Init, Expected
  <2> QED BY <2>3, <2>4 DEF Init, ReplyInv
<1>2. /\ TypeOK /\ BoundInv /\ [Next]_vars => BoundInv'
      /\ TypeOK /\ TurnInv /\ BoundInv /\ BoundInv' /\ ReplyInv /\ [Next]_vars => ReplyInv'
  BY NextBound, NextReply
<1>3. TypeOK /\ ReplyInv => NoReplyLost
  <2> SUFFICES ASSUME TypeOK, ReplyInv, ~overlapped, NEW h \in pendingRequests,
                      answers[h] > 0
               PROVE  Reachable(h) \/ <<h, "full">> \in lost
    BY DEF NoReplyLost
  <2>1. h \in Nat /\ Expected(h)
    BY DEF TypeOK, Sent, Expected
  <2> QED BY <2>1 DEF ReplyInv
<1> QED BY TakeTurns, <1>1, <1>2, <1>3, PTL DEF Spec

==============================================================================
