----------------------- MODULE TransportSession_proofs -----------------------
(***************************************************************************)
(* For any topics, publishers and bounds, a transport session sends the    *)
(* replies to a request where they belong, its client can decode what it   *)
(* is sent, gets it in order and without a gap, and has one answer coming  *)
(* to each call: RepliesFindTheirOwner, EveryDeliveryDecodes,              *)
(* NothingLostOrReordered and OneAnswer are invariants of TransportSession.*)
(*                                                                         *)
(* All rest on CallInv, that a call which awaits a result has at most one  *)
(* under way and no other has any.                                         *)
(***************************************************************************)
EXTENDS TransportSession, SequenceLemmas

------------------------------------------------------------------------------
(* What is sent and kept. *)

Names == Topics \cup {Shared}

Messages == [id : Nat, topic : Topics, operation : {"publish", "request", "reply"},
             replyTo : Nat]

Items == [subscription : Subscriptions, message : Messages]

ResultFrames == [kind : {"result"}, registrations : SUBSET Names, emitter : SUBSET Topics]

WireFrames == [kind : {"registrations"}, registrations : SUBSET Names]
                \cup [kind : {"delivery"}, subscription : Subscriptions, message : Messages]
                \cup ResultFrames

Emissions == {Idle, [op |-> "failed"]}
               \cup [op : {"deliver", "claim"}, message : Messages,
                     targets : (SUBSET Subscriptions) \ {{}}]

Bindings == [topic : Topics, requestReply : BOOLEAN]

TypeOK ==
  /\ wire \in Seq(WireFrames) /\ queue \in Seq(Items)
  /\ subscriptions \in Seq(Bindings) /\ Len(subscriptions) <= MaxSubscriptions
  /\ owners = [m \in DOMAIN owners |-> owners[m]]
  /\ reader \in {Idle, [op |-> "emit"]}
                  \cup [op : {"take"}, needs : SUBSET Names, result : ResultFrames]
                  \cup [op : {"send"}, result : ResultFrames]
  /\ worker \in {Idle}
                  \cup [op : {"announce"}, item : Items, registrations : SUBSET Names]
                  \cup [op : {"send"}, item : Items]
  /\ emitting \in [Emitters -> Emissions]
  /\ nextId \in Nat \ {0}
  /\ asked = [m \in DOMAIN asked |-> asked[m]] /\ DOMAIN asked \subseteq 1..(nextId - 1)
  /\ accepted \in [Subscriptions -> Seq(Messages)]
  /\ bound \subseteq Topics
  /\ held \in [Subscriptions -> Seq(Messages)]

(* A request of the client, as it is when the reader takes it. *)
IsRequester(s) == s \in DOMAIN subscriptions /\ subscriptions[s].requestReply

RequestFits(frame) ==
  \/ /\ frame.kind = "subscribe" /\ frame.topic \in Topics
     /\ frame.requestReply \in BOOLEAN /\ Len(subscriptions) < MaxSubscriptions
  \/ frame.kind = "register_emitter" /\ frame.topic \in Topics
  \/ /\ frame.kind = "emit" /\ frame.topic \in Topics
     /\ frame.operation \in {"publish", "request"}
     /\ frame.replySubscription = 0 \/ IsRequester(frame.replySubscription)

IsResult(i) == i \in DOMAIN wire /\ wire[i].kind = "result"

CallInv ==
  /\ requests # <<>> => requests = <<requests[1]>> /\ RequestFits(requests[1])
  /\ \/ call = Idle \/ call = [op |-> "await"]
     \/ \E s \in Subscriptions : call = [op |-> "receive", subscription |-> s]
  /\ requests # <<>> => reader = Idle
  /\ call.op # "await" => requests = <<>> /\ reader = Idle
  /\ \A i \in DOMAIN wire : IsResult(i) =>
       /\ call.op = "await" /\ requests = <<>> /\ reader = Idle
       /\ \A j \in DOMAIN wire : IsResult(j) => j = i

(***************************************************************************)
(* Who waits for which replies.  A thread that has found a reply its owner *)
(* holds a request of that very subscription, even where another thread    *)
(* takes the entry first; and a request whose entry is gone has had its    *)
(* reply.                                                                  *)
(***************************************************************************)
AskedInv ==
  /\ \A m \in DOMAIN asked : asked[m] = 0 \/ IsRequester(asked[m])
  /\ \A m \in DOMAIN owners : /\ m \in DOMAIN asked /\ asked[m] # 0
                              /\ owners[m] = asked[m]

HoldsReply(x) ==
  /\ x.message.operation = "reply" /\ x.message.replyTo \in DOMAIN asked
  /\ asked[x.message.replyTo] = Min(x.targets)
  /\ IsRequester(Min(x.targets))

TargetsInv ==
  \A e \in Emitters : emitting[e].op \in {"deliver", "claim"} =>
    /\ emitting[e].targets \subseteq DOMAIN subscriptions
    /\ emitting[e].op = "claim" => HoldsReply(emitting[e])

OwnReply(s, i) == /\ RequestOf(s, i) \in DOMAIN asked /\ asked[RequestOf(s, i)] = s
                  /\ RequestOf(s, i) \notin DOMAIN owners

AcceptedInv ==
  /\ \A s \in Subscriptions : s \notin DOMAIN subscriptions => accepted[s] = <<>>
  /\ \A s \in Subscriptions : IsRequester(s) =>
       /\ \A i \in Replies(s) : OwnReply(s, i)
       /\ \A i, j \in Replies(s) : RequestOf(s, i) = RequestOf(s, j) => i = j
  /\ OpenRequestsHaveOwners

OwnersInv == AskedInv /\ TargetsInv /\ AcceptedInv

(***************************************************************************)
(* Where a registration marked as sent may be: with the client, in a       *)
(* result that its call waits for, or in a frame that is read before the   *)
(* k-th frame of the connection.                                           *)
(***************************************************************************)
Pending(r) == \/ reader.op = "send" /\ r \in reader.result.registrations
              \/ \E i \in DOMAIN wire : IsResult(i) /\ r \in wire[i].registrations

ReadBefore(r, k) == \E j \in DOMAIN wire : /\ j < k /\ wire[j].kind = "registrations"
                                           /\ r \in wire[j].registrations

Comes(r, k) == r \in known \/ Pending(r) \/ ReadBefore(r, k)

Announced(r) == \E j \in DOMAIN wire : wire[j].kind = "registrations"
                                         /\ r \in wire[j].registrations

Announces(r) == worker.op = "announce" /\ r \in worker.registrations

SentInv == \A r \in sent : r \in known \/ Pending(r) \/ Announced(r) \/ Announces(r)

HeldInv == \A s \in Subscriptions : \A k \in DOMAIN held[s] :
             \A r \in Needs(held[s][k].topic) : r \in known \/ Pending(r)

WireInv == \A k \in DOMAIN wire : wire[k].kind = "delivery" =>
             \A r \in Needs(wire[k].message.topic) : Comes(r, k)

DecodeInv == /\ SentInv /\ HeldInv /\ WireInv /\ undecoded = {}
             /\ worker # Idle => Needs(worker.item.message.topic) \subseteq sent

------------------------------------------------------------------------------
(* Shapes *)

LEMMA Constants == MaxSubscriptions \in Nat /\ Subscriptions \subseteq Nat \ {0}
BY ConstantsAssumption DEF Subscriptions

LEMMA MinIn ==
  ASSUME NEW S \in SUBSET Nat, S # {}
  PROVE  Min(S) \in S
BY LeastOf DEF Min

LEMMA Emitting ==
  ASSUME NEW x \in Emissions, x.op \in {"deliver", "claim"}
  PROVE  /\ x.message \in Messages /\ x.targets \in SUBSET Subscriptions /\ x.targets # {}
         /\ Min(x.targets) \in x.targets
<1>1. x.message \in Messages /\ x.targets \in SUBSET Subscriptions /\ x.targets # {}
  BY DEF Emissions, Idle
<1> QED BY <1>1, MinIn, Constants

LEMMA ToShape ==
  ASSUME NEW S \in SUBSET Subscriptions, NEW m \in Messages
  PROVE  /\ To(S, m) \in Emissions
         /\ To(S, m).op \in {"deliver", "claim"} =>
              /\ To(S, m).op = "deliver" /\ To(S, m).message = m /\ To(S, m).targets = S
<1>1. CASE S = {}
  BY <1>1 DEF To, Emissions, Idle
<1>2. CASE S # {}
  BY <1>2 DEF To, Emissions
<1> QED BY <1>1, <1>2

LEMMA FrameShape ==
  ASSUME NEW frame \in WireFrames
  PROVE  /\ frame.kind = "delivery" =>
              frame.subscription \in Subscriptions /\ frame.message \in Messages
         /\ frame.kind \in {"registrations", "result"} => frame.registrations \subseteq Names
         /\ frame.kind = "result" => frame.emitter \subseteq Topics
BY DEF WireFrames, ResultFrames

LEMMA ReaderShape ==
  ASSUME TypeOK
  PROVE  /\ reader.op = "take" => reader.needs \subseteq Names /\ reader.result \in ResultFrames
         /\ reader.op = "send" => reader.result \in ResultFrames
         /\ worker.op = "announce" => worker.item \in Items /\ worker.registrations \subseteq Names
         /\ worker.op = "send" => worker.item \in Items
BY DEF TypeOK, Idle

(* A frame that is appended is the last; the rest is as it was. *)
LEMMA WireAppended ==
  ASSUME TypeOK, NEW frame \in WireFrames, wire' = Append(wire, frame)
  PROVE  /\ wire' \in Seq(WireFrames)
         /\ DOMAIN wire = 1..Len(wire) /\ Len(wire) \in Nat
         /\ DOMAIN wire' = 1..(Len(wire) + 1)
         /\ \A i \in DOMAIN wire : wire'[i] = wire[i]
         /\ wire'[Len(wire) + 1] = frame
BY Appended DEF TypeOK

LEMMA WireTail ==
  ASSUME TypeOK, wire # <<>>, wire' = Tail(wire)
  PROVE  /\ wire' \in Seq(WireFrames) /\ Head(wire) \in WireFrames /\ Head(wire) = wire[1]
         /\ DOMAIN wire = 1..Len(wire) /\ Len(wire) \in Nat \ {0}
         /\ DOMAIN wire' = 1..(Len(wire) - 1)
         /\ \A i \in DOMAIN wire' : wire'[i] = wire[i + 1]
BY HeadAndTail DEF TypeOK

------------------------------------------------------------------------------
(* Types, and the one answer that is under way *)

Shape == TypeOK /\ CallInv

LEMMA Asked ==
  ASSUME Shape, requests # <<>>
  PROVE  /\ requests = <<Head(requests)>> /\ RequestFits(Head(requests))
         /\ Tail(requests) = <<>> /\ reader = Idle /\ call.op = "await"
         /\ \A i \in DOMAIN wire : ~IsResult(i)
<1>1. requests = <<requests[1]>> /\ RequestFits(requests[1])
  BY DEF Shape, CallInv
<1>2. Head(requests) = requests[1] /\ Tail(requests) = <<>>
  <2>1. ASSUME NEW x
        PROVE  Head(<<x>>) = x /\ Tail(<<x>>) = <<>>
    <3>1. /\ Len(<<x>>) = 1 /\ <<x>> \in Seq({x}) /\ <<x>> # <<>>
      OBVIOUS
    <3>2. Tail(<<x>>) \in Seq({x}) /\ Len(Tail(<<x>>)) = 0 /\ Head(<<x>>) = x
      BY <3>1, HeadAndTail
    <3> QED BY <3>2
  <2> QED BY <1>1, <2>1
<1> QED BY <1>1, <1>2 DEF Shape, CallInv

(* The client asks: its frame is the only one. *)
LEMMA AskKept ==
  ASSUME Shape, NEW frame, Ask(frame), RequestFits(frame),
         UNCHANGED <<wire, queue, sessionVars, threadVars, historyVars, clientVars>>
  PROVE  Shape'
<1>1. requests = <<>> /\ reader = Idle /\ \A i \in DOMAIN wire : ~IsResult(i)
  BY DEF Shape, CallInv, Ask, Idle
<1>2. requests' = <<frame>> /\ requests'[1] = frame /\ call' = [op |-> "await"]
  BY <1>1 DEF Ask
<1>3. RequestFits(frame)'
  BY DEF RequestFits, IsRequester, sessionVars
<1>4. TypeOK'
  BY DEF Shape, TypeOK, sessionVars, threadVars, historyVars, clientVars
<1>5. CallInv'
  <2>1. \A i \in DOMAIN wire' : ~IsResult(i)'
    BY <1>1 DEF IsResult
  <2> QED BY <1>1, <1>2, <1>3, <2>1 DEF CallInv, threadVars
<1> QED BY <1>4, <1>5 DEF Shape

LEMMA ClientStepKept == Shape /\ ClientStep => Shape'
<1> SUFFICES ASSUME Shape, ClientStep PROVE Shape'
  OBVIOUS
<1>1. ASSUME NEW topic \in Topics, NEW requestReply \in BOOLEAN,
             ClientSubscribe(topic, requestReply)
      PROVE  Shape'
  <2>1. RequestFits([kind |-> "subscribe", topic |-> topic, requestReply |-> requestReply])
    BY <1>1 DEF ClientSubscribe, RequestFits
  <2> QED BY <1>1, <2>1, AskKept DEF ClientSubscribe
<1>2. ASSUME NEW topic \in Topics, ClientRegisterEmitter(topic)
      PROVE  Shape'
  <2>1. RequestFits([kind |-> "register_emitter", topic |-> topic])
    BY DEF RequestFits
  <2> QED BY <1>2, <2>1, AskKept DEF ClientRegisterEmitter
<1>3. ASSUME NEW topic \in Topics, ClientEmit(topic)
      PROVE  Shape'
  <2>1. RequestFits([kind |-> "emit", topic |-> topic, operation |-> "publish",
                     replySubscription |-> 0])
    BY DEF RequestFits
  <2>2. ASSUME NEW s \in DOMAIN subscriptions, subscriptions[s].requestReply
        PROVE  RequestFits([kind |-> "emit", topic |-> topic, operation |-> "request",
                            replySubscription |-> s])
    BY <2>2 DEF RequestFits, IsRequester
  <2>3. \/ Ask([kind |-> "emit", topic |-> topic, operation |-> "publish",
                replySubscription |-> 0])
        \/ \E s \in DOMAIN subscriptions :
             subscriptions[s].requestReply
               /\ Ask([kind |-> "emit", topic |-> topic, operation |-> "request",
                       replySubscription |-> s])
    BY <1>3 DEF ClientEmit
  <2>4. UNCHANGED <<wire, queue, sessionVars, threadVars, historyVars, clientVars>>
    BY <1>3 DEF ClientEmit
  <2> QED BY <2>1, <2>2, <2>3, <2>4, AskKept
<1>4. ASSUME NEW s \in Subscriptions, ClientTakeHeld(s)
      PROVE  Shape'
  <2>1. held[s] \in Seq(Messages) /\ held[s] # <<>>
    BY <1>4 DEF Shape, TypeOK, ClientTakeHeld
  <2>2. Tail(held[s]) \in Seq(Messages)
    BY <2>1, HeadAndTail
  <2>3. held' \in [Subscriptions -> Seq(Messages)]
    BY <1>4, <2>2 DEF Shape, TypeOK, ClientTakeHeld
  <2>4. TypeOK'
    BY <1>4, <2>3 DEF Shape, TypeOK, ClientTakeHeld, sessionVars, threadVars, historyVars
  <2>5. CallInv'
    BY <1>4 DEF Shape, CallInv, ClientTakeHeld, IsResult, RequestFits, IsRequester,
                sessionVars, threadVars
  <2> QED BY <2>4, <2>5 DEF Shape
<1>5. ASSUME NEW s \in Subscriptions, ClientReceive(s)
      PROVE  Shape'
  <2>1. TypeOK'
    BY <1>5 DEF Shape, TypeOK, ClientReceive, sessionVars, threadVars, historyVars, clientVars
  <2>2. CallInv'
    BY <1>5 DEF Shape, CallInv, ClientReceive, IsResult, RequestFits, IsRequester,
                sessionVars, threadVars, Idle
  <2> QED BY <2>1, <2>2 DEF Shape
<1>6. ASSUME ClientStopsReceiving
      PROVE  Shape'
  <2>1. TypeOK'
    BY <1>6 DEF Shape, TypeOK, ClientStopsReceiving, sessionVars, threadVars, historyVars,
                clientVars
  <2>2. CallInv'
    BY <1>6 DEF Shape, CallInv, ClientStopsReceiving, IsResult, RequestFits, IsRequester,
                sessionVars, threadVars, Idle
  <2> QED BY <2>1, <2>2 DEF Shape
<1> QED BY <1>1, <1>2, <1>3, <1>4, <1>5, <1>6 DEF ClientStep

LEMMA ReadFrameKept == Shape /\ ClientReadFrame => Shape'
<1> SUFFICES ASSUME Shape, ClientReadFrame PROVE Shape'
  OBVIOUS
<1> DEFINE frame == Head(wire)
<1>1. /\ wire' \in Seq(WireFrames) /\ frame \in WireFrames /\ frame = wire[1]
      /\ DOMAIN wire = 1..Len(wire) /\ Len(wire) \in Nat \ {0}
      /\ DOMAIN wire' = 1..(Len(wire) - 1)
      /\ \A i \in DOMAIN wire' : wire'[i] = wire[i + 1]
  BY WireTail DEF Shape, ClientReadFrame
<1> HIDE DEF frame
<1>2. /\ frame.kind = "delivery" => frame.subscription \in Subscriptions
                                      /\ frame.message \in Messages
      /\ frame.kind = "result" => frame.emitter \subseteq Topics
  BY <1>1, FrameShape
<1>3. held' \in [Subscriptions -> Seq(Messages)]
  <2>1. CASE held' = held
    BY <2>1 DEF Shape, TypeOK
  <2>2. CASE frame.kind = "delivery" /\ held' = [held EXCEPT ![frame.subscription] =
                                                   Append(@, frame.message)]
    BY <1>2, <2>2 DEF Shape, TypeOK
  <2> QED BY <2>1, <2>2 DEF ClientReadFrame, frame
<1>4. bound' \subseteq Topics
  BY <1>2 DEF ClientReadFrame, Shape, TypeOK, frame
<1>5. TypeOK'
  BY <1>1, <1>3, <1>4 DEF Shape, TypeOK, ClientReadFrame, sessionVars, threadVars, historyVars
<1>6. \A i \in DOMAIN wire' : IsResult(i)' => i + 1 \in DOMAIN wire /\ IsResult(i + 1)
  BY <1>1 DEF IsResult
<1>7. IsResult(1) => \A i \in DOMAIN wire' : ~IsResult(i)'
  <2>1. 1 \in DOMAIN wire
    BY <1>1
  <2>2. ASSUME IsResult(1), NEW i \in DOMAIN wire', IsResult(i)'
        PROVE  FALSE
    <3>1. i + 1 = 1
      BY <1>6, <2>1, <2>2 DEF Shape, CallInv
    <3> QED BY <1>1, <3>1
  <2> QED BY <2>2
<1>8. CallInv'
  <2>0. requests' = requests /\ reader' = reader /\ \A f : RequestFits(f)' <=> RequestFits(f)
    BY DEF ClientReadFrame, RequestFits, IsRequester, sessionVars, threadVars
  <2>1. CASE frame.kind = "result"
    <3>1. IsResult(1)
      BY <1>1, <2>1 DEF IsResult
    <3>2. requests = <<>> /\ reader = Idle
      BY <1>1, <3>1 DEF Shape, CallInv
    <3>3. call' = Idle
      BY <2>1 DEF ClientReadFrame, frame
    <3> QED BY <1>7, <2>0, <3>1, <3>2, <3>3 DEF CallInv
  <2>2. CASE frame.kind # "result" /\ call' = call
    <3>1. \A i, j \in DOMAIN wire' : IsResult(i)' /\ IsResult(j)' => i = j
      BY <1>1, <1>6 DEF Shape, CallInv
    <3>2. \A i \in DOMAIN wire' : IsResult(i)' => call.op = "await" /\ requests = <<>>
                                                    /\ reader = Idle
      BY <1>6 DEF Shape, CallInv
    <3> QED BY <2>0, <2>2, <3>1, <3>2 DEF Shape, CallInv
  <2>3. CASE call.op = "receive" /\ call' = Idle
    <3>1. requests = <<>> /\ reader = Idle /\ \A i \in DOMAIN wire : ~IsResult(i)
      BY <2>3 DEF Shape, CallInv
    <3> QED BY <1>6, <2>0, <2>3, <3>1 DEF CallInv
  <2>4. \/ frame.kind = "result" \/ (frame.kind # "result" /\ call' = call)
        \/ (call.op = "receive" /\ call' = Idle)
    BY DEF ClientReadFrame, frame
  <2> QED BY <2>1, <2>2, <2>3, <2>4
<1> QED BY <1>5, <1>8 DEF Shape

(* Every other step leaves the client's call alone. *)
LEMMA NothingAnswered ==
  ASSUME Shape, call' = call, requests' = requests, reader' = reader,
         UNCHANGED subscriptions,
         \/ wire' = wire
         \/ \E frame \in WireFrames : frame.kind # "result" /\ wire' = Append(wire, frame)
  PROVE  CallInv' /\ wire' \in Seq(WireFrames)
<1>1. wire' \in Seq(WireFrames) /\ \A i \in DOMAIN wire' : IsResult(i)' =>
                                      i \in DOMAIN wire /\ IsResult(i)
  <2>1. CASE wire' = wire
    BY <2>1 DEF IsResult, Shape, TypeOK
  <2>2. ASSUME NEW frame \in WireFrames, frame.kind # "result", wire' = Append(wire, frame)
        PROVE  wire' \in Seq(WireFrames) /\ \A i \in DOMAIN wire' : IsResult(i)' =>
                                               i \in DOMAIN wire /\ IsResult(i)
    <3>1. /\ wire' \in Seq(WireFrames)
          /\ DOMAIN wire = 1..Len(wire) /\ Len(wire) \in Nat
          /\ DOMAIN wire' = 1..(Len(wire) + 1)
          /\ \A i \in DOMAIN wire : wire'[i] = wire[i]
          /\ wire'[Len(wire) + 1] = frame
      BY <2>2, WireAppended DEF Shape
    <3>2. \A i \in DOMAIN wire' : i \in DOMAIN wire \/ i = Len(wire) + 1
      BY <3>1
    <3>3. \A i \in DOMAIN wire' : IsResult(i)' => i # Len(wire) + 1
      BY <2>2, <3>1 DEF IsResult
    <3>4. \A i \in DOMAIN wire : IsResult(i)' => IsResult(i)
      BY <3>1 DEF IsResult
    <3> QED BY <3>1, <3>2, <3>3, <3>4
  <2> QED BY <2>1, <2>2
<1>2. \A f : RequestFits(f)' <=> RequestFits(f)
  BY DEF RequestFits, IsRequester
<1> QED BY <1>1, <1>2 DEF Shape, CallInv

LEMMA Answering ==
  ASSUME Shape, NEW result \in ResultFrames, wire' = Append(wire, result),
         requests # <<>> \/ reader # Idle,
         call' = call, requests' = <<>>, reader' = Idle
  PROVE  CallInv' /\ wire' \in Seq(WireFrames)
<1>1. call.op = "await" /\ \A i \in DOMAIN wire : ~IsResult(i)
  BY DEF Shape, CallInv
<1>2. /\ wire' \in Seq(WireFrames)
      /\ DOMAIN wire = 1..Len(wire) /\ Len(wire) \in Nat
      /\ DOMAIN wire' = 1..(Len(wire) + 1)
      /\ \A i \in DOMAIN wire : wire'[i] = wire[i]
  BY WireAppended DEF Shape, WireFrames
<1>3. \A i \in DOMAIN wire' : IsResult(i)' => i = Len(wire) + 1
  BY <1>1, <1>2 DEF IsResult
<1> QED BY <1>1, <1>2, <1>3 DEF Shape, CallInv

(* The reader takes the client's frame. *)
LEMMA Taking ==
  ASSUME Shape, requests # <<>>, requests' = Tail(requests), UNCHANGED <<call, wire>>
  PROVE  CallInv'
<1>1. Tail(requests) = <<>> /\ call.op = "await" /\ \A i \in DOMAIN wire : ~IsResult(i)
  BY Asked
<1>2. \A i \in DOMAIN wire' : ~IsResult(i)'
  BY <1>1 DEF IsResult
<1> QED BY <1>1, <1>2 DEF Shape, CallInv

LEMMA EmissionShape ==
  ASSUME Shape, NEW m \in Messages
  PROVE  /\ Emission(m) \in Emissions
         /\ Emission(m).op \in {"deliver", "claim"} =>
              /\ Emission(m).op = "deliver" /\ Emission(m).message = m
              /\ Emission(m).targets \subseteq DOMAIN subscriptions
<1>1. Matching(m.topic) \subseteq DOMAIN subscriptions
      /\ DOMAIN subscriptions \subseteq Subscriptions
  BY Constants DEF Matching, Shape, TypeOK, Subscriptions
<1>2. Matching(m.topic) \in SUBSET Subscriptions
  BY <1>1
<1> QED BY <1>1, <1>2, ToShape DEF Emission

LEMMA EmittedMessage ==
  ASSUME Shape, requests # <<>>, Head(requests).kind = "emit"
  PROVE  /\ Message(Head(requests).topic, Head(requests).operation, 0) \in Messages
         /\ Head(requests).operation # "reply"
         /\ Head(requests).replySubscription = 0 \/ IsRequester(Head(requests).replySubscription)
<1>1. RequestFits(Head(requests))
  BY Asked
<1>2. /\ Head(requests).topic \in Topics /\ Head(requests).operation \in {"publish", "request"}
      /\ Head(requests).replySubscription = 0 \/ IsRequester(Head(requests).replySubscription)
  BY <1>1 DEF RequestFits
<1> QED BY <1>2 DEF Message, Messages, Shape, TypeOK

LEMMA NextAsked ==
  ASSUME Shape
  PROVE  /\ nextId \in Nat \ {0} /\ nextId \notin DOMAIN asked
         /\ DOMAIN asked \subseteq Nat \ {0} /\ DOMAIN asked \subseteq 1..nextId
BY DEF Shape, TypeOK

LEMMA ReaderKept == Shape /\ ReaderStep => Shape'
<1> SUFFICES ASSUME Shape, ReaderStep PROVE Shape'
  OBVIOUS
<1>1. CASE HandleSubscribe
  <2>1. requests # <<>> /\ RequestFits(Head(requests)) /\ reader = Idle
    BY <1>1, Asked DEF HandleSubscribe
  <2>2. /\ Head(requests).topic \in Topics /\ Head(requests).requestReply \in BOOLEAN
        /\ Len(subscriptions) < MaxSubscriptions
    BY <1>1, <2>1 DEF RequestFits, HandleSubscribe
  <2>3. subscriptions' \in Seq(Bindings) /\ Len(subscriptions') <= MaxSubscriptions
    BY <1>1, <2>2, Constants DEF HandleSubscribe, Bindings, Shape, TypeOK
  <2>4. reader' \in [op : {"take"}, needs : SUBSET Names, result : ResultFrames]
    BY <1>1, <2>2 DEF HandleSubscribe, Needs, Names, Result, ResultFrames
  <2>5. TypeOK'
    BY <1>1, <2>3, <2>4 DEF HandleSubscribe, Shape, TypeOK, historyVars, clientVars
  <2>6. CallInv'
    BY <1>1, <2>1, Taking DEF HandleSubscribe
  <2> QED BY <2>5, <2>6 DEF Shape
<1>2. CASE HandleRegisterEmitter
  <2>1. requests # <<>> /\ RequestFits(Head(requests)) /\ reader = Idle
    BY <1>2, Asked DEF HandleRegisterEmitter
  <2>2. Head(requests).topic \in Topics
    BY <1>2, <2>1 DEF RequestFits, HandleRegisterEmitter
  <2>4. reader' \in [op : {"take"}, needs : SUBSET Names, result : ResultFrames]
    BY <1>2, <2>2 DEF HandleRegisterEmitter, Needs, Names, Result, ResultFrames
  <2>5. TypeOK'
    BY <1>2, <2>4 DEF HandleRegisterEmitter, Shape, TypeOK, sessionVars, historyVars, clientVars
  <2>6. CallInv'
    BY <1>2, <2>1, Taking DEF HandleRegisterEmitter
  <2> QED BY <2>5, <2>6 DEF Shape
<1>3. CASE HandleEmit
  <2>1. requests # <<>> /\ reader = Idle /\ Head(requests).kind = "emit"
    BY <1>3 DEF HandleEmit
  <2>2. Message(Head(requests).topic, Head(requests).operation, 0) \in Messages
    BY <2>1, EmittedMessage
  <2>3. Emission(Message(Head(requests).topic, Head(requests).operation, 0)) \in Emissions
    BY <2>2, EmissionShape
  <2>4. emitting' \in [Emitters -> Emissions]
    BY <1>3, <2>3 DEF HandleEmit, Shape, TypeOK, Emitters
  <2>5. /\ nextId' \in Nat \ {0}
        /\ asked' = [m \in DOMAIN asked' |-> asked'[m]]
        /\ DOMAIN asked' \subseteq 1..(nextId' - 1)
        /\ owners' = [m \in DOMAIN owners' |-> owners'[m]]
    <3> DEFINE s == Head(requests).replySubscription
    <3>1. nextId' = nextId + 1 /\ asked' = With(asked, nextId, s)
          /\ (owners' = owners \/ owners' = With(owners, nextId, s))
      BY <1>3 DEF HandleEmit
    <3> HIDE DEF s
    <3>2. ASSUME NEW map
          PROVE  LET with == With(map, nextId, s)
                 IN  /\ DOMAIN with = DOMAIN map \cup {nextId}
                     /\ with = [k \in DOMAIN with |-> with[k]]
      BY DEF With
    <3>3. DOMAIN asked \subseteq 1..(nextId - 1) /\ nextId \in Nat \ {0}
          /\ owners = [m \in DOMAIN owners |-> owners[m]]
      BY DEF Shape, TypeOK
    <3>4. DOMAIN asked' = DOMAIN asked \cup {nextId}
          /\ asked' = [m \in DOMAIN asked' |-> asked'[m]]
      BY <3>1, <3>2
    <3>5. owners' = [m \in DOMAIN owners' |-> owners'[m]]
      BY <3>1, <3>2, <3>3
    <3>6. 1..(nextId - 1) \cup {nextId} \subseteq 1..nextId /\ nextId' - 1 = nextId
      BY <3>1, <3>3
    <3> QED BY <3>1, <3>3, <3>4, <3>5, <3>6
  <2>6. TypeOK'
    BY <1>3, <2>4, <2>5 DEF HandleEmit, Shape, TypeOK, clientVars
  <2>7. CallInv'
    BY <1>3, <2>1, Taking DEF HandleEmit
  <2> QED BY <2>6, <2>7 DEF Shape
<1>4. CASE HandleEmitRefused
  <2>1. requests # <<>> /\ reader = Idle /\ Tail(requests) = <<>>
    BY <1>4, Asked DEF HandleEmitRefused
  <2>2. Result({}) \in ResultFrames
    BY DEF Result, ResultFrames
  <2>3. CallInv' /\ wire' \in Seq(WireFrames)
    BY <1>4, <2>1, <2>2, Answering DEF HandleEmitRefused, threadVars
  <2>4. nextId' \in Nat \ {0} /\ DOMAIN asked \subseteq 1..(nextId' - 1)
    BY <1>4 DEF HandleEmitRefused, Shape, TypeOK
  <2>5. TypeOK'
    BY <1>4, <2>3, <2>4 DEF HandleEmitRefused, Shape, TypeOK, sessionVars, threadVars, clientVars
  <2> QED BY <2>3, <2>5 DEF Shape
<1>5. CASE TakeForResult
  <2>1. reader.needs \subseteq Names /\ reader.result \in ResultFrames
    BY <1>5, ReaderShape DEF TakeForResult, Shape
  <2>2. reader' \in [op : {"send"}, result : ResultFrames]
    BY <1>5, <2>1 DEF TakeForResult, ResultFrames
  <2>3. TypeOK'
    BY <1>5, <2>2 DEF TakeForResult, Shape, TypeOK, historyVars, clientVars
  <2>4. requests = <<>> /\ call.op = "await" /\ \A i \in DOMAIN wire : ~IsResult(i)
    BY <1>5 DEF TakeForResult, Shape, CallInv, Idle
  <2>5. \A i \in DOMAIN wire' : ~IsResult(i)'
    BY <1>5, <2>4 DEF TakeForResult, IsResult
  <2>6. CallInv'
    BY <1>5, <2>4, <2>5 DEF TakeForResult, Shape, CallInv
  <2> QED BY <2>3, <2>6 DEF Shape
<1>6. CASE SendResult
  <2>1. reader.result \in ResultFrames /\ reader # Idle
    BY <1>6, ReaderShape DEF SendResult, Shape, Idle
  <2>2. requests = <<>>
    BY <2>1 DEF Shape, CallInv
  <2>3. CallInv' /\ wire' \in Seq(WireFrames)
    BY <1>6, <2>1, <2>2, Answering DEF SendResult
  <2>4. TypeOK'
    BY <1>6, <2>3 DEF SendResult, Shape, TypeOK, sessionVars, historyVars, clientVars
  <2> QED BY <2>3, <2>4 DEF Shape
<1>7. CASE EmitReturns
  <2>1. Result({}) \in ResultFrames /\ reader # Idle
    BY <1>7 DEF EmitReturns, Result, ResultFrames, Idle
  <2>2. requests = <<>>
    BY <2>1 DEF Shape, CallInv
  <2>3. CallInv' /\ wire' \in Seq(WireFrames)
    BY <1>7, <2>1, <2>2, Answering DEF EmitReturns
  <2>4. TypeOK'
    BY <1>7, <2>3 DEF EmitReturns, Shape, TypeOK, sessionVars, historyVars, clientVars
  <2> QED BY <2>3, <2>4 DEF Shape
<1> QED BY <1>1, <1>2, <1>3, <1>4, <1>5, <1>6, <1>7 DEF ReaderStep

(* What is left of an emission after its next target. *)
LEMMA Gone ==
  ASSUME TypeOK, NEW e \in Emitters, emitting[e].op \in {"deliver", "claim"}
  PROVE  /\ emitting[e].message \in Messages /\ emitting[e].targets \in SUBSET Subscriptions
         /\ Target(e) \in emitting[e].targets /\ Target(e) \in Subscriptions
         /\ Goes(e) \in Emissions
         /\ Goes(e).op \in {"deliver", "claim"} =>
              /\ Goes(e).op = "deliver" /\ Goes(e).message = emitting[e].message
              /\ Goes(e).targets \subseteq emitting[e].targets
<1>1. emitting[e] \in Emissions
  BY DEF TypeOK
<1>2. /\ emitting[e].message \in Messages /\ emitting[e].targets \in SUBSET Subscriptions
      /\ Target(e) \in emitting[e].targets
  BY <1>1, Emitting DEF Target
<1> DEFINE rest == emitting[e].targets \ {Target(e)}
           message == emitting[e].message
<1>3. rest \in SUBSET Subscriptions /\ rest \subseteq emitting[e].targets /\ message \in Messages
  BY <1>2
<1>4. Goes(e) = To(rest, message)
  BY DEF Goes
<1>5. Target(e) \in Subscriptions
  BY <1>2
<1> HIDE DEF rest
<1>6. /\ To(rest, message) \in Emissions
      /\ To(rest, message).op \in {"deliver", "claim"} =>
           /\ To(rest, message).op = "deliver" /\ To(rest, message).message = message
           /\ To(rest, message).targets = rest
  BY <1>3, ToShape
<1> QED BY <1>2, <1>3, <1>4, <1>5, <1>6

LEMMA EnqueuedShape ==
  ASSUME TypeOK, NEW s \in Subscriptions, NEW m \in Messages, Enqueue(s, m)
  PROVE  queue' \in Seq(Items) /\ accepted' \in [Subscriptions -> Seq(Messages)]
<1>1. queue' \in Seq(Items)
  <2>1. [subscription |-> s, message |-> m] \in Items
    BY DEF Items
  <2> QED BY <2>1, Appended DEF Enqueue, TypeOK
<1>2. Append(accepted[s], m) \in Seq(Messages)
  BY Appended DEF TypeOK
<1> QED BY <1>1, <1>2 DEF Enqueue, TypeOK

LEMMA DeliverKept ==
  ASSUME Shape, NEW e \in Emitters, DeliverStep(e)
  PROVE  Shape'
<1>1. emitting[e].op \in {"deliver", "claim"}
  BY DEF DeliverStep, DeliverNext, FindOwner, ClaimReply
<1>2. /\ emitting[e].message \in Messages /\ Target(e) \in Subscriptions
      /\ Goes(e) \in Emissions
  BY <1>1, Gone DEF Shape
<1>3. [emitting EXCEPT ![e] = Goes(e)] \in [Emitters -> Emissions]
  BY <1>2 DEF Shape, TypeOK
<1>4. CASE DeliverNext(e)
  <2>1. queue' \in Seq(Items) /\ accepted' \in [Subscriptions -> Seq(Messages)]
    BY <1>2, <1>4, EnqueuedShape DEF DeliverNext, Shape
  <2>2. TypeOK'
    BY <1>3, <1>4, <2>1 DEF DeliverNext, Shape, TypeOK, sessionVars, clientVars
  <2>3. CallInv'
    BY <1>4, NothingAnswered DEF DeliverNext, sessionVars
  <2> QED BY <2>2, <2>3 DEF Shape
<1>5. CASE FindOwner(e)
  <2>1. [emitting EXCEPT ![e].op = "claim"] \in [Emitters -> Emissions]
    <3>1. emitting[e] \in [op : {"deliver", "claim"}, message : Messages,
                           targets : (SUBSET Subscriptions) \ {{}}]
      BY <1>1 DEF Shape, TypeOK, Emissions, Idle
    <3>2. [emitting[e] EXCEPT !.op = "claim"] \in Emissions
      BY <3>1 DEF Emissions
    <3> QED BY <3>2 DEF Shape, TypeOK
  <2>2. emitting' \in [Emitters -> Emissions]
    BY <1>3, <1>5, <2>1 DEF FindOwner
  <2>3. TypeOK'
    BY <1>5, <2>2 DEF FindOwner, Shape, TypeOK, sessionVars, historyVars, clientVars
  <2>4. CallInv'
    BY <1>5, NothingAnswered DEF FindOwner, sessionVars
  <2> QED BY <2>3, <2>4 DEF Shape
<1>6. CASE ClaimReply(e)
  <2>1. queue' \in Seq(Items) /\ accepted' \in [Subscriptions -> Seq(Messages)]
    <3>1. \/ Enqueue(Target(e), emitting[e].message)
          \/ UNCHANGED <<queue, accepted>>
      BY <1>6 DEF ClaimReply
    <3> QED BY <1>2, <3>1, EnqueuedShape DEF Shape, TypeOK
  <2>2. emitting' \in [Emitters -> Emissions]
    <3>1. [emitting EXCEPT ![e] = [op |-> "failed"]] \in [Emitters -> Emissions]
      BY DEF Shape, TypeOK, Emissions
    <3> QED BY <1>3, <1>6, <3>1 DEF ClaimReply
  <2>3. owners' = [m \in DOMAIN owners' |-> owners'[m]]
    BY <1>6 DEF ClaimReply, Without, Shape, TypeOK
  <2>4. TypeOK'
    BY <1>6, <2>1, <2>2, <2>3 DEF ClaimReply, Shape, TypeOK, clientVars
  <2>5. CallInv'
    BY <1>6, NothingAnswered DEF ClaimReply
  <2> QED BY <2>4, <2>5 DEF Shape
<1> QED BY <1>4, <1>5, <1>6 DEF DeliverStep

(* What another session emits: a reply is to a request it has seen. *)
LEMMA Published ==
  ASSUME Shape, NEW p \in Publishers, NEW topic \in Topics, Publish(p, topic)
  PROVE  \E m \in Messages : emitting' = [emitting EXCEPT ![p] = Emission(m)]
<1>1. nextId \in Nat /\ DOMAIN asked \subseteq Nat
  BY NextAsked
<1>2. Message(topic, "publish", 0) \in Messages
      /\ \A request \in DOMAIN asked : Message(topic, "reply", request) \in Messages
  BY <1>1 DEF Message, Messages
<1> QED BY <1>2 DEF Publish

LEMMA PublishKept ==
  ASSUME Shape, NEW p \in Publishers, NEW topic \in Topics, Publish(p, topic)
  PROVE  Shape'
<1>1. emitting' \in [Emitters -> Emissions]
  <2>1. PICK m \in Messages : emitting' = [emitting EXCEPT ![p] = Emission(m)]
    BY Published
  <2>2. Emission(m) \in Emissions
    BY EmissionShape
  <2> QED BY <2>1, <2>2 DEF Shape, TypeOK, Emitters
<1>2. nextId' \in Nat \ {0} /\ DOMAIN asked \subseteq 1..(nextId' - 1)
  BY NextAsked DEF Publish
<1>3. TypeOK'
  BY <1>1, <1>2 DEF Publish, Shape, TypeOK, sessionVars, clientVars
<1>4. CallInv'
  BY NothingAnswered DEF Publish, sessionVars
<1> QED BY <1>3, <1>4 DEF Shape

LEMMA WorkerKept == Shape /\ WorkerStep => Shape'
<1> SUFFICES ASSUME Shape, WorkerStep PROVE Shape'
  OBVIOUS
<1>1. CASE WorkerTake
  <2>1. Head(queue) \in Items /\ Tail(queue) \in Seq(Items)
    BY <1>1, HeadAndTail DEF WorkerTake, Shape, TypeOK
  <2>2. Needs(Head(queue).message.topic) \subseteq Names
    BY <2>1 DEF Items, Messages, Needs, Names
  <2>3. worker' \in [op : {"announce"}, item : Items, registrations : SUBSET Names]
    BY <1>1, <2>1, <2>2 DEF WorkerTake
  <2>4. TypeOK'
    BY <1>1, <2>1, <2>3 DEF WorkerTake, Shape, TypeOK, historyVars, clientVars
  <2>5. CallInv'
    BY <1>1, NothingAnswered DEF WorkerTake
  <2> QED BY <2>4, <2>5 DEF Shape
<1>2. CASE WorkerAnnounce
  <2>1. worker.item \in Items /\ worker.registrations \subseteq Names
    BY <1>2, ReaderShape DEF WorkerAnnounce, Shape
  <2>2. [kind |-> "registrations", registrations |-> worker.registrations] \in WireFrames
    BY <2>1 DEF WireFrames
  <2>3. \/ wire' = wire
        \/ \E frame \in WireFrames : frame.kind # "result" /\ wire' = Append(wire, frame)
    BY <1>2, <2>2 DEF WorkerAnnounce
  <2>4. CallInv' /\ wire' \in Seq(WireFrames)
    BY <1>2, <2>3, NothingAnswered DEF WorkerAnnounce, sessionVars
  <2>5. TypeOK'
    BY <1>2, <2>1, <2>4 DEF WorkerAnnounce, Shape, TypeOK, sessionVars, historyVars, clientVars
  <2> QED BY <2>4, <2>5 DEF Shape
<1>3. CASE WorkerSend
  <2>1. worker.item \in Items
    BY <1>3, ReaderShape DEF WorkerSend, Shape
  <2>2. [kind |-> "delivery", subscription |-> worker.item.subscription,
         message |-> worker.item.message] \in WireFrames
    BY <2>1 DEF WireFrames, Items
  <2>3. \E frame \in WireFrames : frame.kind # "result" /\ wire' = Append(wire, frame)
    BY <1>3, <2>2 DEF WorkerSend
  <2>4. CallInv' /\ wire' \in Seq(WireFrames)
    BY <1>3, <2>3, NothingAnswered DEF WorkerSend, sessionVars
  <2>5. TypeOK'
    BY <1>3, <2>4 DEF WorkerSend, Shape, TypeOK, sessionVars, historyVars, clientVars
  <2> QED BY <2>4, <2>5 DEF Shape
<1> QED BY <1>1, <1>2, <1>3 DEF WorkerStep

LEMMA ShapeInit == Init => Shape
<1> SUFFICES ASSUME Init PROVE Shape
  OBVIOUS
<1>1. /\ wire = <<>> /\ queue = <<>> /\ subscriptions = <<>> /\ requests = <<>>
      /\ reader = Idle /\ worker = Idle /\ call = Idle /\ nextId = 1
      /\ owners = [m \in {} |-> 0] /\ asked = [m \in {} |-> 0]
      /\ emitting = [e \in Emitters |-> Idle]
      /\ accepted = Nothing /\ held = Nothing /\ bound = {}
  BY DEF Init
<1>2. Nothing \in [Subscriptions -> Seq(Messages)]
  BY DEF Nothing
<1>3. TypeOK
  <2>1. Len(subscriptions) <= MaxSubscriptions
    BY <1>1, Constants
  <2>2. emitting \in [Emitters -> Emissions]
    BY <1>1 DEF Emissions
  <2> QED BY <1>1, <1>2, <2>1, <2>2 DEF TypeOK
<1>4. CallInv
  BY <1>1 DEF CallInv, IsResult
<1> QED BY <1>3, <1>4 DEF Shape

LEMMA ShapeNext == Shape /\ [Next]_vars => Shape'
<1> SUFFICES ASSUME Shape, [Next]_vars PROVE Shape'
  OBVIOUS
<1>1. CASE UNCHANGED vars
  <2>1. TypeOK'
    BY <1>1 DEF vars, sessionVars, threadVars, historyVars, clientVars, Shape, TypeOK
  <2>2. CallInv'
    BY <1>1, NothingAnswered DEF vars, sessionVars, threadVars
  <2> QED BY <2>1, <2>2 DEF Shape
<1> QED
  BY <1>1, ClientStepKept, ReadFrameKept, ReaderKept, WorkerKept, DeliverKept, PublishKept
     DEF Next

------------------------------------------------------------------------------
(* Who owns which replies *)

LEMMA NothingClaimed ==
  ASSUME OwnersInv, UNCHANGED <<subscriptions, owners, asked, accepted, emitting>>
  PROVE  OwnersInv'
<1>1. AskedInv'
  BY DEF OwnersInv, AskedInv, IsRequester
<1>2. TargetsInv'
  BY DEF OwnersInv, TargetsInv, HoldsReply, IsRequester
<1>3. AcceptedInv'
  BY DEF OwnersInv, AcceptedInv, IsRequester, Replies, RequestOf, OwnReply,
         OpenRequestsHaveOwners, Answered
<1> QED BY <1>1, <1>2, <1>3 DEF OwnersInv

(* An emission goes on; requests that are asked stay so. *)
LEMMA TargetsKept ==
  ASSUME Shape, TargetsInv, NEW f \in Emitters, NEW x,
         emitting' = [emitting EXCEPT ![f] = x], UNCHANGED subscriptions,
         x.op \in {"deliver", "claim"} =>
           x.targets \subseteq DOMAIN subscriptions /\ (x.op = "claim" => HoldsReply(x)),
         \A m \in DOMAIN asked : m \in DOMAIN asked' /\ asked'[m] = asked[m]
  PROVE  TargetsInv'
<1>1. emitting'[f] = x /\ \A e \in Emitters : e # f => emitting'[e] = emitting[e]
  BY DEF Shape, TypeOK
<1> SUFFICES ASSUME NEW e \in Emitters, emitting'[e].op \in {"deliver", "claim"}
             PROVE  /\ emitting'[e].targets \subseteq DOMAIN subscriptions
                    /\ emitting'[e].op = "claim" =>
                         /\ emitting'[e].message.operation = "reply"
                         /\ emitting'[e].message.replyTo \in DOMAIN asked'
                         /\ asked'[emitting'[e].message.replyTo] = Min(emitting'[e].targets)
                         /\ IsRequester(Min(emitting'[e].targets))
  BY DEF TargetsInv, HoldsReply, IsRequester
<1>2. CASE e = f
  BY <1>1, <1>2 DEF HoldsReply
<1>3. CASE e # f
  BY <1>1, <1>3 DEF TargetsInv, HoldsReply
<1> QED BY <1>2, <1>3

LEMMA Subscribed ==
  ASSUME Shape, OwnersInv, HandleSubscribe
  PROVE  OwnersInv'
<1> DEFINE new == Len(subscriptions) + 1
<1>1. PICK b \in Bindings : subscriptions' = Append(subscriptions, b)
  <2>1. RequestFits(Head(requests)) /\ Head(requests).kind = "subscribe"
    BY Asked DEF HandleSubscribe
  <2> QED BY <2>1 DEF HandleSubscribe, RequestFits, Bindings
<1>2. /\ DOMAIN subscriptions = 1..Len(subscriptions) /\ Len(subscriptions) \in Nat
      /\ DOMAIN subscriptions' = 1..new
      /\ \A s \in DOMAIN subscriptions : subscriptions'[s] = subscriptions[s]
  BY <1>1, Appended DEF Shape, TypeOK
<1> HIDE DEF new
<1>3. /\ \A s : IsRequester(s) => IsRequester(s)'
      /\ \A s : IsRequester(s)' => IsRequester(s) \/ s \notin DOMAIN subscriptions
      /\ DOMAIN subscriptions \subseteq DOMAIN subscriptions'
  <2>1. DOMAIN subscriptions \subseteq DOMAIN subscriptions'
    BY <1>2 DEF new
  <2> QED BY <1>2, <2>1 DEF IsRequester
<1>4. UNCHANGED <<owners, asked, accepted, emitting>>
  BY DEF HandleSubscribe, historyVars
<1>5. AskedInv'
  BY <1>3, <1>4 DEF OwnersInv, AskedInv
<1>6. TargetsInv'
  <2> SUFFICES ASSUME NEW e \in Emitters, emitting[e].op \in {"deliver", "claim"}
               PROVE  /\ emitting[e].targets \subseteq DOMAIN subscriptions'
                      /\ emitting[e].op = "claim" =>
                           /\ emitting[e].message.operation = "reply"
                           /\ emitting[e].message.replyTo \in DOMAIN asked
                           /\ asked[emitting[e].message.replyTo] = Min(emitting[e].targets)
                           /\ IsRequester(Min(emitting[e].targets))'
    BY <1>4 DEF TargetsInv, HoldsReply
  <2>1. /\ emitting[e].targets \subseteq DOMAIN subscriptions
        /\ emitting[e].op = "claim" => HoldsReply(emitting[e])
    BY DEF OwnersInv, TargetsInv
  <2>2. Min(emitting[e].targets) = Min(emitting[e].targets)'
    BY <1>4
  <2> QED BY <1>3, <1>4, <2>1, <2>2 DEF HoldsReply, IsRequester
<1>7. AcceptedInv'
  <2>1. \A s \in Subscriptions : s \notin DOMAIN subscriptions' => accepted'[s] = <<>>
    BY <1>3, <1>4 DEF OwnersInv, AcceptedInv
  <2>2. ASSUME NEW s \in Subscriptions, IsRequester(s)'
        PROVE  /\ \A i \in Replies(s) : OwnReply(s, i)
               /\ \A i, j \in Replies(s) : RequestOf(s, i) = RequestOf(s, j) => i = j
    <3>1. CASE IsRequester(s)
      BY <3>1 DEF OwnersInv, AcceptedInv
    <3>2. CASE s \notin DOMAIN subscriptions
      BY <3>2 DEF OwnersInv, AcceptedInv, Replies
    <3> QED BY <1>3, <2>2, <3>1, <3>2
  <2>3. /\ \A s \in Subscriptions : Replies(s)' = Replies(s)
        /\ \A s \in Subscriptions : \A i : /\ OwnReply(s, i)' <=> OwnReply(s, i)
                                           /\ RequestOf(s, i)' = RequestOf(s, i)
    BY <1>4 DEF Replies, OwnReply, RequestOf
  <2>4. OpenRequestsHaveOwners'
    BY <1>4 DEF OwnersInv, AcceptedInv, OpenRequestsHaveOwners, Answered, Replies, RequestOf
  <2> QED BY <2>1, <2>2, <2>3, <2>4 DEF AcceptedInv
<1> QED BY <1>5, <1>6, <1>7 DEF OwnersInv

LEMMA Emitted ==
  ASSUME Shape, OwnersInv, HandleEmit
  PROVE  OwnersInv'
<1> DEFINE s == Head(requests).replySubscription
           m == Message(Head(requests).topic, Head(requests).operation, 0)
<1>1. /\ m \in Messages
      /\ s = 0 \/ IsRequester(s)
  BY EmittedMessage DEF HandleEmit
<1>2. /\ emitting' = [emitting EXCEPT ![Reader] = Emission(m)]
      /\ asked' = With(asked, nextId, s)
      /\ owners' = IF s = 0 THEN owners ELSE With(owners, nextId, s)
      /\ UNCHANGED <<subscriptions, accepted>>
  BY DEF HandleEmit
<1> HIDE DEF s, m
<1>3. nextId \notin DOMAIN asked /\ nextId \notin DOMAIN owners
  BY NextAsked DEF OwnersInv, AskedInv
<1>4. /\ DOMAIN asked' = DOMAIN asked \cup {nextId} /\ asked'[nextId] = s
      /\ \A k \in DOMAIN asked : asked'[k] = asked[k]
  BY <1>2, <1>3 DEF With
<1>5. /\ s # 0 => DOMAIN owners' = DOMAIN owners \cup {nextId} /\ owners'[nextId] = s
      /\ s = 0 => owners' = owners
      /\ \A k \in DOMAIN owners : k \in DOMAIN owners' /\ owners'[k] = owners[k]
      /\ DOMAIN owners' \subseteq DOMAIN owners \cup {nextId}
  BY <1>2, <1>3 DEF With
<1>6. \A t : IsRequester(t)' <=> IsRequester(t)
  BY <1>2 DEF IsRequester
<1>7. AskedInv'
  <2>1. \A k \in DOMAIN asked' : asked'[k] = 0 \/ IsRequester(asked'[k])
    BY <1>1, <1>4 DEF OwnersInv, AskedInv
  <2>2. ASSUME NEW k \in DOMAIN owners'
        PROVE  k \in DOMAIN asked' /\ asked'[k] # 0 /\ owners'[k] = asked'[k]
    <3>1. CASE k \in DOMAIN owners
      BY <1>4, <1>5, <3>1 DEF OwnersInv, AskedInv
    <3>2. CASE k \notin DOMAIN owners
      BY <1>4, <1>5, <2>2, <3>2
    <3> QED BY <3>1, <3>2
  <2> QED BY <1>6, <2>1, <2>2 DEF AskedInv, IsRequester
<1>8. TargetsInv'
  <2>1. Emission(m).op \in {"deliver", "claim"} =>
          /\ Emission(m).targets \subseteq DOMAIN subscriptions
          /\ Emission(m).op # "claim"
    BY <1>1, EmissionShape
  <2> DEFINE x == Emission(m)
  <2>2. /\ emitting' = [emitting EXCEPT ![Reader] = x]
        /\ x.op \in {"deliver", "claim"} =>
             x.targets \subseteq DOMAIN subscriptions /\ (x.op = "claim" => HoldsReply(x))
    BY <1>2, <2>1
  <2> HIDE DEF x
  <2> QED BY <1>2, <1>4, <2>2, TargetsKept DEF Emitters, OwnersInv
<1>9. AcceptedInv'
  <2>1. \A t \in Subscriptions : t \notin DOMAIN subscriptions' => accepted'[t] = <<>>
    BY <1>2 DEF OwnersInv, AcceptedInv
  <2>2. /\ \A t \in Subscriptions : Replies(t)' = Replies(t)
        /\ \A t \in Subscriptions : \A i : RequestOf(t, i)' = RequestOf(t, i)
    BY <1>2 DEF Replies, RequestOf
  <2>3. \A t \in Subscriptions : \A i : OwnReply(t, i) => OwnReply(t, i)'
    BY <1>3, <1>4, <1>5, <2>2 DEF OwnReply
  <2>4. OpenRequestsHaveOwners'
    <3> SUFFICES ASSUME NEW request \in DOMAIN asked', asked'[request] # 0,
                        ~Answered(request)'
                 PROVE  request \in DOMAIN owners' /\ owners'[request] = asked'[request]
      BY DEF OpenRequestsHaveOwners
    <3>1. CASE request = nextId
      BY <1>4, <1>5, <3>1
    <3>2. CASE request \in DOMAIN asked
      <4>1. asked'[request] = asked[request] /\ accepted' = accepted
        BY <1>2, <1>4, <3>2
      <4>2. ~Answered(request)
        BY <4>1 DEF Answered, Replies, RequestOf
      <4> QED BY <1>4, <1>5, <3>2, <4>1, <4>2 DEF OwnersInv, AcceptedInv, OpenRequestsHaveOwners
    <3> QED BY <1>4, <3>1, <3>2
  <2> QED BY <1>6, <2>1, <2>2, <2>3, <2>4 DEF OwnersInv, AcceptedInv
<1> QED BY <1>7, <1>8, <1>9 DEF OwnersInv

LEMMA PublishClaimsNothing ==
  ASSUME Shape, OwnersInv, NEW p \in Publishers, NEW topic \in Topics, Publish(p, topic)
  PROVE  OwnersInv'
<1>1. UNCHANGED <<subscriptions, owners, asked, accepted>>
  BY DEF Publish, sessionVars
<1>2. AskedInv'
  BY <1>1 DEF OwnersInv, AskedInv, IsRequester
<1>3. TargetsInv'
  <2>1. PICK m \in Messages : emitting' = [emitting EXCEPT ![p] = Emission(m)]
    BY Published
  <2> DEFINE x == Emission(m)
  <2>2. /\ emitting' = [emitting EXCEPT ![p] = x]
        /\ x.op \in {"deliver", "claim"} =>
             x.targets \subseteq DOMAIN subscriptions /\ (x.op = "claim" => HoldsReply(x))
    BY <2>1, EmissionShape
  <2> HIDE DEF x
  <2>3. p \in Emitters
    BY DEF Emitters
  <2> QED BY <1>1, <2>2, <2>3, TargetsKept DEF OwnersInv
<1>4. AcceptedInv'
  BY <1>1 DEF OwnersInv, AcceptedInv, IsRequester, Replies, RequestOf, OwnReply,
              OpenRequestsHaveOwners, Answered
<1> QED BY <1>2, <1>3, <1>4 DEF OwnersInv

(* One message more in what a subscription's target let through. *)
LEMMA AcceptedMore ==
  ASSUME TypeOK, NEW s \in Subscriptions, NEW m \in Messages, Enqueue(s, m)
  PROVE  /\ \A t \in Subscriptions : t # s => accepted'[t] = accepted[t]
         /\ DOMAIN accepted[s] = 1..Len(accepted[s]) /\ Len(accepted[s]) \in Nat
         /\ DOMAIN accepted'[s] = 1..(Len(accepted[s]) + 1)
         /\ \A i \in DOMAIN accepted[s] : accepted'[s][i] = accepted[s][i]
         /\ accepted'[s][Len(accepted[s]) + 1] = m
<1>1. accepted[s] \in Seq(Messages) /\ accepted'[s] = Append(accepted[s], m)
  BY DEF TypeOK, Enqueue
<1>2. \A t \in Subscriptions : t # s => accepted'[t] = accepted[t]
  BY DEF TypeOK, Enqueue
<1> QED BY <1>1, <1>2, Appended

LEMMA RepliesMore ==
  ASSUME TypeOK, NEW s \in Subscriptions, NEW m \in Messages, Enqueue(s, m)
  PROVE  /\ \A t \in Subscriptions : Replies(t) \subseteq Replies(t)'
         /\ \A t \in Subscriptions : t # s \/ m.operation # "reply" =>
              Replies(t)' = Replies(t)
         /\ \A t \in Subscriptions : \A i \in Replies(t) : RequestOf(t, i)' = RequestOf(t, i)
         /\ \A i \in Replies(s)' : i \notin Replies(s) =>
              i = Len(accepted[s]) + 1 /\ RequestOf(s, i)' = m.replyTo
         /\ m.operation = "reply" => \E i \in Replies(s)' : RequestOf(s, i)' = m.replyTo
<1>1. /\ \A t \in Subscriptions : t # s => accepted'[t] = accepted[t]
      /\ DOMAIN accepted[s] = 1..Len(accepted[s]) /\ Len(accepted[s]) \in Nat
      /\ DOMAIN accepted'[s] = 1..(Len(accepted[s]) + 1)
      /\ \A i \in DOMAIN accepted[s] : accepted'[s][i] = accepted[s][i]
      /\ accepted'[s][Len(accepted[s]) + 1] = m
  BY AcceptedMore
<1>2. ASSUME NEW t \in Subscriptions, t # s
      PROVE  Replies(t)' = Replies(t) /\ \A i : RequestOf(t, i)' = RequestOf(t, i)
  BY <1>1, <1>2 DEF Replies, RequestOf
<1>3. /\ Replies(s) \subseteq Replies(s)'
      /\ \A i \in Replies(s) : RequestOf(s, i)' = RequestOf(s, i)
  BY <1>1 DEF Replies, RequestOf
<1> PICK n \in Nat : n = Len(accepted[s]) + 1
  BY <1>1
<1>4. /\ \A i \in Replies(s)' : i \notin Replies(s) => i = n
      /\ m.operation = "reply" => n \in Replies(s)'
      /\ m.operation # "reply" => n \notin Replies(s)'
      /\ RequestOf(s, n)' = m.replyTo
  <2>1. \A i \in DOMAIN accepted'[s] : i \in DOMAIN accepted[s] \/ i = Len(accepted[s]) + 1
    BY <1>1
  <2>2. \A i : i \in Replies(s)' <=> i \in DOMAIN accepted'[s]
                                       /\ accepted'[s][i].operation = "reply"
    BY DEF Replies
  <2>3. \A i : i \in Replies(s) <=> i \in DOMAIN accepted[s]
                                      /\ accepted[s][i].operation = "reply"
    BY DEF Replies
  <2>4. \A i \in Replies(s)' : i \notin Replies(s) => i = n
    BY <1>1, <2>1, <2>2, <2>3
  <2>5. n \in DOMAIN accepted'[s] /\ accepted'[s][n] = m
    BY <1>1
  <2>6. n \in Replies(s)' <=> m.operation = "reply"
    BY <2>2, <2>5
  <2>7. RequestOf(s, n)' = m.replyTo
    BY <2>5 DEF RequestOf
  <2> QED BY <2>4, <2>6, <2>7
<1>5. m.operation # "reply" => Replies(s)' = Replies(s)
  BY <1>3, <1>4
<1>6. \A i \in Replies(s)' : i \notin Replies(s) => RequestOf(s, i)' = m.replyTo
  BY <1>4
<1>7. /\ \A t \in Subscriptions : Replies(t) \subseteq Replies(t)'
      /\ \A t \in Subscriptions : t # s \/ m.operation # "reply" => Replies(t)' = Replies(t)
  BY <1>2, <1>3, <1>5
<1>8. \A t \in Subscriptions : \A i \in Replies(t) : RequestOf(t, i)' = RequestOf(t, i)
  BY <1>2, <1>3
<1> QED BY <1>4, <1>6, <1>7, <1>8

LEMMA AnsweredStays ==
  ASSUME TypeOK, AskedInv, NEW s \in Subscriptions, NEW m \in Messages, Enqueue(s, m),
         UNCHANGED asked, NEW request \in DOMAIN asked, asked[request] # 0, Answered(request)
  PROVE  Answered(request)'
<1>1. asked[request] \in Subscriptions /\ asked'[request] = asked[request]
  BY Constants DEF AskedInv, IsRequester, TypeOK, Subscriptions
<1>2. PICK i \in Replies(asked[request]) : RequestOf(asked[request], i) = request
  BY DEF Answered
<1>3. PICK t \in Subscriptions : t = asked[request]
  BY <1>1
<1>4. i \in Replies(t)' /\ RequestOf(t, i)' = RequestOf(t, i)
  BY <1>2, <1>3, RepliesMore
<1> QED BY <1>1, <1>2, <1>3, <1>4 DEF Answered, Replies, RequestOf

LEMMA Delivered ==
  ASSUME Shape, OwnersInv, NEW e \in Emitters, DeliverNext(e)
  PROVE  OwnersInv'
<1> DEFINE s == Target(e)
           m == emitting[e].message
           x == Goes(e)
<1>1. /\ m \in Messages /\ s \in emitting[e].targets /\ s \in Subscriptions
      /\ x.op \in {"deliver", "claim"} =>
           x.op = "deliver" /\ x.targets \subseteq emitting[e].targets
  BY Gone DEF Shape, DeliverNext
<1>2. /\ Enqueue(s, m) /\ emitting' = [emitting EXCEPT ![e] = x]
      /\ ~IsForOwner(s, m)
      /\ UNCHANGED <<subscriptions, owners, asked>>
  BY DEF DeliverNext, sessionVars
<1>3. emitting[e].targets \subseteq DOMAIN subscriptions
  BY DEF OwnersInv, TargetsInv, DeliverNext
<1> HIDE DEF s, m, x
<1>4. AskedInv'
  BY <1>2 DEF OwnersInv, AskedInv, IsRequester
<1>5. TargetsInv'
  BY <1>1, <1>2, <1>3, TargetsKept DEF OwnersInv
<1>6. AcceptedInv'
  <2>1. \A t \in Subscriptions : t \notin DOMAIN subscriptions' => accepted'[t] = <<>>
    BY <1>1, <1>2, <1>3, AcceptedMore DEF OwnersInv, AcceptedInv, Shape
  <2>2. ASSUME NEW t \in Subscriptions, IsRequester(t)
        PROVE  /\ Replies(t)' = Replies(t)
               /\ \A i \in Replies(t) : RequestOf(t, i)' = RequestOf(t, i)
    <3>1. t # s \/ m.operation # "reply"
      BY <1>2, <2>2 DEF IsForOwner, IsRequester
    <3> QED BY <1>1, <1>2, <3>1, RepliesMore DEF Shape
  <2>3. ASSUME NEW t \in Subscriptions, IsRequester(t)
        PROVE  /\ \A i \in Replies(t)' : OwnReply(t, i)'
               /\ \A i, j \in Replies(t)' : RequestOf(t, i)' = RequestOf(t, j)' => i = j
    <3>1. \A i \in Replies(t) : OwnReply(t, i) => OwnReply(t, i)'
      BY <1>2, <2>2, <2>3 DEF OwnReply
    <3> QED BY <2>2, <2>3, <3>1 DEF OwnersInv, AcceptedInv
  <2>4. OpenRequestsHaveOwners'
    <3> SUFFICES ASSUME NEW request \in DOMAIN asked, asked[request] # 0,
                        ~Answered(request)'
                 PROVE  request \in DOMAIN owners /\ owners[request] = asked[request]
      BY <1>2 DEF OpenRequestsHaveOwners
    <3>1. ~Answered(request)
      BY <1>1, <1>2, AnsweredStays DEF OwnersInv, Shape
    <3> QED BY <3>1 DEF OwnersInv, AcceptedInv, OpenRequestsHaveOwners
  <2>5. \A t : IsRequester(t)' <=> IsRequester(t)
    BY <1>2 DEF IsRequester
  <2> QED BY <2>1, <2>3, <2>4, <2>5 DEF AcceptedInv
<1> QED BY <1>4, <1>5, <1>6 DEF OwnersInv

LEMMA Found ==
  ASSUME Shape, OwnersInv, NEW e \in Emitters, FindOwner(e)
  PROVE  OwnersInv'
<1> DEFINE x == IF /\ emitting[e].message.replyTo \in DOMAIN owners
                   /\ owners[emitting[e].message.replyTo] = Target(e)
                THEN [emitting[e] EXCEPT !.op = "claim"] ELSE Goes(e)
<1>1. UNCHANGED <<subscriptions, owners, asked, accepted>>
  BY DEF FindOwner, sessionVars, historyVars
<1>2. emitting' = [emitting EXCEPT ![e] = x]
  BY DEF FindOwner
<1>3. /\ emitting[e].targets \subseteq DOMAIN subscriptions
      /\ Target(e) \in emitting[e].targets
      /\ Goes(e).op \in {"deliver", "claim"} =>
           Goes(e).op = "deliver" /\ Goes(e).targets \subseteq emitting[e].targets
  BY Gone DEF OwnersInv, TargetsInv, FindOwner, Shape
<1>4. x.op \in {"deliver", "claim"} =>
        x.targets \subseteq DOMAIN subscriptions /\ (x.op = "claim" => HoldsReply(x))
  <2>1. CASE emitting[e].message.replyTo \in DOMAIN owners
             /\ owners[emitting[e].message.replyTo] = Target(e)
    <3>1. x = [emitting[e] EXCEPT !.op = "claim"]
      BY <2>1
    <3>2. emitting[e] \in [op : {"deliver", "claim"}, message : Messages,
                           targets : (SUBSET Subscriptions) \ {{}}]
      BY DEF Shape, TypeOK, Emissions, Idle, FindOwner
    <3>3. x.message = emitting[e].message /\ x.targets = emitting[e].targets
      BY <3>1, <3>2
    <3>4. IsForOwner(Target(e), emitting[e].message)
      BY DEF FindOwner
    <3> HIDE DEF x
    <3>5. HoldsReply(x)
      BY <1>3, <2>1, <3>3, <3>4 DEF HoldsReply, IsForOwner, IsRequester, OwnersInv, AskedInv,
                                    Target
    <3> QED BY <1>3, <3>3, <3>5
  <2>2. CASE x = Goes(e)
    BY <1>3, <2>2
  <2> QED BY <2>1, <2>2
<1> HIDE DEF x
<1>5. TargetsInv'
  BY <1>1, <1>2, <1>4, TargetsKept DEF OwnersInv
<1>6. AskedInv'
  BY <1>1 DEF OwnersInv, AskedInv, IsRequester
<1>7. AcceptedInv'
  BY <1>1 DEF OwnersInv, AcceptedInv, IsRequester, Replies, RequestOf, OwnReply,
              OpenRequestsHaveOwners, Answered
<1> QED BY <1>5, <1>6, <1>7 DEF OwnersInv

LEMMA Claimed ==
  ASSUME Shape, OwnersInv, NEW e \in Emitters, ClaimReply(e)
  PROVE  OwnersInv'
<1>0. PICK s \in Subscriptions : s = Target(e)
  BY Gone DEF Shape, ClaimReply
<1> PICK m \in Messages : m = emitting[e].message
  BY Gone DEF Shape, ClaimReply
<1>1. /\ s \in emitting[e].targets
      /\ Goes(e).op \in {"deliver", "claim"} =>
           Goes(e).op = "deliver" /\ Goes(e).targets \subseteq emitting[e].targets
  BY <1>0, Gone DEF Shape, ClaimReply
<1>2. /\ emitting[e].targets \subseteq DOMAIN subscriptions
      /\ m.operation = "reply" /\ m.replyTo \in DOMAIN asked
      /\ asked[m.replyTo] = s /\ IsRequester(s)
  BY <1>0 DEF OwnersInv, TargetsInv, HoldsReply, ClaimReply, Target
<1>3. UNCHANGED <<subscriptions, asked>>
  BY DEF ClaimReply
<1>4. \A t : IsRequester(t)' <=> IsRequester(t)
  BY <1>3 DEF IsRequester
<1>5. CASE /\ m.replyTo \in DOMAIN owners /\ owners' = Without(owners, m.replyTo)
           /\ Enqueue(s, m) /\ emitting' = [emitting EXCEPT ![e] = Goes(e)]
  <2>1. /\ DOMAIN owners' = DOMAIN owners \ {m.replyTo}
        /\ \A k \in DOMAIN owners' : owners'[k] = owners[k]
    BY <1>5 DEF Without
  <2>2. AskedInv'
    BY <1>3, <1>4, <2>1 DEF OwnersInv, AskedInv
  <2> DEFINE x == Goes(e)
  <2>3. /\ emitting' = [emitting EXCEPT ![e] = x]
        /\ x.op \in {"deliver", "claim"} =>
             x.targets \subseteq DOMAIN subscriptions /\ (x.op = "claim" => HoldsReply(x))
    BY <1>1, <1>2, <1>5
  <2> HIDE DEF x
  <2>4. TargetsInv'
    <3>1. TargetsInv /\ UNCHANGED subscriptions
          /\ \A k \in DOMAIN asked : k \in DOMAIN asked' /\ asked'[k] = asked[k]
      BY <1>3 DEF OwnersInv
    <3> QED BY <2>3, <3>1, TargetsKept
  <2>5. \A t \in Subscriptions : t \notin DOMAIN subscriptions' => accepted'[t] = <<>>
    BY <1>1, <1>2, <1>3, <1>5, AcceptedMore DEF OwnersInv, AcceptedInv, Shape
  <2>6. ASSUME NEW t \in Subscriptions, IsRequester(t)
        PROVE  /\ \A i \in Replies(t)' : OwnReply(t, i)'
               /\ \A i, j \in Replies(t)' : RequestOf(t, i)' = RequestOf(t, j)' => i = j
    <3>1. /\ \A i \in Replies(t) : RequestOf(t, i)' = RequestOf(t, i)
          /\ t # s => Replies(t)' = Replies(t)
          /\ \A i \in Replies(s)' : i \notin Replies(s) =>
               i = Len(accepted[s]) + 1 /\ RequestOf(s, i)' = m.replyTo
      BY <1>1, <1>5, RepliesMore DEF Shape
    <3>2. \A i \in Replies(t) : OwnReply(t, i)
          /\ \A j \in Replies(t) : RequestOf(t, i) = RequestOf(t, j) => i = j
      BY <2>6 DEF OwnersInv, AcceptedInv
    <3>3. \A i \in Replies(t) : OwnReply(t, i)' /\ RequestOf(t, i) # m.replyTo
      BY <1>3, <1>5, <2>1, <3>1, <3>2 DEF OwnReply
    <3>4. ASSUME t = s, NEW i \in Replies(t)', i \notin Replies(t)
          PROVE  i = Len(accepted[s]) + 1 /\ RequestOf(t, i)' = m.replyTo /\ OwnReply(t, i)'
      <4>1. i = Len(accepted[s]) + 1 /\ RequestOf(t, i)' = m.replyTo
        BY <3>1, <3>4
      <4> QED BY <1>2, <1>3, <2>1, <3>4, <4>1 DEF OwnReply
    <3>5. \A i \in Replies(t)' : OwnReply(t, i)'
      BY <3>1, <3>3, <3>4
    <3>6. ASSUME NEW i \in Replies(t)', NEW j \in Replies(t)', RequestOf(t, i)' = RequestOf(t, j)'
          PROVE  i = j
      BY <3>1, <3>2, <3>3, <3>4, <3>6
    <3> QED BY <3>5, <3>6
  <2>7. OpenRequestsHaveOwners'
    <3> SUFFICES ASSUME NEW request \in DOMAIN asked, asked[request] # 0,
                        ~Answered(request)'
                 PROVE  request \in DOMAIN owners' /\ owners'[request] = asked[request]
      BY <1>3 DEF OpenRequestsHaveOwners
    <3>1. ~Answered(request)
      BY <1>1, <1>3, <1>5, AnsweredStays DEF OwnersInv, Shape
    <3>2. request # m.replyTo
      <4>1. PICK i \in Replies(s)' : RequestOf(s, i)' = m.replyTo
        BY <1>2, <1>5, RepliesMore DEF Shape
      <4>2. CASE request = m.replyTo
        <5>1. asked'[request] = s
          BY <1>2, <1>3, <4>2
        <5>2. Answered(request)'
          BY <4>1, <4>2, <5>1 DEF Answered, Replies, RequestOf
        <5> QED BY <5>2
      <4> QED BY <4>2
    <3> QED BY <2>1, <3>1, <3>2 DEF OwnersInv, AcceptedInv, OpenRequestsHaveOwners
  <2> QED BY <1>4, <2>2, <2>4, <2>5, <2>6, <2>7 DEF OwnersInv, AcceptedInv
<1>6. CASE /\ emitting' = [emitting EXCEPT ![e] = [op |-> "failed"]]
           /\ UNCHANGED <<owners, queue, accepted>>
  <2> DEFINE x == [op |-> "failed"]
  <2>1. emitting' = [emitting EXCEPT ![e] = x] /\ x.op \notin {"deliver", "claim"}
    BY <1>6
  <2> HIDE DEF x
  <2>2. TargetsInv'
    BY <1>3, <2>1, TargetsKept DEF OwnersInv
  <2>3. AskedInv'
    BY <1>3, <1>6 DEF OwnersInv, AskedInv, IsRequester
  <2>4. AcceptedInv'
    BY <1>3, <1>6 DEF OwnersInv, AcceptedInv, IsRequester, Replies, RequestOf, OwnReply,
                      OpenRequestsHaveOwners, Answered
  <2> QED BY <2>2, <2>3, <2>4 DEF OwnersInv
<1> QED BY <1>0, <1>5, <1>6 DEF ClaimReply

LEMMA OwnersInit == Init => OwnersInv
<1> SUFFICES ASSUME Init PROVE OwnersInv
  OBVIOUS
<1>1. /\ subscriptions = <<>> /\ DOMAIN owners = {} /\ DOMAIN asked = {}
      /\ emitting = [e \in Emitters |-> Idle] /\ accepted = Nothing
  BY DEF Init
<1>2. \A s : ~IsRequester(s)
  BY <1>1 DEF IsRequester
<1>3. AskedInv
  BY <1>1 DEF AskedInv
<1>4. TargetsInv
  BY <1>1 DEF TargetsInv, Idle
<1>5. AcceptedInv
  BY <1>1, <1>2 DEF AcceptedInv, Nothing, OpenRequestsHaveOwners
<1> QED BY <1>3, <1>4, <1>5 DEF OwnersInv

LEMMA OwnersNext == Shape /\ OwnersInv /\ [Next]_vars => OwnersInv'
<1> SUFFICES ASSUME Shape, OwnersInv, [Next]_vars PROVE OwnersInv'
  OBVIOUS
<1>1. CASE ClientStep
  <2>1. UNCHANGED <<sessionVars, threadVars, historyVars>>
    BY <1>1 DEF ClientStep, ClientSubscribe, ClientRegisterEmitter, ClientEmit, ClientTakeHeld,
                ClientReceive, ClientStopsReceiving
  <2> QED BY <2>1, NothingClaimed DEF sessionVars, threadVars, historyVars
<1>2. CASE ClientReadFrame
  BY <1>2, NothingClaimed DEF ClientReadFrame, sessionVars, threadVars, historyVars
<1>3. CASE ReaderStep
  <2>1. CASE HandleRegisterEmitter
    BY <2>1, NothingClaimed DEF HandleRegisterEmitter, sessionVars, historyVars
  <2>2. CASE HandleEmitRefused
    BY <2>2, NothingClaimed DEF HandleEmitRefused, sessionVars, threadVars
  <2>3. CASE TakeForResult
    BY <2>3, NothingClaimed DEF TakeForResult, historyVars
  <2>4. CASE SendResult
    BY <2>4, NothingClaimed DEF SendResult, sessionVars, historyVars
  <2>5. CASE EmitReturns
    BY <2>5, NothingClaimed DEF EmitReturns, sessionVars, historyVars
  <2> QED BY <1>3, <2>1, <2>2, <2>3, <2>4, <2>5, Subscribed, Emitted DEF ReaderStep
<1>4. CASE WorkerStep
  <2>1. UNCHANGED <<subscriptions, owners, asked, accepted, emitting>>
    BY <1>4 DEF WorkerStep, WorkerTake, WorkerAnnounce, WorkerSend, sessionVars, historyVars
  <2> QED BY <2>1, NothingClaimed
<1>5. ASSUME NEW e \in Emitters, DeliverStep(e)
      PROVE  OwnersInv'
  BY <1>5, Delivered, Found, Claimed DEF DeliverStep
<1>6. ASSUME NEW p \in Publishers, NEW topic \in Topics, Publish(p, topic)
      PROVE  OwnersInv'
  BY <1>6, PublishClaimsNothing
<1>7. CASE UNCHANGED vars
  BY <1>7, NothingClaimed DEF vars, sessionVars, threadVars, historyVars
<1> QED BY <1>1, <1>2, <1>3, <1>4, <1>5, <1>6, <1>7 DEF Next

LEMMA OwnersSuffice == Shape /\ OwnersInv => RepliesFindTheirOwner
<1> SUFFICES ASSUME Shape, OwnersInv PROVE RepliesFindTheirOwner
  OBVIOUS
<1>1. DOMAIN subscriptions \subseteq Subscriptions
  BY Constants DEF Shape, TypeOK, Subscriptions
<1> QED
  BY <1>1 DEF OwnersInv, AcceptedInv, RepliesFindTheirOwner, OnlyOwnReplies, IsRequester,
              OwnReply

(***************************************************************************)
(* A requester's reply subscription gets the replies to its own requests   *)
(* and at most one for each, whatever the publishers and the order of the  *)
(* threads; and a request that has had no reply still has its owner, so    *)
(* the first reply to it is let through (TransportSession.                 *)
(* RepliesFindTheirOwner; _accept_request_reply, session.py).              *)
(***************************************************************************)
THEOREM RepliesReachTheirOwner == Spec => []RepliesFindTheirOwner
<1>1. Init => Shape /\ OwnersInv
  BY ShapeInit, OwnersInit
<1>2. Shape /\ OwnersInv /\ [Next]_vars => (Shape /\ OwnersInv)'
  BY ShapeNext, OwnersNext
<1>3. Shape /\ OwnersInv => RepliesFindTheirOwner
  BY OwnersSuffice
<1> QED BY <1>1, <1>2, <1>3, PTL DEF Spec

------------------------------------------------------------------------------
(* What the client can decode *)

(* Frames are only added; a pending result stays or goes to the connection. *)
OnTheWay == /\ wire' \in Seq(WireFrames) /\ Len(wire) \in Nat
            /\ DOMAIN wire = 1..Len(wire) /\ DOMAIN wire \subseteq DOMAIN wire'
            /\ \A i \in DOMAIN wire : wire'[i] = wire[i]
            /\ \A r : Pending(r) => Pending(r)'

LEMMA WireOnlyGrows ==
  ASSUME Shape, wire' = wire \/ \E frame \in WireFrames : wire' = Append(wire, frame)
  PROVE  /\ wire' \in Seq(WireFrames) /\ Len(wire) \in Nat
         /\ DOMAIN wire = 1..Len(wire) /\ DOMAIN wire \subseteq DOMAIN wire'
         /\ \A i \in DOMAIN wire : wire'[i] = wire[i]
<1>1. CASE wire' = wire
  BY <1>1 DEF Shape, TypeOK
<1>2. ASSUME NEW frame \in WireFrames, wire' = Append(wire, frame)
      PROVE  /\ wire' \in Seq(WireFrames) /\ Len(wire) \in Nat
             /\ DOMAIN wire = 1..Len(wire) /\ DOMAIN wire \subseteq DOMAIN wire'
             /\ \A i \in DOMAIN wire : wire'[i] = wire[i]
  <2>1. /\ wire' \in Seq(WireFrames) /\ Len(wire) \in Nat /\ DOMAIN wire = 1..Len(wire)
        /\ DOMAIN wire' = 1..(Len(wire) + 1)
        /\ \A i \in DOMAIN wire : wire'[i] = wire[i]
    BY <1>2, WireAppended DEF Shape
  <2> QED BY <2>1
<1> QED BY <1>1, <1>2

LEMMA StillOnTheWay ==
  ASSUME Shape, wire' = wire \/ \E frame \in WireFrames : wire' = Append(wire, frame),
         reader' = reader \/ reader.op # "send"
  PROVE  OnTheWay
<1>1. /\ wire' \in Seq(WireFrames) /\ Len(wire) \in Nat
      /\ DOMAIN wire = 1..Len(wire) /\ DOMAIN wire \subseteq DOMAIN wire'
      /\ \A i \in DOMAIN wire : wire'[i] = wire[i]
  BY WireOnlyGrows
<1>2. ASSUME NEW r, Pending(r)
      PROVE  Pending(r)'
  BY <1>1, <1>2 DEF Pending, IsResult
<1> QED BY <1>1, <1>2 DEF OnTheWay

LEMMA ComesStays ==
  ASSUME OnTheWay, UNCHANGED known
  PROVE  /\ \A r, k : Comes(r, k) => Comes(r, k)'
         /\ \A r : Announced(r) => Announced(r)'
BY DEF OnTheWay, Comes, ReadBefore, Announced

LEMMA HeldStays ==
  ASSUME OnTheWay, HeldInv, UNCHANGED <<known, held>>
  PROVE  HeldInv'
BY DEF OnTheWay, HeldInv

(* A delivery that was on the connection stays decodable. *)
LEMMA WireStays ==
  ASSUME OnTheWay, WireInv, UNCHANGED known,
         \A k \in DOMAIN wire' : k \notin DOMAIN wire /\ wire'[k].kind = "delivery" =>
           \A r \in Needs(wire'[k].message.topic) : Comes(r, k)'
  PROVE  WireInv'
<1> SUFFICES ASSUME NEW k \in DOMAIN wire', wire'[k].kind = "delivery",
                    NEW r \in Needs(wire'[k].message.topic)
             PROVE  Comes(r, k)'
  BY DEF WireInv
<1>1. CASE k \in DOMAIN wire
  BY <1>1, ComesStays DEF OnTheWay, WireInv
<1> QED BY <1>1

(* No registrations are marked, and none are taken from where they are. *)
LEMMA DecodeQuiet ==
  ASSUME Shape, DecodeInv, UNCHANGED <<wire, sent, worker, known, held, undecoded>>,
         reader' = reader \/ reader.op # "send"
  PROVE  DecodeInv'
<1>1. OnTheWay
  BY StillOnTheWay
<1>2. SentInv'
  BY <1>1, ComesStays DEF DecodeInv, SentInv, OnTheWay, Announces
<1>3. HeldInv' /\ WireInv'
  BY <1>1, HeldStays, WireStays DEF DecodeInv
<1> QED BY <1>2, <1>3 DEF DecodeInv

(* The result frame goes to the connection. *)
LEMMA DecodeAnswer ==
  ASSUME Shape, DecodeInv, NEW result \in ResultFrames, wire' = Append(wire, result),
         UNCHANGED <<sent, worker, known, held, undecoded>>,
         reader.op # "send" \/ reader.result = result
  PROVE  DecodeInv'
<1>1. result \in WireFrames /\ result.kind = "result"
  BY DEF WireFrames, ResultFrames
<1>2. /\ wire' \in Seq(WireFrames)
      /\ DOMAIN wire = 1..Len(wire) /\ Len(wire) \in Nat
      /\ DOMAIN wire' = 1..(Len(wire) + 1)
      /\ \A i \in DOMAIN wire : wire'[i] = wire[i]
      /\ wire'[Len(wire) + 1] = result
  BY <1>1, WireAppended DEF Shape
<1>3. DOMAIN wire \subseteq DOMAIN wire' /\ Len(wire) + 1 \in DOMAIN wire'
      /\ \A k \in DOMAIN wire' : k \in DOMAIN wire \/ k = Len(wire) + 1
  BY <1>2
<1>4. ASSUME NEW r, Pending(r)
      PROVE  Pending(r)'
  <2>1. CASE reader.op = "send" /\ r \in reader.result.registrations
    <3>1. r \in wire'[Len(wire) + 1].registrations /\ wire'[Len(wire) + 1].kind = "result"
      BY <1>1, <1>2, <2>1
    <3> QED BY <1>3, <3>1 DEF Pending, IsResult
  <2>2. CASE \E i \in DOMAIN wire : IsResult(i) /\ r \in wire[i].registrations
    BY <1>2, <1>3, <2>2 DEF Pending, IsResult
  <2> QED BY <1>4, <2>1, <2>2 DEF Pending
<1>5. OnTheWay
  BY <1>2, <1>3, <1>4 DEF OnTheWay
<1>6. SentInv'
  BY <1>5, ComesStays DEF DecodeInv, SentInv, OnTheWay, Announces
<1>7. HeldInv'
  BY <1>5, HeldStays DEF DecodeInv
<1>8. WireInv'
  BY <1>1, <1>2, <1>3, <1>5, WireStays DEF DecodeInv
<1> QED BY <1>6, <1>7, <1>8 DEF DecodeInv

LEMMA DecodeTake ==
  ASSUME Shape, DecodeInv, TakeForResult
  PROVE  DecodeInv'
<1>1. OnTheWay
  BY StillOnTheWay DEF TakeForResult
<1>2. UNCHANGED <<wire, worker, known, held, undecoded>>
  BY DEF TakeForResult, clientVars
<1>3. /\ reader'.op = "send" /\ reader'.result.registrations = reader.needs \ sent
      /\ sent' = sent \cup reader.needs
  <2>1. reader.result \in ResultFrames
    BY ReaderShape DEF Shape, TakeForResult
  <2> QED BY <2>1 DEF TakeForResult, ResultFrames
<1>4. SentInv'
  <2> SUFFICES ASSUME NEW r \in sent'
               PROVE  (r \in known \/ Pending(r) \/ Announced(r) \/ Announces(r))'
    BY DEF SentInv
  <2>1. CASE r \in sent
    <3>1. r \in known \/ Pending(r) \/ Announced(r) \/ Announces(r)
      BY <2>1 DEF DecodeInv, SentInv
    <3>2. Announces(r) => Announces(r)'
      BY <1>2 DEF Announces
    <3> QED BY <1>1, <1>2, <3>1, <3>2, ComesStays DEF OnTheWay
  <2>2. CASE r \notin sent
    <3>1. r \in reader'.result.registrations
      BY <1>3, <2>2
    <3> QED BY <1>3, <3>1 DEF Pending
  <2> QED BY <2>1, <2>2
<1>5. HeldInv' /\ WireInv'
  BY <1>1, <1>2, HeldStays, WireStays DEF DecodeInv
<1> QED BY <1>2, <1>3, <1>4, <1>5 DEF DecodeInv

LEMMA DecodeWorker ==
  ASSUME Shape, DecodeInv, WorkerStep
  PROVE  DecodeInv'
<1>0. UNCHANGED <<reader, known, held, undecoded>>
  BY DEF WorkerStep, WorkerTake, WorkerAnnounce, WorkerSend, clientVars
<1>1. CASE WorkerTake
  <2> DEFINE needs == Needs(Head(queue).message.topic)
  <2>1. /\ wire' = wire /\ sent' = sent \cup needs /\ worker = Idle
        /\ worker'.op = "announce" /\ worker'.registrations = needs \ sent
        /\ worker'.item = Head(queue)
    BY <1>1 DEF WorkerTake
  <2> HIDE DEF needs
  <2>2. OnTheWay
    BY <1>0, <2>1, StillOnTheWay
  <2>3. SentInv'
    <3> SUFFICES ASSUME NEW r \in sent'
                 PROVE  (r \in known \/ Pending(r) \/ Announced(r) \/ Announces(r))'
      BY DEF SentInv
    <3>1. CASE r \in sent
      <4>1. r \in known \/ Pending(r) \/ Announced(r)
        BY <2>1, <3>1 DEF DecodeInv, SentInv, Announces, Idle
      <4> QED BY <1>0, <2>2, <4>1, ComesStays DEF OnTheWay
    <3>2. CASE r \notin sent
      BY <2>1, <3>2 DEF Announces
    <3> QED BY <3>1, <3>2
  <2>4. HeldInv' /\ WireInv'
    BY <1>0, <2>1, <2>2, HeldStays, WireStays DEF DecodeInv
  <2>5. Needs(worker'.item.message.topic) \subseteq sent'
    BY <2>1 DEF needs
  <2> QED BY <1>0, <2>3, <2>4, <2>5 DEF DecodeInv, Needs
<1>2. CASE WorkerAnnounce
  <2> DEFINE frame == [kind |-> "registrations", registrations |-> worker.registrations]
  <2>1. /\ worker.op = "announce" /\ worker # Idle
        /\ worker'.op = "send" /\ worker'.item = worker.item /\ worker' # Idle
        /\ wire' = IF worker.registrations = {} THEN wire ELSE Append(wire, frame)
        /\ sent' = sent
    BY <1>2 DEF WorkerAnnounce, sessionVars, Idle
  <2>2. frame \in WireFrames
    BY <2>1, ReaderShape DEF WireFrames, Shape
  <2>3. OnTheWay
    BY <1>0, <2>1, <2>2, StillOnTheWay
  <2>4. \A r : Announces(r) => Announced(r)'
    <3> SUFFICES ASSUME NEW r, r \in worker.registrations
                 PROVE  \E j \in DOMAIN wire' : wire'[j].kind = "registrations"
                                                  /\ r \in wire'[j].registrations
      BY DEF Announces, Announced
    <3>1. wire' = Append(wire, frame)
      BY <2>1
    <3>2. /\ Len(wire) \in Nat /\ DOMAIN wire' = 1..(Len(wire) + 1)
          /\ wire'[Len(wire) + 1] = frame
      BY <2>2, <3>1, WireAppended DEF Shape
    <3>3. Len(wire) + 1 \in DOMAIN wire'
      BY <3>2
    <3> QED BY <3>2, <3>3
  <2>5. SentInv'
    BY <1>0, <2>1, <2>3, <2>4, ComesStays DEF DecodeInv, SentInv, OnTheWay
  <2>6. WireInv'
    <3>1. ASSUME NEW k \in DOMAIN wire', k \notin DOMAIN wire
          PROVE  wire'[k].kind # "delivery"
      <4>1. wire' = Append(wire, frame)
        BY <2>1, <3>1
      <4>2. /\ DOMAIN wire = 1..Len(wire) /\ Len(wire) \in Nat
            /\ DOMAIN wire' = 1..(Len(wire) + 1) /\ wire'[Len(wire) + 1] = frame
        BY <2>2, <4>1, WireAppended DEF Shape
      <4>3. k = Len(wire) + 1
        BY <3>1, <4>2
      <4> QED BY <4>2, <4>3
    <3> QED BY <1>0, <2>3, <3>1, WireStays DEF DecodeInv
  <2>7. HeldInv'
    BY <1>0, <2>3, HeldStays DEF DecodeInv
  <2> QED BY <1>0, <2>1, <2>5, <2>6, <2>7 DEF DecodeInv, Needs
<1>3. CASE WorkerSend
  <2> DEFINE item == worker.item
             frame == [kind |-> "delivery", subscription |-> item.subscription,
                       message |-> item.message]
  <2>1. /\ worker.op = "send" /\ worker # Idle /\ worker' = Idle
        /\ wire' = Append(wire, frame) /\ sent' = sent
    BY <1>3 DEF WorkerSend, sessionVars, Idle
  <2>2. frame \in WireFrames
    BY <2>1, ReaderShape DEF WireFrames, Shape, Items
  <2>3. /\ Len(wire) \in Nat /\ DOMAIN wire = 1..Len(wire)
        /\ DOMAIN wire' = 1..(Len(wire) + 1) /\ wire'[Len(wire) + 1] = frame
    BY <2>1, <2>2, WireAppended DEF Shape
  <2>4. OnTheWay
    BY <1>0, <2>1, <2>2, StillOnTheWay
  <2>5. \A r : ~Announces(r) /\ ~Announces(r)'
    BY <2>1 DEF Announces, Idle
  <2>6. SentInv'
    BY <1>0, <2>1, <2>4, <2>5, ComesStays DEF DecodeInv, SentInv, OnTheWay
  <2>7. ASSUME NEW k \in DOMAIN wire', k \notin DOMAIN wire,
               NEW r \in Needs(wire'[k].message.topic)
        PROVE  Comes(r, k)'
    <3>1. k = Len(wire) + 1
      BY <2>3, <2>7
    <3>2. wire'[k].message = item.message
      BY <2>3, <3>1
    <3>3. r \in sent
      BY <2>1, <2>7, <3>2 DEF DecodeInv
    <3>4. r \in known \/ Pending(r) \/ Announced(r)
      BY <2>5, <3>3 DEF DecodeInv, SentInv
    <3>5. Announced(r) => ReadBefore(r, k)
      BY <2>3, <3>1 DEF Announced, ReadBefore
    <3>6. Comes(r, k)
      BY <3>4, <3>5 DEF Comes
    <3> QED BY <1>0, <2>4, <3>6, ComesStays
  <2>8. WireInv'
    BY <1>0, <2>4, <2>7, WireStays DEF DecodeInv
  <2>9. HeldInv'
    BY <1>0, <2>4, HeldStays DEF DecodeInv
  <2> QED BY <1>0, <2>1, <2>6, <2>8, <2>9 DEF DecodeInv
<1> QED BY <1>1, <1>2, <1>3 DEF WorkerStep

(* A call that awaits no result has every registration it may need. *)
LEMMA NonePending ==
  ASSUME Shape, call.op # "await"
  PROVE  \A r : ~Pending(r)
BY DEF Shape, CallInv, Pending, Idle

LEMMA DecodeHeld ==
  ASSUME Shape, DecodeInv, NEW s \in Subscriptions, ClientTakeHeld(s)
  PROVE  DecodeInv'
<1>1. held[s] \in Seq(Messages) /\ held[s] # <<>>
  BY DEF Shape, TypeOK, ClientTakeHeld
<1> PICK list \in Seq(Messages) : list = held[s] /\ list # <<>>
  BY <1>1
<1>2. /\ Len(list) \in Nat \ {0} /\ DOMAIN list = 1..Len(list) /\ Head(list) = list[1]
      /\ DOMAIN Tail(list) = 1..(Len(list) - 1)
      /\ \A i \in 1..(Len(list) - 1) : Tail(list)[i] = list[i + 1]
  BY HeadAndTail
<1>3. Needs(Head(list).topic) \subseteq known
  <2>1. \A r : ~Pending(r)
    BY NonePending DEF ClientTakeHeld, Idle
  <2>2. 1 \in DOMAIN held[s] /\ held[s][1] = Head(list)
    BY <1>2
  <2> QED BY <2>1, <2>2 DEF DecodeInv, HeldInv
<1>4. /\ undecoded' = undecoded
      /\ UNCHANGED <<wire, sent, worker, known, reader>>
  BY <1>3 DEF ClientTakeHeld, Decode, sessionVars, threadVars
<1>5. OnTheWay
  BY <1>4, StillOnTheWay
<1>6. HeldInv'
  <2> SUFFICES ASSUME NEW t \in Subscriptions, NEW k \in DOMAIN held'[t],
                      NEW r \in Needs(held'[t][k].topic)
               PROVE  r \in known' \/ Pending(r)'
    BY DEF HeldInv
  <2>1. \E l \in DOMAIN held[t] : held[t][l] = held'[t][k]
    <3>1. held' = [held EXCEPT ![s] = Tail(list)]
      BY DEF ClientTakeHeld
    <3>2. CASE t = s
      <4>1. held'[t] = Tail(list) /\ held[t] = list
        BY <3>1, <3>2 DEF Shape, TypeOK
      <4>2. k + 1 \in DOMAIN held[t] /\ held[t][k + 1] = held'[t][k]
        BY <1>2, <4>1
      <4> QED BY <4>2
    <3>3. CASE t # s
      BY <3>1, <3>3 DEF Shape, TypeOK
    <3> QED BY <3>2, <3>3
  <2>2. r \in known \/ Pending(r)
    BY <2>1 DEF DecodeInv, HeldInv
  <2> QED BY <1>4, <1>5, <2>2 DEF OnTheWay
<1>7. SentInv'
  BY <1>4, <1>5, ComesStays DEF DecodeInv, SentInv, OnTheWay, Announces
<1>8. WireInv'
  BY <1>4, <1>5, WireStays DEF DecodeInv
<1> QED BY <1>4, <1>6, <1>7, <1>8 DEF DecodeInv

(* The frame that is read leaves what it carries with the client. *)
LEMMA ReadOn ==
  ASSUME Shape, DecodeInv, ClientReadFrame
  PROVE  /\ \A r : Pending(r) => r \in known' \/ Pending(r)'
         /\ \A r, k : Comes(r, k + 1) /\ k \in Nat => Comes(r, k)'
         /\ \A r : Announced(r) => r \in known' \/ Announced(r)'
<1> DEFINE frame == Head(wire)
<1>1. /\ frame \in WireFrames /\ frame = wire[1]
      /\ DOMAIN wire = 1..Len(wire) /\ Len(wire) \in Nat \ {0}
      /\ DOMAIN wire' = 1..(Len(wire) - 1)
      /\ \A i \in DOMAIN wire' : wire'[i] = wire[i + 1]
  BY WireTail DEF Shape, ClientReadFrame
<1>2. /\ known \subseteq known' /\ UNCHANGED reader
      /\ frame.kind \in {"registrations", "result"} => frame.registrations \subseteq known'
  BY DEF ClientReadFrame, threadVars
<1> HIDE DEF frame
<1>3. \A i \in DOMAIN wire : i = 1 \/ (i - 1 \in DOMAIN wire' /\ wire'[i - 1] = wire[i])
  BY <1>1
<1>4. ASSUME NEW r, Pending(r)
      PROVE  r \in known' \/ Pending(r)'
  <2>1. CASE reader.op = "send" /\ r \in reader.result.registrations
    BY <1>2, <2>1 DEF Pending
  <2>2. ASSUME NEW i \in DOMAIN wire, IsResult(i), r \in wire[i].registrations
        PROVE  r \in known' \/ Pending(r)'
    <3>1. CASE i = 1
      BY <1>1, <1>2, <2>2, <3>1 DEF IsResult
    <3>2. CASE i # 1
      <4>1. /\ i - 1 \in DOMAIN wire' /\ wire'[i - 1].kind = "result"
            /\ r \in wire'[i - 1].registrations
        BY <1>3, <2>2, <3>2 DEF IsResult
      <4> QED BY <4>1 DEF Pending, IsResult
    <3> QED BY <3>1, <3>2
  <2> QED BY <1>4, <2>1, <2>2 DEF Pending
<1>5. ASSUME NEW r, NEW j \in DOMAIN wire, wire[j].kind = "registrations",
             r \in wire[j].registrations
      PROVE  \/ r \in known'
             \/ /\ j - 1 \in DOMAIN wire' /\ wire'[j - 1].kind = "registrations"
                /\ r \in wire'[j - 1].registrations
  <2>1. CASE j = 1
    BY <1>1, <1>2, <1>5, <2>1
  <2>2. CASE j # 1
    BY <1>3, <1>5, <2>2
  <2> QED BY <2>1, <2>2
<1>6. ASSUME NEW r, NEW k \in Nat, Comes(r, k + 1)
      PROVE  Comes(r, k)'
  <2>1. CASE ReadBefore(r, k + 1)
    <3>1. PICK j \in DOMAIN wire : /\ j < k + 1 /\ wire[j].kind = "registrations"
                                   /\ r \in wire[j].registrations
      BY <2>1 DEF ReadBefore
    <3>2. j \in Nat /\ j - 1 < k
      BY <1>1, <3>1
    <3> QED BY <1>5, <3>1, <3>2 DEF Comes, ReadBefore
  <2> QED BY <1>2, <1>4, <1>6, <2>1 DEF Comes
<1>7. \A r : Announced(r) => r \in known' \/ Announced(r)'
  BY <1>5 DEF Announced
<1> QED BY <1>4, <1>6, <1>7

LEMMA DecodeRead ==
  ASSUME Shape, DecodeInv, ClientReadFrame
  PROVE  DecodeInv'
<1> DEFINE frame == Head(wire)
<1>1. /\ frame \in WireFrames /\ frame = wire[1]
      /\ DOMAIN wire = 1..Len(wire) /\ Len(wire) \in Nat \ {0}
      /\ DOMAIN wire' = 1..(Len(wire) - 1)
      /\ \A i \in DOMAIN wire' : wire'[i] = wire[i + 1]
  BY WireTail DEF Shape, ClientReadFrame
<1>2. known \subseteq known' /\ UNCHANGED <<worker, sent>>
  BY DEF ClientReadFrame, threadVars, sessionVars
<1>3. frame.kind = "delivery" =>
        /\ frame.subscription \in Subscriptions /\ frame.message \in Messages
        /\ \A r \in Needs(frame.message.topic) : r \in known \/ Pending(r)
  <2> SUFFICES ASSUME frame.kind = "delivery"
               PROVE  /\ frame.subscription \in Subscriptions /\ frame.message \in Messages
                      /\ \A r \in Needs(frame.message.topic) : r \in known \/ Pending(r)
    OBVIOUS
  <2>1. frame.subscription \in Subscriptions /\ frame.message \in Messages
    BY <1>1, FrameShape
  <2>2. 1 \in DOMAIN wire /\ \A r : ~ReadBefore(r, 1)
    BY <1>1 DEF ReadBefore
  <2>3. \A r \in Needs(frame.message.topic) : Comes(r, 1)
    BY <1>1, <2>2 DEF DecodeInv, WireInv
  <2> QED BY <2>1, <2>2, <2>3 DEF Comes
<1>4. WireInv'
  <2> SUFFICES ASSUME NEW k \in DOMAIN wire', wire'[k].kind = "delivery",
                      NEW r \in Needs(wire'[k].message.topic)
               PROVE  Comes(r, k)'
    BY DEF WireInv
  <2>1. k \in Nat /\ k + 1 \in DOMAIN wire /\ wire'[k] = wire[k + 1]
    BY <1>1
  <2>2. Comes(r, k + 1)
    BY <2>1 DEF DecodeInv, WireInv
  <2> QED BY <2>1, <2>2, ReadOn
<1>5. SentInv'
  BY <1>2, ReadOn DEF DecodeInv, SentInv, Announces
<1>6. undecoded' = {}
  <2>1. CASE undecoded' = undecoded
    BY <2>1 DEF DecodeInv
  <2>2. CASE /\ frame.kind = "delivery"
             /\ call = [op |-> "receive", subscription |-> frame.subscription]
             /\ Decode(frame.subscription, frame.message)
    <3>1. \A r : ~Pending(r)
      BY <2>2, NonePending
    <3>2. Needs(frame.message.topic) \subseteq known
      BY <1>3, <2>2, <3>1
    <3> QED BY <2>2, <3>2 DEF Decode, DecodeInv
  <2> QED BY <2>1, <2>2 DEF ClientReadFrame
<1>7. HeldInv'
  <2>1. \A t \in Subscriptions : \A k \in DOMAIN held[t] :
          \A r \in Needs(held[t][k].topic) : r \in known' \/ Pending(r)'
    BY <1>2, ReadOn DEF DecodeInv, HeldInv
  <2>2. CASE held' = held
    BY <2>1, <2>2 DEF HeldInv
  <2>3. CASE frame.kind = "delivery" /\ held' = [held EXCEPT ![frame.subscription] =
                                                   Append(@, frame.message)]
    <3> PICK s \in Subscriptions, m \in Messages :
          s = frame.subscription /\ m = frame.message
      BY <1>3, <2>3
    <3>1. \A r \in Needs(m.topic) : r \in known' \/ Pending(r)'
      BY <1>2, <1>3, <2>3, ReadOn
    <3>2. /\ held'[s] = Append(held[s], m) /\ held[s] \in Seq(Messages)
          /\ \A t \in Subscriptions : t # s => held'[t] = held[t]
      BY <2>3 DEF Shape, TypeOK
    <3>3. /\ DOMAIN held[s] = 1..Len(held[s]) /\ Len(held[s]) \in Nat
          /\ DOMAIN held'[s] = 1..(Len(held[s]) + 1)
          /\ \A k \in 1..Len(held[s]) : held'[s][k] = held[s][k]
          /\ held'[s][Len(held[s]) + 1] = m
      BY <3>2, Appended
    <3> SUFFICES ASSUME NEW t \in Subscriptions, NEW k \in DOMAIN held'[t],
                        NEW r \in Needs(held'[t][k].topic)
                 PROVE  r \in known' \/ Pending(r)'
      BY DEF HeldInv
    <3>4. CASE t # s
      BY <2>1, <3>2, <3>4
    <3>5. CASE t = s /\ k \in DOMAIN held[s]
      BY <2>1, <3>3, <3>5
    <3>6. CASE t = s /\ k = Len(held[s]) + 1
      BY <3>1, <3>3, <3>6
    <3> QED BY <3>3, <3>4, <3>5, <3>6
  <2> QED BY <2>2, <2>3 DEF ClientReadFrame
<1> QED BY <1>2, <1>4, <1>5, <1>6, <1>7 DEF DecodeInv

LEMMA DecodeNext == Shape /\ DecodeInv /\ [Next]_vars => DecodeInv'
<1> SUFFICES ASSUME Shape, DecodeInv, [Next]_vars PROVE DecodeInv'
  OBVIOUS
<1>1. CASE ClientStep
  <2>1. CASE UNCHANGED <<wire, sessionVars, threadVars, clientVars>>
    BY <2>1, DecodeQuiet DEF sessionVars, threadVars, clientVars
  <2>2. \/ UNCHANGED <<wire, sessionVars, threadVars, clientVars>>
        \/ \E s \in Subscriptions : ClientTakeHeld(s)
    BY <1>1 DEF ClientStep, ClientSubscribe, ClientRegisterEmitter, ClientEmit, ClientReceive,
                ClientStopsReceiving
  <2> QED BY <2>1, <2>2, DecodeHeld
<1>2. CASE ClientReadFrame
  BY <1>2, DecodeRead
<1>3. CASE ReaderStep
  <2>1. CASE HandleSubscribe
    BY <2>1, DecodeQuiet DEF HandleSubscribe, clientVars, Idle
  <2>2. CASE HandleRegisterEmitter
    BY <2>2, DecodeQuiet DEF HandleRegisterEmitter, sessionVars, clientVars, Idle
  <2>3. CASE HandleEmit
    BY <2>3, DecodeQuiet DEF HandleEmit, clientVars, Idle
  <2>4. Result({}) \in ResultFrames
    BY DEF Result, ResultFrames
  <2>5. CASE HandleEmitRefused
    BY <2>4, <2>5, DecodeAnswer DEF HandleEmitRefused, sessionVars, threadVars, clientVars, Idle
  <2>6. CASE TakeForResult
    BY <2>6, DecodeTake
  <2>7. CASE SendResult
    <3>1. reader.result \in ResultFrames
      BY <2>7, ReaderShape DEF SendResult, Shape
    <3> QED BY <2>7, <3>1, DecodeAnswer DEF SendResult, sessionVars, clientVars
  <2>8. CASE EmitReturns
    BY <2>4, <2>8, DecodeAnswer DEF EmitReturns, sessionVars, clientVars
  <2> QED BY <1>3, <2>1, <2>2, <2>3, <2>5, <2>6, <2>7, <2>8 DEF ReaderStep
<1>4. CASE WorkerStep
  BY <1>4, DecodeWorker
<1>5. ASSUME NEW e \in Emitters, DeliverStep(e)
      PROVE  DecodeInv'
  <2>1. UNCHANGED <<wire, sent, worker, reader, known, held, undecoded>>
    BY <1>5 DEF DeliverStep, DeliverNext, FindOwner, ClaimReply, sessionVars, clientVars
  <2> QED BY <2>1, DecodeQuiet
<1>6. ASSUME NEW p \in Publishers, NEW topic \in Topics, Publish(p, topic)
      PROVE  DecodeInv'
  BY <1>6, DecodeQuiet DEF Publish, sessionVars, clientVars
<1>7. CASE UNCHANGED vars
  BY <1>7, DecodeQuiet DEF vars, sessionVars, threadVars, clientVars
<1> QED BY <1>1, <1>2, <1>3, <1>4, <1>5, <1>6, <1>7 DEF Next

LEMMA DecodeInit == Init => DecodeInv
BY DEF Init, DecodeInv, SentInv, HeldInv, WireInv, Nothing

(***************************************************************************)
(* Whatever the reader and the worker mark as sent before they send it,    *)
(* the client has the registrations of a delivery when it decodes it:      *)
(* those that are still on their way are in the result that its call       *)
(* awaits, and such a call decodes nothing (TransportSession.              *)
(* EveryDeliveryDecodes; registrations_to_send, _send_delivery_frame).     *)
(***************************************************************************)
THEOREM DeliveriesDecode == Spec => []EveryDeliveryDecodes
<1>1. Init => Shape /\ DecodeInv
  BY ShapeInit, DecodeInit
<1>2. Shape /\ DecodeInv /\ [Next]_vars => (Shape /\ DecodeInv)'
  BY ShapeNext, DecodeNext
<1>3. DecodeInv => EveryDeliveryDecodes
  BY DEF DecodeInv, EveryDeliveryDecodes
<1> QED BY <1>1, <1>2, <1>3, PTL DEF Spec

------------------------------------------------------------------------------
(***************************************************************************)
(* In which order the client gets what.  A call that receives from a       *)
(* subscription has found nothing held for it, so what it reads may go     *)
(* past the frames that are held for others.                               *)
(***************************************************************************)
FlowInv ==
  /\ received \in [Subscriptions -> Seq(Messages)]
  /\ \A s \in Subscriptions :
       call = [op |-> "receive", subscription |-> s] => held[s] = <<>>
  /\ NothingLostOrReordered

LEMMA RankUpTo ==
  ASSUME NEW places, NEW i
  PROVE  Rank(places, i) = Cardinality(UpTo(places, i))
BY DEF Rank, UpTo

LEMMA Flow ==
  ASSUME Shape, FlowInv, NEW s \in Subscriptions
  PROVE  /\ received[s] \in Seq(Messages) /\ held[s] \in Seq(Messages)
         /\ Arrived(s) \in Seq(Messages) /\ Len(Arrived(s)) \in Nat
         /\ DOMAIN Arrived(s) = 1..Len(Arrived(s))
         /\ OnWire(s) \in SUBSET (1..Len(wire)) /\ Len(wire) \in Nat
         /\ InQueue(s) \in SUBSET (1..Len(queue)) /\ Len(queue) \in Nat
         /\ Cardinality(OnWire(s)) \in Nat /\ Cardinality(InQueue(s)) \in Nat
         /\ \A i \in OnWire(s) : Rank(OnWire(s), i) \in 1..Cardinality(OnWire(s))
         /\ \A i \in InQueue(s) : Rank(InQueue(s), i) \in 1..Cardinality(InQueue(s))
         /\ Sent(s) \in Nat /\ Taken(s) \in Nat
         /\ accepted[s] \in Seq(Messages)
<1>1. /\ received[s] \in Seq(Messages) /\ held[s] \in Seq(Messages)
      /\ accepted[s] \in Seq(Messages)
  BY DEF Shape, TypeOK, FlowInv
<1>2. /\ Arrived(s) \in Seq(Messages) /\ Len(Arrived(s)) \in Nat
      /\ DOMAIN Arrived(s) = 1..Len(Arrived(s))
  BY <1>1, ConcatProperties, LenProperties DEF Arrived
<1>3. /\ OnWire(s) \in SUBSET (1..Len(wire)) /\ Len(wire) \in Nat
      /\ InQueue(s) \in SUBSET (1..Len(queue)) /\ Len(queue) \in Nat
  BY LenProperties DEF Shape, TypeOK, OnWire, InQueue
<1>4. /\ Cardinality(OnWire(s)) \in Nat
      /\ \A i \in OnWire(s) : Rank(OnWire(s), i) \in 1..Cardinality(OnWire(s))
  <2>1. Cardinality(OnWire(s)) \in Nat
    BY <1>3, PlacesUpTo, 0 \in Nat
  <2>2. ASSUME NEW i \in OnWire(s)
        PROVE  Rank(OnWire(s), i) \in 1..Cardinality(OnWire(s))
    <3>1. i \in Nat
      BY <1>3
    <3>2. /\ Rank(OnWire(s), i) \in Nat /\ Rank(OnWire(s), i) >= 1
          /\ Rank(OnWire(s), i) <= Cardinality(OnWire(s))
      BY <1>3, <3>1, PlacesUpTo, RankUpTo
    <3> QED BY <2>1, <3>2
  <2> QED BY <2>1, <2>2
<1>5. /\ Cardinality(InQueue(s)) \in Nat
      /\ \A i \in InQueue(s) : Rank(InQueue(s), i) \in 1..Cardinality(InQueue(s))
  <2>1. Cardinality(InQueue(s)) \in Nat
    BY <1>3, PlacesUpTo, 0 \in Nat
  <2>2. ASSUME NEW i \in InQueue(s)
        PROVE  Rank(InQueue(s), i) \in 1..Cardinality(InQueue(s))
    <3>1. i \in Nat
      BY <1>3
    <3>2. /\ Rank(InQueue(s), i) \in Nat /\ Rank(InQueue(s), i) >= 1
          /\ Rank(InQueue(s), i) <= Cardinality(InQueue(s))
      BY <1>3, <3>1, PlacesUpTo, RankUpTo
    <3> QED BY <2>1, <3>2
  <2> QED BY <2>1, <2>2
<1>6. Sent(s) \in Nat /\ Taken(s) \in Nat
  BY <1>2, <1>4 DEF Sent, Taken
<1> QED BY <1>1, <1>2, <1>3, <1>4, <1>5, <1>6

LEMMA FlowStays ==
  ASSUME NEW s \in Subscriptions, InOrder(s), Arrived(s)' = Arrived(s),
         OnWire(s)' = OnWire(s), \A i \in OnWire(s) : wire'[i] = wire[i],
         InWorker(s)' <=> InWorker(s), InWorker(s) => worker'.item = worker.item,
         InQueue(s)' = InQueue(s), \A i \in InQueue(s) : queue'[i] = queue[i],
         accepted'[s] = accepted[s]
  PROVE  InOrder(s)'
<1>1. Sent(s)' = Sent(s) /\ Taken(s)' = Taken(s)
  BY DEF Sent, Taken
<1>2. \A i : Rank(OnWire(s), i)' = Rank(OnWire(s), i)
             /\ Rank(InQueue(s), i)' = Rank(InQueue(s), i)
  BY DEF Rank
<1> QED BY <1>1, <1>2 DEF InOrder

LEMMA FlowQuiet ==
  ASSUME NEW s \in Subscriptions, InOrder(s),
         UNCHANGED <<wire, queue, worker, accepted, received, held>>
  PROVE  InOrder(s)'
<1>1. /\ Arrived(s)' = Arrived(s) /\ OnWire(s)' = OnWire(s)
      /\ (InWorker(s)' <=> InWorker(s)) /\ InQueue(s)' = InQueue(s)
  BY DEF Arrived, OnWire, InWorker, InQueue
<1> QED BY <1>1, FlowStays

(* A frame that is no delivery is added. *)
LEMMA FlowFrame ==
  ASSUME Shape, NEW s \in Subscriptions, InOrder(s),
         NEW frame \in WireFrames, frame.kind # "delivery", wire' = Append(wire, frame),
         InWorker(s)' <=> InWorker(s), InWorker(s) => worker'.item = worker.item,
         UNCHANGED <<queue, accepted, received, held>>
  PROVE  InOrder(s)'
<1>1. /\ DOMAIN wire = 1..Len(wire) /\ Len(wire) \in Nat
      /\ DOMAIN wire' = 1..(Len(wire) + 1)
      /\ \A i \in DOMAIN wire : wire'[i] = wire[i]
      /\ wire'[Len(wire) + 1] = frame
  BY WireAppended DEF Shape
<1>2. DOMAIN wire' = DOMAIN wire \cup {Len(wire) + 1}
  BY <1>1
<1>3. OnWire(s)' = OnWire(s)
  BY <1>1, <1>2 DEF OnWire
<1>4. /\ Arrived(s)' = Arrived(s) /\ InQueue(s)' = InQueue(s)
      /\ \A i \in OnWire(s) : wire'[i] = wire[i]
  BY <1>1 DEF Arrived, OnWire, InQueue
<1> QED BY <1>3, <1>4, FlowStays

(* What the places of the messages are counted from, and that they are places *)
(* of what was let through.                                                   *)
LEMMA FlowPlaces ==
  ASSUME Shape, FlowInv, NEW s \in Subscriptions
  PROVE  /\ Len(accepted[s]) \in Nat /\ DOMAIN accepted[s] = 1..Len(accepted[s])
         /\ DOMAIN Arrived(s) \subseteq DOMAIN accepted[s]
         /\ \A i \in OnWire(s) : Len(Arrived(s)) + Rank(OnWire(s), i) \in DOMAIN accepted[s]
         /\ InWorker(s) => Taken(s) \in DOMAIN accepted[s]
         /\ \A i \in InQueue(s) : Taken(s) + Rank(InQueue(s), i) \in DOMAIN accepted[s]
<1> DEFINE a == Len(Arrived(s))
           w == Cardinality(OnWire(s))
           q == Cardinality(InQueue(s))
           t == IF InWorker(s) THEN 1 ELSE 0
           n == Len(accepted[s])
<1>1. /\ a \in Nat /\ w \in Nat /\ q \in Nat /\ DOMAIN Arrived(s) = 1..a
      /\ \A i \in OnWire(s) : Rank(OnWire(s), i) \in 1..w
      /\ \A i \in InQueue(s) : Rank(InQueue(s), i) \in 1..q
  BY Flow
<1>2. n \in Nat /\ DOMAIN accepted[s] = 1..n
  BY Flow, LenProperties
<1>3. Taken(s) = a + w + t /\ n = a + w + t + q
  BY DEF FlowInv, NothingLostOrReordered, InOrder, Taken, Sent
<1>4. t \in {0, 1} /\ (InWorker(s) => t = 1)
  OBVIOUS
<1> HIDE DEF a, w, q, t, n
<1>5. 1..a \subseteq 1..n
  BY <1>1, <1>2, <1>3, <1>4
<1>6. \A i \in OnWire(s) : a + Rank(OnWire(s), i) \in 1..n
  BY <1>1, <1>2, <1>3, <1>4
<1>7. InWorker(s) => Taken(s) \in 1..n
  BY <1>1, <1>2, <1>3, <1>4
<1>8. \A i \in InQueue(s) : Taken(s) + Rank(InQueue(s), i) \in 1..n
  BY <1>1, <1>2, <1>3, <1>4
<1> QED BY <1>1, <1>2, <1>5, <1>6, <1>7, <1>8 DEF a, n

(* A target lets a message through. *)
LEMMA FlowEnqueue ==
  ASSUME Shape, FlowInv, NEW s \in Subscriptions, NEW t \in Subscriptions,
         NEW m \in Messages, Enqueue(t, m), UNCHANGED <<wire, worker, received, held>>
  PROVE  InOrder(s)'
<1> DEFINE item == [subscription |-> t, message |-> m]
<1>1. /\ DOMAIN queue = 1..Len(queue) /\ Len(queue) \in Nat
      /\ DOMAIN queue' = 1..(Len(queue) + 1)
      /\ \A i \in DOMAIN queue : queue'[i] = queue[i]
      /\ queue'[Len(queue) + 1] = item
  <2>1. item \in Items /\ queue \in Seq(Items) /\ queue' = Append(queue, item)
    BY DEF Items, Shape, TypeOK, Enqueue
  <2> QED BY <2>1, Appended
<1>2. DOMAIN queue' = DOMAIN queue \cup {Len(queue) + 1}
  BY <1>1
<1>3. item.subscription = t /\ item.message = m
  OBVIOUS
<1> HIDE DEF item
<1>4. /\ Arrived(s)' = Arrived(s) /\ OnWire(s)' = OnWire(s)
      /\ (InWorker(s)' <=> InWorker(s)) /\ Sent(s)' = Sent(s) /\ Taken(s)' = Taken(s)
  BY DEF Arrived, OnWire, InWorker, Sent, Taken
<1>5. InOrder(s)
  BY DEF FlowInv, NothingLostOrReordered
<1>6. CASE s # t
  <2>1. InQueue(s)' = InQueue(s) /\ \A i \in InQueue(s) : queue'[i] = queue[i]
    BY <1>1, <1>2, <1>3, <1>6 DEF InQueue
  <2>2. accepted'[s] = accepted[s]
    BY <1>6 DEF Enqueue, Shape, TypeOK
  <2> QED BY <1>4, <1>5, <2>1, <2>2, FlowStays
<1>7. CASE s = t
  <2>1. InQueue(s)' = InQueue(s) \cup {Len(queue) + 1}
    BY <1>1, <1>2, <1>3, <1>7 DEF InQueue
  <2>2. /\ Cardinality(InQueue(s)') = Cardinality(InQueue(s)) + 1
        /\ \A i \in InQueue(s) : Rank(InQueue(s)', i) = Rank(InQueue(s), i)
        /\ Rank(InQueue(s)', Len(queue) + 1) = Cardinality(InQueue(s)) + 1
    <3>1. InQueue(s) \in SUBSET (1..Len(queue)) /\ Len(queue) \in Nat
      BY Flow
    <3> DEFINE S == InQueue(s)
               T == InQueue(s)'
               n == Len(queue)
    <3>2. T = S \cup {n + 1} /\ n \in Nat /\ S \in SUBSET (1..n)
      BY <2>1, <3>1
    <3> HIDE DEF S, T, n
    <3>3. /\ Cardinality(T) = Cardinality(S) + 1
          /\ \A i \in 1..n : UpTo(T, i) = UpTo(S, i)
          /\ UpTo(T, n + 1) = T
      BY <3>2, OneMorePlace
    <3>4. /\ \A i \in S : Rank(T, i) = Rank(S, i)
          /\ Rank(T, n + 1) = Cardinality(T)
      BY <3>2, <3>3, RankUpTo
    <3> QED BY <3>3, <3>4 DEF S, T, n
  <2>3. /\ Len(accepted'[s]) = Len(accepted[s]) + 1
        /\ \A k \in DOMAIN accepted[s] : accepted'[s][k] = accepted[s][k]
        /\ accepted'[s][Len(accepted[s]) + 1] = m
    <3>1. accepted'[s] = Append(accepted[s], m) /\ accepted[s] \in Seq(Messages)
      BY <1>7 DEF Enqueue, Shape, TypeOK
    <3> QED BY <3>1, Appended
  <2>4. Len(accepted[s]) = Taken(s) + Cardinality(InQueue(s))
    BY <1>5 DEF InOrder
  <2>5. Len(accepted'[s]) = Taken(s)' + Cardinality(InQueue(s)')
    BY <1>4, <2>2, <2>3, <2>4, Flow
  <2>6. \A i \in DOMAIN Arrived(s) : accepted'[s][i] = Arrived(s)[i]
    BY <1>5, <2>3, FlowPlaces DEF InOrder
  <2>7. \A i \in OnWire(s) :
          accepted'[s][Len(Arrived(s)) + Rank(OnWire(s), i)] = wire[i].message
    BY <1>5, <2>3, FlowPlaces DEF InOrder
  <2>8. InWorker(s) => accepted'[s][Taken(s)] = worker.item.message
    BY <1>5, <2>3, FlowPlaces DEF InOrder
  <2>9. \A i \in InQueue(s) :
          accepted'[s][Taken(s) + Rank(InQueue(s)', i)] = queue'[i].message
    <3>1. \A i \in InQueue(s) : queue'[i] = queue[i]
      BY <1>1 DEF InQueue
    <3> QED BY <1>5, <2>2, <2>3, <3>1, FlowPlaces DEF InOrder
  <2>10. accepted'[s][Taken(s) + Rank(InQueue(s)', Len(queue) + 1)]
           = queue'[Len(queue) + 1].message
    <3>1. Taken(s) + (Cardinality(InQueue(s)) + 1) = Len(accepted[s]) + 1
      BY <2>4, Flow
    <3> QED BY <1>1, <1>3, <2>2, <2>3, <3>1
  <2>11. \A i \in InQueue(s)' :
           accepted'[s][Taken(s) + Rank(InQueue(s)', i)] = queue'[i].message
    BY <2>1, <2>9, <2>10
  <2>12. \A i : Rank(OnWire(s), i)' = Rank(OnWire(s), i)
                /\ Rank(InQueue(s), i)' = Rank(InQueue(s)', i)
    BY <1>4 DEF Rank
  <2> QED BY <1>4, <2>5, <2>6, <2>7, <2>8, <2>11, <2>12 DEF InOrder
<1> QED BY <1>6, <1>7

(* The places of a list that has lost its head *)
LEMMA RanksOfTail ==
  ASSUME NEW n \in Nat \ {0}, NEW S \in SUBSET (1..n), NEW T, T = OfTail(n, S)
  PROVE  /\ 1 \in S => /\ Cardinality(T) = Cardinality(S) - 1 /\ Rank(S, 1) = 1
                       /\ \A i \in T : Rank(T, i) = Rank(S, i + 1) - 1
         /\ 1 \notin S => /\ Cardinality(T) = Cardinality(S)
                          /\ \A i \in T : Rank(T, i) = Rank(S, i + 1)
<1>1. \A i \in T : i \in Nat
  BY DEF OfTail
<1>2. n \in Nat /\ 0 \in Nat /\ Cardinality(S) \in Nat
  BY PlacesUpTo, 0 \in Nat
<1>3. 1 \in S => Rank(S, 1) = 1
  BY <1>2, FirstPlace, RankUpTo
<1>4. Cardinality(T) = Cardinality(S) - (IF 1 \in S THEN 1 ELSE 0)
  BY <1>2, PlacesOfTail
<1>5. ASSUME NEW i \in T
      PROVE  /\ Rank(T, i) = Rank(S, i + 1) - (IF 1 \in S THEN 1 ELSE 0)
             /\ Rank(S, i + 1) \in Nat
  <2>1. i \in Nat /\ i + 1 \in Nat
    BY <1>1
  <2>2. Cardinality(UpTo(T, i)) = Cardinality(UpTo(S, i + 1)) - (IF 1 \in S THEN 1 ELSE 0)
    BY <2>1, PlacesOfTail
  <2>3. Cardinality(UpTo(S, i + 1)) \in Nat
    BY <1>2, <2>1, PlacesUpTo
  <2> QED BY <2>2, <2>3, RankUpTo
<1> QED BY <1>2, <1>3, <1>4, <1>5

(* The worker takes the oldest item. *)
LEMMA FlowTake ==
  ASSUME Shape, FlowInv, NEW s \in Subscriptions, WorkerTake
  PROVE  InOrder(s)'
<1> DEFINE Q == InQueue(s)
           R == InQueue(s)'
           n == Len(queue)
<1>1. /\ n \in Nat \ {0} /\ DOMAIN queue = 1..n /\ Head(queue) = queue[1]
      /\ DOMAIN queue' = 1..(n - 1)
      /\ \A i \in 1..(n - 1) : queue'[i] = queue[i + 1]
  BY HeadAndTail DEF Shape, TypeOK, WorkerTake
<1>2. /\ UNCHANGED <<wire, accepted, received, held>>
      /\ worker = Idle /\ worker' # Idle /\ worker'.item = queue[1]
  BY <1>1 DEF WorkerTake, historyVars, clientVars, Idle
<1>3. /\ Q \in SUBSET (1..n) /\ R \in SUBSET (1..(n - 1)) /\ R = OfTail(n, Q)
      /\ \A j \in 1..(n - 1) : j \in R <=> j + 1 \in Q
      /\ 1 \in Q <=> InWorker(s)'
  <2>1. Q \in SUBSET (1..n) /\ R \in SUBSET (1..(n - 1))
    BY <1>1 DEF InQueue
  <2>2. \A j \in 1..(n - 1) : j + 1 \in 1..n
    BY <1>1
  <2>3. \A j \in 1..(n - 1) : j \in R <=> j + 1 \in Q
    BY <1>1, <2>2 DEF InQueue
  <2>4. 1 \in DOMAIN queue
    BY <1>1
  <2>5. 1 \in Q <=> InWorker(s)'
    BY <1>2, <2>4 DEF InQueue, InWorker
  <2>6. R = OfTail(n, Q)
    <3> HIDE DEF Q, R, n
    <3> QED BY <2>1, <2>3 DEF OfTail
  <2> QED BY <2>1, <2>3, <2>5, <2>6
<1>4. /\ Arrived(s)' = Arrived(s) /\ OnWire(s)' = OnWire(s) /\ Sent(s)' = Sent(s)
      /\ Taken(s) = Sent(s) /\ Taken(s)' = Sent(s) + (IF 1 \in Q THEN 1 ELSE 0)
      /\ \A i : Rank(OnWire(s), i)' = Rank(OnWire(s), i)
  <2>1. Arrived(s)' = Arrived(s) /\ OnWire(s)' = OnWire(s) /\ ~InWorker(s)
    BY <1>2 DEF Arrived, OnWire, InWorker
  <2>2. Sent(s)' = Sent(s)
    BY <2>1 DEF Sent
  <2> HIDE DEF Q
  <2> QED BY <1>3, <2>1, <2>2, Flow DEF Taken, Rank
<1>5. /\ Len(accepted[s]) = Sent(s) + Cardinality(Q)
      /\ \A i \in DOMAIN Arrived(s) : accepted[s][i] = Arrived(s)[i]
      /\ \A i \in OnWire(s) :
           accepted[s][Len(Arrived(s)) + Rank(OnWire(s), i)] = wire[i].message
      /\ \A i \in Q : accepted[s][Sent(s) + Rank(Q, i)] = queue[i].message
  BY <1>4 DEF FlowInv, NothingLostOrReordered, InOrder
<1>6. Sent(s) \in Nat /\ Cardinality(Q) \in Nat /\ \A i \in Q : Rank(Q, i) \in Nat
  BY Flow
<1>7. \A i : Rank(InQueue(s), i)' = Rank(R, i)
  BY DEF Rank
<1>8. \A i \in R : i + 1 \in Q /\ queue'[i] = queue[i + 1]
  BY <1>1, <1>3
<1>9. n \in Nat \ {0}
  BY <1>1
<1> HIDE DEF Q, R, n
<1>10. /\ 1 \in Q => /\ Cardinality(R) = Cardinality(Q) - 1 /\ Rank(Q, 1) = 1
                     /\ \A i \in R : Rank(R, i) = Rank(Q, i + 1) - 1
       /\ 1 \notin Q => /\ Cardinality(R) = Cardinality(Q)
                        /\ \A i \in R : Rank(R, i) = Rank(Q, i + 1)
  BY <1>3, <1>9, RanksOfTail
<1>11. Len(accepted[s]) = Taken(s)' + Cardinality(R)
  BY <1>4, <1>5, <1>6, <1>10
<1>12. InWorker(s)' => accepted[s][Taken(s)'] = worker'.item.message
  BY <1>2, <1>3, <1>4, <1>5, <1>10
<1>13. ASSUME NEW i \in R
       PROVE  accepted[s][Taken(s)' + Rank(R, i)] = queue'[i].message
  <2>1. Taken(s)' + Rank(R, i) = Sent(s) + Rank(Q, i + 1)
    BY <1>4, <1>6, <1>8, <1>10
  <2> QED BY <1>5, <1>8, <2>1
<1>14. /\ accepted' = accepted /\ wire' = wire
       /\ Cardinality(InQueue(s))' = Cardinality(R) /\ InQueue(s)' = R
  BY <1>2 DEF R
<1>15. /\ Len(accepted'[s]) = Taken(s)' + Cardinality(InQueue(s))'
       /\ \A i \in DOMAIN Arrived(s)' : accepted'[s][i] = Arrived(s)'[i]
       /\ \A i \in OnWire(s)' :
            accepted'[s][Len(Arrived(s)') + Rank(OnWire(s), i)'] = wire'[i].message
  BY <1>4, <1>5, <1>11, <1>14
<1>16. \A i \in InQueue(s)' : accepted'[s][Taken(s)' + Rank(InQueue(s), i)'] = queue'[i].message
  BY <1>7, <1>13, <1>14
<1> QED BY <1>12, <1>14, <1>15, <1>16 DEF InOrder

(* The worker sends the delivery. *)
LEMMA FlowSend ==
  ASSUME Shape, FlowInv, NEW s \in Subscriptions, WorkerSend
  PROVE  InOrder(s)'
<1> DEFINE frame == [kind |-> "delivery", subscription |-> worker.item.subscription,
                     message |-> worker.item.message]
           n == Len(wire)
           W == OnWire(s)
           V == OnWire(s)'
<1>1. /\ DOMAIN wire = 1..n /\ n \in Nat
      /\ DOMAIN wire' = 1..(n + 1)
      /\ \A i \in DOMAIN wire : wire'[i] = wire[i]
      /\ wire'[n + 1] = frame
  <2>1. worker.item \in Items
    BY ReaderShape DEF WorkerSend, Shape
  <2>2. frame \in WireFrames
    BY <2>1 DEF WireFrames, Items
  <2> QED BY <2>2, WireAppended DEF Shape, WorkerSend
<1>2. /\ UNCHANGED <<queue, accepted, received, held>>
      /\ worker # Idle /\ worker' = Idle
  BY DEF WorkerSend, historyVars, clientVars, Idle
<1>3. /\ frame.kind = "delivery" /\ frame.subscription = worker.item.subscription
      /\ frame.message = worker.item.message
  OBVIOUS
<1>4. DOMAIN wire' = DOMAIN wire \cup {n + 1}
  BY <1>1
<1> HIDE DEF frame
<1>5. /\ Arrived(s)' = Arrived(s) /\ InQueue(s)' = InQueue(s) /\ ~InWorker(s)'
  BY <1>2 DEF Arrived, InQueue, InWorker
<1>6. InOrder(s)
  BY DEF FlowInv, NothingLostOrReordered
<1>7. CASE ~InWorker(s)
  <2>1. frame.subscription # s
    BY <1>2, <1>3, <1>7 DEF InWorker
  <2>2. V = W /\ \A i \in W : wire'[i] = wire[i]
    BY <1>1, <1>4, <2>1 DEF OnWire
  <2> QED BY <1>2, <1>5, <1>6, <1>7, <2>2, FlowStays
<1>8. CASE InWorker(s)
  <2>1. frame.subscription = s
    BY <1>3, <1>8 DEF InWorker
  <2>2. V = W \cup {n + 1} /\ \A i \in W : wire'[i] = wire[i]
    BY <1>1, <1>3, <1>4, <2>1 DEF OnWire
  <2>3. W \in SUBSET (1..n) /\ n \in Nat /\ Cardinality(W) \in Nat /\ Len(Arrived(s)) \in Nat
    BY Flow
  <2>4. /\ Sent(s) = Len(Arrived(s)) + Cardinality(W)
        /\ Sent(s)' = Len(Arrived(s)) + Cardinality(V)
        /\ Taken(s) = Sent(s) + 1
        /\ Sent(s)' \in Nat => Taken(s)' = Sent(s)'
    <3>1. Sent(s) = Len(Arrived(s)) + Cardinality(W)
      BY DEF Sent
    <3>2. Sent(s)' = Len(Arrived(s)) + Cardinality(V)
      BY <1>5 DEF Sent
    <3>3. Taken(s) = Sent(s) + 1 /\ Taken(s)' = Sent(s)' + 0
      BY <1>5, <1>8 DEF Taken
    <3> QED BY <3>1, <3>2, <3>3
  <2>5. \A i : /\ Rank(OnWire(s), i)' = Rank(V, i)
               /\ Rank(InQueue(s), i)' = Rank(InQueue(s), i)
    BY <1>5 DEF Rank
  <2>6. wire'[n + 1].message = worker.item.message
    BY <1>1, <1>3
  <2> HIDE DEF W, V, n
  <2>7. /\ Cardinality(V) = Cardinality(W) + 1
        /\ \A i \in 1..n : UpTo(V, i) = UpTo(W, i)
        /\ UpTo(V, n + 1) = V
    BY <2>2, <2>3, OneMorePlace
  <2>8. /\ \A i \in W : Rank(V, i) = Rank(W, i)
        /\ Rank(V, n + 1) = Cardinality(W) + 1
    BY <2>3, <2>7, RankUpTo
  <2>9. Sent(s)' \in Nat
    BY <2>3, <2>4, <2>7
  <2>10. Taken(s)' = Taken(s)
    BY <2>3, <2>4, <2>7, <2>9
  <2>11. \A i \in W : accepted[s][Len(Arrived(s)) + Rank(V, i)] = wire'[i].message
    BY <1>6, <2>2, <2>8 DEF InOrder, W
  <2>12. accepted[s][Len(Arrived(s)) + Rank(V, n + 1)] = wire'[n + 1].message
    <3>1. accepted[s][Taken(s)] = worker.item.message
      BY <1>6, <1>8 DEF InOrder
    <3>2. Len(Arrived(s)) + (Cardinality(W) + 1) = Taken(s)
      BY <2>3, <2>4
    <3> QED BY <2>6, <2>8, <3>1, <3>2
  <2>13. \A i \in V : accepted[s][Len(Arrived(s)) + Rank(V, i)] = wire'[i].message
    BY <2>2, <2>11, <2>12
  <2>14. /\ accepted' = accepted /\ queue' = queue /\ OnWire(s)' = V
    BY <1>2 DEF V
  <2>15. \A i \in OnWire(s)' :
           accepted'[s][Len(Arrived(s)') + Rank(OnWire(s), i)'] = wire'[i].message
    BY <1>5, <2>5, <2>13, <2>14
  <2>16. /\ Len(accepted'[s]) = Taken(s)' + Cardinality(InQueue(s)')
         /\ \A i \in DOMAIN Arrived(s)' : accepted'[s][i] = Arrived(s)'[i]
         /\ \A i \in InQueue(s)' :
              accepted'[s][Taken(s)' + Rank(InQueue(s), i)'] = queue'[i].message
    BY <1>5, <1>6, <2>5, <2>10, <2>14 DEF InOrder
  <2> QED BY <1>5, <2>15, <2>16 DEF InOrder
<1> QED BY <1>7, <1>8

(* The client takes a frame that it has held. *)
LEMMA FlowHeld ==
  ASSUME Shape, FlowInv, NEW s \in Subscriptions, NEW t \in Subscriptions,
         ClientTakeHeld(t)
  PROVE  InOrder(s)' /\ received'[s] \in Seq(Messages)
<1>1. UNCHANGED <<wire, queue, worker, accepted>>
  BY DEF ClientTakeHeld, threadVars, historyVars
<1>2. InOrder(s) /\ received[s] \in Seq(Messages) /\ held[s] \in Seq(Messages)
  BY Flow DEF FlowInv, NothingLostOrReordered
<1>3. Arrived(s)' = Arrived(s) /\ received'[s] \in Seq(Messages)
  <2>1. CASE s # t
    <3>1. received'[s] = received[s] /\ held'[s] = held[s]
      BY <2>1 DEF ClientTakeHeld, Decode, FlowInv, Shape, TypeOK
    <3> QED BY <1>2, <3>1 DEF Arrived
  <2>2. CASE s = t
    <3>1. /\ held[s] # <<>> /\ held'[s] = Tail(held[s])
          /\ received'[s] = Append(received[s], Head(held[s]))
      BY <2>2 DEF ClientTakeHeld, Decode, FlowInv, Shape, TypeOK
    <3>2. Head(held[s]) \in Messages
      BY <1>2, <3>1, HeadAndTail
    <3>3. Append(received[s], Head(held[s])) \o Tail(held[s]) = received[s] \o held[s]
      BY <1>2, <3>1, <3>2, TwoQueues
    <3>4. Append(received[s], Head(held[s])) \in Seq(Messages)
      BY <1>2, <3>2, Appended
    <3> QED BY <3>1, <3>3, <3>4 DEF Arrived
  <2> QED BY <2>1, <2>2
<1>4. /\ OnWire(s)' = OnWire(s) /\ (InWorker(s)' <=> InWorker(s)) /\ InQueue(s)' = InQueue(s)
  BY <1>1 DEF OnWire, InWorker, InQueue
<1> QED BY <1>1, <1>2, <1>3, <1>4, FlowStays

(* The client reads a frame: a delivery arrives, for the call or to be held. *)
LEMMA ReadArrives ==
  ASSUME Shape, FlowInv, NEW s \in Subscriptions, ClientReadFrame
  PROVE  LET delivery == Head(wire).kind = "delivery" /\ Head(wire).subscription = s
         IN /\ delivery => /\ Head(wire).message \in Messages
                           /\ Arrived(s)' = Append(Arrived(s), Head(wire).message)
            /\ ~delivery => Arrived(s)' = Arrived(s)
            /\ received'[s] \in Seq(Messages)
            /\ held[s] = <<>> => held'[s] = <<>> \/ call' = call
<1> DEFINE frame == Head(wire)
<1>1. frame \in WireFrames
  BY WireTail DEF Shape, ClientReadFrame
<1>2. frame.kind = "delivery" => frame.subscription \in Subscriptions
                                   /\ frame.message \in Messages
  BY <1>1, FrameShape
<1>3. /\ received[s] \in Seq(Messages) /\ held[s] \in Seq(Messages)
      /\ received \in [Subscriptions -> Seq(Messages)]
      /\ held \in [Subscriptions -> Seq(Messages)]
  BY Flow DEF FlowInv, Shape, TypeOK
<1>4. CASE frame.kind # "delivery"
  <2>1. received' = received /\ held' = held
    BY <1>4 DEF ClientReadFrame
  <2> QED BY <1>3, <1>4, <2>1 DEF Arrived
<1>5. CASE /\ frame.kind = "delivery"
           /\ call = [op |-> "receive", subscription |-> frame.subscription]
           /\ Decode(frame.subscription, frame.message) /\ UNCHANGED held
  <2>1. held[frame.subscription] = <<>>
    BY <1>2, <1>5 DEF FlowInv
  <2>2. CASE frame.subscription = s
    <3>1. received'[s] = Append(received[s], frame.message) /\ held'[s] = held[s]
      BY <1>3, <1>5, <2>2 DEF Decode
    <3>2. Append(received[s], frame.message) \o held[s]
            = Append(received[s] \o held[s], frame.message)
      BY <1>2, <1>3, <1>5, <2>1, <2>2, TwoQueues
    <3>3. Append(received[s], frame.message) \in Seq(Messages)
      BY <1>2, <1>3, <1>5, Appended
    <3> QED BY <1>2, <1>5, <2>2, <3>1, <3>2, <3>3 DEF Arrived
  <2>3. CASE frame.subscription # s
    <3>1. received'[s] = received[s] /\ held'[s] = held[s]
      BY <1>3, <1>5, <2>3 DEF Decode
    <3> QED BY <1>3, <2>3, <3>1 DEF Arrived
  <2> QED BY <2>2, <2>3
<1>6. CASE /\ frame.kind = "delivery"
           /\ held' = [held EXCEPT ![frame.subscription] = Append(@, frame.message)]
           /\ UNCHANGED <<call, received>>
  <2>1. CASE frame.subscription = s
    <3>1. received'[s] = received[s] /\ held'[s] = Append(held[s], frame.message)
      BY <1>3, <1>6, <2>1
    <3>2. received[s] \o Append(held[s], frame.message)
            = Append(received[s] \o held[s], frame.message)
      BY <1>2, <1>3, <1>6, TwoQueues
    <3> QED BY <1>2, <1>3, <1>6, <2>1, <3>1, <3>2 DEF Arrived
  <2>2. CASE frame.subscription # s
    <3>1. received'[s] = received[s] /\ held'[s] = held[s]
      BY <1>3, <1>6, <2>2
    <3> QED BY <1>3, <2>2, <3>1 DEF Arrived
  <2> QED BY <2>1, <2>2
<1> QED BY <1>4, <1>5, <1>6 DEF ClientReadFrame

LEMMA FlowRead ==
  ASSUME Shape, FlowInv, NEW s \in Subscriptions, ClientReadFrame
  PROVE  InOrder(s)'
<1> DEFINE frame == Head(wire)
           A == Arrived(s)
           B == Arrived(s)'
           W == OnWire(s)
           V == OnWire(s)'
           n == Len(wire)
           delivery == frame.kind = "delivery" /\ frame.subscription = s
<1>1. /\ n \in Nat \ {0} /\ DOMAIN wire = 1..n /\ frame = wire[1]
      /\ DOMAIN wire' = 1..(n - 1)
      /\ \A i \in 1..(n - 1) : wire'[i] = wire[i + 1]
  BY WireTail DEF Shape, ClientReadFrame
<1>2. UNCHANGED <<queue, worker, accepted>>
  BY DEF ClientReadFrame, threadVars, historyVars
<1>3. /\ W \in SUBSET (1..n) /\ V \in SUBSET (1..(n - 1))
      /\ \A j \in 1..(n - 1) : j \in V <=> j + 1 \in W
      /\ 1 \in W <=> delivery
  <2>1. W \in SUBSET (1..n) /\ V \in SUBSET (1..(n - 1))
    BY <1>1 DEF OnWire
  <2>2. \A j \in 1..(n - 1) : j + 1 \in 1..n
    BY <1>1
  <2>3. \A j \in 1..(n - 1) : j \in V <=> j + 1 \in W
    BY <1>1, <2>2 DEF OnWire
  <2>4. 1 \in DOMAIN wire
    BY <1>1
  <2>5. 1 \in W <=> delivery
    BY <1>1, <2>4 DEF OnWire
  <2> QED BY <2>1, <2>3, <2>5
<1>4. V = OfTail(n, W)
  <2> HIDE DEF V, W, n
  <2> QED BY <1>3 DEF OfTail
<1>5. /\ delivery => frame.message \in Messages /\ B = Append(A, frame.message)
      /\ ~delivery => B = A
  BY ReadArrives
<1>6. /\ InWorker(s)' <=> InWorker(s)
      /\ InQueue(s)' = InQueue(s)
      /\ \A i : /\ Rank(OnWire(s), i)' = Rank(V, i)
                /\ Rank(InQueue(s), i)' = Rank(InQueue(s), i)
  <2>1. (InWorker(s)' <=> InWorker(s)) /\ InQueue(s)' = InQueue(s)
    BY <1>2 DEF InWorker, InQueue
  <2> QED BY <2>1 DEF Rank
<1>7. /\ A \in Seq(Messages) /\ Len(A) \in Nat /\ DOMAIN A = 1..Len(A)
      /\ Cardinality(W) \in Nat /\ \A i \in W : Rank(W, i) \in Nat
  BY Flow
<1>8. InOrder(s)
  BY DEF FlowInv, NothingLostOrReordered
<1>9. /\ Sent(s) = Len(A) + Cardinality(W) /\ Sent(s)' = Len(B) + Cardinality(V)
      /\ Taken(s) = Sent(s) + (IF InWorker(s) THEN 1 ELSE 0)
      /\ Taken(s)' = Sent(s)' + (IF InWorker(s) THEN 1 ELSE 0)
  BY <1>6 DEF Sent, Taken
<1>10. \A i \in V : i + 1 \in W /\ wire'[i] = wire[i + 1]
  BY <1>1, <1>3
<1>11. n \in Nat \ {0}
  BY <1>1
<1>12. /\ \A i \in DOMAIN A : accepted[s][i] = A[i]
       /\ \A i \in W : accepted[s][Len(A) + Rank(W, i)] = wire[i].message
  BY <1>8 DEF InOrder
<1> HIDE DEF A, B, W, V, n, delivery, frame
<1>13. /\ 1 \in W => /\ Cardinality(V) = Cardinality(W) - 1 /\ Rank(W, 1) = 1
                     /\ \A i \in V : Rank(V, i) = Rank(W, i + 1) - 1
       /\ 1 \notin W => /\ Cardinality(V) = Cardinality(W)
                        /\ \A i \in V : Rank(V, i) = Rank(W, i + 1)
  BY <1>3, <1>4, <1>11, RanksOfTail
<1>14. /\ Sent(s)' = Sent(s)
       /\ \A i \in DOMAIN B : accepted[s][i] = B[i]
       /\ \A i \in V : accepted[s][Len(B) + Rank(V, i)] = wire'[i].message
  <2>1. CASE ~delivery
    <3>1. B = A /\ Sent(s)' = Sent(s) /\ \A i \in V : Rank(V, i) = Rank(W, i + 1)
      BY <1>3, <1>5, <1>9, <1>13, <2>1
    <3> QED BY <1>10, <1>12, <3>1
  <2>2. CASE delivery
    <3>1. /\ B = Append(A, frame.message) /\ frame.message \in Messages
          /\ \A i \in V : Rank(V, i) = Rank(W, i + 1) - 1
          /\ Cardinality(V) = Cardinality(W) - 1 /\ 1 \in W /\ Rank(W, 1) = 1
      BY <1>3, <1>5, <1>13, <2>2
    <3>2. /\ Len(B) = Len(A) + 1 /\ DOMAIN B = 1..(Len(A) + 1)
          /\ \A i \in 1..Len(A) : B[i] = A[i]
          /\ B[Len(A) + 1] = frame.message
      BY <1>7, <3>1, Appended
    <3>3. Sent(s)' = Sent(s)
      BY <1>7, <1>9, <3>1, <3>2
    <3>4. accepted[s][Len(A) + 1] = frame.message
      BY <1>1, <1>12, <3>1
    <3>5. ASSUME NEW i \in DOMAIN B
          PROVE  accepted[s][i] = B[i]
      <4>1. i \in DOMAIN A \/ i = Len(A) + 1
        BY <1>7, <3>2
      <4> QED BY <1>7, <1>12, <3>2, <3>4, <4>1
    <3>6. ASSUME NEW i \in V
          PROVE  accepted[s][Len(B) + Rank(V, i)] = wire'[i].message
      <4>1. i + 1 \in W /\ Rank(W, i + 1) \in Nat
        BY <1>7, <1>10
      <4>2. Len(B) + Rank(V, i) = Len(A) + Rank(W, i + 1)
        BY <1>7, <3>1, <3>2, <4>1
      <4> QED BY <1>10, <1>12, <4>1, <4>2
    <3> QED BY <3>3, <3>5, <3>6
  <2> QED BY <2>1, <2>2
<1>15. Taken(s)' = Taken(s)
  BY <1>9, <1>14
<1>16. /\ Arrived(s)' = B /\ OnWire(s)' = V
       /\ accepted' = accepted /\ queue' = queue /\ worker' = worker
  BY <1>2 DEF B, V
<1>17. /\ \A i \in DOMAIN Arrived(s)' : accepted'[s][i] = Arrived(s)'[i]
       /\ \A i \in OnWire(s)' :
            accepted'[s][Len(Arrived(s)') + Rank(OnWire(s), i)'] = wire'[i].message
  BY <1>6, <1>14, <1>16
<1>18. /\ Len(accepted'[s]) = Taken(s)' + Cardinality(InQueue(s)')
       /\ InWorker(s)' => accepted'[s][Taken(s)'] = worker'.item.message
       /\ \A i \in InQueue(s)' :
            accepted'[s][Taken(s)' + Rank(InQueue(s), i)'] = queue'[i].message
  BY <1>6, <1>8, <1>15, <1>16 DEF InOrder
<1> QED BY <1>17, <1>18 DEF InOrder

(* Steps that leave the client's side alone *)
LEMMA FlowElsewhere ==
  ASSUME Shape, FlowInv, UNCHANGED <<call, received, held>>,
         \A s \in Subscriptions : InOrder(s)'
  PROVE  FlowInv'
BY DEF FlowInv, NothingLostOrReordered

LEMMA FlowClient ==
  ASSUME Shape, FlowInv, ClientStep
  PROVE  FlowInv'
<1>1. CASE UNCHANGED <<wire, queue, worker, accepted, received, held>>
           /\ \A s \in Subscriptions : call' = [op |-> "receive", subscription |-> s]
                                         => held[s] = <<>> \/ call' = call
  BY <1>1, FlowQuiet DEF FlowInv, NothingLostOrReordered
<1>2. ASSUME NEW t \in Subscriptions, ClientTakeHeld(t)
      PROVE  FlowInv'
  <2>1. \A s \in Subscriptions : InOrder(s)' /\ received'[s] \in Seq(Messages)
    BY <1>2, FlowHeld
  <2>2. received' \in [Subscriptions -> Seq(Messages)]
    BY <1>2, <2>1 DEF ClientTakeHeld, Decode, FlowInv
  <2>3. call' = Idle
    BY <1>2 DEF ClientTakeHeld
  <2> QED BY <2>1, <2>2, <2>3 DEF FlowInv, NothingLostOrReordered, Idle
<1>3. CASE \/ \E topic \in Topics, requestReply \in BOOLEAN :
                ClientSubscribe(topic, requestReply)
           \/ \E topic \in Topics : ClientRegisterEmitter(topic) \/ ClientEmit(topic)
  <2>1. UNCHANGED <<wire, queue, worker, accepted, received, held>>
    BY <1>3 DEF ClientSubscribe, ClientRegisterEmitter, ClientEmit, threadVars, historyVars,
                clientVars
  <2>2. call' = [op |-> "await"]
    BY <1>3 DEF ClientSubscribe, ClientRegisterEmitter, ClientEmit, Ask
  <2> QED BY <1>1, <2>1, <2>2
<1>4. ASSUME NEW t \in Subscriptions, ClientReceive(t)
      PROVE  FlowInv'
  <2>1. UNCHANGED <<wire, queue, worker, accepted, received, held>>
    BY <1>4 DEF ClientReceive, threadVars, historyVars, clientVars
  <2>2. call' = [op |-> "receive", subscription |-> t] /\ held[t] = <<>>
    BY <1>4 DEF ClientReceive
  <2>3. \A s \in Subscriptions : call' = [op |-> "receive", subscription |-> s] => s = t
    BY <2>2
  <2> QED BY <1>1, <2>1, <2>2, <2>3
<1>5. CASE ClientStopsReceiving
  BY <1>1, <1>5 DEF ClientStopsReceiving, threadVars, historyVars, clientVars, Idle
<1> QED BY <1>2, <1>3, <1>4, <1>5 DEF ClientStep

LEMMA FlowNext == Shape /\ FlowInv /\ [Next]_vars => FlowInv'
<1> SUFFICES ASSUME Shape, FlowInv, [Next]_vars PROVE FlowInv'
  OBVIOUS
<1>0. \A s \in Subscriptions : InOrder(s)
  BY DEF FlowInv, NothingLostOrReordered
<1>1. CASE ClientStep
  BY <1>1, FlowClient
<1>2. CASE ClientReadFrame
  <2>1. \A s \in Subscriptions : InOrder(s)'
    BY <1>2, FlowRead
  <2>2. \A s \in Subscriptions : received'[s] \in Seq(Messages)
    BY <1>2, ReadArrives
  <2>3. received' \in [Subscriptions -> Seq(Messages)]
    <3>1. received' = received \/ \E s, m : Decode(s, m)
      BY <1>2 DEF ClientReadFrame
    <3> QED BY <2>2, <3>1 DEF FlowInv, Decode
  <2>4. \A s \in Subscriptions :
          call' = [op |-> "receive", subscription |-> s] => held'[s] = <<>>
    <3>1. CASE call' = Idle
      BY <3>1 DEF Idle
    <3>2. CASE call' = call /\ held' = held
      BY <3>2 DEF FlowInv
    <3>3. CASE /\ Head(wire).kind = "delivery" /\ call' = call
               /\ call # [op |-> "receive", subscription |-> Head(wire).subscription]
               /\ held' = [held EXCEPT ![Head(wire).subscription] =
                                         Append(@, Head(wire).message)]
      BY <3>3 DEF FlowInv, Shape, TypeOK
    <3> QED BY <1>2, <3>1, <3>2, <3>3 DEF ClientReadFrame
  <2> QED BY <2>1, <2>3, <2>4 DEF FlowInv, NothingLostOrReordered
<1>3. CASE ReaderStep
  <2>1. UNCHANGED <<call, received, held, queue, worker, accepted>>
    BY <1>3 DEF ReaderStep, HandleSubscribe, HandleRegisterEmitter, HandleEmit,
                HandleEmitRefused, TakeForResult, SendResult, EmitReturns, sessionVars,
                threadVars, historyVars, clientVars
  <2>2. wire' = wire \/ \E frame \in ResultFrames : wire' = Append(wire, frame)
    <3>1. Result({}) \in ResultFrames
      BY DEF Result, ResultFrames
    <3>2. reader.op = "send" => reader.result \in ResultFrames
      BY ReaderShape DEF Shape
    <3> QED BY <1>3, <3>1, <3>2 DEF ReaderStep, HandleSubscribe, HandleRegisterEmitter,
                HandleEmit, HandleEmitRefused, TakeForResult, SendResult, EmitReturns
  <2>3. \A frame \in ResultFrames : frame \in WireFrames /\ frame.kind # "delivery"
    BY DEF WireFrames, ResultFrames
  <2>4. \A s \in Subscriptions : InWorker(s)' <=> InWorker(s)
    BY <2>1 DEF InWorker
  <2>5. ASSUME NEW s \in Subscriptions
        PROVE  InOrder(s)'
    <3>1. CASE wire' = wire
      BY <1>0, <2>1, <3>1, FlowQuiet
    <3>2. ASSUME NEW frame \in ResultFrames, wire' = Append(wire, frame)
          PROVE  InOrder(s)'
      BY <1>0, <2>1, <2>3, <2>4, <3>2, FlowFrame
    <3> QED BY <2>2, <3>1, <3>2
  <2> QED BY <2>1, <2>5, FlowElsewhere
<1>4. CASE WorkerStep
  <2>1. UNCHANGED <<call, received, held>>
    BY <1>4 DEF WorkerStep, WorkerTake, WorkerAnnounce, WorkerSend, clientVars
  <2>2. ASSUME NEW s \in Subscriptions
        PROVE  InOrder(s)'
    <3>1. CASE WorkerTake
      BY <3>1, FlowTake
    <3>2. CASE WorkerAnnounce
      <4>1. /\ worker # Idle /\ worker' # Idle /\ worker'.item = worker.item
            /\ worker.registrations \subseteq Names
        BY <3>2, ReaderShape DEF WorkerAnnounce, Idle, Shape
      <4>2. (InWorker(s)' <=> InWorker(s)) /\ UNCHANGED <<queue, accepted, received, held>>
        BY <3>2, <4>1 DEF InWorker, WorkerAnnounce, historyVars, clientVars
      <4>3. CASE wire' = wire
        <5>1. /\ Arrived(s)' = Arrived(s) /\ OnWire(s)' = OnWire(s)
              /\ InQueue(s)' = InQueue(s)
          BY <4>2, <4>3 DEF Arrived, OnWire, InQueue
        <5> QED BY <1>0, <4>1, <4>2, <4>3, <5>1, FlowStays
      <4>4. CASE wire' = Append(wire, [kind |-> "registrations",
                                       registrations |-> worker.registrations])
        <5>1. [kind |-> "registrations", registrations |-> worker.registrations] \in WireFrames
          BY <4>1 DEF WireFrames
        <5> QED BY <1>0, <4>1, <4>2, <4>4, <5>1, FlowFrame
      <4> QED BY <3>2, <4>3, <4>4 DEF WorkerAnnounce
    <3>3. CASE WorkerSend
      BY <3>3, FlowSend
    <3> QED BY <1>4, <3>1, <3>2, <3>3 DEF WorkerStep
  <2> QED BY <2>1, <2>2, FlowElsewhere
<1>5. ASSUME NEW e \in Emitters, DeliverStep(e)
      PROVE  FlowInv'
  <2>1. UNCHANGED <<wire, worker, call, received, held>>
    BY <1>5 DEF DeliverStep, DeliverNext, FindOwner, ClaimReply, sessionVars, clientVars
  <2>2. \/ UNCHANGED <<queue, accepted>>
        \/ Enqueue(Target(e), emitting[e].message)
    BY <1>5 DEF DeliverStep, DeliverNext, FindOwner, ClaimReply, historyVars
  <2>3. Target(e) \in Subscriptions /\ emitting[e].message \in Messages
    BY <1>5, Gone DEF Shape, DeliverStep, DeliverNext, FindOwner, ClaimReply
  <2>4. ASSUME NEW s \in Subscriptions
        PROVE  InOrder(s)'
    BY <1>0, <2>1, <2>2, <2>3, FlowQuiet, FlowEnqueue
  <2> QED BY <2>1, <2>4, FlowElsewhere
<1>6. CASE UNCHANGED <<wire, queue, worker, accepted, call, received, held>>
  BY <1>0, <1>6, FlowQuiet, FlowElsewhere
<1>7. CASE \E p \in Publishers, topic \in Topics : Publish(p, topic)
  BY <1>6, <1>7 DEF Publish, clientVars
<1>8. CASE UNCHANGED vars
  BY <1>6, <1>8 DEF vars, threadVars, historyVars, clientVars
<1> QED BY <1>1, <1>2, <1>3, <1>4, <1>5, <1>7, <1>8 DEF Next

LEMMA FlowInit == Init => FlowInv
<1> SUFFICES ASSUME Init PROVE FlowInv
  OBVIOUS
<1>1. /\ wire = <<>> /\ queue = <<>> /\ worker = Idle /\ call = Idle
      /\ accepted = Nothing /\ held = Nothing /\ received = Nothing
  BY DEF Init
<1>2. ASSUME NEW s \in Subscriptions
      PROVE  /\ received[s] = <<>> /\ held[s] = <<>> /\ accepted[s] = <<>>
             /\ OnWire(s) = {} /\ InQueue(s) = {} /\ ~InWorker(s)
  BY <1>1 DEF Nothing, OnWire, InQueue, InWorker
<1>3. Cardinality({}) = 0
  BY FS_EmptySet
<1>4. <<>> \o <<>> = <<>> /\ <<>> \in Seq(Messages) /\ Len(<<>>) = 0 /\ DOMAIN <<>> = {}
  BY ConcatEmptySeq, EmptySeq
<1>5. ASSUME NEW s \in Subscriptions
      PROVE  InOrder(s)
  <2>1. Arrived(s) = <<>> /\ Sent(s) = 0 /\ Taken(s) = 0
    <3>1. Arrived(s) = <<>>
      BY <1>2, <1>4 DEF Arrived
    <3>2. Sent(s) = Len(<<>>) + Cardinality({})
      BY <1>2, <3>1 DEF Sent
    <3>3. Sent(s) = 0 + 0
      BY <1>3, <1>4, <3>2, Zenon
    <3>4. Taken(s) = 0 + 0 + 0
      BY <1>2, <3>3 DEF Taken
    <3> QED BY <3>1, <3>3, <3>4
  <2>2. Len(accepted[s]) = Taken(s) + Cardinality(InQueue(s))
    <3>1. Len(accepted[s]) = 0 /\ Cardinality(InQueue(s)) = 0
      BY <1>2, <1>3, <1>4, Zenon
    <3> QED BY <2>1, <3>1
  <2>3. DOMAIN Arrived(s) = {}
    BY <1>4, <2>1
  <2> QED BY <1>2, <2>2, <2>3 DEF InOrder
<1>6. received \in [Subscriptions -> Seq(Messages)]
  BY <1>1, <1>4 DEF Nothing
<1> QED BY <1>1, <1>5, <1>6 DEF FlowInv, NothingLostOrReordered, Idle

(***************************************************************************)
(* What a subscription's target lets through reaches the receiver in that  *)
(* order, without loss or repetition: wherever a message is on its way, it *)
(* is as many places behind what was received as there are messages of its *)
(* subscription before it (TransportSession.NothingLostOrReordered;        *)
(* _send_delivery_frame, _handle_delivery_candidate).                           *)
(***************************************************************************)
THEOREM DeliveriesKeepOrder == Spec => []NothingLostOrReordered
<1>1. Init => Shape /\ FlowInv
  BY ShapeInit, FlowInit
<1>2. Shape /\ FlowInv /\ [Next]_vars => (Shape /\ FlowInv)'
  BY ShapeNext, FlowNext
<1>3. FlowInv => NothingLostOrReordered
  BY DEF FlowInv
<1> QED BY <1>1, <1>2, <1>3, PTL DEF Spec

------------------------------------------------------------------------------
(***************************************************************************)
(* The other half of CallInv: a call that awaits a result has one coming.  *)
(***************************************************************************)
AnswerInv ==
  call.op = "await" => \/ requests # <<>> \/ reader # Idle
                       \/ \E i \in DOMAIN wire : IsResult(i)

LEMMA AnswerQuiet ==
  ASSUME Shape, AnswerInv, UNCHANGED <<call, requests, reader>>,
         wire' = wire \/ \E frame \in WireFrames : wire' = Append(wire, frame)
  PROVE  AnswerInv'
<1>1. \A i \in DOMAIN wire : i \in DOMAIN wire' /\ wire'[i] = wire[i]
  BY WireOnlyGrows
<1>2. \A i \in DOMAIN wire : IsResult(i) => i \in DOMAIN wire' /\ IsResult(i)'
  BY <1>1 DEF IsResult
<1> QED BY <1>2 DEF AnswerInv

LEMMA AnswerSent ==
  ASSUME Shape, NEW frame \in ResultFrames, wire' = Append(wire, frame)
  PROVE  AnswerInv'
<1>1. frame \in WireFrames /\ frame.kind = "result"
  BY DEF WireFrames, ResultFrames
<1>2. Len(wire) + 1 \in DOMAIN wire' /\ wire'[Len(wire) + 1] = frame
  BY <1>1, WireAppended DEF Shape
<1> QED BY <1>1, <1>2 DEF AnswerInv, IsResult

LEMMA AnswerNext == Shape /\ AnswerInv /\ [Next]_vars => AnswerInv'
<1> SUFFICES ASSUME Shape, AnswerInv, [Next]_vars PROVE AnswerInv'
  OBVIOUS
<1>1. CASE ClientStep
  <2>1. ASSUME NEW frame, Ask(frame)
        PROVE  AnswerInv'
    <3>1. requests = <<>>
      BY <2>1 DEF Ask, Shape, CallInv, Idle
    <3>2. requests' # <<>>
      BY <2>1, <3>1 DEF Ask
    <3> QED BY <3>2 DEF AnswerInv
  <2>2. call'.op # "await" => AnswerInv'
    BY DEF AnswerInv
  <2>3. CASE \E t \in Subscriptions : ClientTakeHeld(t)
    BY <2>2, <2>3 DEF ClientTakeHeld, Idle
  <2>4. CASE \E t \in Subscriptions : ClientReceive(t)
    BY <2>2, <2>4 DEF ClientReceive
  <2>5. CASE ClientStopsReceiving
    BY <2>2, <2>5 DEF ClientStopsReceiving, Idle
  <2>6. CASE \/ \E topic \in Topics, requestReply \in BOOLEAN :
                  ClientSubscribe(topic, requestReply)
             \/ \E topic \in Topics : ClientRegisterEmitter(topic) \/ ClientEmit(topic)
    BY <2>1, <2>6 DEF ClientSubscribe, ClientRegisterEmitter, ClientEmit
  <2> QED BY <1>1, <2>3, <2>4, <2>5, <2>6 DEF ClientStep
<1>2. CASE ClientReadFrame
  <2>1. /\ DOMAIN wire = 1..Len(wire) /\ Len(wire) \in Nat \ {0}
        /\ DOMAIN wire' = 1..(Len(wire) - 1) /\ Head(wire) = wire[1]
        /\ \A i \in DOMAIN wire' : wire'[i] = wire[i + 1]
    BY <1>2, WireTail DEF Shape, ClientReadFrame
  <2>2. CASE call' = Idle
    BY <2>2 DEF AnswerInv, Idle
  <2>3. CASE call' = call /\ Head(wire).kind # "result"
    <3>1. UNCHANGED <<requests, reader>>
      BY <1>2 DEF ClientReadFrame, threadVars
    <3>2. ASSUME NEW i \in DOMAIN wire, IsResult(i)
          PROVE  i - 1 \in DOMAIN wire' /\ IsResult(i - 1)'
      <4>1. i # 1
        BY <2>1, <2>3, <3>2 DEF IsResult
      <4>2. i - 1 \in DOMAIN wire' /\ (i - 1) + 1 = i
        BY <2>1, <4>1
      <4> QED BY <2>1, <3>2, <4>2 DEF IsResult
    <3> QED BY <2>3, <3>1, <3>2 DEF AnswerInv
  <2> QED BY <1>2, <2>2, <2>3 DEF ClientReadFrame
<1>3. CASE ReaderStep
  <2>1. reader'.op \in {"take", "send", "emit"} => AnswerInv'
    BY DEF AnswerInv, Idle
  <2>2. CASE HandleSubscribe \/ HandleRegisterEmitter \/ HandleEmit \/ TakeForResult
    BY <2>1, <2>2 DEF HandleSubscribe, HandleRegisterEmitter, HandleEmit, TakeForResult
  <2>3. Result({}) \in ResultFrames
    BY DEF Result, ResultFrames
  <2>4. CASE HandleEmitRefused \/ EmitReturns
    BY <2>3, <2>4, AnswerSent DEF HandleEmitRefused, EmitReturns
  <2>5. CASE SendResult
    <3>1. reader.result \in ResultFrames
      BY <2>5, ReaderShape DEF SendResult, Shape
    <3> QED BY <2>5, <3>1, AnswerSent DEF SendResult
  <2> QED BY <1>3, <2>2, <2>4, <2>5 DEF ReaderStep
<1>4. CASE WorkerStep
  <2>1. UNCHANGED <<call, requests, reader>>
    BY <1>4 DEF WorkerStep, WorkerTake, WorkerAnnounce, WorkerSend
  <2>2. /\ worker.op = "announce" => worker.registrations \subseteq Names
        /\ worker.op = "send" => worker.item \in Items
    BY ReaderShape DEF Shape
  <2>3. worker.op = "announce" =>
          [kind |-> "registrations", registrations |-> worker.registrations] \in WireFrames
    BY <2>2 DEF WireFrames
  <2>4. worker.op = "send" =>
          [kind |-> "delivery", subscription |-> worker.item.subscription,
           message |-> worker.item.message] \in WireFrames
    BY <2>2 DEF WireFrames, Items
  <2>5. wire' = wire \/ \E frame \in WireFrames : wire' = Append(wire, frame)
    BY <1>4, <2>3, <2>4 DEF WorkerStep, WorkerTake, WorkerAnnounce, WorkerSend
  <2> QED BY <2>1, <2>5, AnswerQuiet
<1>5. CASE \E e \in Emitters : DeliverStep(e)
  BY <1>5, AnswerQuiet DEF DeliverStep, DeliverNext, FindOwner, ClaimReply
<1>6. CASE \E p \in Publishers, topic \in Topics : Publish(p, topic)
  BY <1>6, AnswerQuiet DEF Publish
<1>7. CASE UNCHANGED vars
  BY <1>7, AnswerQuiet DEF vars, threadVars
<1> QED BY <1>1, <1>2, <1>3, <1>4, <1>5, <1>6, <1>7 DEF Next

LEMMA AnswersCounted == Shape /\ AnswerInv => OneAnswer
<1> SUFFICES ASSUME Shape, AnswerInv PROVE OneAnswer
  OBVIOUS
<1>1. Results = {i \in DOMAIN wire : IsResult(i)}
  BY DEF Results, IsResult
<1>2. CASE call.op # "await"
  <2>1. requests = <<>> /\ reader = Idle /\ Results = {}
    BY <1>1, <1>2 DEF Shape, CallInv
  <2>2. Len(requests) = 0 /\ Cardinality(Results) = 0
    BY <2>1, FS_EmptySet
  <2> QED BY <1>2, <2>1, <2>2 DEF OneAnswer, UnderWay
<1>3. CASE call.op = "await" /\ Results # {}
  <2>1. PICK i \in Results : IsResult(i)
    BY <1>1, <1>3
  <2>2. requests = <<>> /\ reader = Idle /\ Results = {i}
    BY <1>1, <2>1 DEF Shape, CallInv, IsResult
  <2>3. Len(requests) = 0 /\ Cardinality(Results) = 1
    BY <2>2, FS_Singleton
  <2> QED BY <1>3, <2>2, <2>3 DEF OneAnswer, UnderWay
<1>4. CASE call.op = "await" /\ Results = {}
  <2>1. Cardinality(Results) = 0
    BY <1>4, FS_EmptySet
  <2>2. CASE requests # <<>>
    <3>1. reader = Idle /\ requests = <<requests[1]>>
      BY <2>2 DEF Shape, CallInv
    <3>2. Len(requests) = 1
      BY <3>1
    <3> QED BY <1>4, <2>1, <3>1, <3>2 DEF OneAnswer, UnderWay
  <2>3. CASE requests = <<>>
    <3>1. reader # Idle
      BY <1>1, <1>4, <2>3 DEF AnswerInv
    <3>2. Len(requests) = 0
      BY <2>3
    <3> QED BY <1>4, <2>1, <3>1, <3>2 DEF OneAnswer, UnderWay
  <2> QED BY <2>2, <2>3
<1> QED BY <1>2, <1>3, <1>4

(***************************************************************************)
(* A call that awaits a result has exactly one under way, and no other has *)
(* one: no result is lost on the way through the reader, and none goes to  *)
(* a later call (TransportSession.OneAnswer; handle_next_frame).  That the *)
(* reader can go on, the rest of AnswerUnderWay, speaks of ENABLED.        *)
(***************************************************************************)
THEOREM CallsGetOneAnswer == Spec => []OneAnswer
<1>1. Init => Shape /\ AnswerInv
  <2>1. Init => AnswerInv
    BY DEF Init, AnswerInv, Idle
  <2> QED BY <2>1, ShapeInit
<1>2. Shape /\ AnswerInv /\ [Next]_vars => (Shape /\ AnswerInv)'
  BY ShapeNext, AnswerNext
<1> QED BY <1>1, <1>2, AnswersCounted, PTL DEF Spec

==============================================================================
