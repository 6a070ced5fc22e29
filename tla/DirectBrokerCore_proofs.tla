----------------------- MODULE DirectBrokerCore_proofs -----------------------
(* Theorems about DirectBrokerCore, for every value of its constants.      *)
EXTENDS DirectBrokerCore, FiniteSetTheorems, SequenceTheorems, TLAPS

(***************************************************************************)
(* Type correctness.                                                       *)
(***************************************************************************)
LEMMA InitType == Init => TypeOK
  BY FS_EmptySet, ConstantsAssumption
  DEF Init, TypeOK, Calls, Idle, CaptureStates

LEMMA NextIdType ==
  ASSUME IsFiniteSet(DOMAIN ids), NEW kind
  PROVE  NextId(kind) \in Nat
<1>1. IsFiniteSet({s \in DOMAIN ids : s.kind = kind})
  BY FS_Subset
<1>2. QED BY <1>1, FS_CardinalityType DEF NextId

LEMMA ElementsOf ==
  ASSUME NEW S, NEW seq \in Seq(S)
  PROVE  \A i \in DOMAIN seq : seq[i] \in S
  OBVIOUS

(* Taking the head off a sequence leaves a sequence. *)
LEMMA TakeHead ==
  ASSUME NEW S, NEW seq \in Seq(S), seq # <<>>
  PROVE  Head(seq) \in S /\ Tail(seq) \in Seq(S)
  BY HeadTailProperties

LEMMA IdleType == [op |-> "idle", todo |-> <<>>] \in Calls
  BY DEF Calls

(* Working through a call's symbols leaves a call. *)
LEMMA TakeTodo ==
  ASSUME TypeOK, call.op \in Registering, call.todo # <<>>
  PROVE  [call EXCEPT !.todo = Tail(@)] \in Calls
<1>1. call.todo \in Seq(Symbols)
  BY DEF TypeOK, Calls, Registering
<1>2. Tail(call.todo) \in Seq(Symbols)
  BY <1>1, TakeHead
<1>3. QED BY <1>2 DEF TypeOK, Calls, Registering

(* What an action leaves alone keeps its type. *)
LEMMA StutterType ==
  ASSUME TypeOK, UNCHANGED vars
  PROVE  TypeOK'
  BY DEF TypeOK, vars

(* The symbols a call works through. *)
LEMMA SymbolTypes ==
  /\ \A n \in Topics : Symbol("topic", n) \in Symbols
  /\ \A n \in Producers : Symbol("producer", n) \in Symbols
  /\ \A n \in MsgTypes : Symbol("msg_type", n) \in Symbols
  /\ \A n \in Formats : Symbol("format", n) \in Symbols
  BY DEF Symbols

LEMMA SymbolSeqType ==
  /\ \A names \in Seq(Producers) : SymbolSeq("producer", names) \in Seq(Symbols)
  /\ \A names \in Seq(MsgTypes) : SymbolSeq("msg_type", names) \in Seq(Symbols)
  /\ \A names \in Seq(Formats) : SymbolSeq("format", names) \in Seq(Symbols)
  BY SymbolTypes DEF SymbolSeq

LEMMA RemoveAtType ==
  ASSUME NEW S, NEW seq \in Seq(S), NEW i \in 1..Len(seq)
  PROVE  RemoveAt(seq, i) \in Seq(S)
<1>1. SubSeq(seq, 1, i - 1) \in Seq(S)
  BY SubSeqProperties, ElementOfSeq
<1>2. SubSeq(seq, i + 1, Len(seq)) \in Seq(S)
  BY SubSeqProperties, ElementOfSeq
<1>3. QED BY <1>1, <1>2, ConcatProperties DEF RemoveAt

(* What the capture controller stores stays a sequence of records. *)
LEMMA WriteType ==
  ASSUME TypeOK, NEW rec \in Registrations \cup Messages,
         WriteRegistration(rec) \/ WriteMessage(rec)
           \/ WriteRaises(rec) \/ WriteMessageRaises(rec)
  PROVE  /\ captureState' \in CaptureStates
         /\ buffer' \in Seq(Registrations \cup Messages)
         /\ bufferBytes' \in Nat
         /\ captured' \in Seq(Registrations \cup Messages)
         /\ sinkFailures' \in Nat
<1>1. PayloadBytes(rec) \in Nat
  BY ConstantsAssumption DEF PayloadBytes, IsMessage, Registrations, Messages
<1>2. /\ captureState \in CaptureStates /\ bufferBytes \in Nat
      /\ buffer \in Seq(Registrations \cup Messages)
      /\ captured \in Seq(Registrations \cup Messages) /\ sinkFailures \in Nat
  BY DEF TypeOK
<1>3. /\ Append(buffer, rec) \in Seq(Registrations \cup Messages)
      /\ Append(captured, rec) \in Seq(Registrations \cup Messages)
  BY <1>2, AppendProperties
<1>4. CASE UNCHANGED captureVars
  BY <1>2, <1>4 DEF captureVars
<1>5. CASE WriteRecord(rec)
  <2>1. CASE captureState = "bootstrapping"
    <3>1. /\ buffer' = Append(buffer, rec)
          /\ bufferBytes' = bufferBytes + PayloadBytes(rec)
          /\ UNCHANGED <<captured, captureState, sinkFailures>>
      BY <1>5, <2>1 DEF WriteRecord
    <3>2. bufferBytes' \in Nat
      BY <1>1, <1>2, <3>1
    <3>3. QED BY <1>2, <1>3, <3>1, <3>2
  <2>2. CASE captureState = "active"
    <3>1. /\ captured' = Append(captured, rec)
          /\ UNCHANGED <<buffer, bufferBytes, captureState, sinkFailures>>
      BY <1>5, <2>2 DEF WriteRecord
    <3>2. QED BY <1>2, <1>3, <3>1
  <2>3. QED BY <1>5, <2>1, <2>2 DEF WriteRecord
<1>6. CASE WriteRaises(rec)
  BY <1>2, <1>6 DEF WriteRaises, SinkRaises
<1>7. QED
  BY <1>4, <1>5, <1>6 DEF WriteRegistration, WriteMessage, WriteMessageRaises

LEMMA NextTopicSequenceType ==
  ASSUME TypeOK, NEW n
  PROVE  NextTopicSequence(n) \in Nat
  BY DEF TypeOK, NextTopicSequence

(***************************************************************************)
(* The symbols of an emission, and of the emitters in use, are registered  *)
(* or are among the symbols the call in progress has still to register.    *)
(***************************************************************************)
ConfigSymbols(config) ==
  {Symbol("topic", config.topic), Symbol("producer", config.producer)}
    \cup RangeOf(SymbolSeq("msg_type", config.types))
    \cup RangeOf(SymbolSeq("format", config.formats))

NameSymbols(names) == {Symbol(kind, names[kind]) : kind \in Kinds}

Coming == DOMAIN ids \cup RangeOf(call.todo)

BindingInv ==
  /\ \A config \in emitters : ConfigSymbols(config) \subseteq DOMAIN ids
  /\ call.op = "bind_emitter" => ConfigSymbols(call.config) \subseteq Coming
  /\ call.op = "emit" => NameSymbols(call.names) \subseteq Coming

LEMMA BuiltMessageType ==
  ASSUME TypeOK, BindingInv, call.op = "emit", call.todo = <<>>
  PROVE  /\ BuiltMessage \in Messages
         /\ \A kind \in Kinds :
              RegistrationFor(BuiltMessage, kind)
                \in {Registration(s, ids[s]) : s \in DOMAIN ids}
<1>1. call \in [op : {"emit"}, todo : Seq(Symbols), names : Names,
                operation : Operations, size : Sizes]
  BY DEF TypeOK, Calls, Idle
<1>2. \A kind \in Kinds : Symbol(kind, call.names[kind]) \in DOMAIN ids
  BY DEF BindingInv, NameSymbols, Coming, RangeOf
<1>3. \A kind \in Kinds : ids[Symbol(kind, call.names[kind])] \in Nat
  BY <1>2 DEF TypeOK
<1>4. ids[Symbol("topic", call.names.topic)] \in Nat
  BY <1>3 DEF Kinds
<1>5. NextTopicSequence(ids[Symbol("topic", call.names.topic)]) \in Nat
  BY NextTopicSequenceType
<1>6. BuiltMessage \in Messages
  BY <1>1, <1>3, <1>5 DEF BuiltMessage, Messages, TypeOK
<1>7. \A kind \in Kinds :
        RegistrationFor(BuiltMessage, kind)
          = Registration(Symbol(kind, call.names[kind]),
                         ids[Symbol(kind, call.names[kind])])
  BY DEF RegistrationFor, SymbolOf, BuiltMessage
<1>8. QED BY <1>2, <1>6, <1>7

LEMMA NextType ==
  ASSUME TypeOK, BindingInv, [Next]_vars
  PROVE  TypeOK'
<1> USE DEF Idle, registryVars, captureVars, sequenceVars, endpointVars
<1>1. CASE BeginActivation
  BY <1>1 DEF BeginActivation, TypeOK, Calls, CaptureStates
<1>2. CASE ActivationWrite
  <2>1. call \in [op : {"activate"}, todo : Seq(Registrations \cup Messages)]
    BY <1>2 DEF ActivationWrite, TypeOK, Calls
  <2>2. call.todo \in Seq(Registrations \cup Messages) /\ call.todo # <<>>
    BY <1>2, <2>1 DEF ActivationWrite
  <2>3. /\ Head(call.todo) \in Registrations \cup Messages
        /\ Tail(call.todo) \in Seq(Registrations \cup Messages)
    BY <2>2, TakeHead
  <2>4. call' \in Calls
    BY <1>2, <2>1, <2>3 DEF ActivationWrite, Calls
  <2>5. captured' \in Seq(Registrations \cup Messages)
    BY <1>2, <2>3, AppendProperties DEF ActivationWrite, TypeOK
  <2>6. QED BY <1>2, <2>4, <2>5 DEF ActivationWrite, TypeOK
<1>3. CASE ActivationFails
  BY <1>3 DEF ActivationFails, SinkRaises, TypeOK, Calls, CaptureStates
<1>4. CASE CompleteActivation
  BY <1>4 DEF CompleteActivation, TypeOK, Calls, CaptureStates
<1>5. CASE SymbolKnown
  <2>1. call' \in Calls
    BY <1>5, TakeTodo DEF SymbolKnown
  <2>2. QED BY <1>5, <2>1 DEF SymbolKnown, TypeOK
<1>6. CASE RegisterSymbol
  <2> DEFINE symbol == Head(call.todo)
             id == NextId(symbol.kind)
             registration == Registration(symbol, id)
  <2>1. call.todo \in Seq(Symbols) /\ call.todo # <<>>
    BY <1>6 DEF RegisterSymbol, Registering, TypeOK, Calls
  <2>2. symbol \in Symbols /\ id \in Nat
    BY <2>1, TakeHead, NextIdType DEF TypeOK
  <2>3. registration \in Registrations
    BY <2>2 DEF Registration, Registrations
  <2>4. /\ DOMAIN ids' \subseteq Symbols /\ IsFiniteSet(DOMAIN ids')
        /\ ids' \in [DOMAIN ids' -> Nat]
    <3>1. ids' = [s \in DOMAIN ids \cup {symbol} |->
                    IF s = symbol THEN id ELSE ids[s]]
      BY <1>6 DEF RegisterSymbol
    <3> HIDE DEF symbol, id
    <3>2. DOMAIN ids' = DOMAIN ids \cup {symbol}
      BY <3>1
    <3>3. IsFiniteSet(DOMAIN ids')
      <4>1. IsFiniteSet(DOMAIN ids)
        BY DEF TypeOK
      <4>2. QED BY <3>2, <4>1, FS_AddElement
    <3>4. \A s \in DOMAIN ids : s \in Symbols /\ ids[s] \in Nat
      BY DEF TypeOK
    <3>5. \A s \in DOMAIN ids' : s \in Symbols /\ ids'[s] \in Nat
      BY <2>2, <3>1, <3>4
    <3>6. ids' = [s \in DOMAIN ids' |-> ids'[s]]
      BY <3>1
    <3>7. QED BY <3>3, <3>5, <3>6
  <2>5. registrations' \in Seq(Registrations)
    BY <1>6, <2>3, AppendProperties DEF RegisterSymbol, TypeOK
  <2>6. call' \in Calls
    BY <1>6, TakeTodo, IdleType DEF RegisterSymbol
  <2>7. WriteRegistration(registration) \/ WriteRaises(registration)
    BY <1>6 DEF RegisterSymbol
  <2>8. refused' \subseteq Registrations
    BY <1>6, <2>3 DEF RegisterSymbol, TypeOK
  <2>9. /\ captureState' \in CaptureStates
        /\ buffer' \in Seq(Registrations \cup Messages)
        /\ bufferBytes' \in Nat
        /\ captured' \in Seq(Registrations \cup Messages)
        /\ sinkFailures' \in Nat
    BY <2>3, <2>7, WriteType
  <2>10. QED
    BY <1>6, <2>4, <2>5, <2>6, <2>8, <2>9 DEF RegisterSymbol, TypeOK
<1>7. CASE \E symbol \in Registrable : Register(symbol)
  BY <1>7, ConstantsAssumption DEF Register, TypeOK, Calls
<1>8. CASE CompleteRegister
  BY <1>8 DEF CompleteRegister, TypeOK, Calls
<1>9. CASE \E config \in EmitterConfigs : BindEmitter(config)
  <2>1. PICK config \in EmitterConfigs : BindEmitter(config)
    BY <1>9
  <2>2. config \in EmitterConfig
    BY ConstantsAssumption
  <2> DEFINE first == <<Symbol("topic", config.topic),
                        Symbol("producer", config.producer)>>
             second == SymbolSeq("msg_type", config.types)
             third == SymbolSeq("format", config.formats)
  <2>3. /\ Symbol("topic", config.topic) \in Symbols
        /\ Symbol("producer", config.producer) \in Symbols
    BY <2>2, SymbolTypes DEF EmitterConfig
  <2>4. first \in Seq(Symbols)
    BY <2>3
  <2>5. second \in Seq(Symbols) /\ third \in Seq(Symbols)
    BY <2>2, SymbolSeqType DEF EmitterConfig
  <2>6. (first \o second) \o third \in Seq(Symbols)
    <3> HIDE DEF first, second, third
    <3>1. QED BY <2>4, <2>5, ConcatProperties
  <2>7. call' \in Calls
    BY <2>1, <2>6 DEF BindEmitter, Calls
  <2>8. QED BY <2>1, <2>7 DEF BindEmitter, TypeOK
<1>10. CASE CompleteBindEmitter
  BY <1>10 DEF CompleteBindEmitter, TypeOK, Calls
<1>11. CASE \E r \in Receivers, filter \in Filters : BindSubscription(r, filter)
  <2>1. PICK r \in Receivers, filter \in Filters : BindSubscription(r, filter)
    BY <1>11
  <2>2. filter \in Filter
    BY ConstantsAssumption
  <2> DEFINE first == [i \in DOMAIN filter.topics |->
                         Symbol("topic", filter.topics[i].topic)]
             second == SymbolSeq("producer", filter.producers)
             third == SymbolSeq("msg_type", filter.types)
  <2>3. filter.topics \in Seq([topic : Topics, tree : BOOLEAN])
    BY <2>2 DEF Filter
  <2>4. first \in Seq(Symbols)
    <3>1. \A i \in DOMAIN filter.topics :
            Symbol("topic", filter.topics[i].topic) \in Symbols
      <4>1. \A i \in DOMAIN filter.topics :
              filter.topics[i] \in [topic : Topics, tree : BOOLEAN]
        BY <2>3, ElementsOf
      <4>2. \A i \in DOMAIN filter.topics : filter.topics[i].topic \in Topics
        BY <4>1
      <4>3. QED BY <4>2, SymbolTypes
    <3>2. DOMAIN filter.topics = 1..Len(filter.topics)
             /\ Len(filter.topics) \in Nat
      BY <2>3
    <3>3. QED BY <3>1, <3>2
  <2>5. second \in Seq(Symbols) /\ third \in Seq(Symbols)
    BY <2>2, SymbolSeqType DEF Filter
  <2>6. (first \o second) \o third \in Seq(Symbols)
    <3> HIDE DEF first, second, third
    <3>1. QED BY <2>4, <2>5, ConcatProperties
  <2>7. call' \in Calls
    BY <2>1, <2>6 DEF BindSubscription, Calls
  <2>8. QED BY <2>1, <2>7 DEF BindSubscription, TypeOK
<1>12. CASE AddReceiver
  BY <1>12 DEF AddReceiver, TypeOK, Calls
<1>13. CASE \E r \in Receivers : RemoveReceiver(r)
  <2>1. PICK i \in DOMAIN receivers : receivers' = RemoveAt(receivers, i)
    BY <1>13 DEF RemoveReceiver
  <2>2. receivers' \in Seq([filter : Filters, target : Receivers])
    <3>1. receivers \in Seq([filter : Filters, target : Receivers])
      BY DEF TypeOK
    <3>2. i \in 1..Len(receivers)
      BY <3>1
    <3>3. QED BY <2>1, <3>1, <3>2, RemoveAtType
  <2>3. QED BY <1>13, <2>2 DEF RemoveReceiver, TypeOK
<1>14. CASE \E config \in EmitterConfigs, msgType \in MsgTypes,
                format \in Formats, operation \in Operations, size \in Sizes :
              Emit(config, msgType, format, operation, size)
  <2>1. PICK config \in EmitterConfigs, msgType \in MsgTypes,
             format \in Formats, operation \in Operations, size \in Sizes :
               Emit(config, msgType, format, operation, size)
    BY <1>14
  <2> DEFINE first == IF msgType \in RangeOf(config.types)
                      THEN <<>> ELSE <<Symbol("msg_type", msgType)>>
             second == IF format \in RangeOf(config.formats)
                       THEN <<>> ELSE <<Symbol("format", format)>>
             names == [topic |-> config.topic, producer |-> config.producer,
                       msg_type |-> msgType, format |-> format]
  <2>2. first \in Seq(Symbols) /\ second \in Seq(Symbols)
    BY SymbolTypes
  <2>3. names \in Names
    BY ConstantsAssumption DEF EmitterConfig, Names
  <2>4. call' = [op |-> "emit", operation |-> operation, size |-> size,
                 names |-> names, todo |-> first \o second]
    BY <2>1 DEF Emit
  <2>5. first \o second \in Seq(Symbols)
    <3> HIDE DEF first, second
    <3>1. QED BY <2>2, ConcatProperties
  <2>6. call' \in Calls
    <3> HIDE DEF first, second, names
    <3>1. QED BY <2>3, <2>4, <2>5 DEF Calls
  <2>7. QED BY <2>1, <2>6 DEF Emit, TypeOK
<1>15. CASE SerializationFails
  BY <1>15 DEF SerializationFails, TypeOK, Calls
<1>16. CASE Deliver
  <2> DEFINE m == BuiltMessage
  <2>1. call \in [op : {"emit"}, todo : Seq(Symbols), names : Names,
                  operation : Operations, size : Sizes]
    BY <1>16 DEF Deliver, TypeOK, Calls
  <2>2. m \in Messages
    BY <1>16, BuiltMessageType DEF Deliver
  <2>3. /\ captureState' \in CaptureStates
        /\ buffer' \in Seq(Registrations \cup Messages)
        /\ bufferBytes' \in Nat
        /\ captured' \in Seq(Registrations \cup Messages)
        /\ sinkFailures' \in Nat
    <3>1. CASE UNCHANGED captureVars
      BY <3>1 DEF TypeOK
    <3>2. CASE WriteMessage(m) \/ WriteMessageRaises(m)
      BY <2>2, <3>2, WriteType
    <3>3. QED BY <1>16, <3>1, <3>2 DEF Deliver
  <2>4. busSequence' \in Nat
    BY <1>16 DEF Deliver, TypeOK
  <2>5. /\ DOMAIN topicSequences' \subseteq Nat
        /\ topicSequences' \in [DOMAIN topicSequences' -> Nat]
    <3> HIDE DEF m
    <3>1. m.ids["topic"] \in Nat /\ m.topicSequence \in Nat
      BY <2>2 DEF Messages, Kinds
    <3>2. topicSequences' =
             [n \in DOMAIN topicSequences \cup {m.ids["topic"]} |->
                IF n = m.ids["topic"] THEN m.topicSequence + 1
                                      ELSE topicSequences[n]]
      BY <1>16 DEF Deliver, m
    <3>3. QED BY <3>1, <3>2 DEF TypeOK
  <2>6. inbox' \in [Receivers -> Seq(Messages)]
    <3> HIDE DEF m
    <3>1. inbox \in [Receivers -> Seq(Messages)]
      BY DEF TypeOK
    <3>2. \A r \in Receivers : Append(inbox[r], m) \in Seq(Messages)
      BY <2>2, <3>1, AppendProperties
    <3>3. \/ inbox' = [r \in Receivers |->
                        IF r \in MatchingReceivers(m)
                        THEN Append(inbox[r], m) ELSE inbox[r]]
          \/ inbox' = inbox
      BY <1>16 DEF Deliver, m
    <3>4. QED BY <3>1, <3>2, <3>3
  <2>7. latest' \in Messages \cup {NoMessage}
    BY <1>16, <2>2 DEF Deliver, TypeOK
  <2>8. QED
    BY <1>16, <2>3, <2>4, <2>5, <2>6, <2>7 DEF Deliver, TypeOK, Calls
<1>17. CASE \E r \in Receivers : Receive(r)
  BY <1>17, HeadTailProperties DEF Receive, TypeOK
<1>18. CASE UNCHANGED vars
  BY <1>18, StutterType
<1>19. QED
  BY <1>1, <1>2, <1>3, <1>4, <1>5, <1>6, <1>7, <1>8, <1>9, <1>10, <1>11,
     <1>12, <1>13, <1>14, <1>15, <1>16, <1>17, <1>18
  DEF Next, CaptureStep, BindStep, EmitStep

(***************************************************************************)
(* What a sequence holds.                                                  *)
(***************************************************************************)
LEMMA RangeOfConcat ==
  ASSUME NEW S, NEW s \in Seq(S), NEW t \in Seq(S)
  PROVE  RangeOf(s \o t) = RangeOf(s) \cup RangeOf(t)
<1> DEFINE st == s \o t
<1>1. /\ Len(s) \in Nat /\ Len(t) \in Nat /\ Len(st) = Len(s) + Len(t)
      /\ DOMAIN s = 1..Len(s) /\ DOMAIN t = 1..Len(t)
      /\ DOMAIN st = 1..Len(st)
      /\ \A i \in 1..Len(s) + Len(t) :
           st[i] = IF i <= Len(s) THEN s[i] ELSE t[i - Len(s)]
  BY LenProperties, ConcatProperties
<1> HIDE DEF st
<1>2. ASSUME NEW i \in DOMAIN st
      PROVE  st[i] \in RangeOf(s) \cup RangeOf(t)
  <2>1. CASE i <= Len(s)
    BY <1>1, <2>1 DEF RangeOf
  <2>2. CASE ~(i <= Len(s))
    <3>1. i - Len(s) \in 1..Len(t)
      BY <1>1, <2>2
    <3>2. QED BY <1>1, <2>2, <3>1 DEF RangeOf
  <2>3. QED BY <2>1, <2>2
<1>3. ASSUME NEW i \in DOMAIN s
      PROVE  s[i] \in RangeOf(st)
  <2>1. i \in 1..Len(s) + Len(t) /\ i <= Len(s)
    BY <1>1
  <2>2. QED BY <1>1, <2>1 DEF RangeOf
<1>4. ASSUME NEW i \in DOMAIN t
      PROVE  t[i] \in RangeOf(st)
  <2>1. /\ i + Len(s) \in 1..Len(s) + Len(t)
        /\ ~(i + Len(s) <= Len(s)) /\ (i + Len(s)) - Len(s) = i
    BY <1>1
  <2>2. st[i + Len(s)] = t[i] /\ i + Len(s) \in DOMAIN st
    BY <1>1, <2>1
  <2>3. QED BY <2>2 DEF RangeOf
<1>5. QED BY <1>2, <1>3, <1>4 DEF RangeOf, st

LEMMA RangeOfOne ==
  ASSUME NEW e
  PROVE  RangeOf(<<e>>) = {e}
  BY DEF RangeOf

LEMMA RangeOfEmpty == RangeOf(<<>>) = {}
  BY DEF RangeOf

LEMMA AppendAsConcat ==
  ASSUME NEW S, NEW s \in Seq(S), NEW e \in S
  PROVE  Append(s, e) = s \o <<e>>
  OBVIOUS

LEMMA RangeOfAppend ==
  ASSUME NEW S, NEW s \in Seq(S), NEW e \in S
  PROVE  RangeOf(Append(s, e)) = RangeOf(s) \cup {e}
<1>1. <<e>> \in Seq(S)
  OBVIOUS
<1>2. Append(s, e) = s \o <<e>>
  BY AppendAsConcat
<1>3. RangeOf(s \o <<e>>) = RangeOf(s) \cup RangeOf(<<e>>)
  BY <1>1, RangeOfConcat
<1>4. RangeOf(<<e>>) = {e}
  BY RangeOfOne
<1>5. QED BY <1>2, <1>3, <1>4, Zenon

LEMMA HeadThenTail ==
  ASSUME NEW S, NEW s \in Seq(S), s # <<>>
  PROVE  s = <<Head(s)>> \o Tail(s)
  OBVIOUS

LEMMA RangeOfTail ==
  ASSUME NEW S, NEW s \in Seq(S), s # <<>>
  PROVE  RangeOf(s) = {Head(s)} \cup RangeOf(Tail(s))
<1>1. Tail(s) \in Seq(S) /\ Head(s) \in S
  BY TakeHead
<1> DEFINE one == <<Head(s)>>
           rest == Tail(s)
<1>2. one \in Seq(S) /\ rest \in Seq(S)
  BY <1>1
<1>3. s = one \o rest
  BY HeadThenTail
<1>4. RangeOf(one \o rest) = RangeOf(one) \cup RangeOf(rest)
  <2> HIDE DEF one, rest
  <2> QED BY <1>2, RangeOfConcat
<1>5. RangeOf(one) = {Head(s)}
  BY RangeOfOne
<1>6. QED BY <1>3, <1>4, <1>5, Zenon

(***************************************************************************)
(* BindingInv is inductive.                                                *)
(***************************************************************************)
LEMMA InitBinding == Init => BindingInv
  BY DEF Init, BindingInv, Idle

LEMMA ComingKept ==
  ASSUME TypeOK, call.op \in Registering, call.todo # <<>>,
         DOMAIN ids' = DOMAIN ids \cup {Head(call.todo)},
         call'.todo = Tail(call.todo)
  PROVE  Coming' = Coming
<1>1. call.todo \in Seq(Symbols)
  BY DEF TypeOK, Calls, Registering
<1>2. RangeOf(call.todo) = {Head(call.todo)} \cup RangeOf(Tail(call.todo))
  BY <1>1, RangeOfTail
<1>3. Coming' = DOMAIN ids' \cup RangeOf(call'.todo)
  BY DEF Coming
<1>4. QED BY <1>2, <1>3 DEF Coming

LEMMA NextBinding ==
  ASSUME TypeOK, BindingInv, [Next]_vars
  PROVE  BindingInv'
<1> USE DEF Idle, registryVars, captureVars, sequenceVars, endpointVars
<1>1. CASE CaptureStep
  <2>1. call'.op \in {"idle", "activate"} /\ UNCHANGED <<ids, emitters>>
    <3>1. CASE BeginActivation
      BY <3>1 DEF BeginActivation
    <3>2. CASE ActivationWrite
      BY <3>2 DEF ActivationWrite, TypeOK, Calls
    <3>3. CASE ActivationFails
      BY <3>3 DEF ActivationFails
    <3>4. CASE CompleteActivation
      BY <3>4 DEF CompleteActivation
    <3>5. QED BY <1>1, <3>1, <3>2, <3>3, <3>4 DEF CaptureStep
  <2>2. QED BY <2>1 DEF BindingInv
<1>2. CASE SymbolKnown
  <2>1. /\ call.op \in Registering /\ call.todo # <<>>
        /\ Head(call.todo) \in DOMAIN ids
        /\ call' = [call EXCEPT !.todo = Tail(@)]
        /\ UNCHANGED <<ids, emitters>>
    BY <1>2 DEF SymbolKnown
  <2>2. /\ call'.todo = Tail(call.todo) /\ call'.op = call.op
        /\ call.op = "bind_emitter" => call'.config = call.config
        /\ call.op = "emit" => call'.names = call.names
    BY <2>1 DEF TypeOK, Calls
  <2>3. Coming' = Coming
    BY <2>1, <2>2, ComingKept
  <2>4. QED BY <2>1, <2>2, <2>3 DEF BindingInv
<1>3. CASE RegisterSymbol
  <2>1. /\ call.op \in Registering /\ call.todo # <<>>
        /\ DOMAIN ids' = DOMAIN ids \cup {Head(call.todo)}
        /\ UNCHANGED emitters
        /\ call' = Idle \/ call' = [call EXCEPT !.todo = Tail(@)]
    BY <1>3 DEF RegisterSymbol
  <2>2. \A config \in emitters' : ConfigSymbols(config) \subseteq DOMAIN ids'
    BY <2>1 DEF BindingInv
  <2>3. CASE call' = Idle
    BY <2>2, <2>3 DEF BindingInv
  <2>4. CASE call' = [call EXCEPT !.todo = Tail(@)]
    <3>1. /\ call'.todo = Tail(call.todo) /\ call'.op = call.op
          /\ call.op = "bind_emitter" => call'.config = call.config
          /\ call.op = "emit" => call'.names = call.names
      BY <2>1, <2>4 DEF TypeOK, Calls
    <3>2. Coming' = Coming
      BY <2>1, <3>1, ComingKept
    <3>3. QED BY <2>2, <3>1, <3>2 DEF BindingInv
  <2>5. QED BY <2>1, <2>3, <2>4
<1>4. CASE \E symbol \in Registrable : Register(symbol)
  BY <1>4 DEF Register, BindingInv
<1>5. CASE CompleteRegister
  BY <1>5 DEF CompleteRegister, BindingInv
<1>6. CASE \E config \in EmitterConfigs : BindEmitter(config)
  <2>1. PICK config \in EmitterConfigs : BindEmitter(config)
    BY <1>6
  <2> DEFINE first == <<Symbol("topic", config.topic),
                        Symbol("producer", config.producer)>>
             second == SymbolSeq("msg_type", config.types)
             third == SymbolSeq("format", config.formats)
  <2>2. config \in EmitterConfig
    BY ConstantsAssumption
  <2>3. /\ first \in Seq(Symbols)
        /\ second \in Seq(Symbols) /\ third \in Seq(Symbols)
    BY <2>2, SymbolTypes, SymbolSeqType DEF EmitterConfig
  <2>4. RangeOf(first) = {Symbol("topic", config.topic),
                          Symbol("producer", config.producer)}
    BY DEF RangeOf
  <2>5. RangeOf((first \o second) \o third) = ConfigSymbols(config)
    <3>1. ConfigSymbols(config)
            = (RangeOf(first) \cup RangeOf(second)) \cup RangeOf(third)
      BY <2>4 DEF ConfigSymbols
    <3> HIDE DEF first, second, third
    <3> DEFINE both == first \o second
    <3>2. both \in Seq(Symbols)
      BY <2>3, ConcatProperties
    <3>3. RangeOf(both) = RangeOf(first) \cup RangeOf(second)
      BY <2>3, RangeOfConcat
    <3>4. RangeOf(both \o third) = RangeOf(both) \cup RangeOf(third)
      <4> HIDE DEF both
      <4> QED BY <2>3, <3>2, RangeOfConcat
    <3>5. QED BY <3>1, <3>3, <3>4, Zenon
  <2>6. /\ call'.op = "bind_emitter" /\ call'.config = config
        /\ call'.todo = (first \o second) \o third
        /\ UNCHANGED <<ids, emitters>>
    BY <2>1 DEF BindEmitter
  <2> HIDE DEF first, second, third
  <2>7. ConfigSymbols(call'.config) \subseteq Coming'
    BY <2>5, <2>6 DEF Coming
  <2>8. QED BY <2>6, <2>7 DEF BindingInv
<1>7. CASE CompleteBindEmitter
  <2>1. /\ call.op = "bind_emitter" /\ call.todo = <<>> /\ call' = Idle
        /\ emitters' = emitters \cup {call.config} /\ UNCHANGED ids
    BY <1>7 DEF CompleteBindEmitter
  <2>2. Coming = DOMAIN ids
    BY <2>1, RangeOfEmpty DEF Coming
  <2>3. QED BY <2>1, <2>2 DEF BindingInv
<1>8. CASE \E r \in Receivers, filter \in Filters : BindSubscription(r, filter)
  BY <1>8 DEF BindSubscription, BindingInv
<1>9. CASE AddReceiver
  BY <1>9 DEF AddReceiver, BindingInv
<1>10. CASE \E r \in Receivers : RemoveReceiver(r)
  <2>1. UNCHANGED <<ids, emitters, call>>
    BY <1>10 DEF RemoveReceiver
  <2>2. QED BY <2>1 DEF BindingInv, Coming
<1>11. CASE \E config \in EmitterConfigs, msgType \in MsgTypes,
                format \in Formats, operation \in Operations, size \in Sizes :
              Emit(config, msgType, format, operation, size)
  <2>1. PICK config \in EmitterConfigs, msgType \in MsgTypes,
             format \in Formats, operation \in Operations, size \in Sizes :
               Emit(config, msgType, format, operation, size)
    BY <1>11
  <2> DEFINE first == IF msgType \in RangeOf(config.types)
                      THEN <<>> ELSE <<Symbol("msg_type", msgType)>>
             second == IF format \in RangeOf(config.formats)
                       THEN <<>> ELSE <<Symbol("format", format)>>
             names == [topic |-> config.topic, producer |-> config.producer,
                       msg_type |-> msgType, format |-> format]
  <2>2. /\ call'.op = "emit" /\ call'.names = names
        /\ call'.todo = first \o second
        /\ UNCHANGED <<ids, emitters>> /\ config \in emitters
    BY <2>1 DEF Emit
  <2>3. first \in Seq(Symbols) /\ second \in Seq(Symbols)
    BY SymbolTypes
  <2>4. ConfigSymbols(config) \subseteq DOMAIN ids
    BY <2>2 DEF BindingInv
  <2>5. Symbol("msg_type", msgType) \in DOMAIN ids \cup RangeOf(first)
    <3>1. CASE msgType \in RangeOf(config.types)
      BY <2>4, <3>1 DEF ConfigSymbols, RangeOf, SymbolSeq
    <3>2. CASE msgType \notin RangeOf(config.types)
      BY <3>2, RangeOfOne
    <3>3. QED BY <3>1, <3>2
  <2>6. Symbol("format", format) \in DOMAIN ids \cup RangeOf(second)
    <3>1. CASE format \in RangeOf(config.formats)
      BY <2>4, <3>1 DEF ConfigSymbols, RangeOf, SymbolSeq
    <3>2. CASE format \notin RangeOf(config.formats)
      BY <3>2, RangeOfOne
    <3>3. QED BY <3>1, <3>2
  <2>7. /\ Symbol("topic", config.topic) \in DOMAIN ids
        /\ Symbol("producer", config.producer) \in DOMAIN ids
    BY <2>4 DEF ConfigSymbols
  <2>8. NameSymbols(names)
          = {Symbol("topic", config.topic), Symbol("producer", config.producer),
             Symbol("msg_type", msgType), Symbol("format", format)}
    BY DEF NameSymbols, Kinds
  <2> HIDE DEF first, second, names
  <2>9. RangeOf(first \o second) = RangeOf(first) \cup RangeOf(second)
    BY <2>3, RangeOfConcat
  <2>10. NameSymbols(names) \subseteq DOMAIN ids \cup RangeOf(first \o second)
    BY <2>5, <2>6, <2>7, <2>8, <2>9
  <2>11. NameSymbols(call'.names) \subseteq Coming'
    BY <2>2, <2>10 DEF Coming
  <2>12. QED BY <2>2, <2>11 DEF BindingInv
<1>12. CASE SerializationFails
  BY <1>12 DEF SerializationFails, BindingInv
<1>13. CASE Deliver
  BY <1>13 DEF Deliver, BindingInv
<1>14. CASE \E r \in Receivers : Receive(r)
  <2>1. UNCHANGED <<ids, emitters, call>>
    BY <1>14 DEF Receive
  <2>2. QED BY <2>1 DEF BindingInv, Coming
<1>15. CASE UNCHANGED vars
  <2>1. UNCHANGED <<ids, emitters, call>>
    BY <1>15 DEF vars
  <2>2. QED BY <2>1 DEF BindingInv, Coming
<1>16. QED
  BY <1>1, <1>2, <1>3, <1>4, <1>5, <1>6, <1>7, <1>8, <1>9, <1>10, <1>11,
     <1>12, <1>13, <1>14, <1>15
  DEF Next, BindStep, EmitStep

LEMMA Typing == Spec => [](TypeOK /\ BindingInv)
<1>1. Init => TypeOK /\ BindingInv
  BY InitType, InitBinding
<1>2. TypeOK /\ BindingInv /\ [Next]_vars => TypeOK' /\ BindingInv'
  BY NextType, NextBinding
<1>3. QED BY <1>1, <1>2, PTL DEF Spec

(***************************************************************************)
(* Every state of the core has its type: an emission that has registered   *)
(* what it lacked finds an ID for each of its names (_build_message), so   *)
(* every message the core writes and delivers is complete.                 *)
(***************************************************************************)
THEOREM TypeCorrect == Spec => []TypeOK
  BY Typing, PTL

(***************************************************************************)
(* IDs are given out in order: the IDs of a kind stay below the number of  *)
(* its symbols, which is the next ID.                                      *)
(***************************************************************************)
IdsBelowNext == \A s \in DOMAIN ids : ids[s] < NextId(s.kind)

RegistryInv == IdsBelowNext /\ RegistryConsistent

LEMMA InitRegistry == Init => RegistryInv
  BY DEF Init, RegistryInv, IdsBelowNext, RegistryConsistent, IdsUnique,
         RegistrationsMatchTables, RangeOf

(* What RegisterSymbol does to the tables. *)
LEMMA RegisteredSymbol ==
  ASSUME TypeOK, RegisterSymbol
  PROVE  \E symbol \in Symbols \ DOMAIN ids, id \in Nat :
           /\ symbol = Head(call.todo) /\ id = NextId(symbol.kind)
           /\ DOMAIN ids' = DOMAIN ids \cup {symbol}
           /\ ids'[symbol] = id
           /\ \A s \in DOMAIN ids : ids'[s] = ids[s] /\ ids[s] \in Nat
           /\ Registration(symbol, id) \in Registrations
           /\ registrations' = Append(registrations, Registration(symbol, id))
           /\ \/ /\ WriteRegistration(Registration(symbol, id))
                 /\ UNCHANGED refused
              \/ /\ WriteRaises(Registration(symbol, id))
                 /\ refused' = refused \cup {Registration(symbol, id)}
           /\ call.op \in Registering /\ call'.op # "activate"
<1>1. call.todo \in Seq(Symbols) /\ call.todo # <<>>
  BY DEF RegisterSymbol, Registering, TypeOK, Calls
<1>2. Head(call.todo) \in Symbols
  BY <1>1, TakeHead
<1>3. NextId(Head(call.todo).kind) \in Nat
  BY NextIdType DEF TypeOK
<1>4. Registration(Head(call.todo), NextId(Head(call.todo).kind)) \in Registrations
  BY <1>2, <1>3 DEF Registration, Registrations
<1>5. \A s \in DOMAIN ids : ids[s] \in Nat
  BY DEF TypeOK
<1>6. call'.op # "activate"
  <2>1. call' = Idle \/ call' = [call EXCEPT !.todo = Tail(@)]
    BY DEF RegisterSymbol
  <2>2. CASE call' = Idle
    BY <2>2 DEF Idle
  <2>3. CASE call' = [call EXCEPT !.todo = Tail(@)]
    <3>1. call'.op = call.op
      BY <2>3 DEF TypeOK, Calls
    <3>2. QED BY <3>1 DEF RegisterSymbol, Registering
  <2>4. QED BY <2>1, <2>2, <2>3
<1>7. QED BY <1>2, <1>3, <1>4, <1>5, <1>6 DEF RegisterSymbol

(* One more symbol, one more ID of its kind, and no fewer of the others. *)
LEMMA NextIdGrows ==
  ASSUME IsFiniteSet(DOMAIN ids), NEW symbol, symbol \notin DOMAIN ids,
         DOMAIN ids' = DOMAIN ids \cup {symbol}, NEW kind
  PROVE  /\ NextId(kind) \in Nat /\ NextId(kind)' \in Nat
         /\ NextId(kind) <= NextId(kind)'
         /\ kind = symbol.kind => NextId(kind)' = NextId(kind) + 1
<1> DEFINE old == {s \in DOMAIN ids : s.kind = kind}
           new == {s \in DOMAIN ids' : s.kind = kind}
<1>1. IsFiniteSet(old)
  BY FS_Subset
<1>2. Cardinality(old) \in Nat
  BY <1>1, FS_CardinalityType
<1>3. NextId(kind) = Cardinality(old) /\ NextId(kind)' = Cardinality(new)
  BY DEF NextId
<1>4. kind = symbol.kind => Cardinality(new) = Cardinality(old) + 1
  <2> SUFFICES ASSUME kind = symbol.kind
               PROVE  Cardinality(new) = Cardinality(old) + 1
    OBVIOUS
  <2>1. new = old \cup {symbol} /\ symbol \notin old
    OBVIOUS
  <2>2. QED BY <1>1, <2>1, FS_AddElement
<1>5. kind # symbol.kind => new = old
  OBVIOUS
<1> HIDE DEF old, new
<1>6. /\ Cardinality(new) \in Nat
      /\ Cardinality(old) <= Cardinality(new)
  BY <1>2, <1>4, <1>5
<1>7. QED BY <1>2, <1>3, <1>4, <1>6

LEMMA NextRegistry ==
  ASSUME TypeOK, RegistryInv, [Next]_vars
  PROVE  RegistryInv'
<1>1. CASE UNCHANGED registryVars
  BY <1>1 DEF registryVars, RegistryInv, IdsBelowNext, NextId,
              RegistryConsistent, IdsUnique, RegistrationsMatchTables, RangeOf
<1>2. CASE RegisterSymbol
  <2>1. PICK symbol \in Symbols \ DOMAIN ids, id \in Nat :
          /\ id = NextId(symbol.kind)
          /\ DOMAIN ids' = DOMAIN ids \cup {symbol}
          /\ ids'[symbol] = id
          /\ \A s \in DOMAIN ids : ids'[s] = ids[s] /\ ids[s] \in Nat
          /\ Registration(symbol, id) \in Registrations
          /\ registrations' = Append(registrations, Registration(symbol, id))
    BY <1>2, RegisteredSymbol
  <2>2. \A s \in DOMAIN ids : ids[s] < NextId(s.kind)
    BY DEF RegistryInv, IdsBelowNext
  <2>3. \A kind : /\ NextId(kind) \in Nat /\ NextId(kind)' \in Nat
                  /\ NextId(kind) <= NextId(kind)'
                  /\ kind = symbol.kind => NextId(kind)' = NextId(kind) + 1
    BY <2>1, NextIdGrows DEF TypeOK
  <2>4. IdsBelowNext'
    <3> SUFFICES ASSUME NEW s \in DOMAIN ids'
                 PROVE  ids'[s] < NextId(s.kind)'
      BY DEF IdsBelowNext
    <3>1. CASE s = symbol
      BY <2>1, <2>3, <3>1
    <3>2. CASE s \in DOMAIN ids
      <4>1. /\ ids'[s] = ids[s] /\ ids[s] \in Nat /\ ids[s] < NextId(s.kind)
            /\ NextId(s.kind) \in Nat /\ NextId(s.kind)' \in Nat
            /\ NextId(s.kind) <= NextId(s.kind)'
        BY <2>1, <2>2, <2>3, <3>2
      <4>2. QED BY <4>1
    <3>3. QED BY <2>1, <3>1, <3>2
  <2>5. IdsUnique'
    <3>1. IdsUnique
      BY DEF RegistryInv, RegistryConsistent
    <3>2. \A s \in DOMAIN ids : s.kind = symbol.kind => ids[s] < id
      BY <2>1, <2>2
    <3>3. \A s \in DOMAIN ids : s.kind = symbol.kind => ids'[s] # ids'[symbol]
      BY <2>1, <3>2
    <3>4. QED BY <2>1, <3>1, <3>3 DEF IdsUnique
  <2>6. RegistrationsMatchTables'
    <3>1. RangeOf(registrations') = RangeOf(registrations)
                                     \cup {Registration(symbol, id)}
      BY <2>1, RangeOfAppend DEF TypeOK
    <3>2. RangeOf(registrations) = {Registration(s, ids[s]) : s \in DOMAIN ids}
      BY DEF RegistryInv, RegistryConsistent, RegistrationsMatchTables
    <3>3. {Registration(s, ids'[s]) : s \in DOMAIN ids'}
            = {Registration(s, ids[s]) : s \in DOMAIN ids}
                \cup {Registration(symbol, id)}
      BY <2>1
    <3>4. RangeOf(registrations)' = RangeOf(registrations')
      BY DEF RangeOf
    <3>5. QED BY <3>1, <3>2, <3>3, <3>4 DEF RegistrationsMatchTables
  <2>7. QED BY <2>4, <2>5, <2>6 DEF RegistryInv, RegistryConsistent
<1>3. CASE CaptureStep
  BY <1>1, <1>3
  DEF CaptureStep, BeginActivation, ActivationWrite, ActivationFails,
      CompleteActivation, registryVars
<1>4. CASE BindStep
  BY <1>1, <1>2, <1>4
  DEF BindStep, SymbolKnown, Register, CompleteRegister, BindEmitter,
      CompleteBindEmitter, BindSubscription, AddReceiver, RemoveReceiver
<1>5. CASE EmitStep
  BY <1>1, <1>5 DEF EmitStep, Emit, SerializationFails, Deliver, Receive
<1>6. QED BY <1>1, <1>3, <1>4, <1>5 DEF Next, vars, registryVars

(***************************************************************************)
(* The tables and the registration list never disagree, and no two symbols *)
(* of a kind share an ID, whatever is registered and whichever capture     *)
(* writes raise (_ensure_symbol_id, registrations_for).                    *)
(***************************************************************************)
THEOREM RegistryCorrect == Spec => []RegistryConsistent
<1>1. Init => RegistryInv
  BY InitRegistry
<1>2. TypeOK /\ RegistryInv /\ [Next]_vars => RegistryInv'
  BY NextRegistry
<1>3. RegistryInv => RegistryConsistent
  BY DEF RegistryInv
<1>4. QED BY <1>1, <1>2, <1>3, TypeCorrect, PTL DEF Spec

(***************************************************************************)
(* What has been captured so far.  While a sink is being activated that is *)
(* what the sink has stored and what it is still to be handed.             *)
(***************************************************************************)
Recorded == IF captureState = "swapping" THEN captured \o call.todo ELSE Log

Written == RangeOf(Recorded) \cup refused

CaptureShape ==
  /\ captureState = "swapping" <=> call.op = "activate"
  /\ captureState \in {"disabled", "waiting-for-sink"} =>
       captured = <<>> /\ buffer = <<>>
  /\ captureState = "bootstrapping" => captured = <<>>
  /\ captureState = "active" => buffer = <<>>
  /\ captureState = "swapping" => buffer \in {<<>>, captured \o call.todo}

EveryIdWritten ==
  captureState \in {"bootstrapping", "swapping", "active"} =>
    \A s \in DOMAIN ids : Registration(s, ids[s]) \in Written

CaptureInv == /\ CaptureShape
              /\ EveryIdWritten
              /\ CapturedInterpretable
              /\ captureState = "swapping" => Interpretable(Recorded, refused)

LEMMA InterpretablePrefix ==
  ASSUME NEW S, NEW s \in Seq(S), NEW t \in Seq(S), NEW exceptions,
         Interpretable(s \o t, exceptions)
  PROVE  Interpretable(s, exceptions)
<1> DEFINE st == s \o t
<1>1. /\ Len(s) \in Nat /\ Len(t) \in Nat
      /\ DOMAIN s = 1..Len(s) /\ DOMAIN st = 1..Len(s) + Len(t)
      /\ \A i \in 1..Len(s) : i \in DOMAIN st /\ st[i] = s[i]
  BY LenProperties, ConcatProperties
<1>2. \A i \in DOMAIN st : IsMessage(st[i]) =>
        \A kind \in Kinds :
          \/ \E j \in 1..(i - 1) : st[j] = RegistrationFor(st[i], kind)
          \/ RegistrationFor(st[i], kind) \in exceptions
  BY DEF Interpretable, RecordedBefore
<1> HIDE DEF st
<1>3. SUFFICES ASSUME NEW i \in DOMAIN s, IsMessage(s[i]), NEW kind \in Kinds
               PROVE  \/ \E j \in 1..(i - 1) : s[j] = RegistrationFor(s[i], kind)
                      \/ RegistrationFor(s[i], kind) \in exceptions
  BY DEF Interpretable, RecordedBefore
<1>4. st[i] = s[i] /\ i \in DOMAIN st /\ \A j \in 1..(i - 1) : st[j] = s[j]
  BY <1>1
<1>5. QED BY <1>2, <1>3, <1>4

LEMMA InterpretableAppend ==
  ASSUME NEW S, NEW s \in Seq(S), NEW rec \in S, NEW exceptions,
         Interpretable(s, exceptions),
         IsMessage(rec) => \A kind \in Kinds :
           RegistrationFor(rec, kind) \in RangeOf(s) \cup exceptions
  PROVE  Interpretable(Append(s, rec), exceptions)
<1> DEFINE st == Append(s, rec)
<1>1. /\ Len(s) \in Nat
      /\ DOMAIN s = 1..Len(s) /\ DOMAIN st = 1..Len(s) + 1
      /\ \A i \in 1..Len(s) : st[i] = s[i]
      /\ st[Len(s) + 1] = rec
  BY LenProperties, AppendProperties
<1>2. \A i \in DOMAIN s : IsMessage(s[i]) =>
        \A kind \in Kinds :
          \/ \E j \in 1..(i - 1) : s[j] = RegistrationFor(s[i], kind)
          \/ RegistrationFor(s[i], kind) \in exceptions
  BY DEF Interpretable, RecordedBefore
<1> HIDE DEF st
<1>3. SUFFICES ASSUME NEW i \in DOMAIN st, IsMessage(st[i]), NEW kind \in Kinds
               PROVE  \/ \E j \in 1..(i - 1) : st[j] = RegistrationFor(st[i], kind)
                      \/ RegistrationFor(st[i], kind) \in exceptions
  BY DEF Interpretable, RecordedBefore, st
<1>4. CASE i \in DOMAIN s
  <2>1. st[i] = s[i] /\ \A j \in 1..(i - 1) : st[j] = s[j]
    BY <1>1, <1>4
  <2>2. QED BY <1>2, <1>3, <1>4, <2>1
<1>5. CASE i = Len(s) + 1
  <2>1. st[i] = rec
    BY <1>1, <1>5
  <2>2. RegistrationFor(rec, kind) \in RangeOf(s) \cup exceptions
    BY <1>3, <2>1
  <2>3. \A j \in DOMAIN s : j \in 1..(i - 1) /\ st[j] = s[j]
    BY <1>1, <1>5
  <2>4. QED BY <2>1, <2>2, <2>3 DEF RangeOf
<1>6. QED BY <1>1, <1>4, <1>5

LEMMA InterpretableKept ==
  ASSUME NEW s, NEW few, NEW many, few \subseteq many, Interpretable(s, few)
  PROVE  Interpretable(s, many)
  BY DEF Interpretable

LEMMA RegistrationsInterpretable ==
  ASSUME NEW s \in Seq(Registrations), NEW exceptions
  PROVE  Interpretable(s, exceptions)
<1>1. \A i \in DOMAIN s : s[i] \in Registrations
  BY ElementsOf
<1>2. \A i \in DOMAIN s : ~IsMessage(s[i])
  BY <1>1 DEF IsMessage, Registrations
<1>3. QED BY <1>2 DEF Interpretable

LEMMA InitCapture == Init => CaptureInv
  BY DEF Init, CaptureInv, CaptureShape, EveryIdWritten, CapturedInterpretable,
         Interpretable, Idle

AnyRecord == Registrations \cup Messages

(* The record at hand is one sequence, in every state that keeps one. *)
LEMMA RecordedType ==
  ASSUME TypeOK, CaptureInv
  PROVE  /\ captured \in Seq(AnyRecord) /\ buffer \in Seq(AnyRecord)
         /\ call.op = "activate" => call.todo \in Seq(AnyRecord)
         /\ Recorded \in Seq(AnyRecord)
<1>1. captured \in Seq(AnyRecord) /\ buffer \in Seq(AnyRecord)
  BY DEF TypeOK, AnyRecord
<1>2. call.op = "activate" => call.todo \in Seq(AnyRecord)
  BY DEF TypeOK, Calls, AnyRecord
<1>3. CASE captureState = "swapping"
  <2>1. call.op = "activate"
    BY <1>3 DEF CaptureInv, CaptureShape
  <2>2. captured \o call.todo \in Seq(AnyRecord)
    BY <1>1, <1>2, <2>1, ConcatProperties
  <2>3. QED BY <1>1, <1>2, <1>3, <2>2 DEF Recorded
<1>4. CASE captureState # "swapping"
  BY <1>1, <1>2, <1>4 DEF Recorded, Log
<1>5. QED BY <1>3, <1>4

(***************************************************************************)
(* A record whose IDs have all been written may be written.                *)
(***************************************************************************)
LEMMA WriteKeepsShape ==
  ASSUME TypeOK, CaptureInv, NEW rec \in AnyRecord, WriteRecord(rec),
         call'.op # "activate"
  PROVE  /\ CaptureShape'
         /\ captureState' # "swapping" /\ captureState # "swapping"
         /\ Recorded' = Append(Recorded, rec)
         /\ \/ captured' = Append(captured, rec) /\ buffer' = buffer
               /\ Recorded = captured
            \/ buffer' = Append(buffer, rec) /\ captured' = captured
               /\ Recorded = buffer
<1>1. captureState \in {"bootstrapping", "active"} /\ captureState' = captureState
  BY DEF WriteRecord
<1>2. CASE captureState = "bootstrapping"
  BY <1>1, <1>2 DEF WriteRecord, CaptureInv, CaptureShape, Recorded, Log
<1>3. CASE captureState = "active"
  BY <1>1, <1>3 DEF WriteRecord, CaptureInv, CaptureShape, Recorded, Log
<1>4. QED BY <1>1, <1>2, <1>3

LEMMA WriteKeepsInterpretable ==
  ASSUME TypeOK, CaptureInv, NEW rec \in AnyRecord, WriteRecord(rec),
         call'.op # "activate", UNCHANGED refused,
         IsMessage(rec) => \A kind \in Kinds : RegistrationFor(rec, kind) \in Written
  PROVE  CapturedInterpretable'
<1>1. CASE /\ captured' = Append(captured, rec) /\ buffer' = buffer
           /\ Recorded = captured
  <2>1. Interpretable(Append(captured, rec), refused)
    <3>1. /\ captured \in Seq(AnyRecord) /\ Interpretable(captured, refused)
      BY RecordedType DEF CaptureInv, CapturedInterpretable
    <3>2. IsMessage(rec) => \A kind \in Kinds :
            RegistrationFor(rec, kind) \in RangeOf(captured) \cup refused
      BY <1>1 DEF Written
    <3>3. QED BY <3>1, <3>2, InterpretableAppend
  <2>2. QED BY <1>1, <2>1 DEF CaptureInv, CapturedInterpretable
<1>2. CASE /\ buffer' = Append(buffer, rec) /\ captured' = captured
           /\ Recorded = buffer
  <2>1. Interpretable(Append(buffer, rec), refused)
    <3>1. /\ buffer \in Seq(AnyRecord) /\ Interpretable(buffer, refused)
      BY RecordedType DEF CaptureInv, CapturedInterpretable
    <3>2. IsMessage(rec) => \A kind \in Kinds :
            RegistrationFor(rec, kind) \in RangeOf(buffer) \cup refused
      BY <1>2 DEF Written
    <3>3. QED BY <3>1, <3>2, InterpretableAppend
  <2>2. QED BY <1>2, <2>1 DEF CaptureInv, CapturedInterpretable
<1>3. QED BY <1>1, <1>2, WriteKeepsShape

(* What leaves the capture controller and the tables alone. *)
LEMMA CaptureStutter ==
  ASSUME TypeOK, CaptureInv,
         UNCHANGED <<ids, captureState, buffer, captured, refused>>,
         \/ UNCHANGED call
         \/ call.op # "activate" /\ call'.op # "activate"
  PROVE  CaptureInv'
<1>1. CASE UNCHANGED call
  BY <1>1 DEF CaptureInv, CaptureShape, EveryIdWritten, CapturedInterpretable,
              Recorded, Written, Log, Interpretable, RecordedBefore, RangeOf
<1>2. CASE call.op # "activate" /\ call'.op # "activate"
  <2>1. captureState # "swapping" /\ captureState' # "swapping"
    BY <1>2 DEF CaptureInv, CaptureShape
  <2>2. Recorded = Log /\ Recorded' = Log /\ CaptureShape'
    BY <1>2, <2>1 DEF Recorded, Log, CaptureInv, CaptureShape
  <2>3. Written' = Written
    BY <2>2 DEF Written, RangeOf
  <2>4. QED
    BY <2>1, <2>2, <2>3 DEF CaptureInv, EveryIdWritten, CapturedInterpretable
<1>3. QED BY <1>1, <1>2

LEMMA MoveHead ==
  ASSUME NEW S, NEW s \in Seq(S), NEW t \in Seq(S), t # <<>>
  PROVE  Append(s, Head(t)) \o Tail(t) = s \o t
  OBVIOUS

(***************************************************************************)
(* The steps of set_capture_sink only move records.                        *)
(***************************************************************************)
LEMMA ActivationKeepsCapture ==
  ASSUME TypeOK, RegistryInv, CaptureInv, CaptureStep
  PROVE  CaptureInv'
<1> USE DEF Idle
<1>1. UNCHANGED <<ids, refused>> /\ Written = RangeOf(Recorded) \cup refused
  BY DEF CaptureStep, BeginActivation, ActivationWrite, ActivationFails,
         CompleteActivation, registryVars, Written
<1>2. CASE BeginActivation
  <2>1. /\ captured = <<>> /\ captured' = <<>> /\ buffer' = buffer
        /\ captureState' = "swapping" /\ call'.op = "activate"
    BY <1>2 DEF BeginActivation, CaptureInv, CaptureShape
  <2>2. Recorded' = call'.todo
    <3>1. \E S : call'.todo \in Seq(S)
      BY <1>2 DEF BeginActivation, TypeOK
    <3>2. \A S : \A t \in Seq(S) : <<>> \o t = t
      OBVIOUS
    <3>3. QED BY <2>1, <3>1, <3>2 DEF Recorded
  <2>3. CapturedInterpretable'
    BY <1>1, <2>1 DEF CaptureInv, CapturedInterpretable
  <2>4. CASE captureState = "bootstrapping"
    <3>1. call'.todo = buffer /\ Recorded = buffer /\ captureState # "swapping"
      BY <1>2, <2>4 DEF BeginActivation, Recorded, Log
    <3>2. Written' = Written
      BY <1>1, <2>2, <3>1 DEF Written, RangeOf
    <3>3. Interpretable(Recorded', refused')
      BY <1>1, <2>2, <3>1 DEF CaptureInv, CapturedInterpretable
    <3>4. Recorded' = captured' \o call'.todo
      BY <2>1 DEF Recorded
    <3>5. QED
      BY <1>1, <2>1, <2>2, <2>3, <2>4, <3>1, <3>2, <3>3, <3>4
      DEF CaptureInv, CaptureShape, EveryIdWritten
  <2>5. CASE captureState = "waiting-for-sink"
    <3>1. call'.todo = registrations /\ buffer = <<>>
      BY <1>2, <2>5 DEF BeginActivation, CaptureInv, CaptureShape
    <3>2. registrations \in Seq(Registrations)
      BY DEF TypeOK
    <3>3. Interpretable(Recorded', refused')
      BY <2>2, <3>1, <3>2, RegistrationsInterpretable
    <3>4. RangeOf(registrations) = {Registration(s, ids[s]) : s \in DOMAIN ids}
      BY DEF RegistryInv, RegistryConsistent, RegistrationsMatchTables
    <3>5. Written' = RangeOf(registrations) \cup refused
      BY <1>1, <2>2, <3>1 DEF Written, RangeOf
    <3>6. EveryIdWritten'
      BY <1>1, <3>4, <3>5 DEF EveryIdWritten
    <3>7. QED
      BY <2>1, <2>3, <3>1, <3>3, <3>6 DEF CaptureInv, CaptureShape
  <2>6. QED BY <1>2, <2>4, <2>5 DEF BeginActivation
<1>3. CASE ActivationWrite
  <2>1. /\ call.op = "activate" /\ call'.op = "activate"
        /\ call.todo # <<>> /\ call'.todo = Tail(call.todo)
        /\ captured' = Append(captured, Head(call.todo))
        /\ UNCHANGED <<captureState, buffer, refused, ids>>
    BY <1>1, <1>3 DEF ActivationWrite, TypeOK, Calls
  <2>2. captureState = "swapping"
    BY <2>1 DEF CaptureInv, CaptureShape
  <2>3. captured \in Seq(AnyRecord) /\ call.todo \in Seq(AnyRecord)
    BY <2>1, RecordedType
  <2>4. Head(call.todo) \in AnyRecord /\ Tail(call.todo) \in Seq(AnyRecord)
    BY <2>1, <2>3, TakeHead
  <2>5. captured' \o call'.todo = captured \o call.todo
    BY <2>1, <2>3, MoveHead
  <2>6. Recorded' = Recorded /\ Recorded = captured' \o call'.todo
    BY <2>1, <2>2, <2>5 DEF Recorded
  <2>7. Written' = Written
    BY <2>1, <2>6 DEF Written, RangeOf
  <2>8. Interpretable(Recorded, refused)
    BY <2>2 DEF CaptureInv
  <2>9. Interpretable(captured', refused)
    <3>1. captured' \in Seq(AnyRecord) /\ call'.todo \in Seq(AnyRecord)
      BY <2>1, <2>3, <2>4, AppendProperties
    <3>2. QED BY <2>6, <2>8, <3>1, InterpretablePrefix
  <2>10. CaptureShape'
    BY <2>1, <2>2, <2>5 DEF CaptureInv, CaptureShape
  <2>11. CapturedInterpretable'
    BY <2>1, <2>9 DEF CaptureInv, CapturedInterpretable
  <2>12. QED
    BY <2>1, <2>2, <2>6, <2>7, <2>8, <2>10, <2>11 DEF CaptureInv, EveryIdWritten
<1>4. CASE ActivationFails
  <2>1. captureState' = "failed" /\ call'.op = "idle"
        /\ UNCHANGED <<buffer, captured, refused>>
    BY <1>4 DEF ActivationFails
  <2>2. QED
    BY <2>1 DEF CaptureInv, CaptureShape, EveryIdWritten, CapturedInterpretable
<1>5. CASE CompleteActivation
  <2>1. /\ call.op = "activate" /\ call.todo = <<>>
        /\ captureState' = "active" /\ buffer' = <<>> /\ call'.op = "idle"
        /\ UNCHANGED <<captured, refused, ids>>
    BY <1>5 DEF CompleteActivation, registryVars
  <2>2. captureState = "swapping"
    BY <2>1 DEF CaptureInv, CaptureShape
  <2>3. captured \o call.todo = captured
    BY <2>1, RecordedType
  <2>4. Recorded = captured /\ Recorded' = captured
    BY <2>1, <2>2, <2>3 DEF Recorded, Log
  <2>5. Written' = Written
    BY <2>1, <2>4 DEF Written, RangeOf
  <2>6. CapturedInterpretable'
    BY <2>1 DEF CaptureInv, CapturedInterpretable, Interpretable
  <2>7. QED
    BY <2>1, <2>2, <2>5, <2>6 DEF CaptureInv, CaptureShape, EveryIdWritten
<1>6. QED BY <1>2, <1>3, <1>4, <1>5 DEF CaptureStep

(* A new symbol's registration is written, refused, or not to be written. *)
LEMMA RegisteringKeepsCapture ==
  ASSUME TypeOK, CaptureInv, RegisterSymbol
  PROVE  CaptureInv'
<1>1. PICK symbol \in Symbols \ DOMAIN ids, id \in Nat :
        /\ DOMAIN ids' = DOMAIN ids \cup {symbol}
        /\ ids'[symbol] = id
        /\ \A s \in DOMAIN ids : ids'[s] = ids[s]
        /\ Registration(symbol, id) \in Registrations
        /\ \/ /\ WriteRegistration(Registration(symbol, id))
              /\ UNCHANGED refused
           \/ /\ WriteRaises(Registration(symbol, id))
              /\ refused' = refused \cup {Registration(symbol, id)}
        /\ call.op \in Registering /\ call'.op # "activate"
  BY RegisteredSymbol
<1> DEFINE reg == Registration(symbol, id)
<1>2. reg \in AnyRecord /\ ~IsMessage(reg)
  BY <1>1 DEF AnyRecord, Registration, IsMessage
<1>3. captureState # "swapping" /\ Recorded = Log
  BY <1>1 DEF CaptureInv, CaptureShape, Registering, Recorded
<1>4. \A s \in DOMAIN ids' : \/ Registration(s, ids'[s]) = reg
                             \/ s \in DOMAIN ids /\ ids'[s] = ids[s]
  <2>1. Registration(symbol, ids'[symbol]) = reg
    BY <1>1
  <2>2. \A s \in DOMAIN ids' : s = symbol \/ s \in DOMAIN ids
    BY <1>1
  <2>3. \A s \in DOMAIN ids : ids'[s] = ids[s]
    BY <1>1
  <2> HIDE DEF reg
  <2>4. QED BY <2>1, <2>2, <2>3
<1> HIDE DEF reg
<1>5. ASSUME Written \cup {reg} \subseteq Written', UNCHANGED captureState
      PROVE  EveryIdWritten'
  <2> SUFFICES ASSUME captureState' \in {"bootstrapping", "swapping", "active"},
                      NEW s \in DOMAIN ids'
               PROVE  Registration(s, ids'[s]) \in Written'
    BY DEF EveryIdWritten
  <2>1. CASE s \in DOMAIN ids /\ ids'[s] = ids[s]
    <3>1. Registration(s, ids[s]) \in Written
      BY <1>5, <2>1 DEF CaptureInv, EveryIdWritten
    <3>2. QED BY <1>5, <2>1, <3>1
  <2>2. QED BY <1>4, <1>5, <2>1
<1>6. CASE WriteRecord(reg) /\ UNCHANGED refused
  <2>1. /\ CaptureShape' /\ captureState' # "swapping"
        /\ Recorded' = Append(Recorded, reg)
    BY <1>1, <1>2, <1>6, WriteKeepsShape
  <2>2. CapturedInterpretable'
    BY <1>1, <1>2, <1>6, WriteKeepsInterpretable
  <2>3. Recorded \in Seq(AnyRecord)
    BY RecordedType
  <2>4. RangeOf(Append(Recorded, reg)) = RangeOf(Recorded) \cup {reg}
    BY <1>2, <2>3, RangeOfAppend
  <2>5. Written' = Written \cup {reg}
    BY <1>6, <2>1, <2>4 DEF Written, RangeOf
  <2>6. UNCHANGED captureState
    BY <1>6 DEF WriteRecord
  <2>7. QED BY <1>5, <2>1, <2>2, <2>5, <2>6 DEF CaptureInv
<1>7. CASE WriteRaises(reg) /\ refused' = refused \cup {reg}
  <2>1. UNCHANGED <<captureState, buffer, captured>>
    BY <1>7 DEF WriteRaises
  <2>2. Recorded' = Recorded
    BY <1>3, <2>1 DEF Recorded, Log
  <2>3. Written' = Written \cup {reg}
    BY <1>7, <2>2 DEF Written, RangeOf
  <2>4. CapturedInterpretable'
    BY <1>7, <2>1, InterpretableKept DEF CaptureInv, CapturedInterpretable
  <2>5. CaptureShape'
    BY <1>1, <1>3, <2>1 DEF CaptureInv, CaptureShape
  <2>6. QED BY <1>3, <1>5, <2>1, <2>3, <2>4, <2>5 DEF CaptureInv
<1>8. CASE /\ captureState \in {"disabled", "waiting-for-sink"}
           /\ UNCHANGED captureVars /\ UNCHANGED refused
  <2>1. UNCHANGED <<captureState, buffer, captured, refused>>
    BY <1>8 DEF captureVars
  <2>2. CaptureShape' /\ CapturedInterpretable' /\ EveryIdWritten'
    BY <1>1, <1>3, <1>8, <2>1
    DEF CaptureInv, CaptureShape, CapturedInterpretable, EveryIdWritten
  <2>3. QED BY <1>3, <2>1, <2>2 DEF CaptureInv
<1>9. QED BY <1>1, <1>6, <1>7, <1>8 DEF WriteRegistration, reg

(* A message is written after the registrations of all its IDs. *)
LEMMA DeliveringKeepsCapture ==
  ASSUME TypeOK, BindingInv, CaptureInv, Deliver
  PROVE  CaptureInv'
<1> DEFINE m == BuiltMessage
<1>1. call.op = "emit" /\ call.todo = <<>> /\ call'.op = "idle"
      /\ UNCHANGED <<ids, refused>>
  BY DEF Deliver, Idle, registryVars
<1>2. m \in AnyRecord
      /\ \A kind \in Kinds :
           RegistrationFor(m, kind) \in {Registration(s, ids[s]) : s \in DOMAIN ids}
  BY <1>1, BuiltMessageType DEF AnyRecord
<1>3. WriteRecord(m) \/ UNCHANGED <<captureState, buffer, captured>>
  BY DEF Deliver, WriteMessage, WriteMessageRaises, WriteRaises, captureVars
<1> HIDE DEF m
<1>4. CASE WriteRecord(m)
  <2>1. captureState \in {"bootstrapping", "active"} /\ UNCHANGED captureState
    BY <1>4 DEF WriteRecord
  <2>2. \A kind \in Kinds : RegistrationFor(m, kind) \in Written
    BY <1>2, <2>1 DEF CaptureInv, EveryIdWritten
  <2>3. /\ CaptureShape' /\ captureState' # "swapping"
        /\ Recorded' = Append(Recorded, m)
    BY <1>1, <1>2, <1>4, WriteKeepsShape
  <2>4. CapturedInterpretable'
    BY <1>1, <1>2, <1>4, <2>2, WriteKeepsInterpretable
  <2>5. RangeOf(Append(Recorded, m)) = RangeOf(Recorded) \cup {m}
    BY <1>2, RecordedType, RangeOfAppend
  <2>6. Written \subseteq Written'
    BY <1>1, <2>3, <2>5 DEF Written, RangeOf
  <2>7. EveryIdWritten'
    BY <1>1, <2>1, <2>6 DEF CaptureInv, EveryIdWritten
  <2>8. QED BY <2>3, <2>4, <2>7 DEF CaptureInv
<1>5. CASE UNCHANGED <<captureState, buffer, captured>>
  BY <1>1, <1>5, CaptureStutter
<1>6. QED BY <1>3, <1>4, <1>5

(* Three kinds of step capture something; every other step is quiet. *)
Quiet == /\ UNCHANGED <<ids, captureState, buffer, captured, refused>>
         /\ \/ UNCHANGED call
            \/ call.op # "activate" /\ call'.op # "activate"

LEMMA CaptureSteps ==
  ASSUME TypeOK, [Next]_vars
  PROVE  CaptureStep \/ RegisterSymbol \/ Deliver \/ Quiet
<1> USE DEF registryVars, captureVars, Idle, Quiet
<1>1. SymbolKnown => Quiet
  <2>1. SymbolKnown => call'.op = call.op
    BY DEF SymbolKnown, TypeOK, Calls
  <2>2. QED BY <2>1 DEF SymbolKnown, Registering
<1>2. ASSUME NEW symbol PROVE Register(symbol) => Quiet
  BY DEF Register
<1>3. CompleteRegister => Quiet
  BY DEF CompleteRegister
<1>4. ASSUME NEW config PROVE BindEmitter(config) => Quiet
  BY DEF BindEmitter
<1>5. CompleteBindEmitter => Quiet
  BY DEF CompleteBindEmitter
<1>6. ASSUME NEW r, NEW filter PROVE BindSubscription(r, filter) => Quiet
  BY DEF BindSubscription
<1>7. AddReceiver => Quiet
  BY DEF AddReceiver
<1>8. ASSUME NEW r PROVE RemoveReceiver(r) => Quiet
  BY DEF RemoveReceiver
<1>9. ASSUME NEW config, NEW msgType, NEW format, NEW operation, NEW size
      PROVE  Emit(config, msgType, format, operation, size) => Quiet
  BY DEF Emit
<1>10. SerializationFails => Quiet
  BY DEF SerializationFails
<1>11. ASSUME NEW r PROVE Receive(r) => Quiet
  BY DEF Receive
<1>12. UNCHANGED vars => Quiet
  BY DEF vars
<1> HIDE DEF Quiet
<1>13. BindStep => RegisterSymbol \/ Quiet
  BY <1>1, <1>2, <1>3, <1>4, <1>5, <1>6, <1>7, <1>8 DEF BindStep
<1>14. EmitStep => Deliver \/ Quiet
  BY <1>9, <1>10, <1>11 DEF EmitStep
<1>15. QED BY <1>12, <1>13, <1>14 DEF Next

LEMMA NextCapture ==
  ASSUME TypeOK, BindingInv, RegistryInv, CaptureInv, [Next]_vars
  PROVE  CaptureInv'
<1>1. Quiet => CaptureInv'
  BY CaptureStutter DEF Quiet
<1>2. QED
  BY <1>1, CaptureSteps, ActivationKeepsCapture, RegisteringKeepsCapture,
     DeliveringKeepsCapture

LEMMA CaptureInvariant == Spec => [](TypeOK /\ BindingInv /\ RegistryInv /\ CaptureInv)
<1>1. Init => RegistryInv /\ CaptureInv
  BY InitRegistry, InitCapture
<1>2. TypeOK /\ BindingInv /\ RegistryInv /\ CaptureInv /\ [Next]_vars
        => RegistryInv' /\ CaptureInv'
  BY NextRegistry, NextCapture
<1>3. QED BY <1>1, <1>2, Typing, PTL DEF Spec

(***************************************************************************)
(* Whatever fails and whenever a sink is attached, every ID of every       *)
(* captured message has its registration earlier in the record, or the     *)
(* write of that registration raised (_capture_symbol_event,               *)
(* activate_capture_sink, flush_to).                                       *)
(***************************************************************************)
THEOREM CapturedReadable == Spec => []CapturedInterpretable
<1>1. CaptureInv => CapturedInterpretable
  BY DEF CaptureInv
<1>2. QED BY <1>1, CaptureInvariant, PTL

(***************************************************************************)
(* The record grows at its end.                                            *)
(***************************************************************************)
LEMMA LogGrows ==
  ASSUME TypeOK, BindingInv, CaptureInv, [Next]_vars
  PROVE  /\ Log \in Seq(AnyRecord)
         /\ \E more \in Seq(AnyRecord) : Log' = Log \o more
<1>1. /\ captured \in Seq(AnyRecord) /\ buffer \in Seq(AnyRecord)
      /\ Log \in Seq(AnyRecord)
  BY RecordedType DEF Log
<1>2. \A s \in Seq(AnyRecord) : <<>> \in Seq(AnyRecord) /\ s \o <<>> = s
                               /\ <<>> \o s = s
  OBVIOUS
<1>3. CASE Log' = Log
  BY <1>1, <1>2, <1>3
<1>4. ASSUME NEW rec \in AnyRecord, WriteRecord(rec)
      PROVE  Log' = Log \o <<rec>> /\ <<rec>> \in Seq(AnyRecord)
  <2>1. \A s \in Seq(AnyRecord) : Append(s, rec) = s \o <<rec>>
    BY AppendAsConcat
  <2>2. <<rec>> \in Seq(AnyRecord)
    OBVIOUS
  <2>3. CASE captureState = "bootstrapping"
    <3>1. Log = buffer /\ Log' = Append(buffer, rec)
      BY <1>4, <2>3 DEF WriteRecord, Log
    <3>2. QED BY <1>1, <2>1, <2>2, <3>1
  <2>4. CASE captureState = "active"
    <3>1. Log = captured /\ Log' = Append(captured, rec)
      BY <1>4, <2>4 DEF WriteRecord, Log
    <3>2. QED BY <1>1, <2>1, <2>2, <3>1
  <2>5. QED BY <1>4, <2>3, <2>4 DEF WriteRecord
<1>5. CASE CaptureStep
  <2>1. CASE BeginActivation \/ ActivationWrite \/ ActivationFails
    <3>1. captureState # "active" /\ captureState' # "active" /\ buffer' = buffer
      BY <2>1 DEF BeginActivation, ActivationWrite, ActivationFails,
                  CaptureInv, CaptureShape
    <3>2. Log' = Log
      BY <3>1 DEF Log
    <3>3. QED BY <1>3, <3>2
  <2>2. CASE CompleteActivation
    <3>1. /\ call.op = "activate" /\ call.todo = <<>> /\ captured' = captured
          /\ captureState' = "active"
      BY <2>2 DEF CompleteActivation
    <3>2. captureState = "swapping" /\ buffer \in {<<>>, captured \o call.todo}
      BY <3>1 DEF CaptureInv, CaptureShape
    <3>3. Log = buffer /\ Log' = captured
      BY <3>1, <3>2 DEF Log
    <3>4. captured \o call.todo = captured
      BY <1>1, <1>2, <3>1
    <3>5. QED BY <1>1, <1>2, <3>2, <3>3, <3>4
  <2>3. QED BY <1>5, <2>1, <2>2 DEF CaptureStep
<1>6. CASE RegisterSymbol
  <2>1. PICK symbol \in Symbols \ DOMAIN ids, id \in Nat :
          /\ Registration(symbol, id) \in Registrations
          /\ \/ WriteRegistration(Registration(symbol, id))
             \/ WriteRaises(Registration(symbol, id))
    BY <1>6, RegisteredSymbol
  <2>2. CASE WriteRecord(Registration(symbol, id))
    BY <1>1, <1>4, <2>1, <2>2 DEF AnyRecord
  <2>3. CASE UNCHANGED <<captureState, buffer, captured>>
    <3>1. Log' = Log
      BY <2>3 DEF Log
    <3>2. QED BY <1>3, <3>1
  <2>4. QED BY <2>1, <2>2, <2>3 DEF WriteRegistration, WriteRaises, captureVars
<1>7. CASE Deliver
  <2>1. \/ WriteRecord(BuiltMessage)
        \/ UNCHANGED <<captureState, buffer, captured>>
    BY <1>7 DEF Deliver, WriteMessage, WriteMessageRaises, WriteRaises, captureVars
  <2>2. BuiltMessage \in AnyRecord
    BY <1>7, BuiltMessageType DEF Deliver, AnyRecord
  <2>3. CASE UNCHANGED <<captureState, buffer, captured>>
    <3>1. Log' = Log
      BY <2>3 DEF Log
    <3>2. QED BY <1>3, <3>1
  <2>4. QED BY <1>1, <1>4, <2>1, <2>2, <2>3
<1>8. CASE Quiet
  <2>1. Log' = Log
    BY <1>8 DEF Quiet, Log
  <2>2. QED BY <1>3, <2>1
<1>9. QED BY <1>5, <1>6, <1>7, <1>8, CaptureSteps

LEMMA PrefixOfConcat ==
  ASSUME NEW S, NEW s \in Seq(S), NEW t \in Seq(S)
  PROVE  IsPrefix(s, s \o t)
<1> DEFINE st == s \o t
<1>1. /\ Len(s) \in Nat /\ Len(t) \in Nat /\ Len(st) = Len(s) + Len(t)
      /\ st \in Seq(S) /\ \A i \in 1..Len(s) : st[i] = s[i]
  BY LenProperties, ConcatProperties
<1> HIDE DEF st
<1>2. SubSeq(s, 1, Len(s)) = SubSeq(st, 1, Len(s))
  BY <1>1
<1>3. QED BY <1>1, <1>2 DEF IsPrefix, st

(***************************************************************************)
(* No step takes anything out of the record or changes what it holds: not  *)
(* the change from the bootstrap buffer to the sink, not an activation     *)
(* that fails half way (activate_capture_sink, BootstrapBuffer.flush_to).  *)
(***************************************************************************)
THEOREM RecordGrows == Spec => LogOnlyGrows
<1>1. ASSUME TypeOK, BindingInv, CaptureInv, [Next]_vars
      PROVE  [IsPrefix(Log, Log')]_vars
  BY <1>1, LogGrows, PrefixOfConcat
<1>2. QED BY <1>1, CaptureInvariant, PTL DEF Spec, LogOnlyGrows

(***************************************************************************)
(* A receiver's queue holds recorded messages only.                        *)
(***************************************************************************)
InboxRecorded ==
  captureState # "disabled" =>
    \A r \in Receivers : RangeOf(inbox[r]) \subseteq RangeOf(Log)

LEMMA InitInbox == Init => InboxRecorded
  BY RangeOfEmpty DEF Init, InboxRecorded

LEMMA NextInbox ==
  ASSUME TypeOK, BindingInv, CaptureInv, InboxRecorded, [Next]_vars
  PROVE  InboxRecorded'
<1>1. PICK more \in Seq(AnyRecord) : Log' = Log \o more
  BY LogGrows
<1>2. RangeOf(Log)' = RangeOf(Log) \cup RangeOf(more)
  <2>1. RangeOf(Log \o more) = RangeOf(Log) \cup RangeOf(more)
    BY LogGrows, RangeOfConcat
  <2>2. QED BY <1>1, <2>1 DEF RangeOf
<1>3. captureState' # "disabled" => captureState # "disabled"
  <2>1. CaptureStep => captureState' # "disabled" /\ captureState # "disabled"
    BY DEF CaptureStep, BeginActivation, ActivationWrite, ActivationFails,
           CompleteActivation, CaptureInv, CaptureShape
  <2>2. RegisterSymbol => UNCHANGED captureState
    BY DEF RegisterSymbol, WriteRegistration, WriteRaises, WriteRecord, captureVars
  <2>3. Deliver => UNCHANGED captureState
    BY DEF Deliver, WriteMessage, WriteMessageRaises, WriteRaises, WriteRecord,
           captureVars
  <2>4. QED BY <2>1, <2>2, <2>3, CaptureSteps DEF Quiet
<1>4. ASSUME captureState' # "disabled", NEW r \in Receivers,
             RangeOf(inbox'[r]) \subseteq RangeOf(inbox[r])
      PROVE  RangeOf(inbox'[r]) \subseteq RangeOf(Log)'
  BY <1>2, <1>3, <1>4 DEF InboxRecorded
<1>5. CASE UNCHANGED inbox
  BY <1>4, <1>5 DEF InboxRecorded
<1>6. CASE \E r \in Receivers : Receive(r)
  <2>1. ASSUME NEW r \in Receivers
        PROVE  RangeOf(inbox'[r]) \subseteq RangeOf(inbox[r])
    <3>1. inbox[r] \in Seq(Messages) /\ DOMAIN inbox = Receivers
      BY DEF TypeOK
    <3>2. \/ inbox'[r] = inbox[r]
          \/ inbox[r] # <<>> /\ inbox'[r] = Tail(inbox[r])
      <4>1. PICK q \in Receivers : /\ inbox[q] # <<>>
                                   /\ inbox' = [inbox EXCEPT ![q] = Tail(@)]
        BY <1>6 DEF Receive
      <4>2. QED BY <3>1, <4>1
    <3>3. QED BY <3>1, <3>2, RangeOfTail
  <2>2. QED BY <1>4, <2>1 DEF InboxRecorded
<1>7. CASE Deliver
  <2> DEFINE m == BuiltMessage
  <2>1. m \in Messages
    BY <1>7, BuiltMessageType DEF Deliver
  <2>2. CASE WriteMessage(m) /\ inbox' = [r \in Receivers |->
                                   IF r \in MatchingReceivers(m)
                                   THEN Append(inbox[r], m) ELSE inbox[r]]
    <3> HIDE DEF m
    <3> SUFFICES ASSUME captureState' # "disabled", NEW r \in Receivers
                 PROVE  RangeOf(inbox'[r]) \subseteq RangeOf(Log)'
      BY DEF InboxRecorded
    <3>1. WriteRecord(m)
      BY <1>3, <2>2 DEF WriteMessage
    <3>2. Log' = Append(Log, m)
      BY <3>1 DEF WriteRecord, Log
    <3>3. RangeOf(Append(Log, m)) = RangeOf(Log) \cup {m}
      BY <2>1, LogGrows, RangeOfAppend DEF AnyRecord
    <3>4. m \in RangeOf(Log)'
      BY <3>2, <3>3 DEF RangeOf
    <3>5. inbox[r] \in Seq(Messages)
      BY DEF TypeOK
    <3>6. RangeOf(inbox'[r]) \subseteq RangeOf(inbox[r]) \cup {m}
      BY <2>1, <2>2, <3>5, RangeOfAppend
    <3>7. RangeOf(inbox[r]) \subseteq RangeOf(Log)
      BY <1>3 DEF InboxRecorded
    <3>8. QED BY <1>2, <3>4, <3>6, <3>7
  <2>3. QED BY <1>5, <1>7, <2>2 DEF Deliver
<1>8. UNCHANGED inbox \/ (\E r \in Receivers : Receive(r)) \/ Deliver
  BY DEF Next, CaptureStep, BeginActivation, ActivationWrite, ActivationFails,
         CompleteActivation, BindStep, SymbolKnown, RegisterSymbol, Register,
         CompleteRegister, BindEmitter, CompleteBindEmitter, BindSubscription,
         AddReceiver, RemoveReceiver, EmitStep, Emit, SerializationFails, vars
<1>9. QED BY <1>5, <1>6, <1>7, <1>8

(***************************************************************************)
(* With capture on, nobody receives a message that the record does not     *)
(* hold: _deliver writes before it delivers, and activation carries the    *)
(* bootstrap buffer over to the sink.                                      *)
(***************************************************************************)
THEOREM DeliveredWasRecorded == Spec => []DeliveredIsRecorded
<1>1. TypeOK /\ BindingInv /\ CaptureInv /\ InboxRecorded /\ [Next]_vars
        => InboxRecorded'
  BY NextInbox
<1>2. InboxRecorded => DeliveredIsRecorded
  BY DEF InboxRecorded, DeliveredIsRecorded, RangeOf
<1>3. QED BY <1>1, <1>2, InitInbox, CaptureInvariant, PTL DEF Spec

------------------------------------------------------------------------------
(* The order of the record. *)

Ordered(records) ==
  \A j \in DOMAIN records : \A i \in 1..(j - 1) :
    IsMessage(records[i]) /\ IsMessage(records[j]) =>
      /\ records[i].busSequence < records[j].busSequence
      /\ records[i].names.topic = records[j].names.topic =>
           records[i].topicSequence < records[j].topicSequence

(***************************************************************************)
(* The numbers of a recorded message have been used up: they lie below the *)
(* next ones of the bus and of its topic.  A topic keeps its ID, so that   *)
(* two messages of a topic are counted together.                           *)
(***************************************************************************)
Counted(m) ==
  /\ Symbol("topic", m.names.topic) \in DOMAIN ids
  /\ m.ids["topic"] = ids[Symbol("topic", m.names.topic)]
  /\ m.busSequence \in Nat /\ m.busSequence < busSequence
  /\ m.topicSequence \in Nat /\ m.topicSequence < NextTopicSequence(m.ids["topic"])

(* A sink that is the core's first is handed registrations only. *)
LateSink ==
  captureState = "swapping" /\ buffer = <<>> =>
    captured \in Seq(Registrations) /\ call.todo \in Seq(Registrations)

OrderInv == /\ \A m \in RangeOf(Log) : IsMessage(m) => Counted(m)
            /\ Ordered(Log)
            /\ LateSink

LEMMA OrderedAppend ==
  ASSUME NEW S, NEW s \in Seq(S), NEW rec \in S, Ordered(s),
         IsMessage(rec) => \A m \in RangeOf(s) : IsMessage(m) =>
           /\ m.busSequence < rec.busSequence
           /\ m.names.topic = rec.names.topic => m.topicSequence < rec.topicSequence
  PROVE  Ordered(Append(s, rec))
<1> DEFINE st == Append(s, rec)
<1>1. /\ Len(s) \in Nat
      /\ DOMAIN s = 1..Len(s) /\ DOMAIN st = 1..Len(s) + 1
      /\ \A i \in 1..Len(s) : st[i] = s[i] /\ s[i] \in RangeOf(s)
      /\ st[Len(s) + 1] = rec
  BY LenProperties, AppendProperties DEF RangeOf
<1> HIDE DEF st
<1> SUFFICES ASSUME NEW j \in DOMAIN st, NEW i \in 1..(j - 1),
                    IsMessage(st[i]), IsMessage(st[j])
             PROVE  /\ st[i].busSequence < st[j].busSequence
                    /\ st[i].names.topic = st[j].names.topic =>
                         st[i].topicSequence < st[j].topicSequence
  BY DEF Ordered, st
<1>2. i \in 1..Len(s) /\ i < j
  BY <1>1
<1>3. CASE j \in 1..Len(s)
  BY <1>1, <1>2, <1>3 DEF Ordered
<1>4. CASE j = Len(s) + 1
  BY <1>1, <1>2, <1>4
<1>5. QED BY <1>1, <1>3, <1>4

LEMMA InitOrder == Init => OrderInv
  BY RangeOfEmpty DEF Init, OrderInv, LateSink, Ordered, Log

LEMMA NextLateSink ==
  ASSUME TypeOK, BindingInv, CaptureInv, LateSink, [Next]_vars
  PROVE  LateSink'
<1>1. CASE BeginActivation
  <2>1. /\ captured = <<>> /\ captured' = captured /\ buffer' = buffer
        /\ call'.todo \in {buffer, registrations}
    BY <1>1 DEF BeginActivation, CaptureInv, CaptureShape
  <2>2. registrations \in Seq(Registrations) /\ <<>> \in Seq(Registrations)
    BY DEF TypeOK
  <2>3. QED BY <2>1, <2>2 DEF LateSink
<1>2. CASE ActivationWrite
  <2>1. /\ captureState = "swapping" /\ buffer' = buffer
        /\ call.todo # <<>>
        /\ captured' = Append(captured, Head(call.todo))
    BY <1>2 DEF ActivationWrite, CaptureInv, CaptureShape
  <2>2. call'.todo = Tail(call.todo)
    BY <1>2 DEF ActivationWrite, TypeOK, Calls
  <2>3. ASSUME captured \in Seq(Registrations), call.todo \in Seq(Registrations)
        PROVE  /\ captured' \in Seq(Registrations)
               /\ call'.todo \in Seq(Registrations)
    BY <2>1, <2>2, <2>3, TakeHead
  <2>4. QED BY <2>1, <2>3 DEF LateSink
<1>3. CASE ActivationFails \/ CompleteActivation
  BY <1>3 DEF ActivationFails, CompleteActivation, LateSink
<1>4. CASE RegisterSymbol
  BY <1>4 DEF RegisterSymbol, WriteRegistration, WriteRaises, WriteRecord,
              captureVars, Registering, CaptureInv, CaptureShape, LateSink
<1>5. CASE Deliver
  BY <1>5 DEF Deliver, WriteMessage, WriteMessageRaises, WriteRaises,
              WriteRecord, captureVars, CaptureInv, CaptureShape, LateSink
<1>6. CASE Quiet
  BY <1>6 DEF Quiet, CaptureInv, CaptureShape, LateSink
<1>7. QED BY <1>1, <1>2, <1>3, <1>4, <1>5, <1>6, CaptureSteps DEF CaptureStep

(***************************************************************************)
(* A step leaves the record alone, writes one record at its end, or, where *)
(* there was none, begins it with the registrations so far.                *)
(***************************************************************************)
LEMMA LogSteps ==
  ASSUME TypeOK, BindingInv, CaptureInv, LateSink, [Next]_vars
  PROVE  \/ Log' = Log
         \/ Log' \in Seq(Registrations) /\ Log = <<>>
         \/ \E rec \in Registrations : Log' = Append(Log, rec)
         \/ Deliver /\ Log' = Append(Log, BuiltMessage)
<1>1. ASSUME NEW rec, WriteRecord(rec)
      PROVE  Log' = Append(Log, rec)
  BY <1>1 DEF WriteRecord, Log
<1>2. CASE CaptureStep
  <2>1. CASE BeginActivation \/ ActivationWrite \/ ActivationFails
    BY <2>1 DEF BeginActivation, ActivationWrite, ActivationFails, CaptureInv,
                CaptureShape, Log
  <2>2. CASE CompleteActivation
    <3>1. /\ captured \in Seq(AnyRecord) /\ call.todo = <<>>
          /\ call.op = "activate" /\ captured' = captured
          /\ captureState' = "active"
      BY <2>2, RecordedType DEF CompleteActivation
    <3>2. captureState = "swapping" /\ buffer \in {<<>>, captured \o <<>>}
      BY <3>1 DEF CaptureInv, CaptureShape
    <3>3. captured \o <<>> = captured
      BY <3>1
    <3>4. QED BY <3>1, <3>2, <3>3 DEF Log, LateSink
  <2>3. QED BY <1>2, <2>1, <2>2 DEF CaptureStep
<1>3. CASE RegisterSymbol
  <2>1. PICK symbol \in Symbols \ DOMAIN ids, id \in Nat :
          /\ Registration(symbol, id) \in Registrations
          /\ \/ WriteRegistration(Registration(symbol, id))
             \/ WriteRaises(Registration(symbol, id))
    BY <1>3, RegisteredSymbol
  <2>2. CASE WriteRecord(Registration(symbol, id))
    BY <1>1, <2>1, <2>2
  <2>3. CASE UNCHANGED <<captureState, buffer, captured>>
    BY <2>3 DEF Log
  <2>4. QED BY <2>1, <2>2, <2>3 DEF WriteRegistration, WriteRaises, captureVars
<1>4. CASE Deliver
  <2>1. CASE WriteRecord(BuiltMessage)
    BY <1>1, <1>4, <2>1
  <2>2. CASE UNCHANGED <<captureState, buffer, captured>>
    BY <2>2 DEF Log
  <2>3. QED BY <1>4, <2>1, <2>2 DEF Deliver, WriteMessage, WriteMessageRaises,
                                    WriteRaises, captureVars
<1>5. CASE Quiet
  BY <1>5 DEF Quiet, Log
<1>6. QED BY <1>2, <1>3, <1>4, <1>5, CaptureSteps

(* Every step keeps the numbers of earlier messages below the next ones. *)
LEMMA CountedKept ==
  ASSUME TypeOK, BindingInv, [Next]_vars, NEW m, Counted(m)
  PROVE  Counted(m)'
<1> DEFINE topic == Symbol("topic", m.names.topic)
<1>1. CASE UNCHANGED <<ids, busSequence, topicSequences>>
  BY <1>1 DEF Counted, NextTopicSequence
<1>2. CASE RegisterSymbol
  <2>1. /\ UNCHANGED <<busSequence, topicSequences>>
        /\ \A s \in DOMAIN ids : s \in DOMAIN ids' /\ ids'[s] = ids[s]
    BY <1>2, RegisteredSymbol DEF RegisterSymbol, sequenceVars
  <2>2. QED BY <2>1 DEF Counted, NextTopicSequence
<1>3. CASE Deliver
  <2> DEFINE id == BuiltMessage.ids["topic"]
             next == BuiltMessage.topicSequence
  <2>1. /\ ids' = ids /\ busSequence' = busSequence + 1
        /\ topicSequences' = [n \in DOMAIN topicSequences \cup {id} |->
                                IF n = id THEN next + 1 ELSE topicSequences[n]]
    BY <1>3 DEF Deliver, registryVars
  <2>2. next = NextTopicSequence(id) /\ busSequence \in Nat
    BY DEF BuiltMessage, Kinds, TypeOK
  <2>3. \A n : NextTopicSequence(n) \in Nat
    BY NextTopicSequenceType
  <2> HIDE DEF id, next
  <2>5. ASSUME NEW n, NEW k \in Nat, k < NextTopicSequence(n)
        PROVE  /\ n \in DOMAIN topicSequences'
               /\ k < topicSequences'[n]
    <3>1. n \in DOMAIN topicSequences
      BY <2>5 DEF NextTopicSequence
    <3>2. CASE n = id
      BY <2>1, <2>2, <2>3, <2>5, <3>2 DEF NextTopicSequence
    <3>3. CASE n # id
      BY <2>1, <2>5, <3>1, <3>3 DEF NextTopicSequence
    <3>4. QED BY <3>2, <3>3
  <2>6. m.ids["topic"] \in DOMAIN topicSequences'
          /\ m.topicSequence < topicSequences'[m.ids["topic"]]
    BY <2>5 DEF Counted
  <2>7. m.busSequence < busSequence'
    BY <2>1, <2>2 DEF Counted
  <2>8. QED BY <2>1, <2>6, <2>7 DEF Counted, NextTopicSequence
<1>4. UNCHANGED <<ids, busSequence, topicSequences>> \/ RegisterSymbol \/ Deliver
  <2>1. CaptureStep => UNCHANGED <<ids, busSequence, topicSequences>>
    BY DEF CaptureStep, BeginActivation, ActivationWrite, ActivationFails,
           CompleteActivation, registryVars, sequenceVars
  <2>2. BindStep /\ ~RegisterSymbol => UNCHANGED <<ids, busSequence, topicSequences>>
    BY DEF BindStep, SymbolKnown, Register, CompleteRegister, BindEmitter,
           CompleteBindEmitter, BindSubscription, AddReceiver, RemoveReceiver,
           registryVars, sequenceVars
  <2>3. EmitStep /\ ~Deliver => UNCHANGED <<ids, busSequence, topicSequences>>
    BY DEF EmitStep, Emit, SerializationFails, Receive, registryVars, sequenceVars
  <2>4. UNCHANGED vars => UNCHANGED <<ids, busSequence, topicSequences>>
    BY DEF registryVars, sequenceVars, vars
  <2>5. QED BY <2>1, <2>2, <2>3, <2>4 DEF Next
<1>5. QED BY <1>1, <1>2, <1>3, <1>4

(* The message about to be delivered takes the next numbers. *)
LEMMA BuiltCounted ==
  ASSUME TypeOK, BindingInv, Deliver, NEW m, m = BuiltMessage
  PROVE  /\ m \in Messages
         /\ Counted(m)'
         /\ m.busSequence = busSequence
         /\ m.topicSequence
              = NextTopicSequence(ids[Symbol("topic", m.names.topic)])
<1>1. /\ m \in Messages
      /\ \A kind \in Kinds :
           RegistrationFor(m, kind) \in {Registration(s, ids[s]) : s \in DOMAIN ids}
  BY BuiltMessageType DEF Deliver
<1>2. /\ m.busSequence = busSequence
      /\ m.ids["topic"] = ids[Symbol("topic", m.names.topic)]
      /\ m.topicSequence = NextTopicSequence(m.ids["topic"])
  BY DEF BuiltMessage, Kinds
<1>3. Symbol("topic", m.names.topic) \in DOMAIN ids
  <2>1. PICK s \in DOMAIN ids :
          RegistrationFor(m, "topic") = Registration(s, ids[s])
    BY <1>1 DEF Kinds
  <2>2. QED BY <2>1 DEF RegistrationFor, Registration, SymbolOf
<1>4. m.busSequence \in Nat /\ m.topicSequence \in Nat
  BY <1>1 DEF Messages
<1>5. /\ ids' = ids /\ busSequence' = busSequence + 1
      /\ topicSequences' = [n \in DOMAIN topicSequences \cup {m.ids["topic"]} |->
                              IF n = m.ids["topic"] THEN m.topicSequence + 1
                                                    ELSE topicSequences[n]]
  BY DEF Deliver, registryVars
<1>6. /\ m.ids["topic"] \in DOMAIN topicSequences'
      /\ topicSequences'[m.ids["topic"]] = m.topicSequence + 1
  BY <1>5
<1>7. \A n \in Nat : n < n + 1
  OBVIOUS
<1>8. /\ Symbol("topic", m.names.topic) \in DOMAIN ids'
      /\ m.ids["topic"] = ids'[Symbol("topic", m.names.topic)]
      /\ m.busSequence < busSequence'
      /\ m.topicSequence < topicSequences'[m.ids["topic"]]
  BY <1>2, <1>3, <1>4, <1>5, <1>6, <1>7
<1>9. QED BY <1>1, <1>2, <1>4, <1>6, <1>8 DEF Counted, NextTopicSequence

LEMMA NextOrder ==
  ASSUME TypeOK, BindingInv, CaptureInv, OrderInv, [Next]_vars
  PROVE  OrderInv'
<1>1. Log \in Seq(AnyRecord)
  BY LogGrows
<1>2. ASSUME NEW m \in RangeOf(Log), IsMessage(m)
      PROVE  Counted(m)'
  BY <1>2, CountedKept DEF OrderInv
<1>3. LateSink'
  BY NextLateSink DEF OrderInv
<1>4. CASE Log' = Log
  <2>1. RangeOf(Log)' = RangeOf(Log) /\ Ordered(Log)'
    BY <1>4 DEF OrderInv, Ordered, RangeOf
  <2>2. QED BY <1>2, <1>3, <2>1 DEF OrderInv
<1>5. CASE Log' \in Seq(Registrations) /\ Log = <<>>
  <2>1. \A i \in DOMAIN Log' : ~IsMessage(Log'[i])
    <3>1. \A i \in DOMAIN Log' : Log'[i] \in Registrations
      BY <1>5, ElementsOf
    <3>2. QED BY <3>1 DEF Registrations, IsMessage
  <2>2. Ordered(Log)' /\ \A m \in RangeOf(Log)' : ~IsMessage(m)
    <3>1. \A j \in DOMAIN Log' : \A i \in 1..(j - 1) : IsMessage(Log'[j]) => FALSE
      BY <2>1
    <3>2. QED BY <2>1, <3>1 DEF Ordered, RangeOf
  <2>3. QED BY <1>3, <2>2 DEF OrderInv
<1>6. ASSUME NEW rec \in AnyRecord, Log' = Append(Log, rec),
             IsMessage(rec) => Counted(rec)',
             IsMessage(rec) => \A m \in RangeOf(Log) : IsMessage(m) =>
               /\ m.busSequence < rec.busSequence
               /\ m.names.topic = rec.names.topic =>
                    m.topicSequence < rec.topicSequence
      PROVE  OrderInv'
  <2>1. Ordered(Append(Log, rec))
    BY <1>1, <1>6, OrderedAppend DEF OrderInv
  <2>2. Ordered(Log)'
    BY <1>6, <2>1 DEF Ordered
  <2>3. RangeOf(Append(Log, rec)) = RangeOf(Log) \cup {rec}
    BY <1>1, RangeOfAppend
  <2>4. RangeOf(Log)' = RangeOf(Log) \cup {rec}
    BY <1>6, <2>3 DEF RangeOf
  <2>5. QED BY <1>2, <1>3, <1>6, <2>2, <2>4 DEF OrderInv
<1>7. ASSUME NEW rec \in Registrations, Log' = Append(Log, rec)
      PROVE  OrderInv'
  <2>1. ~IsMessage(rec) /\ rec \in AnyRecord
    BY DEF Registrations, IsMessage, AnyRecord
  <2>2. QED BY <1>6, <1>7, <2>1
<1>8. CASE Deliver /\ Log' = Append(Log, BuiltMessage)
  <2> PICK rec : rec = BuiltMessage
    OBVIOUS
  <2>1. /\ rec \in AnyRecord /\ Counted(rec)'
        /\ rec.busSequence = busSequence
        /\ rec.topicSequence
             = NextTopicSequence(ids[Symbol("topic", rec.names.topic)])
    BY <1>8, BuiltCounted DEF AnyRecord
  <2>2. ASSUME NEW m \in RangeOf(Log), IsMessage(m)
        PROVE  /\ m.busSequence < rec.busSequence
               /\ m.names.topic = rec.names.topic =>
                    m.topicSequence < rec.topicSequence
    BY <2>1, <2>2 DEF OrderInv, Counted
  <2>3. Log' = Append(Log, rec)
    BY <1>8
  <2>4. QED BY <1>6, <2>1, <2>2, <2>3
<1>9. LateSink
  BY DEF OrderInv
<1>10. QED BY <1>4, <1>5, <1>7, <1>8, <1>9, LogSteps

(***************************************************************************)
(* The record lists messages in the order of their bus and topic numbers,  *)
(* whatever was refused in between and whenever the sink came: a cursor    *)
(* that is a bus number cuts the record of one run in two (_build_message, *)
(* activate_capture_sink).                                                 *)
(***************************************************************************)
THEOREM RecordInOrder == Spec => []RecordedInOrder
<1>1. TypeOK /\ BindingInv /\ CaptureInv /\ OrderInv /\ [Next]_vars => OrderInv'
  BY NextOrder
<1>2. OrderInv => RecordedInOrder
  BY DEF OrderInv, Ordered, RecordedInOrder
<1>3. QED BY <1>1, <1>2, InitOrder, CaptureInvariant, PTL DEF Spec

------------------------------------------------------------------------------
(* DirectBrokerCore implements CapturedBus. *)

(***************************************************************************)
(* The filter a target is subscribed with, in a list of receivers in which *)
(* no target comes twice.                                                  *)
(***************************************************************************)
FilterIn(list, r) ==
  IF \E i \in DOMAIN list : list[i].target = r
  THEN list[CHOOSE i \in DOMAIN list : list[i].target = r].filter
  ELSE NoFilter

TargetsOnce(list) ==
  \A i, j \in DOMAIN list : list[i].target = list[j].target => i = j

TargetsInv ==
  /\ TargetsOnce(receivers)
  /\ \A i \in DOMAIN receivers : receivers[i].target \in opened
  /\ call.op = "bind_subscription" => call.receiver \notin opened

Entries == [filter : Filters, target : Receivers]

LEMMA FilterInEntry ==
  ASSUME NEW list, TargetsOnce(list), NEW i \in DOMAIN list
  PROVE  FilterIn(list, list[i].target) = list[i].filter
<1>1. (CHOOSE j \in DOMAIN list : list[j].target = list[i].target) = i
  BY DEF TargetsOnce
<1>2. QED BY <1>1 DEF FilterIn

LEMMA FilterInNone ==
  ASSUME NEW list, NEW r, \A i \in DOMAIN list : list[i].target # r
  PROVE  FilterIn(list, r) = NoFilter
  BY DEF FilterIn

LEMMA SubscriptionIsFilterIn ==
  \A r : /\ SubscriptionOf(r) = FilterIn(receivers, r)
         /\ SubscriptionOf(r)' = FilterIn(receivers', r)
  BY DEF SubscriptionOf, FilterIn

LEMMA RemovedEntries ==
  ASSUME NEW S, NEW s \in Seq(S), NEW i \in 1..Len(s)
  PROVE  /\ DOMAIN RemoveAt(s, i) = 1..(Len(s) - 1)
         /\ \A j \in 1..(i - 1) : RemoveAt(s, i)[j] = s[j]
         /\ \A j \in i..(Len(s) - 1) : RemoveAt(s, i)[j] = s[j + 1]
<1> DEFINE before == SubSeq(s, 1, i - 1)
           after == SubSeq(s, i + 1, Len(s))
<1>1. /\ before \in Seq(S) /\ Len(before) = i - 1
      /\ \A j \in 1..(i - 1) : before[j] = s[j]
  BY SubSeqProperties
<1>2. /\ after \in Seq(S) /\ Len(after) = Len(s) - i
      /\ \A j \in 1..(Len(s) - i) : after[j] = s[i + j]
  BY SubSeqProperties
<1>3. RemoveAt(s, i) = before \o after
  BY DEF RemoveAt
<1> HIDE DEF before, after
<1>4. /\ Len(before \o after) = Len(s) - 1
      /\ \A j \in 1..(i - 1) : (before \o after)[j] = before[j]
      /\ \A j \in i..(Len(s) - 1) : (before \o after)[j] = after[j - (i - 1)]
  <2>1. Len(before \o after) = Len(before) + Len(after)
    BY <1>1, <1>2, ConcatProperties
  <2>2. \A j \in 1..(Len(before) + Len(after)) :
          (before \o after)[j] = IF j <= Len(before) THEN before[j]
                                                    ELSE after[j - Len(before)]
    BY <1>1, <1>2, ConcatProperties
  <2> QED BY <1>1, <1>2, <2>1, <2>2
<1>5. DOMAIN (before \o after) = 1..Len(before \o after)
  BY <1>1, <1>2, ConcatProperties, LenProperties
<1>6. \A j \in i..(Len(s) - 1) :
        j - (i - 1) \in 1..(Len(s) - i) /\ i + (j - (i - 1)) = j + 1
  OBVIOUS
<1>7. DOMAIN RemoveAt(s, i) = 1..(Len(s) - 1)
  BY ONLY <1>3, <1>4, <1>5, Zenon
<1>8. \A j \in 1..(i - 1) : RemoveAt(s, i)[j] = s[j]
  BY ONLY <1>1, <1>3, <1>4, Zenon
<1>9. \A j \in i..(Len(s) - 1) : RemoveAt(s, i)[j] = s[j + 1]
  <2> SUFFICES ASSUME NEW j \in i..(Len(s) - 1)
               PROVE  RemoveAt(s, i)[j] = s[j + 1]
    BY Zenon
  <2>1. RemoveAt(s, i)[j] = after[j - (i - 1)]
    BY ONLY <1>3, <1>4, j \in i..(Len(s) - 1), Zenon
  <2>2. after[j - (i - 1)] = s[i + (j - (i - 1))]
    BY ONLY <1>2, <1>6, j \in i..(Len(s) - 1), Zenon
  <2>3. i + (j - (i - 1)) = j + 1
    BY ONLY <1>6, j \in i..(Len(s) - 1), Zenon
  <2> QED BY ONLY <2>1, <2>2, <2>3, Zenon
<1>10. QED BY <1>7, <1>8, <1>9

(***************************************************************************)
(* No target is in the list twice, since none is subscribed twice.         *)
(***************************************************************************)
LEMMA InitTargets == Init => TargetsInv
  BY DEF Init, TargetsInv, TargetsOnce, Idle

LEMMA NextTargets ==
  ASSUME TypeOK, TargetsInv, [Next]_vars
  PROVE  TargetsInv'
<1> DEFINE Calm == /\ UNCHANGED <<receivers, opened>>
                   /\ \/ UNCHANGED call \/ call'.op # "bind_subscription"
                      \/ /\ call.op = "bind_subscription"
                         /\ call'.receiver = call.receiver
<1>1. CASE Calm
  BY <1>1 DEF TargetsInv, TargetsOnce
<1>2. CASE SymbolKnown \/ RegisterSymbol
  <2>1. call' = Idle \/ call' = [call EXCEPT !.todo = Tail(@)]
    BY <1>2 DEF SymbolKnown, RegisterSymbol
  <2>2. /\ UNCHANGED <<receivers, opened>>
        /\ \/ call'.op # "bind_subscription"
           \/ call.op = "bind_subscription" /\ call'.receiver = call.receiver
    <3>1. UNCHANGED <<receivers, opened>>
      BY <1>2 DEF SymbolKnown, RegisterSymbol, endpointVars
    <3>2. CASE call' = Idle
      BY <3>1, <3>2 DEF Idle
    <3>3. CASE call' = [call EXCEPT !.todo = Tail(@)]
      BY <3>1, <3>3 DEF TypeOK, Calls
    <3>4. QED BY <2>1, <3>2, <3>3
  <2>3. QED BY <1>1, <2>2
<1>3. ASSUME NEW r \in Receivers, NEW filter \in Filters, BindSubscription(r, filter)
      PROVE  TargetsInv'
  BY <1>3 DEF BindSubscription, TargetsInv, TargetsOnce, endpointVars
<1>4. CASE AddReceiver
  <2> DEFINE entry == [filter |-> call.filter, target |-> call.receiver]
  <2>1. /\ receivers \in Seq(Entries) /\ entry \in Entries
        /\ receivers' = Append(receivers, entry)
        /\ opened' = opened \cup {call.receiver} /\ call.receiver \notin opened
        /\ call' = Idle
    BY <1>4 DEF AddReceiver, TypeOK, Calls, Entries, TargetsInv
  <2>2. /\ DOMAIN receivers = 1..Len(receivers) /\ Len(receivers) \in Nat
        /\ DOMAIN receivers' = 1..(Len(receivers) + 1)
        /\ \A i \in 1..Len(receivers) : receivers'[i] = receivers[i]
        /\ receivers'[Len(receivers) + 1].target = call.receiver
    BY <2>1, LenProperties, AppendProperties
  <2>3. \A i \in DOMAIN receivers : receivers[i].target # call.receiver
    BY <2>1 DEF TargetsInv
  <2>4. TargetsOnce(receivers)'
    BY <2>2, <2>3 DEF TargetsInv, TargetsOnce
  <2>5. \A i \in DOMAIN receivers' : receivers'[i].target \in opened'
    BY <2>1, <2>2 DEF TargetsInv
  <2>6. QED BY <2>1, <2>4, <2>5 DEF TargetsInv, Idle
<1>5. ASSUME NEW r \in Receivers, RemoveReceiver(r)
      PROVE  TargetsInv'
  <2>1. PICK i \in DOMAIN receivers : receivers' = RemoveAt(receivers, i)
    BY <1>5 DEF RemoveReceiver
  <2>2. receivers \in Seq(Entries) /\ i \in 1..Len(receivers) /\ Len(receivers) \in Nat
    BY LenProperties DEF TypeOK, Entries
  <2>3. /\ DOMAIN receivers' = 1..(Len(receivers) - 1)
        /\ \A j \in 1..(i - 1) : receivers'[j] = receivers[j]
        /\ \A j \in i..(Len(receivers) - 1) : receivers'[j] = receivers[j + 1]
    BY <2>1, <2>2, RemovedEntries
  <2>4. \A j \in DOMAIN receivers' :
          \/ j < i /\ receivers'[j] = receivers[j] /\ j \in DOMAIN receivers
          \/ j >= i /\ receivers'[j] = receivers[j + 1] /\ j + 1 \in DOMAIN receivers
    BY <2>2, <2>3
  <2>5. TargetsOnce(receivers)'
    BY <2>2, <2>3, <2>4 DEF TargetsInv, TargetsOnce
  <2>6. call' = call /\ opened' = opened
    BY <1>5 DEF RemoveReceiver
  <2>7. QED BY <2>4, <2>5, <2>6 DEF TargetsInv
<1>6. CaptureStep => Calm
  <2>1. ActivationWrite => call'.op = "activate"
    BY DEF ActivationWrite, TypeOK, Calls
  <2>2. QED BY <2>1 DEF CaptureStep, BeginActivation, ActivationWrite,
                        ActivationFails, CompleteActivation, endpointVars, Idle
<1>7. /\ \A symbol \in Registrable : Register(symbol) => Calm
      /\ CompleteRegister => Calm
      /\ \A config \in EmitterConfigs : BindEmitter(config) => Calm
      /\ CompleteBindEmitter => Calm
  BY DEF Register, CompleteRegister, BindEmitter, CompleteBindEmitter,
         endpointVars, Idle
<1>8. EmitStep => Calm
  <2>1. ASSUME NEW config, NEW msgType, NEW format, NEW operation, NEW size,
               Emit(config, msgType, format, operation, size)
        PROVE  UNCHANGED <<receivers, opened>> /\ call'.op = "emit"
    BY <2>1 DEF Emit, endpointVars
  <2>2. Deliver => UNCHANGED <<receivers, opened>> /\ call'.op = "idle"
    BY DEF Deliver, endpointVars, Idle
  <2>3. SerializationFails => UNCHANGED <<receivers, opened>> /\ call'.op = "idle"
    BY DEF SerializationFails, endpointVars, Idle
  <2>4. \A r : Receive(r) => UNCHANGED <<receivers, opened, call>>
    BY DEF Receive, endpointVars
  <2>5. QED BY <2>1, <2>2, <2>3, <2>4 DEF EmitStep
<1>9. UNCHANGED vars => Calm
  BY DEF vars
<1>10. QED
  BY <1>1, <1>2, <1>3, <1>4, <1>5, <1>6, <1>7, <1>8, <1>9 DEF Next, BindStep

(***************************************************************************)
(* A message goes to the targets whose filter it matches.                  *)
(***************************************************************************)
LEMMA FilterInType ==
  ASSUME NEW list \in Seq(Entries), TargetsOnce(list), NEW r
  PROVE  \/ /\ FilterIn(list, r) \in Filters
            /\ \E i \in DOMAIN list : list[i].target = r
         \/ FilterIn(list, r) = NoFilter /\ \A i \in DOMAIN list : list[i].target # r
<1>1. \A i \in DOMAIN list : list[i] \in Entries
  BY ElementsOf
<1>2. \A i \in DOMAIN list : list[i].filter \in Filters
  BY <1>1 DEF Entries
<1>3. QED BY <1>2, FilterInEntry, FilterInNone

LEMMA MatchingIsReceiving ==
  ASSUME TypeOK, TargetsInv, NEW m, NEW r \in Receivers
  PROVE  r \in MatchingReceivers(m) <=>
           /\ SubscriptionOf(r) # NoFilter
           /\ Matches(SubscriptionOf(r), m)
<1>1. receivers \in Seq(Entries) /\ TargetsOnce(receivers)
  BY DEF TypeOK, Entries, TargetsInv
<1>2. r \in MatchingReceivers(m) <=>
        \E i \in DOMAIN receivers :
          receivers[i].target = r /\ Matches(receivers[i].filter, m)
  BY DEF MatchingReceivers, RangeOf
<1>3. NoFilter \notin Filters
  BY ConstantsAssumption
<1>4. \A i \in DOMAIN receivers :
        receivers[i].target = r => FilterIn(receivers, r) = receivers[i].filter
  BY <1>1, FilterInEntry
<1>5. QED BY <1>1, <1>2, <1>3, <1>4, FilterInType, SubscriptionIsFilterIn

------------------------------------------------------------------------------
(* Each step is a step of the bus or leaves the bus as it is. *)

LEMMA InitBus == Init => Bus!Init
<1>1. ASSUME Init, NEW r \in Receivers PROVE SubscriptionOf(r) = NoFilter
  BY <1>1 DEF Init, SubscriptionOf
<1>2. QED BY <1>1 DEF Init, Bus!Init, Log

LEMMA SubscriptionsStay ==
  ASSUME receivers' = receivers
  PROVE  [r \in Receivers |-> SubscriptionOf(r)]' = [r \in Receivers |-> SubscriptionOf(r)]
  BY DEF SubscriptionOf

LEMMA RecordStep ==
  ASSUME TypeOK, BindingInv, CaptureInv, LateSink, CaptureStep \/ RegisterSymbol
  PROVE  [Bus!Record]_(Bus!vars)
<1>1. UNCHANGED <<receivers, latest, inbox>>
  BY DEF CaptureStep, BeginActivation, ActivationWrite, ActivationFails,
         CompleteActivation, RegisterSymbol, endpointVars
<1>2. [r \in Receivers |-> SubscriptionOf(r)]' = [r \in Receivers |-> SubscriptionOf(r)]
  BY <1>1, SubscriptionsStay
<1>3. (captureState # "disabled")' = (captureState # "disabled")
  <2>1. CaptureStep => captureState' # "disabled" /\ captureState # "disabled"
    BY DEF CaptureStep, BeginActivation, ActivationWrite, ActivationFails,
           CompleteActivation, CaptureInv, CaptureShape
  <2>2. RegisterSymbol => UNCHANGED captureState
    BY DEF RegisterSymbol, WriteRegistration, WriteRaises, WriteRecord, captureVars
  <2>3. QED BY <2>1, <2>2
<1>4. [Next]_vars
  BY DEF Next, BindStep
<1>5. Log \in Seq(AnyRecord)
  BY LogGrows, <1>4
<1>6. CASE Log' = Log
  BY <1>1, <1>2, <1>3, <1>6 DEF Bus!vars
<1>7. CASE Log' # Log
  <2>1. captureState # "disabled"
    BY <1>7 DEF CaptureStep, BeginActivation, ActivationWrite, ActivationFails,
           CompleteActivation, CaptureInv, CaptureShape, RegisterSymbol,
           WriteRegistration, WriteRaises, WriteRecord, captureVars, Log
  <2>2. ASSUME NEW rec \in Registrations, Log' = Append(Log, rec)
        PROVE  /\ Len(Log') >= Len(Log)
               /\ \A i \in 1..Len(Log) : Log'[i] = Log[i]
               /\ \A i \in (Len(Log) + 1)..Len(Log') : Log'[i] \in Registrations
    <3>1. rec \in AnyRecord
      BY DEF AnyRecord
    <3>2. /\ Len(Log) \in Nat /\ Len(Log') = Len(Log) + 1
          /\ \A i \in 1..Len(Log) : Log'[i] = Log[i]
          /\ Log'[Len(Log) + 1] = rec
      BY <1>5, <2>2, <3>1, LenProperties, AppendProperties
    <3>3. QED BY <3>2
  <2>3. ASSUME Log' \in Seq(Registrations), Log = <<>>
        PROVE  /\ Len(Log') >= Len(Log)
               /\ \A i \in 1..Len(Log) : Log'[i] = Log[i]
               /\ \A i \in (Len(Log) + 1)..Len(Log') : Log'[i] \in Registrations
    <3>1. Len(Log) = 0 /\ Len(Log') \in Nat /\ DOMAIN Log' = 1..Len(Log')
      BY <2>3, LenProperties
    <3>2. \A i \in DOMAIN Log' : Log'[i] \in Registrations
      BY <2>3, ElementsOf
    <3>3. QED BY <3>1, <3>2
  <2>4. ~Deliver
    BY DEF CaptureStep, BeginActivation, ActivationWrite, ActivationFails,
           CompleteActivation, RegisterSymbol, Deliver, Idle
  <2>5. \/ \E rec \in Registrations : Log' = Append(Log, rec)
        \/ Log' \in Seq(Registrations) /\ Log = <<>>
    BY <1>4, <1>7, <2>4, LogSteps
  <2>6. /\ Len(Log') >= Len(Log)
        /\ \A i \in 1..Len(Log) : Log'[i] = Log[i]
        /\ \A i \in (Len(Log) + 1)..Len(Log') : Log'[i] \in Registrations
    BY <2>2, <2>3, <2>5
  <2>7. QED BY <1>1, <1>2, <1>3, <2>1, <2>6 DEF Bus!Record
<1>8. QED BY <1>6, <1>7

LEMMA PublishStep ==
  ASSUME TypeOK, BindingInv, CaptureInv, TargetsInv, Deliver
  PROVE  [Bus!Publish]_(Bus!vars)
<1> PICK m : m = BuiltMessage
  OBVIOUS
<1>1. m \in Messages
  BY BuiltCounted
<1>2. UNCHANGED receivers /\ UNCHANGED captureState
  BY DEF Deliver, endpointVars, WriteMessage, WriteMessageRaises, WriteRaises,
         WriteRecord, captureVars
<1>3. [r \in Receivers |-> SubscriptionOf(r)]' = [r \in Receivers |-> SubscriptionOf(r)]
  BY <1>2, SubscriptionsStay
<1>4. CASE /\ WriteMessage(m)
           /\ inbox' = [r \in Receivers |->
                          IF r \in MatchingReceivers(m)
                          THEN Append(inbox[r], m) ELSE inbox[r]]
           /\ latest' = m
  <2>1. Log' = IF captureState # "disabled" THEN Append(Log, m) ELSE Log
    BY <1>4 DEF WriteMessage, WriteRecord, captureVars, Log
  <2>2. inbox' = [r \in Receivers |->
                    IF /\ SubscriptionOf(r) # NoFilter
                       /\ Matches(SubscriptionOf(r), m)
                    THEN Append(inbox[r], m) ELSE inbox[r]]
    BY <1>4, MatchingIsReceiving
  <2>3. QED
    BY <1>1, <1>2, <1>3, <1>4, <2>1, <2>2 DEF Bus!Publish, Bus!Receives
<1>5. CASE /\ UNCHANGED <<inbox, latest>>
           /\ UNCHANGED captureVars \/ WriteMessageRaises(m)
  BY <1>2, <1>3, <1>5
  DEF Bus!vars, WriteMessageRaises, WriteRaises, captureVars, Log
<1>6. QED BY <1>4, <1>5 DEF Deliver

LEMMA TakeStep ==
  ASSUME TypeOK, NEW r \in Receivers, Receive(r)
  PROVE  Bus!Take(r)
<1>1. UNCHANGED <<receivers, captureState, buffer, captured, latest>>
  BY DEF Receive, endpointVars, captureVars
<1>2. QED BY <1>1, SubscriptionsStay DEF Receive, Bus!Take, Log

LEMMA SubscribeStep ==
  ASSUME TypeOK, TargetsInv, AddReceiver
  PROVE  \E r \in Receivers, f \in Filters : Bus!Subscribe(r, f)
<1>1. PICK r \in Receivers, f \in Filters :
        /\ r = call.receiver /\ f = call.filter
        /\ r \notin opened
        /\ receivers' = Append(receivers, [filter |-> f, target |-> r])
  BY DEF AddReceiver, TypeOK, Calls, TargetsInv
<1>2. UNCHANGED <<captureState, buffer, captured, latest, inbox>>
  BY DEF AddReceiver, captureVars
<1>3. receivers \in Seq(Entries) /\ [filter |-> f, target |-> r] \in Entries
  BY DEF TypeOK, Entries
<1>4. /\ DOMAIN receivers = 1..Len(receivers) /\ Len(receivers) \in Nat
      /\ DOMAIN receivers' = 1..(Len(receivers) + 1)
      /\ \A i \in 1..Len(receivers) : receivers'[i] = receivers[i]
      /\ receivers'[Len(receivers) + 1] = [filter |-> f, target |-> r]
  BY <1>1, <1>3, LenProperties, AppendProperties
<1>5. \A i \in DOMAIN receivers : receivers[i].target # r
  BY <1>1 DEF TargetsInv
<1>6. TargetsOnce(receivers) /\ TargetsOnce(receivers')
  BY <1>4, <1>5 DEF TargetsInv, TargetsOnce
<1>7. SubscriptionOf(r) = NoFilter
  BY <1>5, FilterInNone, SubscriptionIsFilterIn
<1>8. SubscriptionOf(r)' = f
  <2>1. Len(receivers) + 1 \in DOMAIN receivers'
    BY <1>4
  <2>2. QED BY <1>4, <1>6, <2>1, FilterInEntry, SubscriptionIsFilterIn
<1>9. ASSUME NEW q \in Receivers, q # r
      PROVE  SubscriptionOf(q)' = SubscriptionOf(q)
  <2>1. CASE \E i \in DOMAIN receivers : receivers[i].target = q
    <3>1. PICK i \in DOMAIN receivers : receivers[i].target = q
      BY <2>1
    <3>2. i \in DOMAIN receivers' /\ receivers'[i] = receivers[i]
      BY <1>4
    <3>3. QED BY <1>6, <3>1, <3>2, FilterInEntry, SubscriptionIsFilterIn
  <2>2. CASE \A i \in DOMAIN receivers : receivers[i].target # q
    <3>1. \A i \in DOMAIN receivers' : receivers'[i].target # q
      BY <1>4, <1>9, <2>2
    <3>2. QED BY <2>2, <3>1, FilterInNone, SubscriptionIsFilterIn
  <2>3. QED BY <2>1, <2>2
<1>10. [q \in Receivers |-> SubscriptionOf(q)]'
         = [[q \in Receivers |-> SubscriptionOf(q)] EXCEPT ![r] = f]
  BY <1>8, <1>9
<1>11. Bus!Subscribe(r, f)
  BY <1>2, <1>7, <1>10 DEF Bus!Subscribe, Log
<1>12. QED BY <1>11

LEMMA UnsubscribeStep ==
  ASSUME TypeOK, TargetsInv, TargetsInv', NEW r \in Receivers, RemoveReceiver(r)
  PROVE  Bus!Unsubscribe(r)
<1>1. PICK i \in DOMAIN receivers : /\ receivers[i].target = r
                                    /\ receivers' = RemoveAt(receivers, i)
  BY DEF RemoveReceiver
<1>2. UNCHANGED <<captureState, buffer, captured, latest, inbox>>
  BY DEF RemoveReceiver, captureVars
<1>3. receivers \in Seq(Entries) /\ i \in 1..Len(receivers) /\ Len(receivers) \in Nat
  BY LenProperties DEF TypeOK, Entries
<1>4. /\ DOMAIN receivers' = 1..(Len(receivers) - 1)
      /\ DOMAIN receivers = 1..Len(receivers)
      /\ \A j \in 1..(i - 1) : receivers'[j] = receivers[j]
      /\ \A j \in i..(Len(receivers) - 1) : receivers'[j] = receivers[j + 1]
  BY <1>1, <1>3, RemovedEntries, LenProperties
<1>5. TargetsOnce(receivers) /\ TargetsOnce(receivers')
  BY DEF TargetsInv, TargetsOnce
<1>6. SubscriptionOf(r) # NoFilter
  <2>1. receivers[i] \in Entries
    BY <1>3, <1>4, ElementsOf
  <2>2. receivers[i].filter \in Filters
    BY <2>1 DEF Entries
  <2>3. SubscriptionOf(r) = receivers[i].filter
    BY <1>1, <1>5, FilterInEntry, SubscriptionIsFilterIn
  <2>4. QED BY <2>2, <2>3, ConstantsAssumption
<1>7. \A j \in DOMAIN receivers' : \E k \in DOMAIN receivers :
        k # i /\ receivers'[j] = receivers[k]
  <2> SUFFICES ASSUME NEW j \in DOMAIN receivers'
               PROVE  \E k \in DOMAIN receivers : k # i /\ receivers'[j] = receivers[k]
    OBVIOUS
  <2>1. CASE j < i
    BY <1>3, <1>4, <2>1
  <2>2. CASE j >= i
    <3>1. /\ j + 1 \in DOMAIN receivers /\ j + 1 # i
          /\ receivers'[j] = receivers[j + 1]
      BY <1>3, <1>4, <2>2
    <3>2. QED BY <3>1
  <2>3. QED BY <1>3, <1>4, <2>1, <2>2
<1>8. SubscriptionOf(r)' = NoFilter
  <2>1. \A j \in DOMAIN receivers' : receivers'[j].target # r
    BY <1>1, <1>5, <1>7 DEF TargetsOnce
  <2>2. QED BY <2>1, FilterInNone, SubscriptionIsFilterIn
<1>9. ASSUME NEW q \in Receivers, q # r
      PROVE  SubscriptionOf(q)' = SubscriptionOf(q)
  <2>1. CASE \E k \in DOMAIN receivers : receivers[k].target = q
    <3>1. PICK k \in DOMAIN receivers : receivers[k].target = q
      BY <2>1
    <3>2. k # i
      BY <1>1, <1>9, <3>1
    <3>3. PICK j \in DOMAIN receivers' : receivers'[j] = receivers[k]
      <4>1. CASE k < i
        BY <1>3, <1>4, <4>1
      <4>2. CASE k > i
        <5>1. k - 1 \in i..(Len(receivers) - 1) /\ (k - 1) + 1 = k
          BY <1>3, <1>4, <4>2
        <5>2. k - 1 \in DOMAIN receivers'
          BY <1>3, <1>4, <5>1
        <5>3. QED BY <1>4, <5>1, <5>2
      <4>3. QED BY <1>3, <1>4, <3>2, <4>1, <4>2
    <3>4. QED BY <1>5, <3>1, <3>3, FilterInEntry, SubscriptionIsFilterIn
  <2>2. CASE \A k \in DOMAIN receivers : receivers[k].target # q
    <3>1. \A j \in DOMAIN receivers' : receivers'[j].target # q
      BY <1>7, <2>2
    <3>2. QED BY <2>2, <3>1, FilterInNone, SubscriptionIsFilterIn
  <2>3. QED BY <2>1, <2>2
<1>10. [q \in Receivers |-> SubscriptionOf(q)]'
         = [[q \in Receivers |-> SubscriptionOf(q)] EXCEPT ![r] = NoFilter]
  BY <1>8, <1>9
<1>11. QED BY <1>2, <1>6, <1>10 DEF Bus!Unsubscribe, Log

LEMMA NextBus ==
  ASSUME TypeOK, BindingInv, CaptureInv, OrderInv, TargetsInv, TargetsInv',
         [Next]_vars
  PROVE  [Bus!Next]_(Bus!vars)
<1>1. CASE CaptureStep \/ RegisterSymbol
  BY <1>1, RecordStep DEF OrderInv, Bus!Next
<1>2. CASE Deliver
  BY <1>2, PublishStep DEF Bus!Next
<1>3. ASSUME NEW r \in Receivers, Receive(r) PROVE Bus!Next
  BY <1>3, TakeStep DEF Bus!Next
<1>4. CASE AddReceiver
  BY <1>4, SubscribeStep DEF Bus!Next
<1>5. ASSUME NEW r \in Receivers, RemoveReceiver(r) PROVE Bus!Next
  BY <1>5, UnsubscribeStep DEF Bus!Next
<1>6. CASE UNCHANGED <<captureState, buffer, captured, receivers, inbox, latest>>
  BY <1>6, SubscriptionsStay DEF Bus!vars, Log
<1>7. /\ SymbolKnown => UNCHANGED <<captureVars, endpointVars, inbox, latest>>
      /\ \A symbol : Register(symbol) =>
           UNCHANGED <<captureVars, endpointVars, inbox, latest>>
      /\ CompleteRegister => UNCHANGED <<captureVars, endpointVars, inbox, latest>>
      /\ \A config : BindEmitter(config) =>
           UNCHANGED <<captureVars, endpointVars, inbox, latest>>
      /\ CompleteBindEmitter => UNCHANGED <<captureVars, receivers, inbox, latest>>
      /\ \A r, filter : BindSubscription(r, filter) =>
           UNCHANGED <<captureVars, endpointVars, inbox, latest>>
      /\ \A config, msgType, format, operation, size :
           Emit(config, msgType, format, operation, size) =>
             UNCHANGED <<captureVars, endpointVars, inbox, latest>>
      /\ SerializationFails => UNCHANGED <<captureVars, endpointVars, inbox, latest>>
  BY DEF SymbolKnown, Register, CompleteRegister, BindEmitter,
         CompleteBindEmitter, BindSubscription, Emit, SerializationFails
<1>8. UNCHANGED vars =>
        UNCHANGED <<captureState, buffer, captured, receivers, inbox, latest>>
  BY DEF vars
<1>9. QED
  BY <1>1, <1>2, <1>3, <1>4, <1>5, <1>6, <1>7, <1>8
  DEF Next, BindStep, EmitStep, captureVars, endpointVars

(***************************************************************************)
(* DirectBrokerCore implements CapturedBus: messages are recorded and      *)
(* delivered as if in one step, to exactly the subscriptions that match,   *)
(* and nothing else changes the record but registrations at its end        *)
(* (DirectBrokerCore._deliver, CaptureController, activate_capture_sink).  *)
(***************************************************************************)
THEOREM ImplementsBus == Spec => ImplementsCapturedBus
<1>1. TypeOK /\ TargetsInv /\ [Next]_vars => TargetsInv'
  BY NextTargets
<1>2. TypeOK /\ BindingInv /\ CaptureInv /\ OrderInv /\ TargetsInv
        /\ TargetsInv' /\ [Next]_vars => [Bus!Next]_(Bus!vars)
  BY NextBus
<1>3. TypeOK /\ BindingInv /\ CaptureInv /\ OrderInv /\ [Next]_vars => OrderInv'
  BY NextOrder
<1>4. QED BY <1>1, <1>2, <1>3, InitTargets, InitOrder, InitBus, CaptureInvariant, PTL
          DEF Spec, ImplementsCapturedBus, Bus!Spec

==============================================================================
