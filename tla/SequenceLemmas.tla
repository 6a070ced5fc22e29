---------------------------- MODULE SequenceLemmas ----------------------------
(***************************************************************************)
(* What the proofs about the components need to know of sequences: which   *)
(* elements the sequences have that the queues, lists and records of the   *)
(* broker become when a step appends to them or takes from them.           *)
(***************************************************************************)
EXTENDS SequencesExt, Integers, SequenceTheorems, FiniteSetTheorems, TLAPS

LEMMA HeadAndTail ==
  ASSUME NEW S, NEW s \in Seq(S), s # <<>>
  PROVE  /\ Len(s) \in Nat \ {0} /\ DOMAIN s = 1..Len(s)
         /\ Head(s) = s[1] /\ Head(s) \in S
         /\ Tail(s) \in Seq(S) /\ Len(Tail(s)) = Len(s) - 1
         /\ DOMAIN Tail(s) = 1..(Len(s) - 1)
         /\ \A i \in 1..(Len(s) - 1) : Tail(s)[i] = s[i + 1]
  OBVIOUS

LEMMA Appended ==
  ASSUME NEW S, NEW s \in Seq(S), NEW e \in S
  PROVE  /\ Len(s) \in Nat /\ DOMAIN s = 1..Len(s)
         /\ Append(s, e) \in Seq(S) /\ DOMAIN Append(s, e) = 1..(Len(s) + 1)
         /\ Len(Append(s, e)) = Len(s) + 1
         /\ \A i \in 1..Len(s) : Append(s, e)[i] = s[i] /\ s[i] \in S
         /\ Append(s, e)[Len(s) + 1] = e
  OBVIOUS

LEMMA RangeOfAppended ==
  ASSUME NEW S, NEW s \in Seq(S), NEW e \in S
  PROVE  Range(Append(s, e)) = Range(s) \cup {e}
<1> DEFINE st == Append(s, e)
<1>1. /\ DOMAIN s = 1..Len(s) /\ Len(s) \in Nat
      /\ DOMAIN st = 1..(Len(s) + 1)
      /\ \A i \in 1..Len(s) : st[i] = s[i]
      /\ st[Len(s) + 1] = e
  BY Appended
<1> HIDE DEF st
<1>2. ASSUME NEW i \in DOMAIN st
      PROVE  st[i] \in Range(s) \cup {e}
  BY <1>1 DEF Range
<1>3. ASSUME NEW i \in DOMAIN s
      PROVE  s[i] \in Range(st)
  <2>1. i \in DOMAIN st /\ st[i] = s[i]
    BY <1>1
  <2> QED BY <2>1 DEF Range
<1>4. e \in Range(st)
  <2>1. Len(s) + 1 \in DOMAIN st
    BY <1>1
  <2> QED BY <1>1, <2>1 DEF Range
<1> QED BY <1>2, <1>3, <1>4 DEF Range, st

LEMMA RangeOfEmpty == Range(<<>>) = {}
  BY DEF Range

LEMMA RangeType ==
  ASSUME NEW S, NEW s \in Seq(S)
  PROVE  Range(s) \subseteq S
  BY DEF Range

LEMMA RangeOfHeadAndTail ==
  ASSUME NEW S, NEW s \in Seq(S), s # <<>>
  PROVE  Range(s) = {Head(s)} \cup Range(Tail(s))
<1> DEFINE st == Tail(s)
<1>1. /\ Len(s) \in Nat \ {0} /\ DOMAIN s = 1..Len(s) /\ Head(s) = s[1]
      /\ DOMAIN st = 1..(Len(s) - 1)
      /\ \A i \in 1..(Len(s) - 1) : st[i] = s[i + 1]
  BY HeadAndTail
<1> HIDE DEF st
<1>2. ASSUME NEW i \in DOMAIN s, i # 1
      PROVE  s[i] \in Range(st)
  <2>1. i - 1 \in DOMAIN st /\ st[i - 1] = s[i]
    BY <1>1, <1>2
  <2> QED BY <2>1 DEF Range
<1>3. ASSUME NEW i \in DOMAIN st
      PROVE  st[i] \in Range(s)
  <2>1. i + 1 \in DOMAIN s /\ st[i] = s[i + 1]
    BY <1>1
  <2> QED BY <2>1 DEF Range
<1>4. 1 \in DOMAIN s
  BY <1>1
<1> QED BY <1>1, <1>2, <1>3, <1>4 DEF Range, st

(* A list with one of its places removed. *)
LEMMA Removed ==
  ASSUME NEW S, NEW s \in Seq(S), NEW i \in 1..Len(s)
  PROVE  /\ RemoveAt(s, i) \in Seq(S)
         /\ Len(RemoveAt(s, i)) = Len(s) - 1
         /\ DOMAIN RemoveAt(s, i) = 1..(Len(s) - 1)
         /\ \A j \in 1..(i - 1) : RemoveAt(s, i)[j] = s[j]
         /\ \A j \in i..(Len(s) - 1) : RemoveAt(s, i)[j] = s[j + 1]
<1> DEFINE before == SubSeq(s, 1, i - 1)
           after == SubSeq(s, i + 1, Len(s))
<1>1. /\ before \in Seq(S) /\ Len(before) = i - 1
      /\ \A j \in 1..(i - 1) : before[j] = s[j]
  BY SubSeqProperties
<1>2. /\ after \in Seq(S) /\ Len(after) = Len(s) - i
      /\ \A j \in 1..(Len(s) - i) : after[j] = s[i + j]
  BY SubSeqProperties
<1>3. RemoveAt(s, i) = before \o after
  BY DEF RemoveAt
<1> HIDE DEF before, after
<1>4. /\ before \o after \in Seq(S)
      /\ Len(before \o after) = Len(s) - 1
      /\ \A j \in 1..(i - 1) : (before \o after)[j] = before[j]
      /\ \A j \in i..(Len(s) - 1) : (before \o after)[j] = after[j - (i - 1)]
  <2>1. /\ before \o after \in Seq(S)
        /\ Len(before \o after) = Len(before) + Len(after)
        /\ \A j \in 1..(Len(before) + Len(after)) :
             (before \o after)[j] = IF j <= Len(before) THEN before[j]
                                   ELSE after[j - Len(before)]
    BY <1>1, <1>2, ConcatProperties
  <2>2. Len(s) \in Nat
    BY LenProperties
  <2> QED BY <1>1, <1>2, <2>1, <2>2
<1>5. DOMAIN (before \o after) = 1..Len(before \o after)
  BY <1>4
<1>6. \A j \in i..(Len(s) - 1) :
        j - (i - 1) \in 1..(Len(s) - i) /\ i + (j - (i - 1)) = j + 1
  OBVIOUS
<1> QED BY <1>1, <1>2, <1>3, <1>4, <1>5, <1>6

(* Lists without repetition. *)
LEMMA InjectiveAppended ==
  ASSUME NEW S, NEW s \in Seq(S), NEW e \in S, IsInjective(s), e \notin Range(s)
  PROVE  IsInjective(Append(s, e))
<1> DEFINE st == Append(s, e)
<1>1. /\ DOMAIN s = 1..Len(s) /\ Len(s) \in Nat
      /\ DOMAIN st = 1..(Len(s) + 1)
      /\ \A i \in 1..Len(s) : st[i] = s[i] /\ s[i] \in Range(s)
      /\ st[Len(s) + 1] = e
  BY Appended DEF Range
<1> HIDE DEF st
<1> SUFFICES ASSUME NEW i \in DOMAIN st, NEW j \in DOMAIN st, st[i] = st[j]
             PROVE  i = j
  BY DEF IsInjective, st
<1>2. CASE i \in 1..Len(s) /\ j \in 1..Len(s)
  BY <1>1, <1>2 DEF IsInjective
<1>3. CASE ~(i \in 1..Len(s) /\ j \in 1..Len(s))
  BY <1>1, <1>3
<1> QED BY <1>2, <1>3

LEMMA InjectiveTail ==
  ASSUME NEW S, NEW s \in Seq(S), s # <<>>, IsInjective(s)
  PROVE  IsInjective(Tail(s)) /\ Head(s) \notin Range(Tail(s))
<1> DEFINE st == Tail(s)
<1>1. /\ Len(s) \in Nat \ {0} /\ DOMAIN s = 1..Len(s) /\ Head(s) = s[1]
      /\ DOMAIN st = 1..(Len(s) - 1)
      /\ \A i \in 1..(Len(s) - 1) : st[i] = s[i + 1]
  BY HeadAndTail
<1> HIDE DEF st
<1>2. ASSUME NEW i \in DOMAIN st, NEW j \in DOMAIN st, st[i] = st[j]
      PROVE  i = j
  <2>1. /\ i + 1 \in DOMAIN s /\ j + 1 \in DOMAIN s
        /\ s[i + 1] = s[j + 1]
    BY <1>1, <1>2
  <2>2. i + 1 = j + 1
    BY <2>1 DEF IsInjective
  <2> QED BY <1>1, <2>2
<1>3. ASSUME NEW i \in DOMAIN st
      PROVE  st[i] # s[1]
  <2>1. i + 1 \in DOMAIN s /\ 1 \in DOMAIN s /\ i + 1 # 1 /\ st[i] = s[i + 1]
    BY <1>1
  <2> QED BY <2>1 DEF IsInjective
<1> QED BY <1>1, <1>2, <1>3 DEF IsInjective, Range, st

LEMMA InjectiveRemoved ==
  ASSUME NEW S, NEW s \in Seq(S), NEW k \in 1..Len(s), IsInjective(s)
  PROVE  /\ IsInjective(RemoveAt(s, k))
         /\ Range(RemoveAt(s, k)) \subseteq Range(s)
<1> DEFINE st == RemoveAt(s, k)
           old(i) == IF i < k THEN i ELSE i + 1
<1>1. Len(s) \in Nat /\ DOMAIN s = 1..Len(s) /\ DOMAIN st = 1..(Len(s) - 1)
  BY Removed, LenProperties
<1>2. \A i \in DOMAIN st : st[i] = s[old(i)]
  <2>1. /\ \A j \in 1..(k - 1) : st[j] = s[j]
        /\ \A j \in k..(Len(s) - 1) : st[j] = s[j + 1]
    BY Removed
  <2>2. ASSUME NEW i \in 1..(Len(s) - 1)
        PROVE  \/ i < k /\ i \in 1..(k - 1)
               \/ ~(i < k) /\ i \in k..(Len(s) - 1)
    BY <1>1
  <2> HIDE DEF st
  <2> QED BY <1>1, <2>1, <2>2
<1>3. \A i \in DOMAIN st : old(i) \in DOMAIN s
  BY <1>1
<1> HIDE DEF st
<1>4. ASSUME NEW i \in DOMAIN st, NEW j \in DOMAIN st, st[i] = st[j]
      PROVE  i = j
  <2>1. old(i) = old(j)
    BY <1>2, <1>3, <1>4 DEF IsInjective
  <2> QED BY <1>1, <2>1
<1> HIDE DEF old
<1> QED BY <1>2, <1>3, <1>4 DEF IsInjective, Range, st

------------------------------------------------------------------------------
(* What a walk by index over a list has still before it. *)

Ahead(list, index) == {list[i] : i \in {i \in DOMAIN list : i >= index}}

LEMMA AheadOfAll ==
  ASSUME NEW S, NEW list \in Seq(S)
  PROVE  Ahead(list, 1) = Range(list)
  BY DEF Ahead, Range

LEMMA AheadOfNone ==
  ASSUME NEW S, NEW list \in Seq(S), NEW i \in Nat \ {0}, i > Len(list)
  PROVE  Ahead(list, i) = {}
  BY DEF Ahead

LEMMA AheadOfNext ==
  ASSUME NEW S, NEW list \in Seq(S), NEW i \in 1..Len(list), IsInjective(list)
  PROVE  /\ Ahead(list, i) = {list[i]} \cup Ahead(list, i + 1)
         /\ list[i] \notin Ahead(list, i + 1)
<1>1. Len(list) \in Nat /\ DOMAIN list = 1..Len(list)
  BY LenProperties
<1>2. ASSUME NEW j \in DOMAIN list, j >= i
      PROVE  j = i \/ j >= i + 1
  BY <1>1, <1>2
<1>3. ASSUME NEW j \in DOMAIN list, j >= i + 1
      PROVE  j >= i /\ list[j] # list[i]
  BY <1>1, <1>3 DEF IsInjective
<1> QED BY <1>1, <1>2, <1>3 DEF Ahead

LEMMA AheadOfAppended ==
  ASSUME NEW S, NEW list \in Seq(S), NEW e \in S, NEW i \in Nat
  PROVE  /\ Ahead(list, i) \subseteq Ahead(Append(list, e), i)
         /\ Ahead(Append(list, e), i) \subseteq Ahead(list, i) \cup {e}
<1> DEFINE longer == Append(list, e)
<1>1. /\ Len(list) \in Nat /\ DOMAIN list = 1..Len(list)
      /\ DOMAIN longer = 1..(Len(list) + 1)
      /\ \A j \in 1..Len(list) : longer[j] = list[j]
      /\ longer[Len(list) + 1] = e
  BY Appended
<1> HIDE DEF longer
<1>2. ASSUME NEW j \in DOMAIN list PROVE j \in DOMAIN longer /\ longer[j] = list[j]
  BY <1>1
<1>3. ASSUME NEW j \in DOMAIN longer, longer[j] # e
      PROVE  j \in DOMAIN list /\ longer[j] = list[j]
  BY <1>1, <1>3
<1> QED BY <1>2, <1>3 DEF Ahead, longer

LEMMA AheadOfRemoved ==
  ASSUME NEW S, NEW list \in Seq(S), NEW k \in 1..Len(list), NEW i \in Nat
  PROVE  Ahead(RemoveAt(list, k), i) \subseteq Ahead(list, i)
<1> DEFINE shorter == RemoveAt(list, k)
<1>1. /\ Len(list) \in Nat /\ DOMAIN list = 1..Len(list)
      /\ DOMAIN shorter = 1..(Len(list) - 1)
      /\ \A j \in 1..(k - 1) : shorter[j] = list[j]
      /\ \A j \in k..(Len(list) - 1) : shorter[j] = list[j + 1]
  BY Removed, LenProperties
<1> HIDE DEF shorter
<1>2. ASSUME NEW j \in DOMAIN shorter, j >= i
      PROVE  \E o \in DOMAIN list : o >= i /\ shorter[j] = list[o]
  <2>1. CASE j < k
    <3>1. j \in DOMAIN list /\ shorter[j] = list[j]
      BY <1>1, <2>1
    <3> QED BY <1>2, <3>1
  <2>2. CASE ~(j < k)
    <3>1. j + 1 \in DOMAIN list /\ shorter[j] = list[j + 1] /\ j + 1 >= i
      BY <1>1, <1>2, <2>2
    <3> QED BY <3>1
  <2> QED BY <2>1, <2>2
<1> QED BY <1>2 DEF Ahead, shorter

------------------------------------------------------------------------------
(* A queue from which the oldest elements are taken. *)

LEMMA Split ==
  ASSUME NEW S, NEW s \in Seq(S), NEW k \in 1..Len(s)
  PROVE  /\ SubSeq(s, 1, k) \in Seq(S) /\ SubSeq(s, k + 1, Len(s)) \in Seq(S)
         /\ Range(s) = Range(SubSeq(s, 1, k)) \cup Range(SubSeq(s, k + 1, Len(s)))
<1> DEFINE first == SubSeq(s, 1, k)
           rest == SubSeq(s, k + 1, Len(s))
<1>1. Len(s) \in Nat /\ DOMAIN s = 1..Len(s)
  BY LenProperties
<1>2. /\ first \in Seq(S) /\ Len(first) = k /\ DOMAIN first = 1..k
      /\ \A j \in 1..k : first[j] = s[j]
  BY SubSeqProperties
<1>3. /\ rest \in Seq(S) /\ Len(rest) = Len(s) - k
      /\ \A j \in 1..(Len(s) - k) : rest[j] = s[k + j]
  BY SubSeqProperties
<1> HIDE DEF first, rest
<1>4. DOMAIN rest = 1..(Len(s) - k)
  BY <1>3, LenProperties
<1>5. ASSUME NEW i \in DOMAIN s
      PROVE  s[i] \in Range(first) \cup Range(rest)
  <2>1. CASE i <= k
    <3>1. i \in DOMAIN first /\ first[i] = s[i]
      BY <1>1, <1>2, <2>1
    <3> QED BY <3>1 DEF Range
  <2>2. CASE ~(i <= k)
    <3>1. i - k \in DOMAIN rest /\ rest[i - k] = s[i]
      BY <1>1, <1>3, <1>4, <2>2
    <3> QED BY <3>1 DEF Range
  <2> QED BY <2>1, <2>2
<1>6. ASSUME NEW i \in DOMAIN first PROVE first[i] \in Range(s)
  <2>1. i \in DOMAIN s /\ first[i] = s[i]
    BY <1>1, <1>2
  <2> QED BY <2>1 DEF Range
<1>7. ASSUME NEW i \in DOMAIN rest PROVE rest[i] \in Range(s)
  <2>1. k + i \in DOMAIN s /\ rest[i] = s[k + i]
    BY <1>1, <1>3, <1>4
  <2> QED BY <2>1 DEF Range
<1> QED BY <1>2, <1>3, <1>5, <1>6, <1>7 DEF Range, first, rest

(* Two queues one after the other, when an element is added or moves on *)
LEMMA TwoQueues ==
  ASSUME NEW S, NEW r \in Seq(S), NEW h \in Seq(S), NEW m \in S
  PROVE  /\ r \o Append(h, m) = Append(r \o h, m)
         /\ h = <<>> => Append(r, m) \o h = Append(r \o h, m)
         /\ h # <<>> => Append(r, Head(h)) \o Tail(h) = r \o h
<1>1. Append(h, m) = h \o <<m>> /\ Append(r, m) = r \o <<m>>
      /\ Append(r \o h, m) = (r \o h) \o <<m>> /\ <<m>> \in Seq(S) /\ r \o h \in Seq(S)
  BY AppendIsConcat, ConcatProperties
<1>2. r \o (h \o <<m>>) = (r \o h) \o <<m>>
  BY <1>1, ConcatAssociative
<1>3. ASSUME h = <<>>
      PROVE  Append(r, m) \o h = Append(r \o h, m)
  <2>1. r \o h = r /\ Append(r, m) \o h = Append(r, m)
    BY <1>1, <1>3, ConcatEmptySeq, ConcatProperties
  <2> QED BY <2>1
<1>4. ASSUME h # <<>>
      PROVE  Append(r, Head(h)) \o Tail(h) = r \o h
  <2>1. Head(h) \in S /\ Tail(h) \in Seq(S) /\ <<Head(h)>> \in Seq(S)
    BY <1>4, HeadAndTail
  <2>2. Append(r, Head(h)) = r \o <<Head(h)>>
    BY <2>1, AppendIsConcat
  <2>3. (r \o <<Head(h)>>) \o Tail(h) = r \o (<<Head(h)>> \o Tail(h))
    BY <2>1, ConcatAssociative
  <2>4. <<Head(h)>> \o Tail(h) = h
    BY <1>4, <2>1
  <2> QED BY <2>2, <2>3, <2>4
<1> QED BY <1>1, <1>2, <1>3, <1>4

------------------------------------------------------------------------------
(***************************************************************************)
(* Places in a list, and which one of them each is: how many of them there *)
(* are up to it.                                                           *)
(***************************************************************************)
UpTo(places, i) == {j \in places : j <= i}

LEMMA PlacesUpTo ==
  ASSUME NEW n \in Nat, NEW S \in SUBSET (1..n), NEW i \in Nat
  PROVE  /\ IsFiniteSet(S) /\ Cardinality(S) \in Nat
         /\ IsFiniteSet(UpTo(S, i)) /\ Cardinality(UpTo(S, i)) \in Nat
         /\ Cardinality(UpTo(S, i)) <= Cardinality(S)
         /\ i >= n => Cardinality(UpTo(S, i)) = Cardinality(S)
         /\ i \in S => Cardinality(UpTo(S, i)) >= 1
<1> USE DEF UpTo
<1> DEFINE upTo == UpTo(S, i)
<1>1. IsFiniteSet(S) /\ Cardinality(S) \in Nat
  <2>1. IsFiniteSet(1..n)
    BY 1 \in Int, n \in Int, FS_Interval
  <2> QED BY <2>1, FS_Subset, FS_CardinalityType
<1>2. upTo \in SUBSET S
  OBVIOUS
<1>3. IsFiniteSet(upTo) /\ Cardinality(upTo) \in Nat /\ Cardinality(upTo) <= Cardinality(S)
  BY <1>1, <1>2, FS_Subset, FS_CardinalityType
<1>4. i >= n => upTo = S
  <2>1. \A j \in S : j \in 1..n
    OBVIOUS
  <2>2. ASSUME i >= n, NEW j \in S
        PROVE  j <= i
    BY <2>1, <2>2
  <2>3. i >= n => S \subseteq upTo
    BY <2>2
  <2> QED BY <1>2, <2>3
<1>5. i \in S => upTo # {}
  OBVIOUS
<1>6. i \in S => Cardinality(upTo) >= 1
  BY <1>3, <1>5, FS_EmptySet
<1> HIDE DEF upTo
<1>7. i >= n => Cardinality(upTo) = Cardinality(S)
  BY <1>4
<1> QED
  BY <1>1, <1>3, <1>6, <1>7 DEF upTo

LEMMA OneMorePlace ==
  ASSUME NEW n \in Nat, NEW S \in SUBSET (1..n)
  PROVE  /\ Cardinality(S \cup {n + 1}) = Cardinality(S) + 1
         /\ \A i \in 1..n : UpTo(S \cup {n + 1}, i) = UpTo(S, i)
         /\ UpTo(S \cup {n + 1}, n + 1) = S \cup {n + 1}
<1> USE DEF UpTo
<1>1. n + 1 \notin S /\ \A j \in S : j <= n + 1
  <2>1. \A j \in S : j \in 1..n
    OBVIOUS
  <2> QED BY <2>1
<1>2. IsFiniteSet(S)
  BY PlacesUpTo
<1>3. Cardinality(S \cup {n + 1}) = Cardinality(S) + 1
  BY <1>2, <1>1, FS_AddElement
<1>4. ASSUME NEW i \in 1..n
      PROVE  UpTo(S \cup {n + 1}, i) = UpTo(S, i)
  OBVIOUS
<1>5. \A j \in S \cup {n + 1} : j <= n + 1
  BY <1>1
<1> QED
  BY <1>3, <1>4, <1>5

(* The places in a list without its head *)
OfTail(n, places) == {j \in 1..(n - 1) : j + 1 \in places}

LEMMA PlacesOfTail ==
  ASSUME NEW n \in Nat \ {0}, NEW S \in SUBSET (1..n), NEW i \in Nat
  PROVE  /\ Cardinality(UpTo(OfTail(n, S), i))
              = Cardinality(UpTo(S, i + 1)) - (IF 1 \in S THEN 1 ELSE 0)
         /\ Cardinality(OfTail(n, S)) = Cardinality(S) - (IF 1 \in S THEN 1 ELSE 0)
<1> USE DEF UpTo, OfTail
<1> DEFINE T == OfTail(n, S)
           one == IF 1 \in S THEN 1 ELSE 0
           U(k) == UpTo(T, k)
           V(k) == UpTo(S, k + 1)
<1>1. ASSUME NEW k \in Nat
      PROVE  Cardinality(U(k)) = Cardinality(V(k)) - one
  <2> DEFINE W == V(k) \ {1}
             f == [j \in W |-> j - 1]
  <2>1. IsFiniteSet(V(k)) /\ Cardinality(V(k)) \in Nat
    BY PlacesUpTo, k + 1 \in Nat
  <2>2. IsFiniteSet(W) /\ Cardinality(W) = Cardinality(V(k)) - one
    <3>1. 1 \in V(k) <=> 1 \in S
      OBVIOUS
    <3> HIDE DEF V
    <3> QED BY <2>1, <3>1, FS_RemoveElement
  <2>3. f \in Bijection(W, U(k))
    <3>1. \A j \in W : j - 1 \in U(k) /\ f[j] = j - 1
      OBVIOUS
    <3>2. \A m \in U(k) : m + 1 \in W /\ f[m + 1] = m
      OBVIOUS
    <3>3. \A a, b \in W : f[a] = f[b] => a = b
      OBVIOUS
    <3>4. f \in [W -> U(k)]
      BY <3>1
    <3>5. \A m \in U(k) : \E j \in W : f[j] = m
      BY <3>2
    <3> HIDE DEF f, W, U
    <3> QED BY <3>3, <3>4, <3>5 DEF Bijection, Injection, Surjection, IsInjective
  <2>4. ExistsBijection(W, U(k))
    BY <2>3 DEF ExistsBijection
  <2> HIDE DEF W, U, V
  <2> QED BY <2>2, <2>4, FS_Bijection
<1>2. T = U(n) /\ S = V(n)
  <2>1. \A j \in S : j \in 1..n
    OBVIOUS
  <2>2. \A j \in S : j <= n + 1
    BY <2>1
  <2>3. T = U(n)
    <3>1. \A j \in T : j <= n
      OBVIOUS
    <3> QED BY <3>1
  <2>4. S \subseteq V(n) /\ V(n) \subseteq S
    BY <2>2
  <2> HIDE DEF T, U, V
  <2> QED BY <2>3, <2>4
<1>3. Cardinality(T) = Cardinality(S) - one
  <2>1. Cardinality(U(n)) = Cardinality(V(n)) - one
    BY <1>1
  <2> HIDE DEF T, U, V
  <2> QED BY <1>2, <2>1
<1> QED
  BY <1>1, <1>3

LEMMA FirstPlace ==
  ASSUME NEW n \in Nat, NEW S \in SUBSET (1..n), 1 \in S
  PROVE  Cardinality(UpTo(S, 1)) = 1
<1> USE DEF UpTo
<1> DEFINE U == UpTo(S, 1)
<1>1. ASSUME NEW j \in S
      PROVE  j \in Nat /\ j >= 1
  OBVIOUS
<1>2. 1 \in U /\ \A j \in U : j = 1
  BY <1>1
<1>3. U = {1}
  <2> HIDE DEF U
  <2> QED BY <1>2
<1>4. Cardinality(U) = 1
  <2> HIDE DEF U
  <2> QED BY <1>3, FS_Singleton
<1> QED BY <1>4

------------------------------------------------------------------------------
(* The least and the greatest of some numbers *)

LEMMA LeastOf ==
  ASSUME NEW S \in SUBSET Nat, S # {}
  PROVE  \E x \in S : \A y \in S : x <= y
<1>1. PICK x \in S : \A y \in S : ~ (<<y, x>> \in OpToRel(<, Nat))
  BY NatLessThanWellFounded, WFMin
<1>2. ASSUME NEW y \in S
      PROVE  x <= y
  <2>1. ~ (y < x)
    <3>1. <<y, x>> \in Nat \X Nat /\ <<y, x>>[1] = y /\ <<y, x>>[2] = x
      OBVIOUS
    <3>2. y < x => <<y, x>> \in OpToRel(<, Nat)
      BY <3>1, Zenon DEF OpToRel
    <3> QED BY <1>1, <3>2
  <2> QED BY <2>1
<1> QED BY <1>2

LEMMA GreatestOf ==
  ASSUME NEW n \in Nat, NEW S \in SUBSET (1..n), S # {}
  PROVE  \E x \in S : \A y \in S : y <= x
<1> DEFINE T == {m \in Nat : n - m \in S}
<1>1. \A y \in S : n - y \in Nat /\ n - (n - y) = y
  OBVIOUS
<1>2. T \in SUBSET Nat /\ T # {} /\ \A y \in S : n - y \in T
  BY <1>1
<1>3. \A m \in T : m \in Nat /\ n - m \in S
  OBVIOUS
<1> HIDE DEF T
<1>4. PICK m \in T : \A k \in T : m <= k
  BY <1>2, LeastOf
<1>5. ASSUME NEW y \in S
      PROVE  y <= n - m
  <2>1. m <= n - y /\ m \in Nat /\ y \in Nat
    BY <1>2, <1>3, <1>4
  <2> QED BY <2>1
<1> QED BY <1>3, <1>5

------------------------------------------------------------------------------
(* Sequences joined, and cut. *)

LEMMA Joined ==
  ASSUME NEW S, NEW s \in Seq(S), NEW t \in Seq(S)
  PROVE  /\ s \o t \in Seq(S) /\ Len(s) \in Nat /\ Len(t) \in Nat
         /\ Len(s \o t) = Len(s) + Len(t)
         /\ \A i \in 1..Len(s) : (s \o t)[i] = s[i]
         /\ \A i \in 1..Len(t) : (s \o t)[Len(s) + i] = t[i]
OBVIOUS

LEMMA SameSequence ==
  ASSUME NEW S, NEW s \in Seq(S), NEW t \in Seq(S), Len(s) = Len(t),
         \A i \in 1..Len(s) : s[i] = t[i]
  PROVE  s = t
OBVIOUS

LEMMA JoinedThrice ==
  ASSUME NEW S, NEW a \in Seq(S), NEW b \in Seq(S), NEW c \in Seq(S)
  PROVE  (a \o b) \o c = a \o (b \o c)
<1> DEFINE l == (a \o b) \o c
           r == a \o (b \o c)
<1>1. /\ a \o b \in Seq(S) /\ Len(a \o b) = Len(a) + Len(b)
      /\ Len(a) \in Nat /\ Len(b) \in Nat /\ Len(c) \in Nat
      /\ \A i \in 1..Len(a) : (a \o b)[i] = a[i]
      /\ \A i \in 1..Len(b) : (a \o b)[Len(a) + i] = b[i]
  BY Joined
<1>2. /\ b \o c \in Seq(S) /\ Len(b \o c) = Len(b) + Len(c)
      /\ \A i \in 1..Len(b) : (b \o c)[i] = b[i]
      /\ \A i \in 1..Len(c) : (b \o c)[Len(b) + i] = c[i]
  BY Joined
<1> DEFINE ab == a \o b
           bc == b \o c
<1> HIDE DEF ab, bc
<1>3. /\ ab \o c \in Seq(S) /\ Len(ab \o c) = Len(ab) + Len(c)
      /\ \A i \in 1..Len(ab) : (ab \o c)[i] = ab[i]
      /\ \A i \in 1..Len(c) : (ab \o c)[Len(ab) + i] = c[i]
  BY <1>1, Joined DEF ab
<1>4. /\ a \o bc \in Seq(S) /\ Len(a \o bc) = Len(a) + Len(bc)
      /\ \A i \in 1..Len(a) : (a \o bc)[i] = a[i]
      /\ \A i \in 1..Len(bc) : (a \o bc)[Len(a) + i] = bc[i]
  BY <1>2, Joined DEF bc
<1>5. l = ab \o c /\ r = a \o bc
  BY DEF ab, bc
<1>6. /\ Len(ab) = Len(a) + Len(b) /\ Len(bc) = Len(b) + Len(c)
      /\ \A i \in 1..Len(a) : ab[i] = a[i]
      /\ \A i \in 1..Len(b) : ab[Len(a) + i] = b[i]
      /\ \A i \in 1..Len(b) : bc[i] = b[i]
      /\ \A i \in 1..Len(c) : bc[Len(b) + i] = c[i]
  BY <1>1, <1>2 DEF ab, bc
<1> HIDE DEF l, r
<1>7. l \in Seq(S) /\ r \in Seq(S) /\ Len(l) = Len(r) /\ Len(l) = Len(a) + Len(b) + Len(c)
  BY <1>1, <1>3, <1>4, <1>5, <1>6
<1>8. ASSUME NEW i \in 1..Len(l) PROVE l[i] = r[i]
  <2>1. CASE i <= Len(a)
    <3>1. i \in 1..Len(a) /\ i \in 1..Len(ab)
      BY <1>1, <1>6, <1>7, <2>1
    <3> QED BY <1>3, <1>4, <1>5, <1>6, <3>1
  <2>2. CASE Len(a) < i /\ i <= Len(a) + Len(b)
    <3>1. PICK j \in 1..Len(b) : i = Len(a) + j
      <4>1. i - Len(a) \in 1..Len(b) /\ i = Len(a) + (i - Len(a))
        BY <1>1, <1>7, <2>2
      <4> QED BY <4>1
    <3>2. j \in 1..Len(bc) /\ i \in 1..Len(ab)
      BY <1>1, <1>6, <1>7, <2>2, <3>1
    <3> QED BY <1>3, <1>4, <1>5, <1>6, <3>1, <3>2
  <2>3. CASE Len(a) + Len(b) < i
    <3>1. PICK j \in 1..Len(c) : i = Len(ab) + j /\ i = Len(a) + (Len(b) + j)
      <4> DEFINE j == i - (Len(a) + Len(b))
      <4>1. j \in 1..Len(c) /\ i = Len(ab) + j /\ i = Len(a) + (Len(b) + j)
        BY <1>1, <1>6, <1>7, <2>3
      <4> QED BY <4>1
    <3>2. Len(b) + j \in 1..Len(bc)
      BY <1>1, <1>6, <3>1
    <3>3. l[i] = c[j]
      BY <1>3, <1>5, <3>1
    <3>4. r[i] = c[j]
      BY <1>4, <1>5, <1>6, <3>1, <3>2
    <3> QED BY <3>3, <3>4
  <2> QED BY <1>1, <1>7, <2>1, <2>2, <2>3
<1>9. l = r
  BY <1>7, <1>8, SameSequence
<1> QED BY <1>9 DEF l, r

LEMMA JoinedToNone ==
  ASSUME NEW S, NEW s \in Seq(S)
  PROVE  s \o <<>> = s /\ <<>> \o s = s
OBVIOUS

LEMMA CutInTwo ==
  ASSUME NEW S, NEW s \in Seq(S), NEW k \in 0..Len(s)
  PROVE  /\ SubSeq(s, 1, k) \in Seq(S) /\ Len(SubSeq(s, 1, k)) = k
         /\ SubSeq(s, k + 1, Len(s)) \in Seq(S)
         /\ Len(SubSeq(s, k + 1, Len(s))) = Len(s) - k
         /\ s = SubSeq(s, 1, k) \o SubSeq(s, k + 1, Len(s))
<1> DEFINE a == SubSeq(s, 1, k)
           b == SubSeq(s, k + 1, Len(s))
<1>1. Len(s) \in Nat
  OBVIOUS
<1>2. /\ a \in Seq(S) /\ Len(a) = k /\ \A i \in 1..k : a[i] = s[i]
  BY <1>1
<1>3. /\ b \in Seq(S) /\ Len(b) = Len(s) - k
      /\ \A i \in 1..(Len(s) - k) : b[i] = s[k + i]
  BY <1>1
<1> HIDE DEF a, b
<1>4. /\ a \o b \in Seq(S) /\ Len(a \o b) = Len(s)
      /\ \A i \in 1..k : (a \o b)[i] = a[i]
      /\ \A i \in 1..(Len(s) - k) : (a \o b)[k + i] = b[i]
  BY <1>1, <1>2, <1>3, Joined
<1>5. ASSUME NEW i \in 1..Len(s) PROVE s[i] = (a \o b)[i]
  <2>1. CASE i <= k
    BY <1>2, <1>4, <2>1
  <2>2. CASE i > k
    <3>1. i - k \in 1..(Len(s) - k) /\ i = k + (i - k)
      BY <1>1, <2>2
    <3> QED BY <1>3, <1>4, <3>1
  <2>3. i <= k \/ i > k
    BY <1>1
  <2> QED BY <2>1, <2>2, <2>3, Zenon
<1>6. s = a \o b
  BY <1>4, <1>5, SameSequence
<1> QED BY <1>2, <1>3, <1>6 DEF a, b

LEMMA CutOfOne ==
  ASSUME NEW p
  PROVE  SubSeq(<<p>>, 1, 1) = <<p>> /\ SubSeq(<<p>>, 2, 1) = <<>>
<1> DEFINE s == <<p>>
           a == SubSeq(s, 1, 1)
           b == SubSeq(s, 2, 1)
<1>1. s \in Seq({p}) /\ Len(s) = 1
  OBVIOUS
<1> HIDE DEF s
<1>2. a \in Seq({p}) /\ b \in Seq({p}) /\ Len(b) = 0 /\ s = a \o b
  <2>1. 1 \in 0..Len(s) /\ 1 + 1 = 2 /\ Len(s) - 1 = 0
    BY <1>1
  <2>2. /\ SubSeq(s, 1, 1) \in Seq({p}) /\ SubSeq(s, 1 + 1, Len(s)) \in Seq({p})
        /\ Len(SubSeq(s, 1 + 1, Len(s))) = Len(s) - 1
        /\ s = SubSeq(s, 1, 1) \o SubSeq(s, 1 + 1, Len(s))
    BY <1>1, <2>1, CutInTwo
  <2> QED BY <1>1, <2>1, <2>2
<1> HIDE DEF a, b
<1>3. b = <<>>
  BY <1>2
<1>4. s = a
  BY <1>2, <1>3, JoinedToNone
<1> QED BY <1>3, <1>4 DEF a, b, s

(* What follows a sequence that another starts with *)
LEMMA JoinedRest ==
  ASSUME NEW S, NEW a \in Seq(S), NEW b \in Seq(S), NEW w \in Seq(S), NEW t \in Seq(S),
         Len(w) <= Len(a)
  PROVE  a \o b = w \o t => SubSeq(a, Len(w) + 1, Len(a)) \o b = t
<1> DEFINE k == Len(w)
           c == SubSeq(a, k + 1, Len(a))
           z == a \o b
<1>1. Len(a) \in Nat /\ Len(b) \in Nat /\ k \in Nat /\ Len(t) \in Nat
  OBVIOUS
<1>2. /\ c \in Seq(S) /\ Len(c) = Len(a) - k
      /\ \A i \in 1..(Len(a) - k) : c[i] = a[k + i]
  BY <1>1
<1>3. /\ Len(z) = Len(a) + Len(b)
      /\ \A i \in 1..Len(a) : z[i] = a[i]
      /\ \A i \in 1..Len(b) : z[Len(a) + i] = b[i]
  BY Joined
<1>4. /\ Len(w \o t) = k + Len(t)
      /\ \A i \in 1..Len(t) : (w \o t)[k + i] = t[i]
  BY Joined
<1> SUFFICES ASSUME z = w \o t
             PROVE  c \o b = t
  OBVIOUS
<1>5. /\ Len(z) = k + Len(t)
      /\ \A i \in 1..Len(t) : z[k + i] = t[i]
  BY <1>4
<1>6. k <= Len(a)
  OBVIOUS
<1> HIDE DEF k, c, z
<1>7. /\ c \o b \in Seq(S) /\ Len(c \o b) = Len(c) + Len(b)
      /\ \A i \in 1..Len(c) : (c \o b)[i] = c[i]
      /\ \A i \in 1..Len(b) : (c \o b)[Len(c) + i] = b[i]
  <2>1. c \in Seq(S)
    BY <1>2
  <2> QED BY <2>1, Joined
<1>8. Len(c \o b) = Len(t) /\ Len(c) = Len(a) - k /\ Len(c) \in Nat
  <2>1. Len(c) = Len(a) - k /\ Len(a) + Len(b) = k + Len(t)
    BY <1>2, <1>3, <1>5
  <2>2. Len(c \o b) = Len(c) + Len(b) /\ k \in Nat
    BY <1>1, <1>7
  <2> QED BY <1>1, <1>6, <2>1, <2>2
<1>9. ASSUME NEW i \in 1..Len(t) PROVE (c \o b)[i] = t[i]
  <2>1. CASE i <= Len(c)
    <3>1. i \in 1..Len(c) /\ i \in 1..(Len(a) - k) /\ k + i \in 1..Len(a)
      BY <1>1, <1>2, <1>6, <2>1
    <3> QED BY <1>2, <1>3, <1>5, <1>7, <3>1
  <2>2. CASE i > Len(c)
    <3>1. PICK j \in 1..Len(b) : i = Len(c) + j /\ k + i = Len(a) + j
      <4> DEFINE j == i - Len(c)
      <4>1. j \in 1..Len(b) /\ i = Len(c) + j /\ k + i = Len(a) + j
        BY <1>1, <1>2, <1>6, <1>7, <1>8, <2>2
      <4> QED BY <4>1
    <3>2. z[k + i] = b[j] /\ z[k + i] = t[i] /\ (c \o b)[i] = b[j]
      BY <1>3, <1>5, <1>7, <3>1
    <3> QED BY <3>2
  <2> QED BY <1>1, <1>8, <2>1, <2>2
<1>10. c \o b = t
  BY <1>7, <1>8, <1>9, SameSequence
<1> QED BY <1>10

==============================================================================
