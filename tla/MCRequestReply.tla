---------------------------- MODULE MCRequestReply ----------------------------
(* Two callers and one worker, one caller and two workers, or one of each, *)
(* with limits that one request, or the second one, reaches.               *)
EXTENDS RequestReply, TLC

Teams(callers, workers) ==
  {a \in SUBSET (Callers \cup Workers) :
     /\ Cardinality(a \cap Callers) = callers
     /\ Cardinality(a \cap Workers) = workers}

MCPrograms ==
  [actors : Teams(2, 1), maxPending : {1}, maxReady : {1}, maxRetired : {1}]
    \cup
  [actors : Teams(1, 2), maxPending : {1}, maxReady : {1}, maxRetired : {0}]
    \cup
  [actors : Teams(1, 1), maxPending : {2}, maxReady : {0, 1}, maxRetired : {1}]

ActorSymmetry == Permutations(Callers) \cup Permutations(Workers)

=============================================================================
