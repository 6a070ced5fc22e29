---------------------------- MODULE MCBrokerRaces ----------------------------
(* Two sessions; the threads, topics and targets are interchangeable. *)
EXTENDS BrokerRaces, TLC

Symmetry == Permutations(Threads) \cup Permutations(TopicNames)
              \cup Permutations(Receivers)
==============================================================================
