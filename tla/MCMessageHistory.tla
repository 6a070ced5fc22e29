-------------------------- MODULE MCMessageHistory --------------------------
(* TLC's instance of MessageHistory. *)
EXTENDS MessageHistory

(* The writers number up to two messages in the first run.  After the      *)
(* restart they only register topics, which may contradict the first run's *)
(* IDs, while the client and the service number theirs.                    *)
TwoThenNone == [run \in 0..1 |-> IF run = 0 THEN 2 ELSE 0]
==============================================================================
