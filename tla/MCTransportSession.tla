-------------------------- MODULE MCTransportSession --------------------------
(* TLC's instance of TransportSession. *)
EXTENDS TransportSession, TLC

CONSTANTS p1, p2

(* Both answer requests, and the first publishes as well. *)
RespondersAndPublisher == (p1 :> {"publish", "reply"}) @@ (p2 :> {"reply"})

(* A request and two replies to it with one subscription; with two of them *)
(* a message has more ways to go, and two messages are enough.             *)
ThreeWithOneSubscription == (0 :> 1) @@ (1 :> 3) @@ (2 :> 2)
==============================================================================
