------------------------- MODULE MCDirectBrokerCore -------------------------
(* A small bus: a lifecycle topic and an ordinary topic with a subtopic.   *)
EXTENDS DirectBrokerCore

CONSTANTS r1, r2, p1, json, raw

Lifecycle == <<"lifecycle">>
A == <<"a">>
AB == <<"a", "b">>

MCTopics == {Lifecycle, A, AB}
MCProducers == {p1}
MCMsgTypes == {"started", "data"}
MCFormats == {json, raw}
MCReceivers == {r1, r2}

LifecycleEmitter ==
  [topic |-> Lifecycle, producer |-> p1, types |-> <<"started">>,
   formats |-> <<json>>, supported |-> {<<"started", json>>}, open |-> FALSE]

(* Allows unlisted types and formats: it may register while it emits. *)
OpenEmitter ==
  [topic |-> AB, producer |-> p1, types |-> <<"data">>,
   formats |-> <<json>>, supported |-> {<<"data", json>>}, open |-> TRUE]

CaptureEmitters == {LifecycleEmitter, OpenEmitter}

(* Lifecycle messages, and those of that type from under the other topic. *)
StartedHere ==
  [topics |-> <<[topic |-> Lifecycle, tree |-> FALSE],
                [topic |-> A, tree |-> TRUE]>>,
   producers |-> <<p1>>, types |-> <<"started">>]

CaptureFilters == {StartedHere}
JsonFormat == {Symbol("format", json)}
MCLifecycleTopics == {Lifecycle}
MCLifecycleTypes == {"started"}
==============================================================================
