---- MODULE MCEndpoints ----
(* Plans for TLC: who makes which helpers over which kind of connection. *)
EXTENDS Endpoints

CONSTANTS threaded, tasked, local, ch, json, invocation, composite, custom,
          request, reply, note

MCInstalled == {json, invocation, composite}
MCLifecycle == <<request, note>>
MCEncodes ==
  (json :> {"plain", "selection"}) @@ (invocation :> {"invocation"})
    @@ (composite :> {"plain", "selection", "page"})
    @@ (custom :> {"plain", "invocation"})

Lists(type, list) == [Unlisted EXCEPT ![type] = list]

Plan(localKind, byThreaded, byTasked, byLocal, installs) ==
  [kind |-> (threaded :> "transport") @@ (tasked :> "asyncTransport")
              @@ (local :> localKind),
   makes |-> (threaded :> byThreaded) @@ (tasked :> byTasked)
               @@ (local :> byLocal),
   installs |-> installs]

(* An emitter of the program's own, at a place a helper uses. *)
Own(side, type, additional, format, unlisted) ==
  PlainEmitter(ch, side, [type |-> type, additional |-> additional,
                          format |-> format, listed |-> Unlisted,
                          unlisted |-> unlisted])

MCPlans ==
  { \* clients that list another format first, or a service that does
    Plan("direct",
         {ProcedureClient(ch, Unlisted),
          ProcedureClient(ch, Lists(request, <<json>>))},
         {ProcedureService(ch, Lists(reply, <<custom>>))},
         {RequestClient(ch, Lists(request, <<custom>>))}, {custom}),
    \* requests of another kind in the batch of a service
    Plan("immediate",
         {ProcedureService(ch, Unlisted)},
         {ProcedureClient(ch, Unlisted), RequestClient(ch, Unlisted)},
         {LifecyclePublisher(ch)}, {}),
    \* a history client of the bus, and emitters that share its places
    Plan("asyncDirect",
         {HistoryService(ch, Lists(reply, <<json>>)),
          Own("reply", note, {reply}, json, FALSE)},
         {LifecyclePublisher(ch), Own("events", note, {}, json, TRUE)},
         {HistoryClient(ch, Lists(request, <<composite>>))}, {}),
    \* a client whose format the broker may not have
    Plan("direct",
         {RequestClient(ch, Lists(request, <<custom>>)),
          Own("request", note, {request}, json, TRUE)},
         {RequestService(ch, Unlisted)},
         {ProcedureService(ch, Unlisted)}, {custom}) }
====
