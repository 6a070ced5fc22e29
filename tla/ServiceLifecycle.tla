--------------------------- MODULE ServiceLifecycle ---------------------------
(***************************************************************************)
(* A broker as a service: service/service.py with its host, and            *)
(* service/asyncservice.py, over service/socketlistener.py.                *)
(*                                                                         *)
(* One thread or task runs serve_forever: it accepts connections, starts a *)
(* session runner for each, and closes the service when its loop ends.     *)
(* Others ask it to stop, close the service or its host while it accepts,  *)
(* or have closed it before it began. A session is one entity here         *)
(* (SessionLifecycle has its threads): it runs until its connection is     *)
(* closed at one end, or it fails. The bus behind it is left out.          *)
(***************************************************************************)
EXTENDS Naturals, Sequences, FiniteSets, SequencesExt

CONSTANTS Server,       \* what runs serve_forever
          Owners,       \* what starts, stops and closes
          Connections,  \* clients that connect
          MaxCalls      \* bound on the owners' calls

ASSUME ConstantsAssumption ==
  /\ Server \notin Owners /\ MaxCalls \in Nat

Actors == Owners \cup {Server}

VARIABLES
  style,           \* "threads" or "tasks"
  path,            \* what the socket path names
  hostStarted, hostClosed,
  stopRequested,   \* MessageBusService._stop_requested
  started, closed,
  listenerClosed,  \* LocalBusServiceListener._closed
  listening,       \* whether its socket is open
  backlog,         \* the connections the socket holds for accept
  runners,         \* _session_runners
  session,         \* what has become of each client's session
  stopped,         \* the runners whose _stop_requested is set
  open,            \* the connections that neither end has closed
  pc,
  call,            \* for an actor, which call it is in
  first,           \* for request_stop, whether it is the first
  index,           \* for a walk through the runners, the place in the list
  holding,         \* the connection accept has returned
  raised,          \* who has raised, and why
  overtaken,       \* history: another has closed the service under the server
  calls            \* counter for the bound

hostVars == <<hostStarted, hostClosed>>
socketVars == <<path, listenerClosed, listening>>
sessionVars == <<session, stopped, open>>
callVars == <<call, first, index>>

vars == <<style, hostVars, socketVars, stopRequested, started, closed,
          backlog, runners, sessionVars, pc, callVars, holding, raised,
          overtaken, calls>>

None == "none"

Init ==
  /\ style \in {"threads", "tasks"}
  /\ path \in {"free", "taken", "replaceable"}
  /\ hostStarted = FALSE /\ hostClosed = FALSE
  /\ stopRequested = FALSE /\ started = FALSE /\ closed = FALSE
  /\ listenerClosed = FALSE /\ listening = FALSE
  /\ backlog = <<>> /\ runners = <<>>
  /\ session = [c \in Connections |-> "away"]
  /\ stopped = {} /\ open = {}
  /\ pc = [a \in Actors |-> IF a = Server THEN "absent" ELSE "idle"]
  /\ call = [a \in Actors |-> "none"]
  /\ first = [a \in Actors |-> FALSE]
  /\ index = [a \in Actors |-> 1]
  /\ holding = None
  /\ raised = {} /\ overtaken = FALSE
  /\ calls = 0

Goto(a, label) == pc' = [pc EXCEPT ![a] = label]

------------------------------------------------------------------------------
(* LocalMessageBusHost.start, or what a program does without a host *)

(* The path is free, or names a socket (a crashed broker's, say) that this  *)
(* start may replace; it is taken by a file, or a socket it must not touch. *)
Bindable == path # "taken"

Bind ==
  /\ path' = "ours" /\ listening' = TRUE /\ listenerClosed' = FALSE

(* start does nothing once it has succeeded, and raises once it is closed or *)
(* when the path is taken; in that case it may be tried again.               *)
Start(o) ==
  /\ pc[o] = "idle" /\ calls < MaxCalls
  /\ calls' = calls + 1
  /\ \/ /\ ~hostStarted /\ ~hostClosed /\ Bindable
        /\ Bind
        /\ hostStarted' = TRUE
        /\ Goto(Server, "call")
        /\ UNCHANGED raised
     \/ /\ ~hostStarted /\ (hostClosed \/ ~Bindable)
        /\ raised' = raised \cup {<<o, "start">>}
        /\ UNCHANGED <<socketVars, hostStarted, pc>>
     \/ /\ hostStarted
        /\ UNCHANGED <<raised, socketVars, hostStarted, pc>>
  /\ UNCHANGED <<style, hostClosed, stopRequested, started,
                 closed, backlog, runners, sessionVars, callVars, holding,
                 overtaken>>

------------------------------------------------------------------------------
(* serve_forever *)

ServeForever ==
  /\ pc[Server] = "call"
  /\ IF closed
       THEN /\ Goto(Server, "over")
            /\ raised' = raised \cup {<<Server, "stopped">>}
            /\ UNCHANGED started
       ELSE /\ Goto(Server, "loop")
            /\ started' = TRUE
            /\ UNCHANGED raised
  /\ UNCHANGED <<style, hostVars, socketVars, stopRequested, closed, backlog,
                 runners, sessionVars, callVars, holding, overtaken, calls>>

(* finally: self.close(), which returns at once when another has closed. *)
FinallyClose ==
  /\ call' = [call EXCEPT ![Server] = "close"]
  /\ IF closed
       THEN Goto(Server, "over") /\ overtaken' = TRUE
       ELSE Goto(Server, "isSet") /\ UNCHANGED overtaken

CheckStop ==
  /\ pc[Server] = "loop"
  /\ IF stopRequested
       THEN FinallyClose
       ELSE Goto(Server, IF style = "threads" THEN "extensions" ELSE "accept")
            /\ UNCHANGED <<call, overtaken>>
  /\ UNCHANGED <<style, hostVars, socketVars, stopRequested, started, closed,
                 backlog, runners, sessionVars, first, index, holding, raised,
                 calls>>

(* The extensions' handlers run between two accepts, and may raise. *)
HandleExtensions ==
  /\ pc[Server] = "extensions"
  /\ \/ Goto(Server, "accept") /\ UNCHANGED <<raised, call, overtaken>>
     \/ FinallyClose /\ raised' = raised \cup {<<Server, "extension">>}
  /\ UNCHANGED <<style, hostVars, socketVars, stopRequested, started, closed,
                 backlog, runners, sessionVars, first, index, holding, calls>>

(* Accept returns the oldest connection of the backlog ... *)
Accept ==
  /\ pc[Server] = "accept"
  /\ listening /\ backlog # <<>>
  /\ holding' = Head(backlog) /\ backlog' = Tail(backlog)
  /\ Goto(Server, "accepted")
  /\ UNCHANGED <<style, hostVars, socketVars, stopRequested, started, closed,
                 runners, sessionVars, callVars, raised, overtaken, calls>>

(* ... or times out, or raises OSError: that the socket is closed while the *)
(* service stops is no error. A task whose time is out when it has the      *)
(* connection lets it go.                                                   *)
AcceptEnds ==
  /\ pc[Server] = "accept"
  /\ \/ Goto(Server, "loop") /\ UNCHANGED <<raised, call, overtaken>>
     \/ /\ ~stopRequested
        /\ FinallyClose /\ raised' = raised \cup {<<Server, "accept">>}
  /\ UNCHANGED <<style, hostVars, socketVars, stopRequested, started, closed,
                 backlog, runners, sessionVars, first, index, holding, calls>>

AsyncAcceptTimesOut ==
  /\ style = "tasks" /\ pc[Server] = "accepted"
  /\ holding' = None
  /\ open' = open \ {holding}
  /\ session' = [session EXCEPT ![holding] = "refused"]
  /\ Goto(Server, "loop")
  /\ UNCHANGED <<style, hostVars, socketVars, stopRequested, started, closed,
                 backlog, runners, stopped, callVars, raised, overtaken, calls>>

(* The runner is in the list before it is started. *)
AppendRunner ==
  /\ style = "threads" /\ pc[Server] = "accepted"
  /\ runners' = Append(runners, holding)
  /\ session' = [session EXCEPT ![holding] = "new"]
  /\ Goto(Server, "start")
  /\ UNCHANGED <<style, hostVars, socketVars, stopRequested, started, closed,
                 backlog, stopped, open, callVars, holding, raised, overtaken,
                 calls>>

StartRunner ==
  /\ style = "threads" /\ pc[Server] = "start"
  /\ session' = [session EXCEPT ![holding] = "ready"]
  /\ holding' = None
  /\ Goto(Server, "loop")
  /\ UNCHANGED <<style, hostVars, socketVars, stopRequested, started, closed,
                 backlog, runners, stopped, open, callVars, raised, overtaken,
                 calls>>

AsyncStartSession ==
  /\ style = "tasks" /\ pc[Server] = "accepted"
  /\ runners' = Append(runners, holding)
  /\ session' = [session EXCEPT ![holding] = "ready"]
  /\ holding' = None
  /\ Goto(Server, "loop")
  /\ UNCHANGED <<style, hostVars, socketVars, stopRequested, started, closed,
                 backlog, stopped, open, callVars, raised, overtaken, calls>>

------------------------------------------------------------------------------
(* request_stop, close and the host's stop and close *)

(* host.close closes the host's clients first. *)
StartCall(o) ==
  /\ pc[o] = "idle" /\ calls < MaxCalls
  /\ hostStarted
  /\ calls' = calls + 1
  /\ \E kind \in {"request_stop", "close", "host.stop", "host.close"} :
       /\ kind \in {"host.stop", "host.close"} => style = "threads"
       /\ IF (kind = "close" /\ closed) \/ (kind = "host.close" /\ hostClosed)
            THEN UNCHANGED <<call, pc, open>>
            ELSE /\ call' = [call EXCEPT ![o] = kind]
                 /\ Goto(o, "isSet")
                 /\ open' = IF kind = "host.close" THEN {} ELSE open
  /\ UNCHANGED <<style, hostVars, socketVars, stopRequested, started, closed,
                 backlog, runners, session, stopped, first, index, holding,
                 raised, overtaken>>

(* A host that was never started has nothing to stop. *)
CloseUnstarted(o) ==
  /\ pc[o] = "idle" /\ calls < MaxCalls
  /\ ~hostStarted
  /\ calls' = calls + 1
  /\ hostClosed' = TRUE
  /\ UNCHANGED <<style, hostStarted, socketVars, stopRequested,
                 started, closed, backlog, runners, sessionVars, pc, callVars,
                 holding, raised, overtaken>>

(* The flag is read, and then set: two may be the first. *)
IsFirst(a) ==
  /\ style = "threads" /\ pc[a] = "isSet"
  /\ first' = [first EXCEPT ![a] = ~stopRequested]
  /\ Goto(a, "set")
  /\ UNCHANGED <<style, hostVars, socketVars, stopRequested, started, closed,
                 backlog, runners, sessionVars, call, index, holding, raised,
                 overtaken, calls>>

SetStop(a) ==
  /\ style = "threads" /\ pc[a] = "set"
  /\ stopRequested' = TRUE
  /\ index' = [index EXCEPT ![a] = 1]
  /\ Goto(a, IF first[a] THEN "listener" ELSE "sessions")
  /\ UNCHANGED <<style, hostVars, socketVars, started, closed, backlog, runners,
                 sessionVars, call, first, holding, raised, overtaken, calls>>

(* LocalBusServiceListener.close, the second of two does nothing; connections *)
(* in the backlog are reset.                                                  *)
CloseListener(a) ==
  /\ style = "threads" /\ pc[a] = "listener"
  /\ listenerClosed' = TRUE
  /\ IF listenerClosed
       THEN /\ Goto(a, "sessions")
            /\ UNCHANGED <<listening, backlog, open, session>>
       ELSE /\ Goto(a, "path")
            /\ listening' = FALSE
            /\ backlog' = <<>>
            /\ open' = open \ Range(backlog)
            /\ session' = [c \in Connections |->
                 IF c \in Range(backlog) THEN "refused" ELSE session[c]]
  /\ UNCHANGED <<style, hostVars, path, stopRequested, started, closed, runners,
                 stopped, callVars, holding, raised, overtaken, calls>>

(* Whatever socket is at the path is removed. *)
RemoveSocketPath == path' = "free"

RemovePath(a) ==
  /\ style = "threads" /\ pc[a] = "path"
  /\ RemoveSocketPath
  /\ Goto(a, "sessions")
  /\ UNCHANGED <<style, hostVars, listenerClosed, listening, stopRequested,
                 started, closed, backlog, runners, sessionVars, callVars,
                 holding, raised, overtaken, calls>>

(* What is left of the call once the sessions are asked to stop *)
AfterStop(a) ==
  Goto(a, CASE call[a] = "close" -> "join"
            [] call[a] = "request_stop" -> "idle"
            [] OTHER -> "joinServer")

(* Mutant: only the first request asks the sessions to stop. *)
StopSessions_firstOnly(a) ==
  /\ style = "threads" /\ pc[a] = "sessions"
  /\ IF first[a] /\ index[a] <= Len(runners)
       THEN /\ stopped' = stopped \cup {runners[index[a]]}
            /\ open' = open \ {runners[index[a]]}
            /\ index' = [index EXCEPT ![a] = @ + 1]
            /\ UNCHANGED pc
       ELSE /\ AfterStop(a)
            /\ index' = [index EXCEPT ![a] = 1]
            /\ UNCHANGED <<stopped, open>>
  /\ UNCHANGED <<style, hostVars, socketVars, stopRequested, started, closed,
                 backlog, runners, session, call, first, holding, raised,
                 overtaken, calls>>

(* Mutant: a session is told, and its connection is left open. *)
StopSessions_flagOnly(a) ==
  /\ style = "threads" /\ pc[a] = "sessions"
  /\ IF index[a] <= Len(runners)
       THEN /\ stopped' = stopped \cup {runners[index[a]]}
            /\ index' = [index EXCEPT ![a] = @ + 1]
            /\ UNCHANGED pc
       ELSE /\ AfterStop(a)
            /\ index' = [index EXCEPT ![a] = 1]
            /\ UNCHANGED stopped
  /\ UNCHANGED <<style, hostVars, socketVars, stopRequested, started, closed,
                 backlog, runners, session, open, call, first, holding, raised,
                 overtaken, calls>>

(* The list is walked while the server may append to it. *)
StopSessions(a) ==
  /\ style = "threads" /\ pc[a] = "sessions"
  /\ IF index[a] <= Len(runners)
       THEN /\ stopped' = stopped \cup {runners[index[a]]}
            /\ open' = open \ {runners[index[a]]}
            /\ index' = [index EXCEPT ![a] = @ + 1]
            /\ UNCHANGED pc
       ELSE /\ AfterStop(a)
            /\ index' = [index EXCEPT ![a] = 1]
            /\ UNCHANGED <<stopped, open>>
  /\ UNCHANGED <<style, hostVars, socketVars, stopRequested, started, closed,
                 backlog, runners, session, call, first, holding, raised,
                 overtaken, calls>>

(***************************************************************************)
(* Among tasks request_stop is one step. It also cancels each session's    *)
(* task: one that has not begun ends without having run, and one that runs *)
(* takes it for its stop.                                                  *)
(***************************************************************************)
AsyncRequestStop(a) ==
  /\ style = "tasks" /\ pc[a] = "isSet"
  /\ stopRequested' = TRUE
  /\ IF stopRequested
       THEN UNCHANGED <<socketVars, backlog>>
       ELSE /\ listenerClosed' = TRUE /\ listening' = FALSE
            /\ RemoveSocketPath
            /\ backlog' = <<>>
  /\ stopped' = stopped \cup Range(runners)
  /\ open' = (open \ Range(runners)) \ Range(backlog)
  /\ session' = [c \in Connections |->
       CASE c \in Range(backlog) -> "refused"
         [] c \in Range(runners) /\ session[c] = "ready" -> "cancelled"
         [] OTHER -> session[c]]
  /\ AfterStop(a)
  /\ UNCHANGED <<style, hostVars, started, closed, runners, callVars, holding,
                 raised, overtaken, calls>>

(* Waiting for the runners, one after the other; the first that has failed, *)
(* or was cancelled before it began, makes close raise.                     *)
Finished(a) == Goto(a, IF a = Server THEN "over" ELSE "idle")

(* Mutant: the first runner's failure is passed over. *)
JoinSession_silent(a) ==
  /\ pc[a] = "join"
  /\ \/ /\ index[a] > Len(runners)
        /\ closed' = TRUE
        /\ Finished(a)
        /\ UNCHANGED <<index, raised>>
     \/ /\ index[a] <= Len(runners)
        /\ session[runners[index[a]]] \notin {"ready", "running"}
        /\ index' = [index EXCEPT ![a] = @ + 1]
        /\ UNCHANGED <<closed, pc, raised>>
  /\ UNCHANGED <<style, hostVars, socketVars, stopRequested, started, backlog,
                 runners, sessionVars, call, first, holding, overtaken, calls>>

JoinSession(a) ==
  /\ pc[a] = "join"
  /\ \/ /\ index[a] > Len(runners)
        /\ closed' = TRUE
        /\ Finished(a)
        /\ UNCHANGED <<index, raised>>
     \/ /\ index[a] <= Len(runners)
        /\ session[runners[index[a]]] \in {"ended", "new"}
        /\ index' = [index EXCEPT ![a] = @ + 1]
        /\ UNCHANGED <<closed, pc, raised>>
     \/ /\ index[a] <= Len(runners)
        /\ session[runners[index[a]]] \in {"failed", "cancelled"}
        /\ raised' = raised \cup {<<a, session[runners[index[a]]]>>}
        /\ closed' = TRUE
        /\ Finished(a)
        /\ UNCHANGED index
  /\ UNCHANGED <<style, hostVars, socketVars, stopRequested, started, backlog,
                 runners, sessionVars, call, first, holding, overtaken, calls>>

(* The host waits for its thread. *)
JoinServer(o) ==
  /\ pc[o] = "joinServer" /\ pc[Server] = "over"
  /\ hostClosed' = (hostClosed \/ call[o] = "host.close")
  /\ Goto(o, "idle")
  /\ UNCHANGED <<style, hostStarted, socketVars, stopRequested,
                 started, closed, backlog, runners, sessionVars, callVars,
                 holding, raised, overtaken, calls>>

------------------------------------------------------------------------------
(* Clients and sessions *)

Connect(c) ==
  /\ listening /\ session[c] = "away"
  /\ session' = [session EXCEPT ![c] = "waiting"]
  /\ open' = open \cup {c}
  /\ backlog' = Append(backlog, c)
  /\ UNCHANGED <<style, hostVars, socketVars, stopRequested, started, closed,
                 runners, stopped, pc, callVars, holding, raised, overtaken,
                 calls>>

Hangup(c) ==
  /\ c \in open
  /\ open' = open \ {c}
  /\ UNCHANGED <<style, hostVars, socketVars, stopRequested, started, closed,
                 backlog, runners, session, stopped, pc, callVars, holding,
                 raised, overtaken, calls>>

BeginSession(c) ==
  /\ session[c] = "ready"
  /\ session' = [session EXCEPT ![c] = "running"]
  /\ UNCHANGED <<style, hostVars, socketVars, stopRequested, started, closed,
                 backlog, runners, stopped, open, pc, callVars, holding, raised,
                 overtaken, calls>>

(* It ends when its connection is closed; whatever ends it, it closes it. *)
EndSession(c) ==
  /\ session[c] = "running" /\ c \notin open
  /\ session' = [session EXCEPT ![c] = "ended"]
  /\ stopped' = stopped \cup {c}
  /\ UNCHANGED <<style, hostVars, socketVars, stopRequested, started, closed,
                 backlog, runners, open, pc, callVars, holding, raised,
                 overtaken, calls>>

FailSession(c) ==
  /\ session[c] = "running" /\ c \in open
  /\ session' = [session EXCEPT ![c] = "failed"]
  /\ stopped' = stopped \cup {c}
  /\ open' = open \ {c}
  /\ UNCHANGED <<style, hostVars, socketVars, stopRequested, started, closed,
                 backlog, runners, pc, callVars, holding, raised, overtaken,
                 calls>>

------------------------------------------------------------------------------
ServerStep ==
  \/ ServeForever \/ CheckStop \/ HandleExtensions \/ Accept \/ AcceptEnds
  \/ AppendRunner \/ StartRunner \/ AsyncStartSession \/ AsyncAcceptTimesOut

StopStep(a) ==
  \/ IsFirst(a) \/ SetStop(a) \/ CloseListener(a) \/ RemovePath(a)
  \/ StopSessions(a) \/ AsyncRequestStop(a) \/ JoinSession(a)

SessionStep(c) == BeginSession(c) \/ EndSession(c)

Next ==
  \/ ServerStep
  \/ \E a \in Actors : StopStep(a)
  \/ \E o \in Owners :
       Start(o) \/ StartCall(o) \/ CloseUnstarted(o) \/ JoinServer(o)
  \/ \E c \in Connections :
       Connect(c) \/ Hangup(c) \/ SessionStep(c) \/ FailSession(c)

(* Threads and tasks that can run do; accept times out by itself. *)
Fairness ==
  /\ WF_vars(ServerStep)
  /\ \A a \in Actors : WF_vars(StopStep(a))
  /\ \A o \in Owners : WF_vars(JoinServer(o))
  /\ \A c \in Connections : WF_vars(SessionStep(c))

Spec == Init /\ [][Next]_vars /\ Fairness

------------------------------------------------------------------------------
Over == pc[Server] = "over" /\ started

(***************************************************************************)
(* When serve_forever is over, and nobody is in the middle of stopping it, *)
(* its socket and path are gone and every session it has started, the one  *)
(* accepted while it was being stopped too, has been told to stop; unless  *)
(* another closed the service while this one still had a connection in its *)
(* hands.                                                                  *)
(***************************************************************************)
NothingLeftServing ==
  (Over /\ \A o \in Owners : pc[o] \in {"idle", "joinServer"}) =>
    /\ ~listening /\ path # "ours"
    /\ Range(runners) \subseteq stopped \/ overtaken

(* serve_forever raises when a session has failed, though another may have *)
(* closed the service meanwhile; and no session is lost in its wait.       *)
FailuresReported ==
  Over =>
    \/ overtaken
    \/ <<Server, "failed">> \in raised \/ <<Server, "cancelled">> \in raised
    \/ \A c \in Range(runners) : session[c] = "ended"

(* A service that is asked to stop does: serve_forever ends, however many *)
(* sessions it has, and so does every call that waits for it or for them. *)
StopEnds ==
  stopRequested ~> (pc[Server] = "over" /\ \A o \in Owners : pc[o] = "idle")

=============================================================================
