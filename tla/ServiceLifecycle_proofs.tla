----------------------- MODULE ServiceLifecycle_proofs -----------------------
(***************************************************************************)
(* How a broker's service ends, for any number of owners and clients, in   *)
(* both styles: NothingLeftServing and FailuresReported are invariants of  *)
(* ServiceLifecycle.  The second half is about the history that the same   *)
(* loop serves, whose failures end it: NeverMisnamed, EndsForACause and    *)
(* ExactInSequence are invariants of MessageHistory.                       *)
(***************************************************************************)
EXTENDS ServiceLifecycle, MessageHistory, SequenceLemmas

Stopping == {"isSet", "set", "listener", "path", "sessions", "join"}

Serving == {"loop", "extensions", "accept", "accepted", "start"}

Labels == {"absent", "call", "over", "idle", "joinServer"} \cup Serving \cup Stopping

Calls == {"none", "request_stop", "close", "host.stop", "host.close"}

Outcomes == {"away", "waiting", "refused", "new", "ready", "running", "ended",
             "failed", "cancelled"}

DataOK ==
  /\ style \in {"threads", "tasks"}
  /\ path \in {"free", "taken", "replaceable", "ours"}
  /\ hostStarted \in BOOLEAN /\ stopRequested \in BOOLEAN
  /\ started \in BOOLEAN /\ closed \in BOOLEAN
  /\ listenerClosed \in BOOLEAN /\ listening \in BOOLEAN
  /\ backlog \in Seq(Connections) /\ runners \in Seq(Connections)
  /\ session \in [Connections -> Outcomes]
  /\ pc[Server] \in {"accepted", "start"} => holding \in Connections
  /\ overtaken \in BOOLEAN

(* Only the server serves, and only the owners wait for it. *)
ActorsOK ==
  /\ pc \in [Actors -> Labels] /\ call \in [Actors -> Calls]
  /\ pc[Server] \notin {"idle", "joinServer"}
  /\ \A o \in Owners : pc[o] \in {"idle", "joinServer"} \cup Stopping
  /\ first \in [Actors -> BOOLEAN] /\ index \in [Actors -> Nat \ {0}]

TypeOK == DataOK /\ ActorsOK

(* Nobody stops or closes what has not been started. *)
StartInv ==
  /\ ~hostStarted => /\ ~stopRequested /\ ~closed
                     /\ pc[Server] = "absent" /\ \A o \in Owners : pc[o] = "idle"
  /\ pc[Server] \in {"absent", "call"} => ~started
  /\ pc[Server] \in Serving \cup Stopping => started
  /\ pc[Server] \in Stopping => call[Server] = "close"

(***************************************************************************)
(* Whoever was the first to ask for the stop closes the listener, and      *)
(* whoever closed it removes the path.  Two may have been the first.  Only *)
(* threads do this in several steps.                                       *)
(***************************************************************************)
Past(label) == label \in {"listener", "path", "sessions", "join", "over"}

StopInv ==
  /\ \A a \in Actors : /\ pc[a] = "set" /\ ~first[a] => stopRequested
                       /\ Past(pc[a]) => stopRequested
  /\ closed => stopRequested
  /\ stopRequested => listenerClosed \/ \E a \in Actors : pc[a] = "listener"
  /\ listenerClosed => ~listening /\ backlog = <<>>
  /\ style = "tasks" =>
       \A a \in Actors : pc[a] \notin {"set", "listener", "path", "sessions"}
  /\ listenerClosed /\ path = "ours" => \E a \in Actors : pc[a] = "path"

(***************************************************************************)
(* Where a connection is: in the backlog, in the server's hands, or among  *)
(* the runners, the last of which may not have been started yet.           *)
(***************************************************************************)
Run == {"new", "ready", "running", "ended", "failed", "cancelled"}

PlaceInv ==
  /\ IsInjective(backlog)
  /\ \A c \in Range(backlog) : session[c] = "waiting"
  /\ pc[Server] = "accepted" => session[holding] = "waiting" /\ holding \notin Range(backlog)
  /\ pc[Server] = "start" => session[holding] = "new"
  /\ \A c \in Connections : session[c] = "new" => pc[Server] = "start" /\ c = holding
  /\ \A c \in Range(runners) : session[c] \in Run

(***************************************************************************)
(* The server's own walks over its runners, which nobody adds to then: it  *)
(* tells each, and waits for each, up to the first that has failed.        *)
(***************************************************************************)
WalkInv ==
  /\ pc[Server] \notin {"sessions", "join", "over"} => index[Server] = 1
  /\ pc[Server] = "sessions" =>
       \A i \in DOMAIN runners : i < index[Server] => runners[i] \in stopped
  /\ pc[Server] = "join" \/ (Over /\ ~overtaken) => Range(runners) \subseteq stopped
  /\ pc[Server] = "join" =>
       \A i \in DOMAIN runners : i < index[Server] => session[runners[i]] = "ended"
  /\ FailuresReported

LEMMA ActorFacts ==
  /\ Server \in Actors
  /\ \A o \in Owners : o \in Actors /\ o # Server
  /\ \A a \in Actors : a = Server \/ a \in Owners
  BY ConstantsAssumption DEF Actors

LEMMA AfterStopMoves ==
  ASSUME ActorsOK, NEW a \in Actors, AfterStop(a)
  PROVE  /\ pc' \in [Actors -> Labels]
         /\ \A b \in Actors : b # a => pc'[b] = pc[b]
         /\ call[a] = "close" => pc'[a] = "join"
         /\ call[a] # "close" => pc'[a] \in {"idle", "joinServer"}
<1> DEFINE label == CASE call[a] = "close" -> "join"
                      [] call[a] = "request_stop" -> "idle"
                      [] OTHER -> "joinServer"
<1>1. pc' = [pc EXCEPT ![a] = label] /\ pc \in [Actors -> Labels]
  BY DEF AfterStop, Goto, ActorsOK
<1>2. /\ call[a] = "close" => label = "join"
      /\ call[a] # "close" => label \in {"idle", "joinServer"}
  OBVIOUS
<1>3. label \in Labels
  BY <1>2 DEF Labels, Stopping
<1> HIDE DEF label
<1> QED
  BY <1>1, <1>2, <1>3

LEMMA Resets ==
  ASSUME session \in [Connections -> Outcomes]
  PROVE  /\ [c \in Connections |->
                IF c \in Range(backlog) THEN "refused" ELSE session[c]]
              \in [Connections -> Outcomes]
         /\ [c \in Connections |->
                CASE c \in Range(backlog) -> "refused"
                  [] c \in Range(runners) /\ session[c] = "ready" -> "cancelled"
                  [] OTHER -> session[c]] \in [Connections -> Outcomes]
<1>1. "refused" \in Outcomes /\ "cancelled" \in Outcomes
  BY DEF Outcomes
<1> QED
  BY <1>1

LEMMA FinallyCloses ==
  ASSUME DataOK, ActorsOK, FinallyClose
  PROVE  pc'[Server] \in {"over", "isSet"} /\ overtaken' \in BOOLEAN
<1>1. pc'[Server] \in {"over", "isSet"}
  BY ActorFacts DEF FinallyClose, Goto, ActorsOK
<1>2. overtaken' \in BOOLEAN
  BY DEF FinallyClose, DataOK
<1> QED BY <1>1, <1>2

(* A step of the server that leaves the tables as they are *)
LEMMA DataKept ==
  ASSUME DataOK, pc'[Server] \notin {"accepted", "start"}, overtaken' \in BOOLEAN,
         UNCHANGED <<style, hostVars, socketVars, stopRequested, started, closed,
                     backlog, runners, sessionVars>>
  PROVE  DataOK'
BY DEF DataOK, hostVars, socketVars, sessionVars

LEMMA HandleExtensionsKeep ==
  ASSUME DataOK, ActorsOK, HandleExtensions
  PROVE  DataOK'
<1>1. UNCHANGED <<style, hostVars, socketVars, stopRequested, started, closed,
                  backlog, runners, sessionVars>>
  BY DEF HandleExtensions
<1>2. CASE FinallyClose
  BY <1>1, <1>2, FinallyCloses, DataKept
<1>3. CASE Goto(Server, "accept") /\ UNCHANGED overtaken
  <2>1. pc'[Server] = "accept"
    BY <1>3, ActorFacts DEF Goto, ActorsOK
  <2>2. overtaken' \in BOOLEAN
    BY <1>3 DEF DataOK
  <2> QED BY <1>1, <2>1, <2>2, DataKept
<1> QED BY <1>2, <1>3 DEF HandleExtensions

LEMMA AcceptEndsKeep ==
  ASSUME DataOK, ActorsOK, AcceptEnds
  PROVE  DataOK'
<1>1. UNCHANGED <<style, hostVars, socketVars, stopRequested, started, closed,
                  backlog, runners, sessionVars>>
  BY DEF AcceptEnds
<1>2. CASE FinallyClose
  BY <1>1, <1>2, FinallyCloses, DataKept
<1>3. CASE Goto(Server, "loop") /\ UNCHANGED overtaken
  <2>1. pc'[Server] = "loop"
    BY <1>3, ActorFacts DEF Goto, ActorsOK
  <2>2. overtaken' \in BOOLEAN
    BY <1>3 DEF DataOK
  <2> QED BY <1>1, <2>1, <2>2, DataKept
<1> QED BY <1>2, <1>3 DEF AcceptEnds

LEMMA CloseListenerKeeps ==
  ASSUME DataOK, ActorsOK, NEW a \in Actors, CloseListener(a)
  PROVE  DataOK'
<1>1. session' \in [Connections -> Outcomes]
  BY Resets DEF CloseListener, DataOK
<1>2. backlog' \in Seq(Connections)
  <2>1. backlog' = backlog \/ backlog' = <<>>
    BY DEF CloseListener
  <2> QED BY <2>1, EmptySeq DEF DataOK
<1>3. listenerClosed' \in BOOLEAN /\ listening' \in BOOLEAN
  BY DEF CloseListener, DataOK
<1>4. pc'[Server] \in {"accepted", "start"} => pc[Server] \in {"accepted", "start"}
  BY ActorFacts DEF CloseListener, Goto, ActorsOK
<1>5. UNCHANGED <<style, hostVars, path, stopRequested, started, closed, runners,
                  holding, overtaken>>
  BY DEF CloseListener
<1> QED BY <1>1, <1>2, <1>3, <1>4, <1>5 DEF DataOK, hostVars

LEMMA DataStep ==
  ASSUME DataOK, ActorsOK, [Next]_vars
  PROVE  DataOK'
<1> USE ActorFacts DEF DataOK, ActorsOK, Outcomes, Goto, hostVars, socketVars, sessionVars, callVars
<1>1. CASE ServeForever
  BY <1>1 DEF ServeForever
<1>2. CASE CheckStop
  BY <1>2 DEF CheckStop, FinallyClose
<1>3. CASE HandleExtensions
  BY <1>3, HandleExtensionsKeep
<1>4. CASE Accept
  BY <1>4 DEF Accept
<1>5. CASE AcceptEnds
  BY <1>5, AcceptEndsKeep
<1>6. CASE AppendRunner
  BY <1>6 DEF AppendRunner
<1>7. CASE StartRunner
  BY <1>7 DEF StartRunner
<1>8. CASE AsyncStartSession
  BY <1>8 DEF AsyncStartSession
<1>9. CASE AsyncAcceptTimesOut
  BY <1>9 DEF AsyncAcceptTimesOut
<1>10. ASSUME NEW a \in Actors, IsFirst(a) PROVE DataOK'
  BY <1>10 DEF IsFirst
<1>11. ASSUME NEW a \in Actors, SetStop(a) PROVE DataOK'
  BY <1>11 DEF SetStop
<1>12. ASSUME NEW a \in Actors, CloseListener(a) PROVE DataOK'
  BY <1>12, CloseListenerKeeps
<1>13. ASSUME NEW a \in Actors, RemovePath(a) PROVE DataOK'
  BY <1>13 DEF RemovePath, RemoveSocketPath
<1>14. ASSUME NEW a \in Actors, StopSessions(a) PROVE DataOK'
  BY <1>14 DEF StopSessions, AfterStop
<1>15. ASSUME NEW a \in Actors, AsyncRequestStop(a) PROVE DataOK'
<2>1. session' \in [Connections -> Outcomes]
  BY <1>15, Resets DEF AsyncRequestStop
<2>2. backlog' = backlog \/ backlog' = <<>>
  BY <1>15 DEF AsyncRequestStop
<2>3. pc'[Server] \in {"accepted", "start"} => pc[Server] \in {"accepted", "start"}
  BY <1>15, AfterStopMoves DEF AsyncRequestStop
<2> QED
  BY <1>15, <2>1, <2>3, <2>2, EmptySeq DEF AsyncRequestStop, RemoveSocketPath
<1>16. ASSUME NEW a \in Actors, JoinSession(a) PROVE DataOK'
<2>1. pc'[Server] \in {"accepted", "start"} => pc[Server] \in {"accepted", "start"}
  BY <1>16 DEF JoinSession, Finished
<2>2. closed' \in BOOLEAN
  BY <1>16 DEF JoinSession
<2> QED
  BY <1>16, <2>1, <2>2 DEF JoinSession
<1>17. ASSUME NEW o \in Owners, Start(o) PROVE DataOK'
  <2>1. /\ UNCHANGED <<style, stopRequested, started, closed, backlog, runners,
                      sessionVars, holding, overtaken>>
        /\ \/ Bind /\ hostStarted' = TRUE /\ Goto(Server, "call")
           \/ UNCHANGED <<socketVars, hostStarted, pc>>
    BY <1>17 DEF Start
  <2>2. CASE Bind /\ hostStarted' = TRUE /\ Goto(Server, "call")
    <3>1. pc'[Server] = "call"
      BY <2>2 DEF Goto, ActorsOK
    <3> QED BY <2>1, <2>2, <3>1 DEF Bind, sessionVars
  <2>3. CASE UNCHANGED <<socketVars, hostStarted, pc>>
    BY <2>1, <2>3 DEF socketVars, sessionVars
  <2> QED BY <2>1, <2>2, <2>3
<1>18. ASSUME NEW o \in Owners, StartCall(o) PROVE DataOK'
  BY <1>18 DEF StartCall
<1>19. ASSUME NEW o \in Owners, CloseUnstarted(o) PROVE DataOK'
  BY <1>19 DEF CloseUnstarted
<1>20. ASSUME NEW o \in Owners, JoinServer(o) PROVE DataOK'
  BY <1>20 DEF JoinServer
<1>21. ASSUME NEW c \in Connections, Connect(c) PROVE DataOK'
  BY <1>21 DEF Connect
<1>22. ASSUME NEW c \in Connections, Hangup(c) PROVE DataOK'
  BY <1>22 DEF Hangup
<1>23. ASSUME NEW c \in Connections, BeginSession(c) PROVE DataOK'
  BY <1>23 DEF BeginSession
<1>24. ASSUME NEW c \in Connections, EndSession(c) PROVE DataOK'
  BY <1>24 DEF EndSession
<1>25. ASSUME NEW c \in Connections, FailSession(c) PROVE DataOK'
  BY <1>25 DEF FailSession
<1>26. CASE UNCHANGED vars
  BY <1>26 DEF vars
<1> QED
  BY <1>1, <1>2, <1>3, <1>4, <1>5, <1>6, <1>7, <1>8, <1>9, <1>10, <1>11, <1>12, <1>13, <1>14, <1>15, <1>16, <1>17, <1>18, <1>19, <1>20, <1>21, <1>22, <1>23, <1>24, <1>25, <1>26
     DEF Next, ServerStep, StopStep, SessionStep

LEMMA CloseListenerMoves ==
  ASSUME ActorsOK, NEW a \in Actors, CloseListener(a)
  PROVE  ActorsOK'
<1>1. PICK label \in {"sessions", "path"} : pc' = [pc EXCEPT ![a] = label]
  BY DEF CloseListener, Goto
<1>2. label \in Labels /\ label \in Stopping /\ label \notin {"idle", "joinServer"}
  BY DEF Labels, Stopping
<1>3. pc' \in [Actors -> Labels]
  BY <1>1, <1>2 DEF ActorsOK
<1>4. \A b \in Actors : pc'[b] = IF b = a THEN label ELSE pc[b]
  BY <1>1 DEF ActorsOK
<1>5. /\ pc'[Server] \notin {"idle", "joinServer"}
      /\ \A o \in Owners : pc'[o] \in {"idle", "joinServer"} \cup Stopping
  BY <1>2, <1>4, ActorFacts DEF ActorsOK
<1>6. UNCHANGED callVars
  BY DEF CloseListener
<1> QED BY <1>3, <1>5, <1>6 DEF ActorsOK, callVars

LEMMA StopSessionsMoves ==
  ASSUME DataOK, ActorsOK, StartInv, NEW a \in Actors, StopSessions(a)
  PROVE  ActorsOK'
<1>1. UNCHANGED <<call, first>> /\ pc[a] = "sessions"
  BY DEF StopSessions
<1>2. index' \in [Actors -> Nat \ {0}]
  <2>1. index' = [index EXCEPT ![a] = index[a] + 1] \/ index' = [index EXCEPT ![a] = 1]
    BY DEF StopSessions
  <2>2. index \in [Actors -> Nat \ {0}]
    BY DEF ActorsOK
  <2>3. index[a] + 1 \in Nat \ {0} /\ 1 \in Nat \ {0}
    BY <2>2
  <2> QED BY <2>1, <2>2, <2>3
<1>3. CASE pc' = pc
  BY <1>1, <1>2, <1>3 DEF ActorsOK
<1>4. CASE AfterStop(a)
  <2>1. /\ pc' \in [Actors -> Labels]
        /\ \A b \in Actors : b # a => pc'[b] = pc[b]
        /\ call[a] = "close" => pc'[a] = "join"
        /\ call[a] # "close" => pc'[a] \in {"idle", "joinServer"}
    BY <1>4, AfterStopMoves
  <2>2. pc'[Server] \notin {"idle", "joinServer"}
    <3>1. CASE a = Server
      <4>1. call[a] = "close"
        BY <1>1, <3>1 DEF StartInv, Stopping
      <4> QED BY <2>1, <3>1, <4>1
    <3>2. CASE a # Server
      BY <2>1, <3>2, ActorFacts DEF ActorsOK
    <3> QED BY <3>1, <3>2
  <2>3. \A o \in Owners : pc'[o] \in {"idle", "joinServer"} \cup Stopping
    BY <2>1, ActorFacts DEF ActorsOK, Stopping
  <2> QED BY <1>1, <1>2, <2>1, <2>2, <2>3 DEF ActorsOK
<1> QED BY <1>3, <1>4 DEF StopSessions

LEMMA ActorsStep ==
  ASSUME DataOK, ActorsOK, StartInv, [Next]_vars
  PROVE  ActorsOK'
<1> USE ActorFacts DEF ActorsOK, StartInv, Labels, Calls, Serving, Stopping, Goto, hostVars, socketVars, sessionVars, callVars
<1>1. CASE ServeForever
  BY <1>1 DEF ServeForever
<1>2. CASE CheckStop
  BY <1>2 DEF CheckStop, FinallyClose
<1>3. CASE HandleExtensions
  BY <1>3 DEF HandleExtensions, FinallyClose
<1>4. CASE Accept
  BY <1>4 DEF Accept
<1>5. CASE AcceptEnds
  BY <1>5 DEF AcceptEnds, FinallyClose
<1>6. CASE AppendRunner
  BY <1>6 DEF AppendRunner
<1>7. CASE StartRunner
  BY <1>7 DEF StartRunner
<1>8. CASE AsyncStartSession
  BY <1>8 DEF AsyncStartSession
<1>9. CASE AsyncAcceptTimesOut
  BY <1>9 DEF AsyncAcceptTimesOut
<1>10. ASSUME NEW a \in Actors, IsFirst(a) PROVE ActorsOK'
  BY <1>10 DEF IsFirst
<1>11. ASSUME NEW a \in Actors, SetStop(a) PROVE ActorsOK'
  BY <1>11 DEF SetStop
<1>12. ASSUME NEW a \in Actors, CloseListener(a) PROVE ActorsOK'
  BY <1>12, CloseListenerMoves
<1>13. ASSUME NEW a \in Actors, RemovePath(a) PROVE ActorsOK'
  BY <1>13 DEF RemovePath, RemoveSocketPath
<1>14. ASSUME NEW a \in Actors, StopSessions(a) PROVE ActorsOK'
  BY <1>14, StopSessionsMoves
<1>15. ASSUME NEW a \in Actors, AsyncRequestStop(a) PROVE ActorsOK'
  BY <1>15 DEF AsyncRequestStop, RemoveSocketPath, AfterStop
<1>16. ASSUME NEW a \in Actors, JoinSession(a) PROVE ActorsOK'
  BY <1>16 DEF JoinSession, Finished
<1>17. ASSUME NEW o \in Owners, Start(o) PROVE ActorsOK'
  BY <1>17 DEF Start, Bind, Bindable
<1>18. ASSUME NEW o \in Owners, StartCall(o) PROVE ActorsOK'
  BY <1>18 DEF StartCall
<1>19. ASSUME NEW o \in Owners, CloseUnstarted(o) PROVE ActorsOK'
  BY <1>19 DEF CloseUnstarted
<1>20. ASSUME NEW o \in Owners, JoinServer(o) PROVE ActorsOK'
  BY <1>20 DEF JoinServer
<1>21. ASSUME NEW c \in Connections, Connect(c) PROVE ActorsOK'
  BY <1>21 DEF Connect
<1>22. ASSUME NEW c \in Connections, Hangup(c) PROVE ActorsOK'
  BY <1>22 DEF Hangup
<1>23. ASSUME NEW c \in Connections, BeginSession(c) PROVE ActorsOK'
  BY <1>23 DEF BeginSession
<1>24. ASSUME NEW c \in Connections, EndSession(c) PROVE ActorsOK'
  BY <1>24 DEF EndSession
<1>25. ASSUME NEW c \in Connections, FailSession(c) PROVE ActorsOK'
  BY <1>25 DEF FailSession
<1>26. CASE UNCHANGED vars
  BY <1>26 DEF vars
<1> QED
  BY <1>1, <1>2, <1>3, <1>4, <1>5, <1>6, <1>7, <1>8, <1>9, <1>10, <1>11, <1>12, <1>13, <1>14, <1>15, <1>16, <1>17, <1>18, <1>19, <1>20, <1>21, <1>22, <1>23, <1>24, <1>25, <1>26
     DEF Next, ServerStep, StopStep, SessionStep

LEMMA StartStep ==
  ASSUME TypeOK, StartInv, StopInv, [Next]_vars
  PROVE  StartInv'
<1> USE ActorFacts DEF TypeOK, DataOK, ActorsOK, StartInv, StopInv, Past, Labels, Serving, Stopping, Goto, hostVars, socketVars, sessionVars, callVars
<1>1. CASE ServeForever
  BY <1>1 DEF ServeForever
<1>2. CASE CheckStop
  BY <1>2 DEF CheckStop, FinallyClose
<1>3. CASE HandleExtensions
  BY <1>3 DEF HandleExtensions, FinallyClose
<1>4. CASE Accept
  BY <1>4 DEF Accept
<1>5. CASE AcceptEnds
  BY <1>5 DEF AcceptEnds, FinallyClose
<1>6. CASE AppendRunner
  BY <1>6 DEF AppendRunner
<1>7. CASE StartRunner
  BY <1>7 DEF StartRunner
<1>8. CASE AsyncStartSession
  BY <1>8 DEF AsyncStartSession
<1>9. CASE AsyncAcceptTimesOut
  BY <1>9 DEF AsyncAcceptTimesOut
<1>10. ASSUME NEW a \in Actors, IsFirst(a) PROVE StartInv'
  BY <1>10 DEF IsFirst
<1>11. ASSUME NEW a \in Actors, SetStop(a) PROVE StartInv'
  BY <1>11 DEF SetStop
<1>12. ASSUME NEW a \in Actors, CloseListener(a) PROVE StartInv'
  BY <1>12 DEF CloseListener
<1>13. ASSUME NEW a \in Actors, RemovePath(a) PROVE StartInv'
  BY <1>13 DEF RemovePath, RemoveSocketPath
<1>14. ASSUME NEW a \in Actors, StopSessions(a) PROVE StartInv'
  BY AfterStopMoves, <1>14 DEF StopSessions
<1>15. ASSUME NEW a \in Actors, AsyncRequestStop(a) PROVE StartInv'
  BY AfterStopMoves, <1>15 DEF AsyncRequestStop, RemoveSocketPath
<1>16. ASSUME NEW a \in Actors, JoinSession(a) PROVE StartInv'
  BY <1>16 DEF JoinSession, Finished
<1>17. ASSUME NEW o \in Owners, Start(o) PROVE StartInv'
  BY <1>17 DEF Start, Bind, Bindable
<1>18. ASSUME NEW o \in Owners, StartCall(o) PROVE StartInv'
  BY <1>18 DEF StartCall
<1>19. ASSUME NEW o \in Owners, CloseUnstarted(o) PROVE StartInv'
  BY <1>19 DEF CloseUnstarted
<1>20. ASSUME NEW o \in Owners, JoinServer(o) PROVE StartInv'
  BY <1>20 DEF JoinServer
<1>21. ASSUME NEW c \in Connections, Connect(c) PROVE StartInv'
  BY <1>21 DEF Connect
<1>22. ASSUME NEW c \in Connections, Hangup(c) PROVE StartInv'
  BY <1>22 DEF Hangup
<1>23. ASSUME NEW c \in Connections, BeginSession(c) PROVE StartInv'
  BY <1>23 DEF BeginSession
<1>24. ASSUME NEW c \in Connections, EndSession(c) PROVE StartInv'
  BY <1>24 DEF EndSession
<1>25. ASSUME NEW c \in Connections, FailSession(c) PROVE StartInv'
  BY <1>25 DEF FailSession
<1>26. CASE UNCHANGED vars
  BY <1>26 DEF vars
<1> QED
  BY <1>1, <1>2, <1>3, <1>4, <1>5, <1>6, <1>7, <1>8, <1>9, <1>10, <1>11, <1>12, <1>13, <1>14, <1>15, <1>16, <1>17, <1>18, <1>19, <1>20, <1>21, <1>22, <1>23, <1>24, <1>25, <1>26
     DEF Next, ServerStep, StopStep, SessionStep

LEMMA StopStepKeeps ==
  ASSUME TypeOK, StartInv, StopInv, [Next]_vars
  PROVE  StopInv'
<1> USE ActorFacts DEF TypeOK, DataOK, ActorsOK, StartInv, StopInv, Past, Stopping, Goto, hostVars, socketVars, sessionVars, callVars
<1>1. CASE ServeForever
  BY <1>1 DEF ServeForever
<1>2. CASE CheckStop
  BY <1>2 DEF CheckStop, FinallyClose
<1>3. CASE HandleExtensions
  BY <1>3 DEF HandleExtensions, FinallyClose
<1>4. CASE Accept
  BY <1>4 DEF Accept
<1>5. CASE AcceptEnds
  BY <1>5 DEF AcceptEnds, FinallyClose
<1>6. CASE AppendRunner
  BY <1>6 DEF AppendRunner
<1>7. CASE StartRunner
  BY <1>7 DEF StartRunner
<1>8. CASE AsyncStartSession
  BY <1>8 DEF AsyncStartSession
<1>9. CASE AsyncAcceptTimesOut
  BY <1>9 DEF AsyncAcceptTimesOut
<1>10. ASSUME NEW a \in Actors, IsFirst(a) PROVE StopInv'
  BY <1>10 DEF IsFirst
<1>11. ASSUME NEW a \in Actors, SetStop(a) PROVE StopInv'
  BY <1>11 DEF SetStop
<1>12. ASSUME NEW a \in Actors, CloseListener(a) PROVE StopInv'
  BY <1>12 DEF CloseListener
<1>13. ASSUME NEW a \in Actors, RemovePath(a) PROVE StopInv'
  BY <1>13 DEF RemovePath, RemoveSocketPath
<1>14. ASSUME NEW a \in Actors, StopSessions(a) PROVE StopInv'
  BY AfterStopMoves, <1>14 DEF StopSessions
<1>15. ASSUME NEW a \in Actors, AsyncRequestStop(a) PROVE StopInv'
  BY AfterStopMoves, <1>15 DEF AsyncRequestStop, RemoveSocketPath
<1>16. ASSUME NEW a \in Actors, JoinSession(a) PROVE StopInv'
  BY <1>16 DEF JoinSession, Finished
<1>17. ASSUME NEW o \in Owners, Start(o) PROVE StopInv'
  BY <1>17 DEF Start, Bind, Bindable
<1>18. ASSUME NEW o \in Owners, StartCall(o) PROVE StopInv'
  BY <1>18 DEF StartCall
<1>19. ASSUME NEW o \in Owners, CloseUnstarted(o) PROVE StopInv'
  BY <1>19 DEF CloseUnstarted
<1>20. ASSUME NEW o \in Owners, JoinServer(o) PROVE StopInv'
  BY <1>20 DEF JoinServer
<1>21. ASSUME NEW c \in Connections, Connect(c) PROVE StopInv'
  BY <1>21 DEF Connect
<1>22. ASSUME NEW c \in Connections, Hangup(c) PROVE StopInv'
  BY <1>22 DEF Hangup
<1>23. ASSUME NEW c \in Connections, BeginSession(c) PROVE StopInv'
  BY <1>23 DEF BeginSession
<1>24. ASSUME NEW c \in Connections, EndSession(c) PROVE StopInv'
  BY <1>24 DEF EndSession
<1>25. ASSUME NEW c \in Connections, FailSession(c) PROVE StopInv'
  BY <1>25 DEF FailSession
<1>26. CASE UNCHANGED vars
  BY <1>26 DEF vars
<1> QED
  BY <1>1, <1>2, <1>3, <1>4, <1>5, <1>6, <1>7, <1>8, <1>9, <1>10, <1>11, <1>12, <1>13, <1>14, <1>15, <1>16, <1>17, <1>18, <1>19, <1>20, <1>21, <1>22, <1>23, <1>24, <1>25, <1>26
     DEF Next, ServerStep, StopStep, SessionStep

(* What the end of the listener does to the backlog and to the sessions *)
LEMMA ListenerEnds ==
  ASSUME DataOK, StopInv, PlaceInv, NEW a \in Actors, CloseListener(a) \/ AsyncRequestStop(a)
  PROVE  /\ backlog' = backlog \/ backlog' = <<>>
         /\ \A c \in Connections :
              \/ session'[c] = session[c]
              \/ c \in Range(backlog) /\ backlog' = <<>>
                 /\ session[c] = "waiting" /\ session'[c] = "refused"
              \/ session[c] = "ready" /\ session'[c] = "cancelled"
<1>1. CASE CloseListener(a)
  BY <1>1 DEF CloseListener, DataOK, PlaceInv
<1>2. CASE AsyncRequestStop(a)
  <2>1. backlog' = backlog \/ backlog' = <<>>
    BY <1>2 DEF AsyncRequestStop
  <2>2. \A c \in Connections :
          \/ session'[c] = session[c]
          \/ c \in Range(backlog) /\ session'[c] = "refused"
          \/ session[c] = "ready" /\ session'[c] = "cancelled"
    BY <1>2 DEF AsyncRequestStop
  <2> QED
    BY <1>2, <2>1, <2>2 DEF AsyncRequestStop, StopInv, PlaceInv
<1> QED
  BY <1>1, <1>2

LEMMA InjectiveEmpty == IsInjective(<<>>)
  BY DEF IsInjective

LEMMA PlaceStep ==
  ASSUME TypeOK, StartInv, StopInv, PlaceInv, [Next]_vars
  PROVE  PlaceInv'
<1> USE ActorFacts DEF TypeOK, DataOK, ActorsOK, StartInv, PlaceInv, Run, Serving, Stopping, Goto, hostVars, socketVars, sessionVars, callVars
<1>1. CASE ServeForever
  BY <1>1 DEF ServeForever
<1>2. CASE CheckStop
  BY <1>2 DEF CheckStop, FinallyClose
<1>3. CASE HandleExtensions
  BY <1>3 DEF HandleExtensions, FinallyClose
<1>4. CASE Accept
  BY HeadAndTail, RangeOfHeadAndTail, InjectiveTail, <1>4 DEF Accept
<1>5. CASE AcceptEnds
  BY <1>5 DEF AcceptEnds, FinallyClose
<1>6. CASE AppendRunner
  BY RangeOfAppended, <1>6 DEF AppendRunner
<1>7. CASE StartRunner
  BY <1>7 DEF StartRunner
<1>8. CASE AsyncStartSession
  BY RangeOfAppended, <1>8 DEF AsyncStartSession
<1>9. CASE AsyncAcceptTimesOut
  BY <1>9 DEF AsyncAcceptTimesOut
<1>10. ASSUME NEW a \in Actors, IsFirst(a) PROVE PlaceInv'
  BY <1>10 DEF IsFirst
<1>11. ASSUME NEW a \in Actors, SetStop(a) PROVE PlaceInv'
  BY <1>11 DEF SetStop
<1>12. ASSUME NEW a \in Actors, CloseListener(a) PROVE PlaceInv'
<2>1. pc'[Server] \in {"accepted", "start"} => pc'[Server] = pc[Server]
  BY <1>12 DEF CloseListener
<2>2. pc[Server] = "start" => pc'[Server] = "start"
  BY <1>12 DEF CloseListener
<2>3. UNCHANGED <<holding, runners>>
  BY <1>12 DEF CloseListener
<2>4. /\ \A c \in Connections : session'[c] = "new" => session[c] = "new"
      /\ \A c \in Connections : session[c] \in Run => session'[c] \in Run
      /\ \A c \in Connections :
           session[c] \in {"waiting", "new"} /\ c \notin Range(backlog)
             => session'[c] = session[c]
  BY <1>12, ListenerEnds
<2>5. /\ IsInjective(backlog') /\ Range(backlog') \subseteq Range(backlog)
      /\ \A c \in Range(backlog') : session'[c] = "waiting"
  <3>1. CASE backlog' = <<>>
    BY <3>1, RangeOfEmpty, InjectiveEmpty
  <3>2. CASE backlog' = backlog /\ backlog # <<>>
    BY <1>12, <3>2, ListenerEnds, RangeType
  <3> QED
    BY <1>12, <3>1, <3>2, ListenerEnds
<2>6. \A c \in Range(runners) : session'[c] \in Run
  BY <2>4, RangeType
<2>7. pc'[Server] = "accepted" =>
        session'[holding'] = "waiting" /\ holding' \notin Range(backlog')
  BY <2>1, <2>3, <2>4, <2>5
<2>8. /\ pc'[Server] = "start" => session'[holding'] = "new"
      /\ \A c \in Connections : session'[c] = "new" => pc'[Server] = "start" /\ c = holding'
  BY <2>1, <2>2, <2>3, <2>4, RangeType
<2> QED
  BY <2>3, <2>5, <2>6, <2>7, <2>8
<1>13. ASSUME NEW a \in Actors, RemovePath(a) PROVE PlaceInv'
  BY <1>13 DEF RemovePath, RemoveSocketPath
<1>14. ASSUME NEW a \in Actors, StopSessions(a) PROVE PlaceInv'
  BY AfterStopMoves, <1>14 DEF StopSessions
<1>15. ASSUME NEW a \in Actors, AsyncRequestStop(a) PROVE PlaceInv'
<2>1. pc'[Server] \in {"accepted", "start"} => pc'[Server] = pc[Server]
  BY <1>15, AfterStopMoves DEF AsyncRequestStop
<2>2. pc[Server] = "start" => pc'[Server] = "start"
  BY <1>15, AfterStopMoves DEF AsyncRequestStop
<2>3. UNCHANGED <<holding, runners>>
  BY <1>15 DEF AsyncRequestStop
<2>4. /\ \A c \in Connections : session'[c] = "new" => session[c] = "new"
      /\ \A c \in Connections : session[c] \in Run => session'[c] \in Run
      /\ \A c \in Connections :
           session[c] \in {"waiting", "new"} /\ c \notin Range(backlog)
             => session'[c] = session[c]
  BY <1>15, ListenerEnds
<2>5. /\ IsInjective(backlog') /\ Range(backlog') \subseteq Range(backlog)
      /\ \A c \in Range(backlog') : session'[c] = "waiting"
  <3>1. CASE backlog' = <<>>
    BY <3>1, RangeOfEmpty, InjectiveEmpty
  <3>2. CASE backlog' = backlog /\ backlog # <<>>
    BY <1>15, <3>2, ListenerEnds, RangeType
  <3> QED
    BY <1>15, <3>1, <3>2, ListenerEnds
<2>6. \A c \in Range(runners) : session'[c] \in Run
  BY <2>4, RangeType
<2>7. pc'[Server] = "accepted" =>
        session'[holding'] = "waiting" /\ holding' \notin Range(backlog')
  BY <2>1, <2>3, <2>4, <2>5
<2>8. /\ pc'[Server] = "start" => session'[holding'] = "new"
      /\ \A c \in Connections : session'[c] = "new" => pc'[Server] = "start" /\ c = holding'
  BY <2>1, <2>2, <2>3, <2>4, RangeType
<2> QED
  BY <2>3, <2>5, <2>6, <2>7, <2>8
<1>16. ASSUME NEW a \in Actors, JoinSession(a) PROVE PlaceInv'
  BY <1>16 DEF JoinSession, Finished
<1>17. ASSUME NEW o \in Owners, Start(o) PROVE PlaceInv'
  BY <1>17 DEF Start, Bind, Bindable
<1>18. ASSUME NEW o \in Owners, StartCall(o) PROVE PlaceInv'
  BY <1>18 DEF StartCall
<1>19. ASSUME NEW o \in Owners, CloseUnstarted(o) PROVE PlaceInv'
  BY <1>19 DEF CloseUnstarted
<1>20. ASSUME NEW o \in Owners, JoinServer(o) PROVE PlaceInv'
  BY <1>20 DEF JoinServer
<1>21. ASSUME NEW c \in Connections, Connect(c) PROVE PlaceInv'
<2>1. c \notin Range(backlog) /\ c \notin Range(runners)
  BY <1>21 DEF Connect
<2>2. IsInjective(backlog') /\ Range(backlog') = Range(backlog) \cup {c}
  BY <1>21, <2>1, RangeOfAppended, InjectiveAppended DEF Connect
<2> QED
  BY <1>21, <2>1, <2>2, RangeType DEF Connect
<1>22. ASSUME NEW c \in Connections, Hangup(c) PROVE PlaceInv'
  BY <1>22 DEF Hangup
<1>23. ASSUME NEW c \in Connections, BeginSession(c) PROVE PlaceInv'
  BY <1>23 DEF BeginSession
<1>24. ASSUME NEW c \in Connections, EndSession(c) PROVE PlaceInv'
  BY <1>24 DEF EndSession
<1>25. ASSUME NEW c \in Connections, FailSession(c) PROVE PlaceInv'
  BY <1>25 DEF FailSession
<1>26. CASE UNCHANGED vars
  BY <1>26 DEF vars
<1> QED
  BY <1>1, <1>2, <1>3, <1>4, <1>5, <1>6, <1>7, <1>8, <1>9, <1>10, <1>11, <1>12, <1>13, <1>14, <1>15, <1>16, <1>17, <1>18, <1>19, <1>20, <1>21, <1>22, <1>23, <1>24, <1>25, <1>26
     DEF Next, ServerStep, StopStep, SessionStep

LEMMA WalkStep ==
  ASSUME TypeOK, StartInv, StopInv, PlaceInv, WalkInv, [Next]_vars
  PROVE  WalkInv'
<1> USE ActorFacts DEF TypeOK, DataOK, ActorsOK, StartInv, WalkInv, FailuresReported, Over, Serving, Stopping, Goto, hostVars, socketVars, sessionVars, callVars
<1>1. CASE ServeForever
  BY <1>1 DEF ServeForever
<1>2. CASE CheckStop
  BY <1>2 DEF CheckStop, FinallyClose
<1>3. CASE HandleExtensions
  BY <1>3 DEF HandleExtensions, FinallyClose
<1>4. CASE Accept
  BY <1>4 DEF Accept
<1>5. CASE AcceptEnds
  BY <1>5 DEF AcceptEnds, FinallyClose
<1>6. CASE AppendRunner
  BY <1>6 DEF AppendRunner
<1>7. CASE StartRunner
  BY <1>7 DEF StartRunner
<1>8. CASE AsyncStartSession
  BY <1>8 DEF AsyncStartSession
<1>9. CASE AsyncAcceptTimesOut
  BY <1>9 DEF AsyncAcceptTimesOut
<1>10. ASSUME NEW a \in Actors, IsFirst(a) PROVE WalkInv'
  BY <1>10 DEF IsFirst
<1>11. ASSUME NEW a \in Actors, SetStop(a) PROVE WalkInv'
  BY <1>11 DEF SetStop
<1>12. ASSUME NEW a \in Actors, CloseListener(a) PROVE WalkInv'
<2>1. UNCHANGED <<runners, stopped, index, started, overtaken, raised>>
  BY <1>12 DEF CloseListener
<2>2. \A c \in Range(runners) : session[c] = "ended" => session'[c] = "ended"
  BY <1>12, ListenerEnds, RangeType
<2>3. \A i \in DOMAIN runners :
        session[runners[i]] = "ended" => session'[runners[i]] = "ended"
  BY <2>2 DEF Range
<2>4. \/ pc'[Server] = pc[Server]
      \/ pc[Server] = "listener" /\ pc'[Server] \in {"path", "sessions"}
  BY <1>12 DEF CloseListener
<2> QED
  BY <2>1, <2>2, <2>3, <2>4
<1>13. ASSUME NEW a \in Actors, RemovePath(a) PROVE WalkInv'
  BY <1>13 DEF RemovePath, RemoveSocketPath
<1>14. ASSUME NEW a \in Actors, StopSessions(a) PROVE WalkInv'
  BY AfterStopMoves, <1>14 DEF StopSessions, Range
<1>15. ASSUME NEW a \in Actors, AsyncRequestStop(a) PROVE WalkInv'
<2>1. UNCHANGED <<runners, index, started, overtaken, raised>>
      /\ stopped' = stopped \cup Range(runners)
  BY <1>15 DEF AsyncRequestStop
<2>2. \A c \in Range(runners) : session[c] = "ended" => session'[c] = "ended"
  BY <1>15, ListenerEnds, RangeType
<2>3. \A i \in DOMAIN runners :
        session[runners[i]] = "ended" => session'[runners[i]] = "ended"
  BY <2>2 DEF Range
<2>4. \/ pc'[Server] = pc[Server]
      \/ pc[Server] = "isSet" /\ pc'[Server] = "join"
  BY <1>15, AfterStopMoves DEF AsyncRequestStop
<2> QED
  BY <2>1, <2>2, <2>3, <2>4
<1>16. ASSUME NEW a \in Actors, JoinSession(a) PROVE WalkInv'
  BY <1>16 DEF JoinSession, Finished, PlaceInv, Range
<1>17. ASSUME NEW o \in Owners, Start(o) PROVE WalkInv'
  BY <1>17 DEF Start, Bind, Bindable
<1>18. ASSUME NEW o \in Owners, StartCall(o) PROVE WalkInv'
  BY <1>18 DEF StartCall
<1>19. ASSUME NEW o \in Owners, CloseUnstarted(o) PROVE WalkInv'
  BY <1>19 DEF CloseUnstarted
<1>20. ASSUME NEW o \in Owners, JoinServer(o) PROVE WalkInv'
  BY <1>20 DEF JoinServer
<1>21. ASSUME NEW c \in Connections, Connect(c) PROVE WalkInv'
  BY <1>21 DEF Connect
<1>22. ASSUME NEW c \in Connections, Hangup(c) PROVE WalkInv'
  BY <1>22 DEF Hangup
<1>23. ASSUME NEW c \in Connections, BeginSession(c) PROVE WalkInv'
  BY <1>23 DEF BeginSession
<1>24. ASSUME NEW c \in Connections, EndSession(c) PROVE WalkInv'
  BY <1>24 DEF EndSession
<1>25. ASSUME NEW c \in Connections, FailSession(c) PROVE WalkInv'
  BY <1>25 DEF FailSession
<1>26. CASE UNCHANGED vars
  BY <1>26 DEF vars
<1> QED
  BY <1>1, <1>2, <1>3, <1>4, <1>5, <1>6, <1>7, <1>8, <1>9, <1>10, <1>11, <1>12, <1>13, <1>14, <1>15, <1>16, <1>17, <1>18, <1>19, <1>20, <1>21, <1>22, <1>23, <1>24, <1>25, <1>26
     DEF Next, ServerStep, StopStep, SessionStep

------------------------------------------------------------------------------

IInv == TypeOK /\ StartInv /\ StopInv /\ PlaceInv /\ WalkInv

LEMMA InitEstablishes == Init => IInv
<1> SUFFICES ASSUME Init PROVE IInv
  OBVIOUS
<1> USE ActorFacts DEF Init
<1>1. ActorsOK
  BY DEF ActorsOK, Labels, Calls
<1>2. DataOK
  BY EmptySeq DEF DataOK, Outcomes
<1>3. StartInv /\ StopInv
  BY DEF StartInv, StopInv, Past, Serving, Stopping
<1>4. PlaceInv
  BY RangeOfEmpty, InjectiveEmpty DEF PlaceInv
<1>5. WalkInv
  BY DEF WalkInv, FailuresReported, Over
<1> QED
  BY <1>1, <1>2, <1>3, <1>4, <1>5 DEF IInv, TypeOK

LEMMA StepKeeps == IInv /\ [Next]_vars => IInv'
  BY DataStep, ActorsStep, StartStep, StopStepKeeps, PlaceStep, WalkStep
     DEF IInv, TypeOK

(***************************************************************************)
(* When serve_forever is over, and no owner is in the middle of a stop,    *)
(* nobody is left who could be about to close the listener or to remove    *)
(* its path.                                                               *)
(***************************************************************************)
LEMMA NobodyLeftToAct == IInv => NothingLeftServing
<1> SUFFICES ASSUME IInv, Over, \A o \in Owners : pc[o] \in {"idle", "joinServer"}
             PROVE  /\ ~listening /\ path # "ours"
                    /\ Range(runners) \subseteq stopped \/ overtaken
  BY DEF NothingLeftServing
<1>1. \A a \in Actors : pc[a] \notin {"listener", "path"}
  BY ActorFacts DEF Over
<1>2. stopRequested
  BY ActorFacts DEF IInv, StopInv, Past, Over
<1>3. listenerClosed /\ ~listening /\ path # "ours"
  BY <1>1, <1>2 DEF IInv, StopInv
<1> QED
  BY <1>3 DEF IInv, WalkInv

(***************************************************************************)
(* However the stop of a service, the close of its host and the end of its *)
(* accept loop cross, and whoever of two was the first, a service that is  *)
(* over leaves neither its socket nor its path, and no session untold.     *)
(***************************************************************************)
THEOREM NothingLeft == Spec => []NothingLeftServing
  BY InitEstablishes, StepKeeps, NobodyLeftToAct, PTL DEF Spec

(***************************************************************************)
(* serve_forever raises when one of its sessions failed or was cancelled,  *)
(* unless another has closed the service before it came to that.           *)
(***************************************************************************)
THEOREM FailuresAreReported == Spec => []FailuresReported
<1>1. IInv => FailuresReported
  BY DEF IInv, WalkInv
<1> QED
  BY InitEstablishes, StepKeeps, <1>1, PTL DEF Spec

------------------------------------------------------------------------------
(***************************************************************************)
(* The history that the broker serves in its accept loop                   *)
(* (MessageHistory), whatever its file holds: what ends the broker, under  *)
(* which names messages are selected, and what select_all collects.        *)
(***************************************************************************)

Writings == {Idle} \cup [step : {"write"}, message : Records]
                   \cup [step : {"rest"}, alone : BOOLEAN]

Queries == [step : {"send", "ask", "read", "done", "failed", "unanswered"},
            topic : AskedTopics, order : Orders, maxCount : Nat,
            cursor : Nat \cup {NoCursor}, first : Nat, pages : Nat, wanted : BOOLEAN]

HistoryType ==
  /\ log \in Seq(Records) /\ indexed \in Nat /\ indexed <= Len(log)
  /\ symbols \in Seq(AllTopics)
  /\ \A topic \in HistoryTopics : \E i \in DOMAIN symbols : symbols[i] = topic
  /\ nextSequence \in Nat
  /\ writing \in [Writers -> Writings]
  /\ query \in Queries \cup {Idle}
  /\ query.step = "read" => query.maxCount >= 1
  /\ serving \in BOOLEAN

(* The table has the registrations of the lines that were read, only them. *)
Registers(i) == ~IsMessage(log[i])

NamesInv ==
  /\ \A i \in 1..indexed : Registers(i) =>
       log[i].id \in DOMAIN names /\ names[log[i].id] = log[i].topic
  /\ \A id \in DOMAIN names : \E i \in 1..indexed :
       Registers(i) /\ log[i].id = id /\ log[i].topic = names[id]

(* A broker that has ended answers no selection any more. *)
EndedInv == /\ EndsForACause
            /\ ~serving => query.step \in {"failed", "unanswered"}

(***************************************************************************)
(* The pages of select_all while the file is in sequence: c is the line    *)
(* that the last page ended with, and the client has what was wanted up to *)
(* there.                                                                  *)
(***************************************************************************)
Announced(i) == \E j \in 1..(i - 1) : /\ Registers(j) /\ log[j].id = log[i].id
                                      /\ log[j].topic = log[i].topic

InGoodOrder ==
  /\ InSequence
  /\ \A i \in 1..Len(log) : IsMessage(log[i]) => Announced(i)

Covered(c) == IF query.order = "descending" THEN c..query.first ELSE 1..c

AfterPages(c) == /\ c \in collected /\ query.cursor = log[c].sequence
                 /\ collected = {i \in Covered(c) : Wanted(i)}

PagesInv ==
  /\ query.step # "idle" => query.first <= indexed
  /\ Asking /\ query.cursor = NoCursor => collected = {}
  /\ query.step = "read" /\ query.cursor = NoCursor => query.first = indexed
  /\ InGoodOrder =>
       /\ Asking => /\ ordered /\ collected \subseteq 1..indexed
                    /\ query.cursor # NoCursor => \E c \in 1..indexed : AfterPages(c)
       /\ Exact

------------------------------------------------------------------------------
(* Types, and what a step does to the lines there are *)

LogGrows ==
  /\ log' \in Seq(Records) /\ Len(log) \in Nat /\ Len(log') \in Nat
  /\ Len(log') >= Len(log)
  /\ \A i \in 1..Len(log) : /\ log'[i].kind = log[i].kind /\ log'[i].id = log[i].id
                            /\ log'[i].topic = log[i].topic
                            /\ log'[i].sequence = log[i].sequence

Restarted ==
  /\ serving' = TRUE /\ indexed' = 0 /\ DOMAIN names' = {}
  /\ query' = Idle /\ collected' = {} /\ ordered' = TRUE

LEMMA Line ==
  ASSUME log \in Seq(Records), NEW i \in 1..Len(log)
  PROVE  /\ log[i] \in Records /\ log[i].id \in Nat /\ log[i].sequence \in Nat
         /\ Registers(i) <=> log[i].kind = "registration"
         /\ log[i].topic \in AllTopics
<1>1. log[i] \in Records
  OBVIOUS
<1>2. /\ log[i].id \in Nat /\ log[i].sequence \in Nat
      /\ log[i].kind \in {"registration", "message"} /\ log[i].topic \in AllTopics
  BY <1>1 DEF Records
<1> QED BY <1>1, <1>2 DEF Registers, IsMessage

LEMMA LineWritten ==
  ASSUME NEW id \in Nat, NEW topic \in AllTopics, NEW sequence \in Nat
  PROVE  /\ Registration(id, topic) \in Records
         /\ Message(id, topic, sequence) \in Records
BY DEF Registration, Message, Records

(* The last line may become readable or lose that. *)
LEMMA Marked ==
  ASSUME NEW lines \in Seq(Records), NEW value \in BOOLEAN
  PROVE  LET marked == [lines EXCEPT ![Len(lines)].readable = value]
         IN /\ marked \in Seq(Records) /\ Len(marked) = Len(lines)
            /\ \A i \in 1..Len(lines) :
                 /\ marked[i].kind = lines[i].kind /\ marked[i].id = lines[i].id
                 /\ marked[i].topic = lines[i].topic
                 /\ marked[i].sequence = lines[i].sequence
<1> DEFINE marked == [lines EXCEPT ![Len(lines)].readable = value]
<1>1. Len(lines) \in Nat /\ DOMAIN lines = 1..Len(lines)
  OBVIOUS
<1>2. ASSUME NEW i \in DOMAIN lines
      PROVE  /\ marked[i] \in Records /\ marked[i].kind = lines[i].kind
             /\ marked[i].id = lines[i].id /\ marked[i].topic = lines[i].topic
             /\ marked[i].sequence = lines[i].sequence
  <2>1. lines[i] \in Records
    OBVIOUS
  <2>2. CASE i # Len(lines)
    <3>1. marked[i] = lines[i]
      BY <2>2
    <3> QED BY <2>1, <3>1
  <2>3. CASE i = Len(lines)
    <3>1. marked[i] = [lines[i] EXCEPT !.readable = value]
      BY <2>3
    <3> QED BY <2>1, <3>1 DEF Records
  <2> QED BY <2>2, <2>3
<1>3. marked = [i \in DOMAIN lines |-> marked[i]]
  OBVIOUS
<1> HIDE DEF marked
<1>4. marked \in [1..Len(lines) -> Records]
  BY <1>1, <1>2, <1>3
<1>5. marked \in Seq(Records) /\ Len(marked) = Len(lines)
  BY <1>1, <1>4
<1> QED BY <1>1, <1>2, <1>5 DEF marked

LEMMA LineMarked ==
  ASSUME log \in Seq(Records), NEW value \in BOOLEAN,
         log' = [log EXCEPT ![Len(log)].readable = value]
  PROVE  LogGrows
<1>1. Len(log) \in Nat
  OBVIOUS
<1> QED BY <1>1, Marked DEF LogGrows

LEMMA LogStays ==
  ASSUME log \in Seq(Records), log' = log
  PROVE  LogGrows
BY DEF LogGrows

LEMMA TextAppended ==
  ASSUME log \in Seq(Records), NEW rec \in Records, AppendText(rec)
  PROVE  LogGrows
<1>1. CASE lineOpen
  BY <1>1, LineMarked DEF AppendText
<1>2. CASE ~lineOpen
  <2>1. log' = Append(log, rec)
    BY <1>2 DEF AppendText
  <2> QED BY <2>1, Appended DEF LogGrows
<1> QED BY <1>1, <1>2

LEMMA SymbolPlaced ==
  ASSUME HistoryType, NEW topic \in HistoryTopics
  PROVE  IdOf(topic) \in Nat /\ topic \in AllTopics
<1>1. \E i \in DOMAIN symbols : symbols[i] = topic
  BY DEF HistoryType
<1>2. IdOf(topic) \in DOMAIN symbols
  BY <1>1 DEF IdOf
<1> QED BY <1>2 DEF HistoryType, AllTopics

LEMMA Captured ==
  ASSUME HistoryType, NEW topic \in HistoryTopics, Capture(topic)
  PROVE  LogGrows /\ nextSequence' \in Nat
<1>1. nextSequence \in Nat /\ log \in Seq(Records)
  BY DEF HistoryType
<1>2. Message(IdOf(topic), topic, nextSequence) \in Records
  BY <1>1, SymbolPlaced, LineWritten
<1> QED BY <1>1, <1>2, TextAppended DEF Capture

LEMMA QueryShape ==
  ASSUME HistoryType, query.step # "idle"
  PROVE  query \in Queries
BY DEF HistoryType, Idle

(* The rest of the type, for the steps that take up no page *)
LEMMA TypeKept ==
  ASSUME HistoryType, LogGrows, UNCHANGED <<symbols, indexed>>,
         nextSequence' \in Nat, writing' \in [Writers -> Writings],
         query' \in Queries \cup {Idle},
         query'.step = "read" => query' = query \/ query'.maxCount >= 1,
         serving' \in BOOLEAN
  PROVE  HistoryType'
BY DEF HistoryType, LogGrows

LEMMA WriterTyped ==
  ASSUME HistoryType, NEW w \in Writers, WriterStep(w)
  PROVE  HistoryType' /\ LogGrows
<1>1. /\ log \in Seq(Records) /\ nextSequence \in Nat /\ symbols \in Seq(AllTopics)
      /\ writing[w] \in Writings /\ query \in Queries \cup {Idle} /\ serving \in BOOLEAN
  BY DEF HistoryType
<1>2. /\ writing[w].step = "write" => writing[w].message \in Records
  BY <1>1 DEF Writings, Idle
<1>3. UNCHANGED <<symbols, indexed, names, query, serving>>
  BY DEF WriterStep, TakeSequence, RefuseMessage, WriteMessage, WriteFirstPart,
         WriteRest, tableVars, queryVars
<1>4. \E x \in Writings : writing' = [writing EXCEPT ![w] = x]
  <2>1. CASE TakeSequence(w)
    <3>1. \E i \in DOMAIN symbols :
            writing' = [writing EXCEPT ![w] =
                          [step |-> "write",
                           message |-> Message(i, symbols[i], nextSequence)]]
      BY <2>1 DEF TakeSequence
    <3>2. \A i \in DOMAIN symbols : Message(i, symbols[i], nextSequence) \in Records
      BY <1>1, LineWritten
    <3> QED BY <3>1, <3>2 DEF Writings
  <2>2. CASE RefuseMessage(w) \/ WriteMessage(w) \/ WriteRest(w)
    BY <2>2 DEF RefuseMessage, WriteMessage, WriteRest, Writings
  <2>3. CASE WriteFirstPart(w)
    <3>1. writing' = [writing EXCEPT ![w] = [step |-> "rest", alone |-> ~lineOpen]]
      BY <2>3 DEF WriteFirstPart
    <3>2. [step |-> "rest", alone |-> ~lineOpen] \in Writings
      BY Zenon DEF Writings
    <3> QED BY <3>1, <3>2
  <2> QED BY <2>1, <2>2, <2>3 DEF WriterStep
<1>5. writing' \in [Writers -> Writings]
  BY <1>4 DEF HistoryType
<1>6. nextSequence' \in Nat
  BY <1>1 DEF WriterStep, TakeSequence, RefuseMessage, WriteMessage,
              WriteFirstPart, WriteRest
<1>7. LogGrows
  <2>1. CASE TakeSequence(w) \/ RefuseMessage(w)
    BY <1>1, <2>1, LogStays DEF TakeSequence, RefuseMessage, fileVars
  <2>2. CASE WriteMessage(w)
    BY <1>1, <1>2, <2>2, TextAppended DEF WriteMessage
  <2>3. CASE WriteFirstPart(w)
    <3>1. [writing[w].message EXCEPT !.readable = FALSE] \in Records
      BY <1>2, <2>3 DEF WriteFirstPart, Records
    <3> QED BY <1>1, <2>3, <3>1, TextAppended DEF WriteFirstPart
  <2>4. CASE WriteRest(w)
    <3>1. log' = log \/ log' = [log EXCEPT ![Len(log)].readable = TRUE]
      BY <2>4 DEF WriteRest
    <3> QED BY <1>1, <3>1, LogStays, LineMarked
  <2> QED BY <2>1, <2>2, <2>3, <2>4 DEF WriterStep
<1> QED BY <1>1, <1>3, <1>5, <1>6, <1>7, TypeKept

LEMMA RestartTyped ==
  ASSUME HistoryType, Restart
  PROVE  HistoryType' /\ Restarted
<1>1. Restarted
  BY DEF Restarted, Restart
<1> DEFINE lines == <<Registration(1, RequestTopic), Registration(2, ReplyTopic)>>
<1>2. lines \in Seq(Records) /\ Tail(lines) \in Seq(Records)
  <2>1. RequestTopic \in AllTopics /\ ReplyTopic \in AllTopics
    BY DEF AllTopics, HistoryTopics
  <2>2. /\ Registration(1, RequestTopic) \in Records
        /\ Registration(2, ReplyTopic) \in Records
    BY <2>1, LineWritten
  <2>3. lines \in Seq(Records) /\ lines # <<>>
    BY <2>2
  <2> QED BY <2>3, HeadAndTail
<1>3. log' \in Seq(Records)
  <2>1. log \in Seq(Records)
    BY DEF HistoryType
  <2>2. CASE lineOpen
    <3> DEFINE marked == [log EXCEPT ![Len(log)].readable = FALSE]
    <3>1. marked \in Seq(Records)
      BY <2>1, Marked
    <3>2. log' = marked \o Tail(lines)
      BY <2>2 DEF Restart, LogAfterStart
    <3> HIDE DEF marked, lines
    <3> QED BY <1>2, <3>1, <3>2, ConcatProperties
  <2>3. CASE ~lineOpen
    <3>1. log' = log \o lines
      BY <2>3 DEF Restart, LogAfterStart
    <3> HIDE DEF lines
    <3> QED BY <1>2, <2>1, <3>1, ConcatProperties
  <2> QED BY <2>2, <2>3
<1>4. /\ symbols' = <<RequestTopic, ReplyTopic>> /\ nextSequence' = 0
      /\ writing' = [w \in Writers |-> Idle] /\ serving' = TRUE
      /\ query' = Idle /\ indexed' = 0
  BY DEF Restart, ServiceSymbols
<1>5. /\ symbols' \in Seq(AllTopics)
      /\ \A topic \in HistoryTopics : \E i \in DOMAIN symbols' : symbols'[i] = topic
  <2>1. symbols'[1] = RequestTopic /\ symbols'[2] = ReplyTopic /\ DOMAIN symbols' = {1, 2}
    BY <1>4
  <2>2. symbols' \in Seq({RequestTopic, ReplyTopic})
    BY <1>4
  <2> QED BY <2>1, <2>2 DEF AllTopics, HistoryTopics
<1>6. writing' \in [Writers -> Writings]
  BY <1>4 DEF Writings
<1>7. /\ query'.step # "read" /\ indexed' \in Nat /\ indexed' <= Len(log')
      /\ nextSequence' \in Nat /\ query' \in Queries \cup {Idle} /\ serving' \in BOOLEAN
  BY <1>3, <1>4, LenProperties DEF Idle
<1>8. HistoryType'
  BY <1>3, <1>4, <1>5, <1>6, <1>7, Zenon DEF HistoryType
<1> QED BY <1>1, <1>8

(* A page that is not empty has a last line. *)
LEMMA PageEnds ==
  ASSUME query.order \in Orders, NEW n \in Nat, NEW page \in SUBSET (1..n), page # {}
  PROVE  \E c \in page : /\ CursorAfter(page) = log[c].sequence
                         /\ \A j \in page \ {c} : Before(j, c)
<1> DEFINE Ends(i) == i \in page /\ \A j \in page \ {i} : Before(j, i)
<1>1. \A i \in page : i \in Nat
  OBVIOUS
<1>2. \E i : Ends(i)
  <2>1. CASE query.order = "descending"
    <3>1. PICK i \in page : \A j \in page : i <= j
      BY <1>1, LeastOf
    <3>2. \A j \in page \ {i} : j > i
      BY <1>1, <3>1
    <3> QED BY <2>1, <3>2 DEF Before
  <2>2. CASE query.order # "descending"
    <3>1. PICK i \in page : \A j \in page : j <= i
      BY GreatestOf
    <3>2. \A j \in page \ {i} : j < i
      BY <1>1, <3>1
    <3> QED BY <2>2, <3>2 DEF Before
  <2> QED BY <2>1, <2>2
<1>3. \E i \in page : \A j \in page \ {i} : Before(j, i)
  BY <1>2
<1> DEFINE c == CHOOSE i \in page : \A j \in page \ {i} : Before(j, i)
<1>4. c \in page /\ \A j \in page \ {c} : Before(j, c)
  BY <1>3
<1>5. CursorAfter(page) = log[c].sequence
  BY DEF CursorAfter
<1> QED BY <1>4, <1>5

(* A page that leaves candidates out is not empty. *)
LEMMA PageShape ==
  ASSUME HistoryType, query.step = "read", NEW page, IsPage(page)
  PROVE  /\ page \in SUBSET (1..Len(log)) /\ page \in SUBSET (1..indexed)
         /\ indexed \in Nat /\ indexed <= Len(log) /\ Len(log) \in Nat
         /\ query.order \in Orders
         /\ page # Candidates =>
              /\ page # {}
              /\ \E c \in page : /\ CursorAfter(page) = log[c].sequence
                                 /\ \A j \in page \ {c} : Before(j, c)
<1>1. query \in Queries
  BY QueryShape
<1>2. /\ indexed \in Nat /\ indexed <= Len(log) /\ Len(log) \in Nat
      /\ query.maxCount >= 1 /\ query.maxCount \in Nat /\ query.order \in Orders
  BY <1>1, LenProperties DEF HistoryType, Queries
<1>3. page \subseteq Candidates /\ Candidates \subseteq 1..indexed
  BY DEF IsPage, Candidates
<1>4. page \in SUBSET (1..Len(log)) /\ page \in SUBSET (1..indexed)
  BY <1>2, <1>3
<1>5. page # Candidates => page # {}
  <2>1. page # Candidates => Cardinality(page) = query.maxCount
    BY Zenon DEF IsPage, Cardinality, Cardinality
  <2>2. page = {} => Cardinality(page) = 0
    BY FS_EmptySet
  <2> QED BY <1>2, <2>1, <2>2
<1> QED BY <1>2, <1>4, <1>5, PageEnds

LEMMA PageTyped ==
  ASSUME HistoryType, query.step = "read", NEW page, IsPage(page)
  PROVE  /\ AfterPage(page) \in Queries \cup {Idle}
         /\ AfterPage(page).step # "read"
<1>1. query \in Queries
  BY QueryShape
<1>2. page # Candidates => CursorAfter(page) \in Nat
  <2>1. \A c \in page : log[c].sequence \in Nat
    BY PageShape, Line DEF HistoryType
  <2> QED BY <2>1, PageShape
<1>3. [query EXCEPT !.step = "failed"] \in Queries /\ [query EXCEPT !.step = "done"] \in Queries
  BY <1>1 DEF Queries
<1>4. page # Candidates =>
        [query EXCEPT !.step = "send", !.cursor = CursorAfter(page)] \in Queries
  BY <1>1, <1>2 DEF Queries
<1>5. /\ [query EXCEPT !.step = "failed"].step = "failed"
      /\ [query EXCEPT !.step = "done"].step = "done"
      /\ [query EXCEPT !.step = "send", !.cursor = CursorAfter(page)].step = "send"
  BY <1>1 DEF Queries
<1> QED BY <1>3, <1>4, <1>5 DEF AfterPage, Idle

LEMMA QueryTyped ==
  ASSUME HistoryType,
         \/ \E topic \in AskedTopics, order \in Orders, maxCount \in PageSizes :
              SelectAll(topic, order, maxCount)
         \/ SendSelection \/ SendSelectionFails \/ CancelSelectAll
         \/ SelectAllReturns
  PROVE  HistoryType' /\ LogGrows
<1>1. /\ log \in Seq(Records) /\ nextSequence \in Nat /\ serving \in BOOLEAN
      /\ writing \in [Writers -> Writings]
  BY DEF HistoryType
<1>2. UNCHANGED <<symbols, writing, serving, indexed>>
  BY DEF SelectAll, SendSelection, SendSelectionFails, CancelSelectAll,
         SelectAllReturns, brokerVars, tableVars
<1>3. LogGrows /\ nextSequence' \in Nat
  <2>1. CASE SendSelection
    <3>1. RequestTopic \in HistoryTopics
      BY DEF HistoryTopics
    <3> QED BY <2>1, <3>1, Captured DEF SendSelection
  <2>2. CASE ~SendSelection
    <3>1. log' = log /\ nextSequence' \in Nat
      BY <1>1, <2>2 DEF SelectAll, SendSelectionFails, CancelSelectAll,
                        SelectAllReturns, fileVars, brokerVars
    <3> QED BY <1>1, <3>1, LogStays
  <2> QED BY <2>1, <2>2
<1>4. query' \in Queries \cup {Idle} /\ (query'.step = "read" => query'.maxCount >= 1)
  <2>1. ASSUME NEW topic \in AskedTopics, NEW order \in Orders, NEW maxCount \in PageSizes,
               SelectAll(topic, order, maxCount)
        PROVE  query' \in Queries /\ query'.step = "send"
    <3>1. maxCount \in Nat /\ NoCursor \in Nat \cup {NoCursor}
      BY HistoryAssumption
    <3> QED BY <2>1, <3>1 DEF SelectAll, Queries
  <2>2. CASE SendSelection \/ SendSelectionFails \/ CancelSelectAll
    <3>1. query \in Queries
      BY <2>2, QueryShape DEF SendSelection, SendSelectionFails, CancelSelectAll
    <3>2. [query EXCEPT !.step = "ask", !.pages = @ + 1] \in Queries
      <4>1. query.pages \in Nat /\ query.pages + 1 \in Nat
        BY <3>1 DEF Queries
      <4> DEFINE more == query.pages + 1
      <4>2. [query EXCEPT !.step = "ask", !.pages = @ + 1]
              = [query EXCEPT !.step = "ask", !.pages = more]
        BY <3>1 DEF Queries
      <4> HIDE DEF more
      <4>3. more \in Nat
        BY <4>1 DEF more
      <4>4. [query EXCEPT !.step = "ask", !.pages = more] \in Queries
        BY <3>1, <4>3 DEF Queries
      <4> QED BY <4>2, <4>4
    <3>3. [query EXCEPT !.step = "failed"] \in Queries
      BY <3>1 DEF Queries
    <3>4. [query EXCEPT !.wanted = FALSE] \in Queries
      BY <3>1 DEF Queries
    <3>5. /\ [query EXCEPT !.step = "ask", !.pages = @ + 1].step = "ask"
          /\ [query EXCEPT !.step = "failed"].step = "failed"
          /\ [query EXCEPT !.wanted = FALSE].step = query.step
          /\ [query EXCEPT !.wanted = FALSE].maxCount = query.maxCount
      BY <3>1 DEF Queries
    <3> QED BY <2>2, <3>4, <3>5, <3>2, <3>3 DEF SendSelection, SendSelectionFails,
                                    CancelSelectAll, HistoryType
  <2>3. CASE SelectAllReturns
    BY <2>3 DEF SelectAllReturns, Idle
  <2> QED BY <2>1, <2>2, <2>3
<1> QED BY <1>1, <1>2, <1>3, <1>4, TypeKept

LEMMA ServiceTyped ==
  ASSUME HistoryType,
         Refresh \/ RefreshFails \/ ReadPage \/ ReadPageFails \/ ReplyFails
  PROVE  HistoryType' /\ LogGrows
<1>1. /\ log \in Seq(Records) /\ nextSequence \in Nat /\ serving \in BOOLEAN
      /\ writing \in [Writers -> Writings] /\ Len(log) \in Nat
  BY LenProperties DEF HistoryType
<1>2. query \in Queries
  BY QueryShape DEF Refresh, RefreshFails, ReadPage, ReadPageFails, ReplyFails
<1>3. CASE Refresh
  <2>1. query' = [query EXCEPT !.step = "read",
                               !.first = IF query.cursor = NoCursor THEN Len(log) ELSE @]
        /\ query.maxCount >= 1
    BY <1>3 DEF Refresh, ValidSelection
  <2>2. query' \in Queries /\ query'.maxCount = query.maxCount
    <3>1. [query EXCEPT !.step = "read", !.first = Len(log)] \in Queries
          /\ [query EXCEPT !.step = "read", !.first = query.first] \in Queries
      BY <1>1, <1>2 DEF Queries
    <3> QED BY <1>2, <2>1, <3>1 DEF Queries
  <2>3. UNCHANGED <<log, symbols, nextSequence, writing, serving>> /\ indexed' = Len(log)
    BY <1>3 DEF Refresh, fileVars, brokerVars
  <2>4. LogGrows
    BY <1>1, <2>3, LogStays
  <2>5. indexed' <= Len(log')
    BY <1>1, <2>3
  <2> QED BY <1>1, <2>1, <2>2, <2>3, <2>4, <2>5 DEF HistoryType
<1>4. CASE RefreshFails \/ ReadPageFails
  <2>1. UNCHANGED <<log, symbols, nextSequence, writing, indexed>> /\ serving' = FALSE
        /\ query' = [query EXCEPT !.step = "failed"]
    BY <1>4 DEF RefreshFails, ReadPageFails, ServiceEnds, fileVars, tableVars
  <2>2. query' \in Queries /\ query'.step = "failed"
    BY <1>2, <2>1 DEF Queries
  <2>3. LogGrows
    BY <1>1, <2>1, LogStays
  <2> QED BY <1>1, <2>1, <2>2, <2>3, TypeKept
<1>5. CASE ReplyFails
  <2>1. UNCHANGED <<log, symbols, writing, indexed>> /\ serving' = FALSE
        /\ nextSequence' = nextSequence + 1
        /\ query' = [query EXCEPT !.step = "unanswered"]
    BY <1>5 DEF ReplyFails, fileVars, tableVars
  <2>2. query' \in Queries /\ query'.step = "unanswered"
    BY <1>2, <2>1 DEF Queries
  <2>3. LogGrows
    BY <1>1, <2>1, LogStays
  <2>4. nextSequence' \in Nat
    BY <1>1, <2>1
  <2> QED BY <1>1, <2>1, <2>2, <2>3, <2>4, TypeKept
<1>6. CASE ReadPage
  <2>1. UNCHANGED <<symbols, writing, serving, indexed>> /\ Capture(ReplyTopic)
    BY <1>6 DEF ReadPage, tableVars
  <2>2. ReplyTopic \in HistoryTopics
    BY DEF HistoryTopics
  <2>3. LogGrows /\ nextSequence' \in Nat
    BY <2>1, <2>2, Captured
  <2>4. query' \in Queries \cup {Idle} /\ query'.step # "read"
    BY <1>6, PageTyped DEF ReadPage
  <2> QED BY <1>1, <2>1, <2>3, <2>4, TypeKept
<1> QED BY <1>3, <1>4, <1>5, <1>6

LEMMA RegisterTyped ==
  ASSUME HistoryType, NEW topic \in Topics, RegisterTopic(topic)
  PROVE  HistoryType' /\ LogGrows
<1>1. /\ log \in Seq(Records) /\ symbols \in Seq(AllTopics) /\ Len(symbols) + 1 \in Nat
      /\ topic \in AllTopics
  BY LenProperties DEF HistoryType, AllTopics
<1>2. /\ symbols' = Append(symbols, topic)
      /\ UNCHANGED <<nextSequence, writing, serving, query, indexed>>
  BY DEF RegisterTopic, tableVars, queryVars
<1>3. Registration(Len(symbols) + 1, topic) \in Records
  BY <1>1 DEF Registration, Records
<1>4. LogGrows
  <2>1. log' = log \/ AppendText(Registration(Len(symbols) + 1, topic))
    BY DEF RegisterTopic, fileVars
  <2> QED BY <1>1, <1>3, <2>1, TextAppended, LogStays
<1>5. /\ symbols' \in Seq(AllTopics)
      /\ \A i \in DOMAIN symbols : i \in DOMAIN symbols' /\ symbols'[i] = symbols[i]
  BY <1>1, <1>2, Appended
<1>6. \A t \in HistoryTopics : \E i \in DOMAIN symbols' : symbols'[i] = t
  BY <1>5 DEF HistoryType
<1> QED BY <1>2, <1>4, <1>5, <1>6 DEF HistoryType, LogGrows

LEMMA HistoryTyped ==
  ASSUME HistoryType, [HistoryNext]_historyVars
  PROVE  HistoryType' /\ (LogGrows \/ Restarted)
<1>1. CASE UNCHANGED historyVars
  <2>1. UNCHANGED <<log, symbols, nextSequence, writing, serving, query, indexed>>
    BY <1>1 DEF historyVars, fileVars, brokerVars, tableVars, queryVars
  <2> QED BY <2>1, LogStays DEF HistoryType
<1>2. CASE HistoryNext
  BY <1>2, RegisterTyped, WriterTyped, RestartTyped, QueryTyped, ServiceTyped DEF HistoryNext
<1> QED BY <1>1, <1>2

------------------------------------------------------------------------------
(* The names of the IDs *)

LEMMA NamesKept ==
  ASSUME HistoryType, LogGrows, NamesInv, UNCHANGED <<indexed, names>>
  PROVE  NamesInv'
<1>1. indexed \in Nat /\ indexed <= Len(log)
  BY DEF HistoryType
<1>2. \A i \in 1..indexed : i \in 1..Len(log)
  BY <1>1 DEF LogGrows
<1>3. \A i \in 1..indexed : /\ log'[i].id = log[i].id /\ log'[i].topic = log[i].topic
                            /\ Registers(i)' <=> Registers(i)
  BY <1>2 DEF LogGrows, Registers, IsMessage
<1> QED BY <1>3 DEF NamesInv

LEMMA NamesRead ==
  ASSUME HistoryType, NamesInv, Refresh
  PROVE  NamesInv'
<1>1. /\ indexed \in Nat /\ Len(log) \in Nat /\ log' = log /\ indexed' = Len(log)
      /\ names' = NamesWith(NewRegistrations) /\ NoConflict
  BY LenProperties DEF HistoryType, Refresh, fileVars
<1> DEFINE new == NewRegistrations
<1>2. \A i \in 1..Len(log) : Registers(i) /\ i > indexed => log[i] \in new
  <2> SUFFICES ASSUME NEW i \in 1..Len(log), Registers(i), i > indexed
               PROVE  log[i] \in new
    OBVIOUS
  <2>1. i \in (indexed + 1)..Len(log)
    BY <1>1
  <2>2. log[i] \in NewRecords
    BY <2>1 DEF NewRecords
  <2>3. log[i] \in Records
    BY DEF HistoryType
  <2>4. log[i].kind = "registration"
    BY <2>3 DEF Registers, IsMessage, Records
  <2> QED BY <2>2, <2>4 DEF NewRegistrations
<1>3. \A r \in new : \E i \in 1..Len(log) : Registers(i) /\ log[i] = r
  <2> SUFFICES ASSUME NEW r \in new
               PROVE  \E i \in 1..Len(log) : Registers(i) /\ log[i] = r
    OBVIOUS
  <2>1. r \in NewRecords /\ r.kind = "registration"
    BY DEF NewRegistrations
  <2>2. PICK i \in (indexed + 1)..Len(log) : r = log[i]
    BY <2>1 DEF NewRecords
  <2>3. i \in 1..Len(log)
    BY <1>1
  <2> QED BY <2>1, <2>2, <2>3 DEF Registers, IsMessage
<1>4. /\ \A r, s \in new : (r.id = s.id) <=> (r.topic = s.topic)
      /\ \A r \in new, id \in DOMAIN names : (r.id = id) <=> (r.topic = names[id])
  BY <1>1 DEF NoConflict
<1>5. DOMAIN names' = DOMAIN names \cup {r.id : r \in new}
  BY <1>1 DEF NamesWith
<1>6. \A id \in DOMAIN names' :
        IF \E r \in new : r.id = id
        THEN \E r \in new : r.id = id /\ names'[id] = r.topic
        ELSE id \in DOMAIN names /\ names'[id] = names[id]
  <2> SUFFICES ASSUME NEW id \in DOMAIN names'
               PROVE  IF \E r \in new : r.id = id
                      THEN \E r \in new : r.id = id /\ names'[id] = r.topic
                      ELSE id \in DOMAIN names /\ names'[id] = names[id]
    OBVIOUS
  <2>1. names'[id] = IF \E r \in new : r.id = id
                     THEN (CHOOSE r \in new : r.id = id).topic ELSE names[id]
    BY <1>1, <1>5 DEF NamesWith
  <2> HIDE DEF new
  <2> QED BY <1>5, <2>1
<1> HIDE DEF new
<1>7. ASSUME NEW i \in 1..Len(log), Registers(i)
      PROVE  log[i].id \in DOMAIN names' /\ names'[log[i].id] = log[i].topic
  <2>1. CASE i > indexed
    <3>1. log[i] \in new
      BY <1>2, <1>7, <2>1
    <3>2. log[i].id \in DOMAIN names'
      BY <1>5, <3>1
    <3> QED BY <1>4, <1>6, <3>1, <3>2
  <2>2. CASE i <= indexed
    <3>1. i \in 1..indexed
      BY <1>1, <2>2
    <3>2. log[i].id \in DOMAIN names /\ names[log[i].id] = log[i].topic
      BY <1>7, <3>1 DEF NamesInv
    <3>3. log[i].id \in DOMAIN names'
      BY <1>5, <3>2
    <3> QED BY <1>4, <1>6, <3>2, <3>3
  <2> QED BY <1>1, <2>1, <2>2
<1>8. ASSUME NEW id \in DOMAIN names'
      PROVE  \E i \in 1..Len(log) : /\ Registers(i) /\ log[i].id = id
                                    /\ log[i].topic = names'[id]
  <2>1. CASE \E r \in new : r.id = id
    <3>1. PICK r \in new : r.id = id /\ names'[id] = r.topic
      BY <1>6, <2>1
    <3> QED BY <1>3, <3>1
  <2>2. CASE ~\E r \in new : r.id = id
    <3>1. id \in DOMAIN names /\ names'[id] = names[id]
      BY <1>6, <2>2
    <3>2. PICK i \in 1..indexed : Registers(i) /\ log[i].id = id /\ log[i].topic = names[id]
      BY <3>1 DEF NamesInv
    <3>3. i \in 1..Len(log)
      BY <1>1 DEF HistoryType
    <3> QED BY <3>1, <3>2, <3>3
  <2> QED BY <2>1, <2>2
<1>9. \A i : Registers(i)' <=> Registers(i)
  BY <1>1 DEF Registers
<1> QED BY <1>1, <1>7, <1>8, <1>9 DEF NamesInv

(* What the other steps leave alone *)
LEMMA TableStays ==
  ASSUME [HistoryNext]_historyVars
  PROVE  Refresh \/ Restarted \/ UNCHANGED <<indexed, names>>
<1>1. CASE UNCHANGED historyVars
  BY <1>1 DEF historyVars, tableVars
<1>2. ASSUME NEW topic, RegisterTopic(topic)
      PROVE  UNCHANGED <<indexed, names>>
  BY <1>2 DEF RegisterTopic, tableVars
<1>3. ASSUME NEW w, WriterStep(w)
      PROVE  UNCHANGED <<indexed, names>>
  BY <1>3 DEF WriterStep, TakeSequence, RefuseMessage, WriteMessage,
              WriteFirstPart, WriteRest, tableVars
<1>4. CASE Restart
  BY <1>4 DEF Restart, Restarted
<1>5. ASSUME NEW topic, NEW order, NEW maxCount, SelectAll(topic, order, maxCount)
      PROVE  UNCHANGED <<indexed, names>>
  BY <1>5 DEF SelectAll, tableVars
<1>6. CASE \/ SendSelection \/ SendSelectionFails \/ CancelSelectAll
           \/ SelectAllReturns
  BY <1>6 DEF SendSelection, SendSelectionFails, CancelSelectAll,
              SelectAllReturns, tableVars
<1>7. CASE RefreshFails \/ ReadPage \/ ReadPageFails \/ ReplyFails
  BY <1>7 DEF RefreshFails, ReadPage, ReadPageFails, ReplyFails, ServiceEnds,
              tableVars
<1> QED BY <1>1, <1>2, <1>3, <1>4, <1>5, <1>6, <1>7 DEF HistoryNext

LEMMA NamesStep ==
  ASSUME HistoryType, NamesInv, [HistoryNext]_historyVars
  PROVE  NamesInv'
<1>1. CASE Refresh
  BY <1>1, NamesRead
<1>2. CASE Restarted
  <2>1. DOMAIN names' = {} /\ indexed' = 0 /\ 1..0 = {}
    BY <1>2 DEF Restarted
  <2> QED BY <2>1 DEF NamesInv
<1>3. CASE UNCHANGED <<indexed, names>> /\ LogGrows
  BY <1>3, NamesKept
<1> QED BY <1>1, <1>2, <1>3, TableStays, HistoryTyped

(* A message that was read has the name of its registration. *)
LEMMA NamedAsAnnounced ==
  ASSUME HistoryType, NamesInv, NEW i \in 1..indexed, Announced(i)
  PROVE  log[i].id \in DOMAIN names /\ names[log[i].id] = log[i].topic
<1>1. PICK j \in 1..(i - 1) : /\ Registers(j) /\ log[j].id = log[i].id
                              /\ log[j].topic = log[i].topic
  BY DEF Announced
<1>2. j \in 1..indexed
  BY DEF HistoryType
<1> QED BY <1>1, <1>2 DEF NamesInv

LEMMA ExplainedAnnounced ==
  ASSUME NEW i \in Nat, Explained(i)
  PROVE  Announced(i)
<1>1. PICK j \in 1..(i - 1) : log[j] = Registration(log[i].id, log[i].topic)
  BY DEF Explained
<1>2. Registers(j) /\ log[j].id = log[i].id /\ log[j].topic = log[i].topic
  BY <1>1 DEF Registers, IsMessage, Registration
<1> QED BY <1>2 DEF Announced

LEMMA NamesAgree ==
  ASSUME HistoryType, NamesInv
  PROVE  NeverMisnamed
<1> SUFFICES ASSUME NEW i \in 1..indexed, Explained(i)
             PROVE  names[log[i].id] = log[i].topic
  BY DEF NeverMisnamed
<1>1. Announced(i)
  BY ExplainedAnnounced
<1> QED BY <1>1, NamedAsAnnounced

------------------------------------------------------------------------------
(* What ends the broker *)

LEMMA Halted ==
  ASSUME HistoryType, EndedInv, ~serving, [HistoryNext]_historyVars
  PROVE  Restarted \/ UNCHANGED <<log, serving, query>>
<1>1. CASE UNCHANGED historyVars
  BY <1>1 DEF historyVars, fileVars, brokerVars, queryVars
<1>2. ASSUME NEW topic PROVE ~RegisterTopic(topic)
  BY DEF RegisterTopic
<1>3. ASSUME NEW w PROVE ~WriterStep(w)
  BY DEF WriterStep, TakeSequence, RefuseMessage, WriteMessage, WriteFirstPart,
         WriteRest
<1>4. CASE Restart
  BY <1>4 DEF Restart, Restarted
<1>5. ASSUME NEW topic, NEW order, NEW maxCount PROVE ~SelectAll(topic, order, maxCount)
  BY DEF SelectAll
<1>6. /\ ~SendSelection /\ ~SendSelectionFails /\ ~SelectAllReturns
      /\ ~Refresh /\ ~RefreshFails /\ ~ReadPage /\ ~ReadPageFails /\ ~ReplyFails
  BY DEF SendSelection, SendSelectionFails, SelectAllReturns, Refresh,
         RefreshFails, ReadPage, ReadPageFails, ReplyFails
<1>7. ~CancelSelectAll
  BY DEF CancelSelectAll, EndedInv
<1> QED BY <1>1, <1>2, <1>3, <1>4, <1>5, <1>6, <1>7 DEF HistoryNext

LEMMA ServingGoesOn ==
  ASSUME serving, serving \in BOOLEAN, [HistoryNext]_historyVars
  PROVE  serving' \/ RefreshFails \/ ReadPageFails \/ ReplyFails
<1>1. CASE UNCHANGED historyVars
  BY <1>1 DEF historyVars, brokerVars
<1>2. ASSUME NEW topic, RegisterTopic(topic) PROVE serving'
  BY <1>2 DEF RegisterTopic
<1>3. ASSUME NEW w, WriterStep(w) PROVE serving'
  BY <1>3 DEF WriterStep, TakeSequence, RefuseMessage, WriteMessage,
              WriteFirstPart, WriteRest
<1>4. CASE Restart
  BY <1>4 DEF Restart
<1>5. ASSUME NEW topic, NEW order, NEW maxCount, SelectAll(topic, order, maxCount)
      PROVE  serving'
  BY <1>5 DEF SelectAll, brokerVars
<1>6. CASE \/ SendSelection \/ SendSelectionFails \/ CancelSelectAll
           \/ SelectAllReturns \/ Refresh \/ ReadPage
  BY <1>6 DEF SendSelection, SendSelectionFails, CancelSelectAll,
              SelectAllReturns, Refresh, ReadPage, brokerVars
<1> QED BY <1>1, <1>2, <1>3, <1>4, <1>5, <1>6 DEF HistoryNext

(* An ID or a topic that cannot be bound has another line in the file. *)
LEMMA ConflictHasTwoLines ==
  ASSUME HistoryType, NamesInv, ~NoConflict
  PROVE  \E i, j \in Registered : (log[i].id = log[j].id) # (log[i].topic = log[j].topic)
<1>1. /\ indexed \in Nat /\ Len(log) \in Nat /\ indexed <= Len(log)
      /\ DOMAIN log = 1..Len(log)
  BY LenProperties DEF HistoryType
<1>2. \A i \in 1..Len(log) : Registers(i) <=> i \in Registered
  BY <1>1 DEF Registered, Registers
<1>3. \A r \in NewRegistrations : \E i \in Registered : log[i] = r
  <2> SUFFICES ASSUME NEW r \in NewRegistrations
               PROVE  \E i \in Registered : log[i] = r
    OBVIOUS
  <2>1. r \in NewRecords /\ r.kind = "registration"
    BY DEF NewRegistrations
  <2>2. PICK i \in (indexed + 1)..Len(log) : r = log[i]
    BY <2>1 DEF NewRecords
  <2>3. i \in 1..Len(log)
    BY <1>1
  <2> QED BY <1>2, <2>1, <2>2, <2>3 DEF Registers, IsMessage
<1>4. CASE \E r, s \in NewRegistrations : ~((r.id = s.id) <=> (r.topic = s.topic))
  <2>1. PICK r, s \in NewRegistrations : ~((r.id = s.id) <=> (r.topic = s.topic))
    BY <1>4
  <2>2. PICK i \in Registered : log[i] = r
    BY <1>3
  <2>3. PICK j \in Registered : log[j] = s
    BY <1>3
  <2>4. (log[i].id = log[j].id) # (log[i].topic = log[j].topic)
    BY <2>1, <2>2, <2>3
  <2> QED BY <2>4
<1>5. CASE \E r \in NewRegistrations, id \in DOMAIN names :
             ~((r.id = id) <=> (r.topic = names[id]))
  <2>1. PICK r \in NewRegistrations, id \in DOMAIN names :
          ~((r.id = id) <=> (r.topic = names[id]))
    BY <1>5
  <2>2. PICK i \in Registered : log[i] = r
    BY <1>3
  <2>3. PICK j \in 1..indexed : Registers(j) /\ log[j].id = id /\ log[j].topic = names[id]
    BY <2>1 DEF NamesInv
  <2>4. j \in Registered
    BY <1>1, <1>2, <2>3
  <2>5. (log[i].id = log[j].id) # (log[i].topic = log[j].topic)
    BY <2>1, <2>2, <2>3
  <2> QED BY <2>4, <2>5
<1> QED BY <1>4, <1>5 DEF NoConflict

LEMMA EndHasACause ==
  ASSUME HistoryType, NamesInv, serving,
         RefreshFails \/ ReadPageFails \/ ReplyFails
  PROVE  EndedInv'
<1>1. query \in Queries
  BY QueryShape DEF RefreshFails, ReadPageFails, ReplyFails
<1>2. log' = log
  BY DEF RefreshFails, ReadPageFails, ReplyFails, ServiceEnds, fileVars
<1>3. CASE ReplyFails
  <2>1. query' = [query EXCEPT !.step = "unanswered"]
    BY <1>3 DEF ReplyFails
  <2>2. query'.step = "unanswered"
    BY <1>1, <2>1 DEF Queries
  <2> QED BY <2>2 DEF EndedInv, EndsForACause
<1>4. CASE RefreshFails \/ ReadPageFails
  <2>1. query' = [query EXCEPT !.step = "failed"]
    BY <1>4 DEF RefreshFails, ReadPageFails, ServiceEnds
  <2>2. query'.step = "failed" /\ query'.maxCount = query.maxCount
    BY <1>1, <2>1 DEF Queries
  <2>3. CASE RefreshFails /\ ~ValidSelection
    <3>1. query.maxCount = 0
      BY <1>1, <2>3 DEF ValidSelection, Queries
    <3> QED BY <2>2, <3>1 DEF EndedInv, EndsForACause
  <2>4. CASE RefreshFails /\ ~NewRecordsReadable
    <3>1. PICK i \in (indexed + 1)..Len(log) : ~log[i].readable
      BY <2>4 DEF NewRecordsReadable, NewRecords
    <3>2. i \in DOMAIN log
      BY DEF HistoryType
    <3> QED BY <1>2, <2>2, <3>1, <3>2 DEF EndedInv, EndsForACause
  <2>5. CASE RefreshFails /\ ~NoConflict
    <3>1. \E i, j \in Registered :
            (log[i].id = log[j].id) # (log[i].topic = log[j].topic)
      BY <2>5, ConflictHasTwoLines
    <3>2. Registered' = Registered
      BY <1>2 DEF Registered
    <3> QED BY <1>2, <2>2, <3>1, <3>2 DEF EndedInv, EndsForACause
  <2>6. CASE ReadPageFails
    <3>1. PICK page \in SUBSET Candidates : ~Decodable(page)
      BY <2>6 DEF ReadPageFails
    <3>2. PICK i \in page : log[i].id \notin DOMAIN names
      BY <3>1 DEF Decodable
    <3>3. i \in 1..indexed /\ IsMessage(log[i])
      BY <3>1, <3>2 DEF Candidates, Selected
    <3>4. i \in Nat /\ i \in 1..Len(log)
      BY <3>3 DEF HistoryType
    <3>5. ~Explained(i)
      BY <3>2, <3>3, <3>4, ExplainedAnnounced, NamedAsAnnounced
    <3>6. ~AllExplained
      BY <3>3, <3>4, <3>5 DEF AllExplained
    <3>7. ~AllExplained'
      BY <1>2, <3>6 DEF AllExplained, Explained
    <3> QED BY <2>2, <3>7 DEF EndedInv, EndsForACause
  <2> QED BY <1>4, <2>3, <2>4, <2>5, <2>6 DEF RefreshFails
<1> QED BY <1>3, <1>4

LEMMA EndedStep ==
  ASSUME HistoryType, NamesInv, EndedInv, [HistoryNext]_historyVars
  PROVE  EndedInv'
<1>1. CASE serving'
  BY <1>1 DEF EndedInv, EndsForACause
<1>2. CASE ~serving /\ ~serving'
  <2>1. UNCHANGED <<log, serving, query>>
    BY <1>2, Halted DEF Restarted
  <2> QED BY <2>1 DEF EndedInv, EndsForACause, Registered, AllExplained, Explained
<1>3. CASE serving /\ ~serving'
  <2>1. RefreshFails \/ ReadPageFails \/ ReplyFails
    BY <1>3, ServingGoesOn DEF HistoryType
  <2> QED BY <1>3, <2>1, EndHasACause
<1> QED BY <1>1, <1>2, <1>3

------------------------------------------------------------------------------
(* The pages *)

LEMMA LinesStay ==
  ASSUME LogGrows, NEW i \in 1..Len(log)
  PROVE  /\ log'[i].sequence = log[i].sequence /\ log'[i].topic = log[i].topic
         /\ log'[i].id = log[i].id /\ log'[i].kind = log[i].kind
         /\ IsMessage(log'[i]) <=> IsMessage(log[i])
BY DEF LogGrows, IsMessage

(* Lines that were in order are in order while the file grows. *)
LEMMA OrderOfPrefix ==
  ASSUME LogGrows, InGoodOrder'
  PROVE  InGoodOrder
<1>1. /\ Len(log) \in Nat /\ Len(log') \in Nat /\ Len(log) <= Len(log')
  BY DEF LogGrows
<1>2. \A i \in 1..Len(log) : i \in 1..Len(log') /\ i \in Nat
  BY <1>1
<1>3. InSequence
  <2> SUFFICES ASSUME NEW i \in 1..Len(log), NEW j \in 1..Len(log), i < j,
                      IsMessage(log[i]), IsMessage(log[j])
               PROVE  log[i].sequence < log[j].sequence
    BY DEF InSequence
  <2>1. IsMessage(log'[i]) /\ IsMessage(log'[j])
    BY LinesStay
  <2>2. log'[i].sequence < log'[j].sequence
    BY <1>2, <2>1 DEF InGoodOrder, InSequence
  <2> QED BY <2>2, LinesStay
<1>4. ASSUME NEW i \in 1..Len(log), IsMessage(log[i]) PROVE Announced(i)
  <2>1. IsMessage(log'[i])
    BY <1>4, LinesStay
  <2>2. PICK j \in 1..(i - 1) : /\ ~IsMessage(log'[j]) /\ log'[j].id = log'[i].id
                                /\ log'[j].topic = log'[i].topic
    BY <1>2, <2>1 DEF InGoodOrder, Announced, Registers
  <2>3. j \in 1..Len(log)
    BY <1>1
  <2> QED BY <2>2, <2>3, LinesStay DEF Announced, Registers
<1> QED BY <1>3, <1>4 DEF InGoodOrder

LEMMA GoodOrder ==
  ASSUME InSequence, AllExplained
  PROVE  InGoodOrder
<1> SUFFICES ASSUME NEW i \in 1..Len(log), IsMessage(log[i])
             PROVE  Announced(i)
  BY DEF InGoodOrder
<1>1. i \in Nat /\ Explained(i)
  BY DEF AllExplained
<1> QED BY <1>1, ExplainedAnnounced

(* The same selection, at another step that is no end of it *)
GoesOn == /\ query \in Queries /\ query' \in Queries
          /\ query'.topic = query.topic /\ query'.order = query.order
          /\ query'.cursor = query.cursor /\ query'.first = query.first
          /\ Asking' => Asking
          /\ query'.step # "done"
          /\ query'.step = "read" => query.step = "read"

LEMMA PageBounds ==
  ASSUME HistoryType, PagesInv, query \in Queries
  PROVE  /\ indexed \in Nat /\ Len(log) \in Nat /\ indexed <= Len(log)
         /\ query.first \in Nat /\ query.first <= indexed
         /\ query.order \in Orders /\ query.step # "idle"
         /\ Reached \in Nat /\ Reached <= indexed
BY LenProperties DEF HistoryType, PagesInv, Queries, Reached

LEMMA WantedStays ==
  ASSUME LogGrows, NEW i \in 1..Len(log), query'.topic = query.topic
  PROVE  Wanted(i)' <=> Wanted(i)
BY LinesStay DEF Wanted

LEMMA AfterPagesStays ==
  ASSUME HistoryType, PagesInv, LogGrows, query \in Queries, NEW c \in 1..indexed,
         AfterPages(c), collected' = collected, query'.topic = query.topic,
         query'.order = query.order, query'.cursor = query.cursor,
         query'.first = query.first
  PROVE  AfterPages(c)'
<1>1. Covered(c)' = Covered(c)
  BY DEF Covered
<1>2. \A i \in Covered(c) : i \in 1..Len(log)
  BY PageBounds DEF Covered
<1>3. c \in 1..Len(log)
  BY PageBounds
<1>4. {i \in Covered(c) : Wanted(i)}' = {i \in Covered(c) : Wanted(i)}
  BY <1>1, <1>2, WantedStays
<1>5. log'[c].sequence = log[c].sequence
  BY <1>3, LinesStay
<1> QED BY <1>4, <1>5 DEF AfterPages

(* Steps of the other actors, and those of the selection before its end *)
LEMMA PagesKept ==
  ASSUME HistoryType, PagesInv, LogGrows, UNCHANGED <<indexed, collected, ordered>>,
         GoesOn
  PROVE  PagesInv'
<1>1. query'.step # "idle" => query'.first <= indexed'
  BY PageBounds DEF GoesOn
<1>2. Asking' /\ query'.cursor = NoCursor => collected' = {}
  BY DEF GoesOn, PagesInv
<1>3. query'.step = "read" /\ query'.cursor = NoCursor => query'.first = indexed'
  BY DEF GoesOn, PagesInv
<1>4. ASSUME InGoodOrder', Asking'
      PROVE  /\ ordered' /\ collected' \subseteq 1..indexed'
             /\ query'.cursor # NoCursor => \E c \in 1..indexed' : AfterPages(c)'
  <2>1. InGoodOrder /\ Asking
    BY <1>4, OrderOfPrefix DEF GoesOn
  <2>2. /\ ordered /\ collected \subseteq 1..indexed
        /\ query.cursor # NoCursor => \E c \in 1..indexed : AfterPages(c)
    BY <2>1 DEF PagesInv
  <2> QED BY <2>2, AfterPagesStays DEF GoesOn
<1>5. Exact'
  BY DEF Exact, GoesOn
<1> QED BY <1>1, <1>2, <1>3, <1>4, <1>5 DEF PagesInv

LEMMA ExactStays ==
  ASSUME HistoryType, PagesInv, LogGrows, UNCHANGED <<indexed, collected, ordered, query>>,
         query \in Queries, Exact
  PROVE  Exact'
<1>1. Reached' = Reached
  BY DEF Reached
<1>2. \A i \in 1..Reached : i \in 1..Len(log)
  BY PageBounds
<1>3. {i \in 1..Reached : Wanted(i)}' = {i \in 1..Reached : Wanted(i)}
  BY <1>1, <1>2, WantedStays
<1> QED BY <1>3 DEF Exact

LEMMA PagesIdle ==
  ASSUME query' = Idle
  PROVE  PagesInv'
<1>1. query'.step = "idle"
  BY DEF Idle
<1> QED BY <1>1 DEF PagesInv, Asking, Exact

LEMMA PagesOfOthers ==
  ASSUME HistoryType, PagesInv, LogGrows, UNCHANGED <<indexed, collected, ordered, query>>
  PROVE  PagesInv'
<1>1. CASE query = Idle
  BY <1>1, PagesIdle
<1>2. CASE query \in Queries
  <2>1. query'.step # "idle" => query'.first <= indexed'
    BY <1>2, PageBounds
  <2>2. Asking' <=> Asking
    BY DEF Asking
  <2>3. /\ Asking' /\ query'.cursor = NoCursor => collected' = {}
        /\ query'.step = "read" /\ query'.cursor = NoCursor => query'.first = indexed'
    BY <2>2 DEF PagesInv
  <2>4. ASSUME InGoodOrder'
        PROVE  /\ Asking' =>
                  /\ ordered' /\ collected' \subseteq 1..indexed'
                  /\ query'.cursor # NoCursor => \E c \in 1..indexed' : AfterPages(c)'
               /\ Exact'
    <3>1. InGoodOrder
      BY <2>4, OrderOfPrefix
    <3>2. /\ Asking => /\ ordered /\ collected \subseteq 1..indexed
                       /\ query.cursor # NoCursor => \E c \in 1..indexed : AfterPages(c)
          /\ Exact
      BY <3>1 DEF PagesInv
    <3> QED BY <1>2, <2>2, <3>2, AfterPagesStays, ExactStays
  <2> QED BY <2>1, <2>3, <2>4 DEF PagesInv
<1> QED BY <1>1, <1>2 DEF HistoryType

LEMMA PagesAtStart ==
  ASSUME HistoryType, NEW topic \in AskedTopics,
         NEW order \in Orders, NEW maxCount \in PageSizes,
         SelectAll(topic, order, maxCount)
  PROVE  PagesInv'
<1>1. /\ query' = [step |-> "send", topic |-> topic, order |-> order,
                   maxCount |-> maxCount, cursor |-> NoCursor, first |-> 0,
                   pages |-> 0, wanted |-> TRUE]
      /\ collected' = {} /\ ordered' = TRUE /\ indexed' = indexed /\ indexed \in Nat
  BY DEF SelectAll, tableVars, HistoryType
<1>2. query'.step = "send" /\ query'.cursor = NoCursor /\ query'.first = 0
  BY <1>1
<1> QED BY <1>1, <1>2 DEF PagesInv, Exact

LEMMA PagesRefreshed ==
  ASSUME HistoryType, PagesInv, Refresh
  PROVE  PagesInv'
<1>1. query \in Queries
  BY QueryShape DEF Refresh
<1>2. /\ log' = log /\ collected' = collected /\ ordered' = ordered
      /\ indexed' = Len(log) /\ query.step = "ask"
      /\ query' = [query EXCEPT !.step = "read",
                                !.first = IF query.cursor = NoCursor THEN Len(log) ELSE @]
  BY DEF Refresh, fileVars
<1>3. /\ query'.step = "read" /\ query'.topic = query.topic /\ query'.order = query.order
      /\ query'.cursor = query.cursor
      /\ query'.first = IF query.cursor = NoCursor THEN Len(log) ELSE query.first
  BY <1>1, <1>2 DEF Queries
<1>4. /\ indexed \in Nat /\ Len(log) \in Nat /\ indexed <= indexed'
      /\ query.first <= indexed /\ query.first \in Nat
  BY <1>1, <1>2, PageBounds
<1>5. LogGrows
  BY <1>2, LogStays DEF HistoryType
<1>6. query'.first <= indexed'
  BY <1>2, <1>3, <1>4
<1>7. query'.cursor = NoCursor => query'.first = indexed' /\ collected' = {}
  BY <1>2, <1>3 DEF PagesInv, Asking
<1>8. ASSUME InGoodOrder'
      PROVE  /\ ordered' /\ collected' \subseteq 1..indexed'
             /\ query'.cursor # NoCursor => \E c \in 1..indexed' : AfterPages(c)'
  <2>1. InGoodOrder /\ Asking
    BY <1>2, <1>5, <1>8, OrderOfPrefix DEF Asking
  <2>2. /\ ordered /\ collected \subseteq 1..indexed
        /\ query.cursor # NoCursor => \E c \in 1..indexed : AfterPages(c)
    BY <2>1 DEF PagesInv
  <2>3. \A i \in 1..indexed : i \in 1..indexed'
    BY <1>2, <1>4
  <2>4. ASSUME query.cursor # NoCursor
        PROVE  \E c \in 1..indexed' : AfterPages(c)'
    <3>1. PICK c \in 1..indexed : AfterPages(c)
      BY <2>2, <2>4
    <3>2. query'.first = query.first
      BY <1>3, <2>4
    <3>3. AfterPages(c)'
      BY <1>1, <1>2, <1>3, <1>5, <3>1, <3>2, AfterPagesStays
    <3> QED BY <2>3, <3>3
  <2> QED BY <1>2, <1>3, <2>2, <2>3, <2>4
<1>9. Exact'
  BY <1>3 DEF Exact
<1> QED BY <1>3, <1>6, <1>7, <1>8, <1>9 DEF PagesInv

(* In a file that is in order, the sequence numbers are the places. *)
LEMMA SelectedIsWanted ==
  ASSUME HistoryType, NamesInv, InGoodOrder, query \in Queries,
         NEW i \in 1..indexed
  PROVE  Selected(i) <=>
         /\ Wanted(i)
         /\ query.cursor # NoCursor =>
              IF query.order = "descending" THEN log[i].sequence < query.cursor
                                            ELSE log[i].sequence > query.cursor
<1>1. i \in 1..Len(log)
  BY DEF HistoryType
<1>2. IsMessage(log[i]) =>
      log[i].id \in DOMAIN names /\ names[log[i].id] = log[i].topic
  BY <1>1, NamedAsAnnounced DEF InGoodOrder
<1>3. IsMessage(log[i]) =>
      (Wanted(i) <=> query.topic = AnyTopic \/ names[log[i].id] = query.topic)
  BY <1>2 DEF Wanted
<1>4. Wanted(i) => IsMessage(log[i])
  BY DEF Wanted
<1> QED BY <1>2, <1>3, <1>4 DEF Selected

LEMMA CursorIsPlace ==
  ASSUME HistoryType, InGoodOrder, NEW i \in 1..indexed, NEW c \in 1..indexed,
         IsMessage(log[i]), IsMessage(log[c])
  PROVE  /\ log[i].sequence < log[c].sequence <=> i < c
         /\ log[i].sequence > log[c].sequence <=> i > c
<1>1. i \in 1..Len(log) /\ c \in 1..Len(log) /\ i \in Nat /\ c \in Nat
  BY DEF HistoryType
<1>2. log[i].sequence \in Nat /\ log[c].sequence \in Nat
  BY <1>1, Line DEF HistoryType
<1>3. /\ i < c => log[i].sequence < log[c].sequence
      /\ c < i => log[c].sequence < log[i].sequence
      /\ i = c => log[c].sequence = log[i].sequence
  BY <1>1 DEF InGoodOrder, InSequence
<1> QED BY <1>1, <1>2, <1>3

(* What is still to be selected is wanted and comes after what there is.   *)
LEMMA CandidatesGoOn ==
  ASSUME HistoryType, NamesInv, PagesInv, InGoodOrder,
         query.step = "read"
  PROVE  /\ \A i \in 1..Reached : i \in collected \cup Candidates <=> Wanted(i)
         /\ collected \cup Candidates \subseteq 1..Reached
         /\ \A i \in collected, j \in Candidates : Before(i, j)
<1>1. query \in Queries
  BY QueryShape
<1>2. /\ indexed \in Nat /\ query.first \in Nat /\ query.first <= indexed
      /\ Reached \in Nat /\ Reached <= indexed
  BY <1>1, PageBounds
<1>3. Candidates \subseteq 1..indexed
  BY DEF Candidates
<1>4. \A i \in 1..Reached : i \in 1..indexed
  BY <1>2
<1>5. CASE query.cursor = NoCursor
  <2>1. collected = {} /\ query.first = indexed /\ Reached = indexed
    BY <1>5 DEF PagesInv, Asking, Reached
  <2>2. \A i \in 1..indexed : i \in Candidates <=> Wanted(i)
    BY <1>1, <1>5, SelectedIsWanted DEF Candidates
  <2> QED BY <1>3, <2>1, <2>2
<1>6. CASE query.cursor # NoCursor
  <2>1. PICK c \in 1..indexed : AfterPages(c)
    BY <1>6 DEF PagesInv, Asking
  <2>2. c \in Covered(c) /\ IsMessage(log[c]) /\ query.cursor = log[c].sequence
    BY <2>1 DEF AfterPages, Wanted
  <2>3. c \in Nat /\ (query.order = "descending" => c <= query.first)
    BY <1>2, <2>2 DEF Covered
  <2>4. \A i \in 1..indexed : i \in Candidates <=> Wanted(i) /\ Before(c, i)
    <3> SUFFICES ASSUME NEW i \in 1..indexed
                 PROVE  i \in Candidates <=> Wanted(i) /\ Before(c, i)
      OBVIOUS
    <3>1. i \in Candidates <=>
            /\ Wanted(i)
            /\ IF query.order = "descending" THEN log[i].sequence < log[c].sequence
                                             ELSE log[i].sequence > log[c].sequence
      BY <1>1, <1>6, <2>2, SelectedIsWanted DEF Candidates
    <3>2. Wanted(i) => /\ log[i].sequence < log[c].sequence <=> i < c
                       /\ log[i].sequence > log[c].sequence <=> i > c
      BY <2>2, CursorIsPlace DEF Wanted
    <3>3. Before(c, i) <=> IF query.order = "descending" THEN i < c ELSE i > c
      BY <2>3, <1>2 DEF Before
    <3> QED BY <3>1, <3>2, <3>3
  <2>5. collected = {i \in Covered(c) : Wanted(i)}
    BY <2>1 DEF AfterPages
  <2>6. CASE query.order = "descending"
    <3>1. Covered(c) = c..query.first /\ Reached = query.first
      BY <2>6 DEF Covered, Reached
    <3>2. \A i \in 1..indexed : Before(c, i) <=> i < c
      BY <1>2, <2>3, <2>6 DEF Before
    <3>3. \A i \in 1..Reached : i \in Covered(c) \/ Before(c, i)
      BY <1>2, <1>4, <2>3, <3>1, <3>2
    <3>4. \A i \in collected : i \in Nat /\ i >= c /\ i \in 1..Reached
      BY <1>2, <2>3, <2>5, <3>1
    <3>5. \A j \in Candidates : j \in Nat /\ j < c /\ j \in 1..Reached
      BY <1>2, <1>3, <2>3, <2>4, <2>6, <3>1, <3>2
    <3>6. \A i \in collected, j \in Candidates : i > j
      BY <2>3, <3>4, <3>5
    <3> QED BY <1>4, <2>4, <2>5, <2>6, <3>3, <3>4, <3>5, <3>6 DEF Before
  <2>7. CASE query.order # "descending"
    <3>1. Covered(c) = 1..c /\ Reached = indexed
      BY <2>7 DEF Covered, Reached
    <3>2. \A i \in 1..indexed : Before(c, i) <=> i > c
      BY <1>2, <2>3, <2>7 DEF Before
    <3>3. \A i \in 1..Reached : i \in Covered(c) \/ Before(c, i)
      BY <1>2, <1>4, <2>3, <3>1, <3>2
    <3>4. \A i \in collected : i \in Nat /\ i <= c /\ i \in 1..Reached
      BY <1>2, <2>3, <2>5, <3>1
    <3>5. \A j \in Candidates : j \in Nat /\ j > c /\ j \in 1..Reached
      BY <1>2, <1>3, <2>3, <2>4, <2>7, <3>1, <3>2
    <3>6. \A i \in collected, j \in Candidates : i < j
      BY <2>3, <3>4, <3>5
    <3> QED BY <1>4, <2>4, <2>5, <2>7, <3>3, <3>4, <3>5, <3>6 DEF Before
  <2> QED BY <2>6, <2>7
<1> QED BY <1>5, <1>6

(* A page that is not the last: c is where the next one goes on. *)
LEMMA NextPage ==
  ASSUME HistoryType, NamesInv, PagesInv, InGoodOrder,
         query.step = "read", LogGrows, NEW page, IsPage(page), NEW c \in page,
         \A j \in page \ {c} : Before(j, c),
         query' \in Queries, query'.topic = query.topic, query'.order = query.order,
         query'.first = query.first, query'.cursor = log[c].sequence,
         collected' = collected \cup page, indexed' = indexed
  PROVE  /\ collected' \subseteq 1..indexed'
         /\ \E d \in 1..indexed' : AfterPages(d)'
<1>1. query \in Queries
  BY QueryShape
<1>2. /\ indexed \in Nat /\ query.first \in Nat /\ query.first <= indexed
      /\ Reached \in Nat /\ Reached <= indexed /\ indexed <= Len(log) /\ Len(log) \in Nat
  BY <1>1, PageBounds
<1>3. page \subseteq Candidates /\ c \in Candidates
  BY DEF IsPage
<1>4. collected \cup Candidates \subseteq 1..Reached
  BY CandidatesGoOn
<1>5. c \in 1..Reached /\ c \in 1..indexed /\ c \in 1..Len(log) /\ c \in Nat
  BY <1>2, <1>3, <1>4
<1>6. collected' \subseteq 1..Reached
  BY <1>3, <1>4
<1>7. \A i \in Covered(c) : i \in 1..Reached /\ (i = c \/ Before(i, c))
  BY <1>2, <1>5 DEF Covered, Before, Reached
<1>8. \A i \in 1..Reached : i = c \/ Before(i, c) => i \in Covered(c)
  BY <1>2, <1>5 DEF Covered, Before, Reached
<1>9. \A i \in collected' : i \in Covered(c) /\ Wanted(i)
  <2> SUFFICES ASSUME NEW i \in collected'
               PROVE  i \in Covered(c) /\ Wanted(i)
    OBVIOUS
  <2>1. i \in 1..Reached /\ i \in collected \cup Candidates
    BY <1>3, <1>6
  <2>2. Wanted(i)
    BY <2>1, CandidatesGoOn
  <2>3. i = c \/ Before(i, c)
    BY <1>3, CandidatesGoOn
  <2> QED BY <1>8, <2>1, <2>2, <2>3
<1>10. \A i \in Covered(c) : Wanted(i) => i \in collected'
  <2> SUFFICES ASSUME NEW i \in Covered(c), Wanted(i)
               PROVE  i \in collected'
    OBVIOUS
  <2>1. i \in 1..Reached /\ (i = c \/ Before(i, c))
    BY <1>7
  <2>2. i \in collected \cup Candidates
    BY <2>1, CandidatesGoOn
  <2>3. i \in Candidates => i \in page
    BY <2>1 DEF IsPage
  <2> QED BY <2>2, <2>3
<1>11. Covered(c)' = Covered(c)
  BY DEF Covered
<1>12. \A i \in Covered(c) : Wanted(i)' <=> Wanted(i)
  <2>1. \A i \in Covered(c) : i \in 1..Len(log)
    BY <1>2, <1>7
  <2> QED BY <2>1, WantedStays
<1>13. collected' = {i \in Covered(c) : Wanted(i)}'
  BY <1>9, <1>10, <1>11, <1>12
<1>14. query'.cursor = log'[c].sequence
  BY <1>5, LinesStay
<1>15. AfterPages(c)'
  BY <1>13, <1>14 DEF AfterPages
<1>16. collected' \subseteq 1..indexed'
  BY <1>2, <1>6
<1> QED BY <1>5, <1>15, <1>16

LEMMA LastPage ==
  ASSUME HistoryType, NamesInv, PagesInv, InGoodOrder,
         query.step = "read", LogGrows, query'.topic = query.topic,
         query'.order = query.order, query'.first = query.first,
         collected' = collected \cup Candidates, indexed' = indexed
  PROVE  collected' = {i \in 1..Reached : Wanted(i)}'
<1>1. /\ indexed <= Len(log) /\ Reached \in Nat /\ Reached <= indexed
      /\ indexed \in Nat /\ Len(log) \in Nat
  BY QueryShape, PageBounds
<1>2. Reached' = Reached
  BY DEF Reached
<1>3. \A i \in 1..Reached : Wanted(i)' <=> Wanted(i)
  <2>1. \A i \in 1..Reached : i \in 1..Len(log)
    BY <1>1
  <2> QED BY <2>1, WantedStays
<1>4. /\ \A i \in 1..Reached : i \in collected' <=> Wanted(i)
      /\ collected' \subseteq 1..Reached
  BY CandidatesGoOn
<1> QED BY <1>2, <1>3, <1>4

LEMMA PagesRead ==
  ASSUME HistoryType, HistoryType', LogGrows, NamesInv, PagesInv,
         ReadPage
  PROVE  PagesInv'
<1>1. query \in Queries /\ query.step = "read" /\ indexed' = indexed
  BY QueryShape DEF ReadPage, tableVars
<1>2. PICK page : /\ IsPage(page)
                  /\ query' = AfterPage(page)
                  /\ IF query.wanted /\ Readable(page)
                     THEN /\ collected' = collected \cup page
                          /\ ordered' = /\ ordered
                                        /\ \A i \in collected, j \in page : Before(i, j)
                     ELSE UNCHANGED <<collected, ordered>>
  BY DEF ReadPage
<1>3. page \subseteq Candidates
  BY <1>2 DEF IsPage
<1>4. InGoodOrder' =>
        /\ InGoodOrder /\ ordered
        /\ \A i \in collected, j \in page : Before(i, j)
  BY <1>1, <1>3, OrderOfPrefix, CandidatesGoOn DEF PagesInv, Asking
<1>5. CASE ~query.wanted
  BY <1>2, <1>5, PagesIdle DEF AfterPage
<1>6. CASE query.wanted /\ ~Readable(page)
  <2>1. query' = [query EXCEPT !.step = "failed"]
    BY <1>2, <1>6 DEF AfterPage
  <2>2. GoesOn
    BY <1>1, <2>1 DEF GoesOn, Queries, Asking
  <2> QED BY <1>1, <1>2, <1>6, <2>2, PagesKept
<1>7. CASE query.wanted /\ Readable(page) /\ page = Candidates
  <2>1. query' = [query EXCEPT !.step = "done"]
    BY <1>2, <1>7 DEF AfterPage
  <2>2. /\ query'.step = "done" /\ query'.topic = query.topic
        /\ query'.order = query.order /\ query'.first = query.first
    BY <1>1, <2>1 DEF Queries
  <2>3. query'.first <= indexed'
    BY <1>1, <2>2, PageBounds
  <2>4. ~Asking'
    BY <2>2 DEF Asking
  <2>5. InGoodOrder' => Exact'
    BY <1>1, <1>2, <1>4, <1>7, <2>2, LastPage DEF Exact
  <2> QED BY <2>2, <2>3, <2>4, <2>5 DEF PagesInv
<1>8. CASE query.wanted /\ Readable(page) /\ page # Candidates
  <2>1. PICK c \in page : /\ CursorAfter(page) = log[c].sequence
                          /\ \A j \in page \ {c} : Before(j, c)
    BY <1>1, <1>2, <1>8, PageShape
  <2>2. query' = [query EXCEPT !.step = "send", !.cursor = log[c].sequence]
    BY <1>2, <1>8, <2>1 DEF AfterPage
  <2>3. /\ query'.step = "send" /\ query'.topic = query.topic
        /\ query'.order = query.order /\ query'.first = query.first
        /\ query'.cursor = log[c].sequence
    BY <1>1, <2>2 DEF Queries
  <2>4. c \in 1..Len(log)
    BY <1>1, <1>2, PageShape
  <2>5. query' \in Queries /\ query'.cursor \in Nat
    <3>1. log[c].sequence \in Nat
      BY <2>4, Line DEF HistoryType
    <3> QED BY <1>1, <2>2, <2>3, <3>1 DEF Queries
  <2>6. query'.cursor # NoCursor
    BY <2>5, HistoryAssumption
  <2>7. query'.first <= indexed'
    BY <1>1, <2>3, PageBounds
  <2>8. InGoodOrder' =>
          /\ ordered' /\ collected' \subseteq 1..indexed'
          /\ \E d \in 1..indexed' : AfterPages(d)'
    BY <1>1, <1>2, <1>4, <1>8, <2>1, <2>3, <2>5, NextPage
  <2>9. Exact'
    BY <2>3 DEF Exact
  <2> QED BY <2>3, <2>6, <2>7, <2>8, <2>9 DEF PagesInv
<1> QED BY <1>5, <1>6, <1>7, <1>8

LEMMA PagesStep ==
  ASSUME HistoryType, HistoryType', NamesInv, PagesInv,
         [HistoryNext]_historyVars
  PROVE  PagesInv'
<1>1. CASE UNCHANGED historyVars
  <2>1. UNCHANGED <<log, indexed, collected, ordered, query>>
    BY <1>1 DEF historyVars, fileVars, tableVars, queryVars
  <2> QED BY <2>1, LogStays, PagesOfOthers DEF HistoryType
<1>2. ASSUME NEW topic \in Topics, RegisterTopic(topic) PROVE PagesInv'
  <2>1. UNCHANGED <<indexed, collected, ordered, query>>
    BY <1>2 DEF RegisterTopic, tableVars, queryVars
  <2> QED BY <1>2, <2>1, RegisterTyped, PagesOfOthers
<1>3. ASSUME NEW w \in Writers, WriterStep(w) PROVE PagesInv'
  <2>1. UNCHANGED <<indexed, collected, ordered, query>>
    BY <1>3 DEF WriterStep, TakeSequence, RefuseMessage, WriteMessage,
                WriteFirstPart, WriteRest, tableVars, queryVars
  <2> QED BY <1>3, <2>1, WriterTyped, PagesOfOthers
<1>4. CASE Restart \/ SelectAllReturns
  BY <1>4, PagesIdle DEF Restart, SelectAllReturns
<1>5. ASSUME NEW topic \in AskedTopics, NEW order \in Orders, NEW maxCount \in PageSizes,
             SelectAll(topic, order, maxCount)
      PROVE  PagesInv'
  BY <1>5, PagesAtStart
<1>6. CASE SendSelection \/ SendSelectionFails \/ CancelSelectAll
  <2>1. query \in Queries
    BY <1>6, QueryShape DEF SendSelection, SendSelectionFails, CancelSelectAll
  <2>2. UNCHANGED <<indexed, collected, ordered>> /\ LogGrows
    BY <1>6, QueryTyped DEF SendSelection, SendSelectionFails, CancelSelectAll,
                            tableVars
  <2>3. GoesOn
    <3>1. CASE SendSelection
      <4>1. /\ query'.step = "ask" /\ query'.topic = query.topic
            /\ query'.order = query.order /\ query'.cursor = query.cursor
            /\ query'.first = query.first /\ query.step = "send"
        BY <2>1, <3>1 DEF SendSelection, Queries
      <4> QED BY <2>1, <4>1 DEF GoesOn, Asking, Idle, HistoryType
    <3>2. CASE SendSelectionFails
      <4>1. /\ query'.step = "failed" /\ query'.topic = query.topic
            /\ query'.order = query.order /\ query'.cursor = query.cursor
            /\ query'.first = query.first
        BY <2>1, <3>2 DEF SendSelectionFails, Queries
      <4> QED BY <2>1, <4>1 DEF GoesOn, Asking, Idle, HistoryType
    <3>3. CASE CancelSelectAll
      <4>1. /\ query'.step = query.step /\ query'.topic = query.topic
            /\ query'.order = query.order /\ query'.cursor = query.cursor
            /\ query'.first = query.first /\ query.step \in {"ask", "read"}
        BY <2>1, <3>3 DEF CancelSelectAll, Queries
      <4> QED BY <2>1, <4>1 DEF GoesOn, Asking, Idle, HistoryType
    <3> QED BY <1>6, <3>1, <3>2, <3>3
  <2> QED BY <2>2, <2>3, PagesKept
<1>7. CASE RefreshFails \/ ReadPageFails \/ ReplyFails
  <2>1. query \in Queries
    BY <1>7, QueryShape DEF RefreshFails, ReadPageFails, ReplyFails
  <2>2. UNCHANGED <<indexed, collected, ordered>> /\ LogGrows
    BY <1>7, ServiceTyped DEF RefreshFails, ReadPageFails, ReplyFails, ServiceEnds,
                              tableVars
  <2>3. GoesOn
    <3>1. /\ query'.step \in {"failed", "unanswered"} /\ query'.topic = query.topic
          /\ query'.order = query.order /\ query'.cursor = query.cursor
          /\ query'.first = query.first
      BY <1>7, <2>1 DEF RefreshFails, ReadPageFails, ReplyFails, ServiceEnds, Queries
    <3> QED BY <2>1, <3>1 DEF GoesOn, Asking, Idle, HistoryType
  <2> QED BY <2>2, <2>3, PagesKept
<1>8. CASE Refresh
  BY <1>8, PagesRefreshed
<1>9. CASE ReadPage
  BY <1>9, ServiceTyped, PagesRead
<1> QED BY <1>1, <1>2, <1>3, <1>4, <1>5, <1>6, <1>7, <1>8, <1>9 DEF HistoryNext

------------------------------------------------------------------------------
HistoryInv == HistoryType /\ NamesInv /\ EndedInv /\ PagesInv

LEMMA HistoryStarts ==
  ASSUME HistoryInit
  PROVE  HistoryInv
<1>1. /\ log = <<Registration(1, RequestTopic), Registration(2, ReplyTopic)>>
      /\ symbols = <<RequestTopic, ReplyTopic>> /\ nextSequence = 0
      /\ writing = [w \in Writers |-> Idle] /\ serving = TRUE /\ indexed = 0
      /\ names = [id \in {} |-> AnyTopic] /\ query = Idle
  BY DEF HistoryInit, ServiceSymbols
<1>2. RequestTopic \in AllTopics /\ ReplyTopic \in AllTopics
  BY DEF AllTopics, HistoryTopics
<1>3. log \in Seq(Records)
  <2>1. /\ Registration(1, RequestTopic) \in Records
        /\ Registration(2, ReplyTopic) \in Records
    BY <1>2, LineWritten
  <2> QED BY <1>1, <2>1
<1>4. /\ symbols \in Seq(AllTopics)
      /\ \A topic \in HistoryTopics : \E i \in DOMAIN symbols : symbols[i] = topic
  <2>1. symbols[1] = RequestTopic /\ symbols[2] = ReplyTopic /\ DOMAIN symbols = {1, 2}
    BY <1>1
  <2>2. symbols \in Seq({RequestTopic, ReplyTopic})
    BY <1>1
  <2> QED BY <2>1, <2>2 DEF AllTopics, HistoryTopics
<1>5. writing \in [Writers -> Writings] /\ query.step = "idle"
  BY <1>1 DEF Writings, Idle
<1>6. HistoryType
  BY <1>1, <1>3, <1>4, <1>5, LenProperties DEF HistoryType
<1>7. NamesInv
  <2>1. DOMAIN names = {} /\ 1..indexed = {}
    BY <1>1
  <2> QED BY <2>1 DEF NamesInv
<1>8. EndedInv /\ PagesInv
  BY <1>1, <1>5 DEF EndedInv, EndsForACause, PagesInv, Asking, Exact
<1> QED BY <1>6, <1>7, <1>8 DEF HistoryInv

LEMMA HistoryHolds == HistorySpec => []HistoryInv
<1>1. HistoryInv /\ [HistoryNext]_historyVars => HistoryInv'
  BY HistoryTyped, NamesStep, EndedStep, PagesStep DEF HistoryInv
<1> QED BY <1>1, HistoryStarts, PTL DEF HistorySpec

(***************************************************************************)
(* NeverMisnamed: whatever the file holds, a message whose registration    *)
(* was written is never read under another topic than its emitter's, since *)
(* InMemoryCaptureHistory binds an ID once and refuses a second meaning.   *)
(***************************************************************************)
THEOREM HistoryNamesRight == HistorySpec => []NeverMisnamed
<1>1. HistoryInv => NeverMisnamed
  BY NamesAgree DEF HistoryInv
<1> QED BY <1>1, HistoryHolds, PTL

(***************************************************************************)
(* EndsForACause: the broker's loop ends by a selection only when a line   *)
(* is no record, two lines disagree about an ID or a topic, a registration *)
(* is missing, the reply could not be written or max_count is refused.     *)
(***************************************************************************)
THEOREM HistoryEndsForACause == HistorySpec => []EndsForACause
<1>1. HistoryInv => EndsForACause
  BY DEF HistoryInv, EndedInv
<1> QED BY <1>1, HistoryHolds, PTL

(***************************************************************************)
(* ExactInSequence: in a file that is in the order of its sequence numbers *)
(* and registers before it names, select_all collects every message of the *)
(* selection once and in order, whatever is written between its pages.     *)
(***************************************************************************)
THEOREM HistoryIsExact == HistorySpec => []ExactInSequence
<1>1. HistoryInv => ExactInSequence
  BY GoodOrder DEF HistoryInv, PagesInv, ExactInSequence
<1> QED BY <1>1, HistoryHolds, PTL

==============================================================================
