----------------------------- MODULE HttpProofs -----------------------------
(***************************************************************************)
(* Proof that no request fits two routes, that the manager is called with  *)
(* the agent and the task the path names, and that handleRequest, which    *)
(* sends an answer after every other it has sent, gets exactly one onto    *)
(* the wire: for any identifiers that are none of the words of a route.    *)
(***************************************************************************)
EXTENDS HttpDispatch, WellFoundedInduction, TLAPS

-----------------------------------------------------------------------------
(* The answer *)

Rejected == handler # None /\ IsRejected(handler, request)

\* What is on the wire at each phase.  A request that is rejected reaches no
\* manager, and its error is the first answer.
WireFollowsPhase ==
    /\ phase \in {"waiting", "routing", "handling", "answering"} => wire = <<>>
    /\ phase = "rendering" => wire = <<200>>
    /\ phase = "failing" => wire \in {<<>>, <<200>>}
    /\ phase \in {"explaining", "falling"} => wire \in {<<200>>, <<500>>}
    /\ phase \in {"waiting", "routing", "handling"} => called = None
    /\ phase \in {"handling", "answering", "rendering", "failing", "explaining", "falling"}
         => handler # None

RejectedIsTold ==
    Rejected =>
        /\ called = None
        /\ phase \notin {"answering", "rendering"}
        /\ phase = "failing" => wire = <<>>
        /\ phase \in {"explaining", "falling"} => wire = <<500>>

IndInv == WireFollowsPhase /\ RejectedIsTold /\ OneAnswer

-----------------------------------------------------------------------------

\* Send puts one status on an empty wire and never a second.
LEMMA SendOnce ==
    ASSUME NEW status, NEW next, Send(status, next)
    PROVE  \/ wire = <<>> /\ wire' = <<StatusLine(status)>> /\ phase' = next
           \/ wire # <<>> /\ wire' = wire /\ phase' = "done"
BY DEF Send

LEMMA KnownCodes ==
    StatusLine(200) = 200 /\ StatusLine(500) = 500 /\ \A code : <<code>> # <<>>
BY DEF StatusLine, StatusCodes

\* The stubs read nothing that could be missing.
LEMMA StubsAcceptAll == \A h \in Stubs : \A r : ~IsRejected(h, r)
<1>1. ReadsBody = {"createAgent", "assignTask", "editTask", "registerAgent", "statusAgent"}
  BY DEF ReadsBody, Fields
<1>2. "getResults" \notin Stubs /\ Stubs \cap ReadsBody = {}
  BY <1>1 DEF Stubs
<1> QED BY <1>2 DEF IsRejected

LEMMA IndInvInit == Init => IndInv
BY DEF Init, IndInv, WireFollowsPhase, RejectedIsTold, Rejected, OneAnswer

LEMMA IndInvNext == IndInv /\ [Next]_vars => IndInv'
<1> SUFFICES ASSUME IndInv, [Next]_vars PROVE IndInv'
  OBVIOUS
<1> USE DEF IndInv, WireFollowsPhase
<1>1. ASSUME NEW r \in Requests, Receive(r) PROVE IndInv'
  BY <1>1 DEF Receive, RejectedIsTold, Rejected, OneAnswer
<1>2. CASE CreateRequestHandler
  BY <1>2 DEF CreateRequestHandler, RejectedIsTold, Rejected, OneAnswer
<1>3. CASE Reject
  BY <1>3 DEF Reject, RejectedIsTold, Rejected, OneAnswer
<1>4. CASE CallManager
  BY <1>4 DEF CallManager, RejectedIsTold, Rejected, OneAnswer
<1>5. CASE CallStub
  BY <1>5, StubsAcceptAll DEF CallStub, RejectedIsTold, Rejected, OneAnswer
<1>6. CASE Answer
  <2>1. /\ phase = "answering" /\ wire = <<>> /\ wire' = <<200>>
        /\ phase' \in {"rendering", "falling"} /\ UNCHANGED <<request, handler, called>>
    BY <1>6, SendOnce, KnownCodes DEF Answer
  <2> QED BY <2>1 DEF RejectedIsTold, Rejected, OneAnswer
<1>7. CASE Render
  BY <1>7 DEF Render, RejectedIsTold, Rejected, OneAnswer
<1>8. CASE AnswerError
  <2>1. /\ phase = "failing" /\ UNCHANGED <<request, handler, called>>
        /\ \/ wire = <<>> /\ wire' = <<500>> /\ phase' = "explaining"
           \/ wire = <<200>> /\ wire' = wire /\ phase' = "done"
    BY <1>8, SendOnce, KnownCodes DEF AnswerError
  <2> QED BY <2>1, KnownCodes DEF RejectedIsTold, Rejected, OneAnswer
<1>9. CASE Explain
  BY <1>9 DEF Explain, RejectedIsTold, Rejected, OneAnswer
<1>10. CASE FallThrough
  <2>1. /\ phase = "falling" /\ UNCHANGED <<request, handler, called>>
        /\ wire' = wire /\ phase' = "done"
    BY <1>10, SendOnce, KnownCodes DEF FallThrough
  <2> QED BY <2>1 DEF RejectedIsTold, Rejected, OneAnswer
<1>11. CASE UNCHANGED vars
  BY <1>11 DEF vars, RejectedIsTold, Rejected, OneAnswer
<1> QED BY <1>1, <1>2, <1>3, <1>4, <1>5, <1>6, <1>7, <1>8, <1>9, <1>10, <1>11 DEF Next

\* Every handled request gets one status line, 500 if it was rejected, although
\* handleRequest falls through to 501 after each (Controller.cpp:18-36), for
\* any identifiers and any sequence of requests.
THEOREM AnsweredOnce == Spec => []OneAnswer
<1>1. IndInv => OneAnswer
  BY DEF IndInv
<1> QED BY IndInvInit, IndInvNext, <1>1, PTL DEF Spec

-----------------------------------------------------------------------------
(* The route tables: what each controller's routes have in common, and     *)
(* where they differ, so that no proof below looks at a route again.       *)

\* A fixed segment of a route is fit by itself only.
LEMMA FixedFits ==
    ASSUME NEW w \in {"api", "agents", "agent", "tasks", "registration", "status", "toggle"},
           NEW s, NEW open
    PROVE  SegmentFits(s, w, open) <=> s = w
BY DEF SegmentFits, Longer

\* No segment fits the last one of both open routes, however it goes on.
LEMMA LastFits ==
    ASSUME NEW s, NEW o, NEW p, SegmentFits(s, "result", o)
    PROVE  ~SegmentFits(s, "error", p) /\ s \in {"result", "results"}
BY DEF SegmentFits, Longer

LEMMA AgentsRoutes ==
    ASSUME NEW i \in DOMAIN AgentsEndpoints
    PROVE  LET e == AgentsEndpoints[i] IN
           /\ i \in 1 .. 10
           /\ i \in 1 .. 3 => Len(e.path) = 2
           /\ i \in 4 .. 5 => Len(e.path) = 3
           /\ i \in 6 .. 8 => Len(e.path) = 4
           /\ i = 9 => Len(e.path) = 6
           /\ i = 10 => Len(e.path) = 5
           /\ e.path[1] = "api" /\ e.path[2] = "agents"
           /\ i > 3 => e.path[3] = "id"
           /\ i > 5 => e.path[4] = "tasks"
           /\ i > 8 => e.path[5] = "id"
           /\ i = 9 => e.path[6] = "toggle"
<1> DEFINE e == AgentsEndpoints[i]
<1>1. i \in 1 .. 10 /\ e.path[1] = "api" /\ e.path[2] = "agents"
  BY DEF AgentsEndpoints, Endpoint
<1>2. i \in 1 .. 3 => Len(e.path) = 2
  BY DEF AgentsEndpoints, Endpoint
<1>3. (i \in 4 .. 5 => Len(e.path) = 3) /\ (i \in 6 .. 8 => Len(e.path) = 4)
  BY DEF AgentsEndpoints, Endpoint
<1>4. (i = 9 => Len(e.path) = 6) /\ (i = 10 => Len(e.path) = 5)
  BY DEF AgentsEndpoints, Endpoint
<1>5. i > 3 => e.path[3] = "id"
  BY DEF AgentsEndpoints, Endpoint
<1>6. (i > 5 => e.path[4] = "tasks") /\ (i > 8 => e.path[5] = "id") /\ (i = 9 => e.path[6] = "toggle")
  BY DEF AgentsEndpoints, Endpoint
<1> QED BY <1>1, <1>2, <1>3, <1>4, <1>5, <1>6

LEMMA AgentsHandlers ==
    ASSUME NEW i \in DOMAIN AgentsEndpoints
    PROVE  LET e == AgentsEndpoints[i] IN
           /\ ~e.open
           /\ i \in 1 .. 3 => e.handler \in {"getAgents", "createAgent", "editAgent"}
           /\ i \in 4 .. 5 => e.handler \in {"getAgent", "deleteAgent"}
           /\ i \in 6 .. 8 => e.handler \in {"getTasks", "assignTask", "editTask"}
           /\ i > 8 => e.handler \in {"removeTask", "toggleTask"}
           /\ e.method = IF i \in {1, 4, 6} THEN "GET"
                         ELSE IF i \in {2, 7} THEN "POST"
                         ELSE IF i \in {3, 8, 9} THEN "PUT" ELSE "DELETE"
<1> DEFINE e == AgentsEndpoints[i]
<1>1. ~e.open
  BY DEF AgentsEndpoints, Endpoint
<1>2. e.method = IF i \in {1, 4, 6} THEN "GET"
                 ELSE IF i \in {2, 7} THEN "POST"
                 ELSE IF i \in {3, 8, 9} THEN "PUT" ELSE "DELETE"
  BY DEF AgentsEndpoints, Endpoint
<1>3. /\ i \in 1 .. 3 => e.handler \in {"getAgents", "createAgent", "editAgent"}
      /\ i \in 4 .. 5 => e.handler \in {"getAgent", "deleteAgent"}
      /\ i \in 6 .. 8 => e.handler \in {"getTasks", "assignTask", "editTask"}
      /\ i > 8 => e.handler \in {"removeTask", "toggleTask"}
  BY DEF AgentsEndpoints, Endpoint
<1> QED BY <1>1, <1>2, <1>3

LEMMA CommunicatorRoutes ==
    ASSUME NEW i \in DOMAIN AgentCommunicatorEndpoints
    PROVE  LET e == AgentCommunicatorEndpoints[i] IN
           /\ i \in 1 .. 2
           /\ Len(e.path) = 3 /\ e.path[1] = "api" /\ e.path[2] = "agent"
           /\ e.path[3] = IF i = 1 THEN "registration" ELSE "status"
           /\ e.handler \in {"registerAgent", "statusAgent"}
BY DEF AgentCommunicatorEndpoints, Endpoint

LEMMA TasksRoutes ==
    ASSUME NEW i \in DOMAIN TasksEndpoints
    PROVE  LET e == TasksEndpoints[i] IN
           /\ i \in 1 .. 4
           /\ i = 1 => Len(e.path) = 3
           /\ i > 1 => Len(e.path) = 4
           /\ e.path[1] = "api" /\ e.path[2] = "tasks" /\ e.path[3] = "id"
           /\ i \in 2 .. 3 => e.path[4] = "result"
           /\ i = 4 => e.path[4] = "error"
           /\ e.method = IF i = 2 THEN "DELETE" ELSE "GET"
           /\ i = 1 => e.handler = "getTask"
           /\ i > 1 => e.handler \in {"removeTaskResults", "getResults"}
<1> DEFINE e == TasksEndpoints[i]
<1>1. /\ i \in 1 .. 4 /\ e.path[1] = "api" /\ e.path[2] = "tasks" /\ e.path[3] = "id"
      /\ e.method = IF i = 2 THEN "DELETE" ELSE "GET"
  BY DEF TasksEndpoints, Endpoint, OpenEndpoint
<1>2. (i = 1 => Len(e.path) = 3) /\ (i > 1 => Len(e.path) = 4)
  BY DEF TasksEndpoints, Endpoint, OpenEndpoint
<1>3. (i \in 2 .. 3 => e.path[4] = "result") /\ (i = 4 => e.path[4] = "error")
  BY DEF TasksEndpoints, Endpoint, OpenEndpoint
<1>4. (i = 1 => e.handler = "getTask") /\ (i > 1 => e.handler \in {"removeTaskResults", "getResults"})
  BY DEF TasksEndpoints, Endpoint, OpenEndpoint
<1> QED BY <1>1, <1>2, <1>3, <1>4

\* The three tables, and the segment that tells them apart.
LEMMA EndpointOrigin ==
    ASSUME NEW e
    PROVE  e \in AllEndpoints <=>
             \/ \E i \in DOMAIN AgentsEndpoints : e = AgentsEndpoints[i]
             \/ \E i \in DOMAIN AgentCommunicatorEndpoints : e = AgentCommunicatorEndpoints[i]
             \/ \E i \in DOMAIN TasksEndpoints : e = TasksEndpoints[i]
<1>1. DOMAIN Controllers = {1, 2, 3}
      /\ Controllers[1] = AgentsEndpoints
      /\ Controllers[2] = AgentCommunicatorEndpoints
      /\ Controllers[3] = TasksEndpoints
  BY DEF Controllers
<1> QED BY <1>1 DEF AllEndpoints, ToSet

LEMMA PathFits ==
    ASSUME NEW r, NEW e, Matches(r, e), Len(e.path) \in Nat
    PROVE  /\ e.method = r.method
           /\ Len(r.path) = Len(e.path)
           /\ \A i \in 1 .. Len(e.path) : SegmentFits(r.path[i], e.path[i], e.open)
BY DEF Matches

\* What a request that fits a route of a table looks like.
FitsAgents(r, i) == i \in DOMAIN AgentsEndpoints /\ Matches(r, AgentsEndpoints[i])
FitsCommunicator(r, i) ==
    i \in DOMAIN AgentCommunicatorEndpoints /\ Matches(r, AgentCommunicatorEndpoints[i])
FitsTasks(r, i) == i \in DOMAIN TasksEndpoints /\ Matches(r, TasksEndpoints[i])

LEMMA AgentsPaths ==
    ASSUME NEW r, NEW i, FitsAgents(r, i)
    PROVE  /\ i \in 1 .. 10
           /\ i \in 1 .. 3 => Len(r.path) = 2
           /\ i \in 4 .. 5 => Len(r.path) = 3
           /\ i \in 6 .. 8 => Len(r.path) = 4
           /\ i = 9 => Len(r.path) = 6
           /\ i = 10 => Len(r.path) = 5
           /\ r.path[1] = "api" /\ r.path[2] = "agents"
           /\ i > 3 => r.path[3] \in Ids \cup {"id"}
           /\ i > 5 => r.path[4] = "tasks"
           /\ i > 8 => r.path[5] \in Ids \cup {"id"}
           /\ i = 9 => r.path[6] = "toggle"
           /\ r.method = AgentsEndpoints[i].method
<1> DEFINE e == AgentsEndpoints[i]
<1>1. i \in DOMAIN AgentsEndpoints /\ Matches(r, e) /\ i \in 1 .. 10
  BY AgentsRoutes DEF FitsAgents
<1>2. PICK n \in 2 .. 6 : Len(e.path) = n
  BY <1>1, AgentsRoutes
<1>3. /\ r.method = e.method /\ Len(r.path) = n
      /\ \A j \in 1 .. n : SegmentFits(r.path[j], e.path[j], e.open)
  BY <1>1, <1>2, PathFits
<1>4. /\ i \in 1 .. 3 => n = 2
      /\ i \in 4 .. 5 => n = 3
      /\ i \in 6 .. 8 => n = 4
      /\ i = 9 => n = 6
      /\ i = 10 => n = 5
  BY <1>1, <1>2, AgentsRoutes
<1>5. /\ e.path[1] = "api" /\ e.path[2] = "agents"
      /\ i > 3 => e.path[3] = "id"
      /\ i > 5 => e.path[4] = "tasks"
      /\ i > 8 => e.path[5] = "id"
      /\ i = 9 => e.path[6] = "toggle"
  BY <1>1, AgentsRoutes
<1> HIDE DEF e
<1>6. \A j \in 1 .. n :
        /\ e.path[j] \in {"api", "agents", "tasks", "toggle"} => r.path[j] = e.path[j]
        /\ e.path[j] = "id" => r.path[j] \in Ids \cup {"id"}
  BY <1>3, FixedFits DEF SegmentFits, Longer
<1>7. /\ 1 \in 1 .. n /\ 2 \in 1 .. n
      /\ i > 3 => 3 \in 1 .. n
      /\ i > 5 => 4 \in 1 .. n
      /\ i > 8 => 5 \in 1 .. n
      /\ i = 9 => 6 \in 1 .. n
  BY <1>1, <1>2, <1>4
<1>8. /\ r.path[1] = "api" /\ r.path[2] = "agents"
      /\ i > 3 => r.path[3] \in Ids \cup {"id"}
      /\ i > 5 => r.path[4] = "tasks"
      /\ i > 8 => r.path[5] \in Ids \cup {"id"}
      /\ i = 9 => r.path[6] = "toggle"
  BY <1>5, <1>6, <1>7
<1> QED BY <1>1, <1>3, <1>4, <1>8 DEF e

LEMMA CommunicatorPaths ==
    ASSUME NEW r, NEW i, FitsCommunicator(r, i)
    PROVE  /\ i \in 1 .. 2
           /\ Len(r.path) = 3 /\ r.path[1] = "api" /\ r.path[2] = "agent"
           /\ r.path[3] = IF i = 1 THEN "registration" ELSE "status"
<1> DEFINE e == AgentCommunicatorEndpoints[i]
<1>1. /\ i \in DOMAIN AgentCommunicatorEndpoints /\ Matches(r, e)
      /\ i \in 1 .. 2 /\ Len(e.path) = 3 /\ e.path[1] = "api" /\ e.path[2] = "agent"
      /\ e.path[3] = IF i = 1 THEN "registration" ELSE "status"
  BY CommunicatorRoutes DEF FitsCommunicator
<1> HIDE DEF e
<1>2. Len(r.path) = 3 /\ \A j \in 1 .. 3 : SegmentFits(r.path[j], e.path[j], e.open)
  BY <1>1, PathFits
<1>3. r.path[1] = "api" /\ r.path[2] = "agent" /\ r.path[3] = e.path[3]
  <2>1. /\ SegmentFits(r.path[1], e.path[1], e.open)
        /\ SegmentFits(r.path[2], e.path[2], e.open)
        /\ SegmentFits(r.path[3], e.path[3], e.open)
    BY <1>2
  <2>2. e.path[3] \in {"registration", "status"}
    BY <1>1
  <2> QED BY <2>1, <2>2, <1>1, FixedFits
<1> QED BY <1>1, <1>2, <1>3

LEMMA TasksPaths ==
    ASSUME NEW r, NEW i, FitsTasks(r, i)
    PROVE  /\ i \in 1 .. 4
           /\ i = 1 => Len(r.path) = 3
           /\ i > 1 => Len(r.path) = 4
           /\ r.path[1] = "api" /\ r.path[2] = "tasks" /\ r.path[3] \in Ids \cup {"id"}
           /\ i \in 2 .. 3 => r.path[4] \in {"result", "results"}
           /\ i = 4 => r.path[4] \notin {"result", "results"}
           /\ r.method = IF i = 2 THEN "DELETE" ELSE "GET"
<1> DEFINE e == TasksEndpoints[i]
<1>1. /\ i \in DOMAIN TasksEndpoints /\ Matches(r, e) /\ i \in 1 .. 4
      /\ i = 1 => Len(e.path) = 3
      /\ i > 1 => Len(e.path) = 4
      /\ e.path[1] = "api" /\ e.path[2] = "tasks" /\ e.path[3] = "id"
      /\ i \in 2 .. 3 => e.path[4] = "result"
      /\ i = 4 => e.path[4] = "error"
      /\ e.method = IF i = 2 THEN "DELETE" ELSE "GET"
  BY TasksRoutes DEF FitsTasks
<1> HIDE DEF e
<1>2. /\ r.method = e.method /\ Len(r.path) = Len(e.path)
      /\ \A j \in 1 .. Len(e.path) : SegmentFits(r.path[j], e.path[j], e.open)
  BY <1>1, PathFits
<1>3. r.path[1] = "api" /\ r.path[2] = "tasks" /\ r.path[3] \in Ids \cup {"id"}
  <2>1. /\ SegmentFits(r.path[1], e.path[1], e.open)
        /\ SegmentFits(r.path[2], e.path[2], e.open)
        /\ SegmentFits(r.path[3], e.path[3], e.open)
    BY <1>1, <1>2
  <2>2. r.path[1] = "api" /\ r.path[2] = "tasks"
    BY <2>1, <1>1, FixedFits
  <2> QED BY <2>1, <2>2, <1>1 DEF SegmentFits, Longer
<1>4. ASSUME i > 1
      PROVE  /\ i \in 2 .. 3 => r.path[4] \in {"result", "results"}
             /\ i = 4 => r.path[4] \notin {"result", "results"}
  <2>1. SegmentFits(r.path[4], e.path[4], e.open)
    BY <1>1, <1>2, <1>4
  <2>2. ASSUME NEW s, SegmentFits(s, "error", e.open)
        PROVE  s = "error"
    BY <2>2 DEF SegmentFits, Longer
  <2> QED BY <2>1, <2>2, <1>1, LastFits
<1> QED BY <1>1, <1>2, <1>3, <1>4

\* A request fits one route at most, whatever its path: neither the order of
\* the routes nor that of the controllers matters.
LEMMA RoutesAreApart ==
    ASSUME NEW r, NEW e \in AllEndpoints, NEW f \in AllEndpoints, Matches(r, e), Matches(r, f)
    PROVE  e = f
<1>1. ASSUME NEW x \in AllEndpoints, Matches(r, x)
      PROVE  \/ \E i : FitsAgents(r, i) /\ x = AgentsEndpoints[i] /\ r.path[2] = "agents"
             \/ \E i : FitsCommunicator(r, i) /\ x = AgentCommunicatorEndpoints[i]
                       /\ r.path[2] = "agent"
             \/ \E i : FitsTasks(r, i) /\ x = TasksEndpoints[i] /\ r.path[2] = "tasks"
  <2>1. ASSUME NEW i \in DOMAIN AgentsEndpoints, x = AgentsEndpoints[i]
        PROVE  FitsAgents(r, i) /\ r.path[2] = "agents"
    BY <1>1, <2>1, AgentsPaths DEF FitsAgents
  <2>2. ASSUME NEW i \in DOMAIN AgentCommunicatorEndpoints, x = AgentCommunicatorEndpoints[i]
        PROVE  FitsCommunicator(r, i) /\ r.path[2] = "agent"
    BY <1>1, <2>2, CommunicatorPaths DEF FitsCommunicator
  <2>3. ASSUME NEW i \in DOMAIN TasksEndpoints, x = TasksEndpoints[i]
        PROVE  FitsTasks(r, i) /\ r.path[2] = "tasks"
    BY <1>1, <2>3, TasksPaths DEF FitsTasks
  <2> QED BY <1>1, <2>1, <2>2, <2>3, EndpointOrigin
<1>2. ASSUME NEW i, NEW j, FitsAgents(r, i), FitsAgents(r, j)
      PROVE  i = j
  <2>1. i \in DOMAIN AgentsEndpoints /\ j \in DOMAIN AgentsEndpoints
        /\ AgentsEndpoints[i].method = AgentsEndpoints[j].method
    BY <1>2, AgentsPaths DEF FitsAgents
  <2>2. /\ i \in {1, 4, 6} <=> j \in {1, 4, 6}
        /\ i \in {2, 7} <=> j \in {2, 7}
        /\ i \in {3, 8, 9} <=> j \in {3, 8, 9}
    BY <2>1, AgentsHandlers
  <2>3. i \in 1 .. 10 /\ j \in 1 .. 10 /\ (i \in 1 .. 3 <=> j \in 1 .. 3)
        /\ (i \in 4 .. 5 <=> j \in 4 .. 5) /\ (i \in 6 .. 8 <=> j \in 6 .. 8)
        /\ (i = 9 <=> j = 9)
    BY <1>2, AgentsPaths
  <2> QED BY <2>2, <2>3
<1>3. ASSUME NEW i, NEW j, FitsCommunicator(r, i), FitsCommunicator(r, j)
      PROVE  i = j
  BY <1>3, CommunicatorPaths
<1>4. ASSUME NEW i, NEW j, FitsTasks(r, i), FitsTasks(r, j)
      PROVE  i = j
  BY <1>4, TasksPaths
<1> QED BY <1>1, <1>2, <1>3, <1>4

-----------------------------------------------------------------------------
(* Routing, and what the handler of a route passes on *)

\* The first endpoint and the last controller that match are ones that match.
LEMMA FirstOf ==
    ASSUME NEW S \in SUBSET Nat, S # {}
    PROVE  \E i \in S : \A j \in S : i <= j
<1>1. PICK i \in S : \A j \in S : ~(<<j, i>> \in OpToRel(<, Nat))
  BY WFMin, NatLessThanWellFounded
<1>2. \A j \in S : ~(j < i)
  BY <1>1 DEF OpToRel
<1> QED BY <1>2

LEMMA LastOf ==
    ASSUME NEW S \in SUBSET {1, 2, 3}, S # {}
    PROVE  \E i \in S : \A j \in S : j <= i
<1>1. CASE 3 \in S
  BY <1>1
<1>2. CASE 3 \notin S /\ 2 \in S
  BY <1>2
<1>3. CASE 3 \notin S /\ 2 \notin S
  <2>1. PICK k \in S : TRUE
    OBVIOUS
  <2>2. k = 1 /\ \A i \in S : i = 1
    BY <1>3
  <2> QED BY <2>1, <2>2
<1> QED BY <1>1, <1>2, <1>3

LEMMA EndpointFound ==
    ASSUME NEW r, NEW endpoints, DOMAIN endpoints \in SUBSET Nat,
           FindEndpoint(r, endpoints) # None
    PROVE  \E i \in DOMAIN endpoints :
             Matches(r, endpoints[i]) /\ FindEndpoint(r, endpoints) = endpoints[i].handler
<1> DEFINE found == {i \in DOMAIN endpoints : Matches(r, endpoints[i])}
           first == CHOOSE i \in found : \A j \in found : i <= j
<1>1. found # {} /\ FindEndpoint(r, endpoints) = endpoints[first].handler
  BY DEF FindEndpoint
<1>2. \E i \in found : \A j \in found : i <= j
  BY <1>1, FirstOf
<1>3. first \in found
  BY <1>2
<1> QED BY <1>1, <1>3

LEMMA RouteFound ==
    ASSUME NEW r, Route(r) # None
    PROVE  \E e \in AllEndpoints : Matches(r, e) /\ Route(r) = e.handler
<1> DEFINE applicable == {c \in DOMAIN Controllers : FindEndpoint(r, Controllers[c]) # None}
           last == CHOOSE c \in applicable : \A d \in applicable : d <= c
<1>1. applicable # {} /\ Route(r) = FindEndpoint(r, Controllers[last])
  BY DEF Route
<1>2. DOMAIN Controllers = {1, 2, 3}
  BY DEF Controllers
<1>3. \E c \in applicable : \A d \in applicable : d <= c
  BY <1>1, <1>2, LastOf
<1>4. last \in applicable
  BY <1>3
<1> HIDE DEF last
<1>5. \A c \in DOMAIN Controllers : DOMAIN Controllers[c] \in SUBSET Nat
  BY DEF Controllers, AgentsEndpoints, AgentCommunicatorEndpoints, TasksEndpoints
<1>6. PICK i \in DOMAIN Controllers[last] :
        Matches(r, Controllers[last][i])
        /\ FindEndpoint(r, Controllers[last]) = Controllers[last][i].handler
  BY <1>4, <1>5, EndpointFound
<1>7. Controllers[last][i] \in AllEndpoints
  BY <1>4 DEF AllEndpoints, ToSet
<1> QED BY <1>1, <1>6, <1>7

\* No path of a request has "id" for an identifier.
LEMMA PathWords ==
    ASSUME NEW path \in Paths, NEW i \in 1 .. Len(path)
    PROVE  path[i] # "id"
BY IdsAssumption DEF Paths, Words

\* A collection named once in a path has its member after it.
LEMMA NamedOnce ==
    ASSUME NEW path, NEW w, Len(path) \in Nat, NEW k \in 1 .. Len(path) - 1, path[k] = w,
           \A i \in 1 .. Len(path) - 1 : path[i] = w => i = k
    PROVE  Named(path, w) = path[k + 1]
<1> DEFINE at == {i \in 1 .. Len(path) - 1 : path[i] = w}
<1>1. at = {k}
  OBVIOUS
<1>2. (CHOOSE i \in at : TRUE) = k
  BY <1>1
<1> QED BY <1>1, <1>2 DEF Named

LEMMA NamedNever ==
    ASSUME NEW path, NEW w, \A i \in 1 .. Len(path) - 1 : path[i] # w
    PROVE  Named(path, w) = None
BY DEF Named

\* The identifiers a handler passes are the members its path names.
CallNamesPath(h, path) ==
    /\ ManagerCall(h, path).agent = Named(path, "agents")
    /\ ManagerCall(h, path).task = Named(path, "tasks")
    /\ {ManagerCall(h, path).agent, ManagerCall(h, path).task} \subseteq Ids \cup {None}

LEMMA CommunicatorCall ==
    ASSUME NEW r \in Requests, NEW i, FitsCommunicator(r, i)
    PROVE  CallNamesPath(AgentCommunicatorEndpoints[i].handler, r.path)
<1>1. Len(r.path) = 3 /\ r.path[1] = "api" /\ r.path[2] = "agent"
  BY CommunicatorPaths
<1>2. Named(r.path, "agents") = None /\ Named(r.path, "tasks") = None
  <2>1. \A k \in 1 .. Len(r.path) - 1 : r.path[k] # "agents" /\ r.path[k] # "tasks"
    BY <1>1
  <2> QED BY <2>1, NamedNever
<1>3. AgentCommunicatorEndpoints[i].handler \in {"registerAgent", "statusAgent"}
  BY CommunicatorRoutes DEF FitsCommunicator
<1> QED BY <1>2, <1>3 DEF CallNamesPath, ManagerCall

LEMMA TasksCall ==
    ASSUME NEW r \in Requests, NEW i, FitsTasks(r, i), TasksEndpoints[i].handler \notin Stubs
    PROVE  CallNamesPath(TasksEndpoints[i].handler, r.path)
<1>1. i \in DOMAIN TasksEndpoints /\ i \in 1 .. 4 /\ i # 1
  BY TasksRoutes DEF FitsTasks, Stubs
<1>2. /\ Len(r.path) = 4 /\ r.path[1] = "api" /\ r.path[2] = "tasks"
      /\ r.path[3] \in Ids \cup {"id"}
  BY <1>1, TasksPaths
<1>3. r.path[3] \in Ids
  BY <1>2, PathWords DEF Requests
<1>4. \A k \in 1 .. Len(r.path) - 1 : r.path[k] # "agents" /\ (r.path[k] = "tasks" => k = 2)
  BY <1>2, <1>3, IdsAssumption DEF Words
<1>5. Named(r.path, "agents") = None
  BY <1>4, NamedNever
<1>6. Named(r.path, "tasks") = r.path[3]
  <2>1. 2 \in 1 .. Len(r.path) - 1 /\ Len(r.path) \in Nat
    BY <1>2
  <2> QED BY <2>1, <1>2, <1>4, NamedOnce
<1>7. TasksEndpoints[i].handler \in {"removeTaskResults", "getResults"}
  BY <1>1, TasksRoutes
<1>8. Segment(r.path, 2) = r.path[3]
  BY <1>2 DEF Segment
<1> QED BY <1>3, <1>5, <1>6, <1>7, <1>8 DEF CallNamesPath, ManagerCall

LEMMA AgentsCall ==
    ASSUME NEW r \in Requests, NEW i, FitsAgents(r, i), AgentsEndpoints[i].handler \notin Stubs
    PROVE  CallNamesPath(AgentsEndpoints[i].handler, r.path)
<1> DEFINE h == AgentsEndpoints[i].handler
<1>0. i \in DOMAIN AgentsEndpoints /\ i \in 1 .. 10 /\ r.path[1] = "api" /\ r.path[2] = "agents"
  BY AgentsPaths DEF FitsAgents
<1>1. CASE i \in 1 .. 3
  <2>1. Len(r.path) = 2 /\ h \in {"getAgents", "createAgent"}
    BY <1>0, <1>1, AgentsPaths, AgentsHandlers DEF Stubs
  <2>2. \A k \in 1 .. Len(r.path) - 1 : r.path[k] # "agents" /\ r.path[k] # "tasks"
    BY <2>1, <1>0
  <2>3. Named(r.path, "agents") = None /\ Named(r.path, "tasks") = None
    BY <2>2, NamedNever
  <2> HIDE DEF h
  <2>4. CallNamesPath(h, r.path)
    BY <2>1, <2>3 DEF CallNamesPath, ManagerCall
  <2> QED BY <2>4 DEF h
<1>2. CASE i \in 4 .. 5
  BY <1>0, <1>2, AgentsHandlers DEF Stubs
<1>3. ASSUME i > 5
      PROVE  \E n \in 4 .. 6 : Len(r.path) = n /\ (n > 4 <=> i > 8)
  BY <1>0, <1>3, AgentsPaths
<1>4. ASSUME i > 5
      PROVE  r.path[3] \in Ids /\ r.path[4] = "tasks" /\ (i > 8 => r.path[5] \in Ids)
  <2>1. PICK n \in 4 .. 6 : Len(r.path) = n /\ (n > 4 <=> i > 8)
    BY <1>3, <1>4
  <2>2. /\ r.path[3] \in Ids \cup {"id"} /\ r.path[4] = "tasks"
        /\ i > 8 => r.path[5] \in Ids \cup {"id"}
    BY <1>0, <1>4, AgentsPaths
  <2>3. 3 \in 1 .. n /\ (i > 8 => 5 \in 1 .. n)
    BY <1>0, <2>1
  <2>4. \A k \in 1 .. n : r.path[k] # "id"
    BY <2>1, PathWords DEF Requests
  <2> QED BY <2>2, <2>3, <2>4
<1>5. \A x \in Ids : x # "agents" /\ x # "tasks"
  BY IdsAssumption DEF Words
<1>6. ASSUME i > 5
      PROVE  Named(r.path, "agents") = r.path[3] /\ Segment(r.path, 2) = r.path[3]
  <2>1. PICK n \in 4 .. 6 : Len(r.path) = n /\ (n > 4 <=> i > 8)
    BY <1>3, <1>6
  <2>2. ASSUME NEW k \in 1 .. n - 1, r.path[k] = "agents" PROVE k = 2
    <3>1. k = 1 \/ k = 2 \/ k = 3 \/ k = 4 \/ (k = 5 /\ i > 8)
      BY <1>0, <2>1
    <3> QED BY <3>1, <2>2, <1>0, <1>4, <1>5, <1>6
  <2>3. 2 \in 1 .. n - 1 /\ n \in Nat /\ 2 + 1 = 3 /\ 3 <= n
    BY <2>1
  <2>4. Named(r.path, "agents") = r.path[2 + 1]
    BY <1>0, <2>1, <2>2, <2>3, NamedOnce
  <2> QED BY <2>1, <2>3, <2>4 DEF Segment
<1>7. CASE i \in 6 .. 8
  <2>1. Len(r.path) = 4 /\ h \in {"getTasks", "assignTask", "editTask"}
    BY <1>0, <1>7, AgentsPaths, AgentsHandlers
  <2>2. ASSUME NEW k \in 1 .. Len(r.path) - 1 PROVE r.path[k] # "tasks"
    <3>1. k = 1 \/ k = 2 \/ k = 3
      BY <2>1
    <3> QED BY <3>1, <1>0, <1>4, <1>5, <1>7
  <2>3. Named(r.path, "tasks") = None
    BY <2>2, NamedNever
  <2> HIDE DEF h
  <2>4. CallNamesPath(h, r.path)
    BY <2>1, <2>3, <1>4, <1>6, <1>7 DEF CallNamesPath, ManagerCall
  <2> QED BY <2>4 DEF h
<1>8. CASE i > 8
  <2>1. h \in {"removeTask", "toggleTask"}
    BY <1>0, <1>8, AgentsHandlers
  <2>2. PICK n \in 5 .. 6 : Len(r.path) = n
    BY <1>0, <1>3, <1>8
  <2>3. ASSUME NEW k \in 1 .. n - 1, r.path[k] = "tasks" PROVE k = 4
    <3>1. k = 1 \/ k = 2 \/ k = 3 \/ k = 4 \/ k = 5
      BY <2>2
    <3> QED BY <3>1, <2>3, <1>0, <1>4, <1>5, <1>8
  <2>4. 4 \in 1 .. n - 1 /\ n \in Nat /\ 4 + 1 = 5 /\ 5 <= n
    BY <2>2
  <2>5. Named(r.path, "tasks") = r.path[4 + 1]
    BY <1>0, <1>4, <1>8, <2>2, <2>3, <2>4, NamedOnce
  <2>6. Segment(r.path, 4) = r.path[5]
    BY <2>2, <2>4 DEF Segment
  <2> HIDE DEF h
  <2>7. CallNamesPath(h, r.path)
    BY <2>1, <2>4, <2>5, <2>6, <1>0, <1>4, <1>6, <1>8 DEF CallNamesPath, ManagerCall
  <2> QED BY <2>7 DEF h
<1> QED BY <1>0, <1>1, <1>2, <1>7, <1>8

LEMMA CallOfRoute ==
    ASSUME NEW r \in Requests, NEW e \in AllEndpoints, Matches(r, e), e.handler \notin Stubs
    PROVE  CallNamesPath(e.handler, r.path)
BY EndpointOrigin, AgentsCall, CommunicatorCall, TasksCall
   DEF FitsAgents, FitsCommunicator, FitsTasks

-----------------------------------------------------------------------------
(* From the request to the call.  A handler is always that of an endpoint  *)
(* the request fits: nothing the handler does later changes the request.   *)

RequestKnown == phase # "waiting" => request \in Requests

HandlerFits ==
    handler # None =>
        request \in Requests /\ \E e \in AllEndpoints : Matches(request, e) /\ handler = e.handler

CallIsHandlers ==
    called # None =>
        handler # None /\ handler \notin Stubs /\ called = ManagerCall(handler, request.path)

DispatchInv ==
    TypeOK /\ RequestKnown /\ HandlerFits /\ CallIsHandlers /\ CallAddressesNamed

LEMMA CallIsNamed ==
    ASSUME HandlerFits, handler # None, handler \notin Stubs
    PROVE  CallNamesPath(handler, request.path)
BY CallOfRoute DEF HandlerFits

LEMMA DispatchInvInit == Init => DispatchInv
BY DEF Init, DispatchInv, TypeOK, RequestKnown, HandlerFits, CallIsHandlers,
       CallAddressesNamed, Phases

LEMMA StatusLineKnown == \A code : StatusLine(code) \in StatusCodes
BY DEF StatusLine, StatusCodes

LEMMA SendKeepsType ==
    ASSUME NEW status, NEW next \in Phases, TypeOK, Send(status, next),
           UNCHANGED <<request, handler, called>>
    PROVE  TypeOK'
<1>1. phase' \in Phases
  BY SendOnce DEF Phases
<1>2. wire' \in {<<>>} \cup {<<code>> : code \in StatusCodes}
  BY SendOnce, StatusLineKnown DEF TypeOK
<1> QED BY <1>1, <1>2 DEF TypeOK

\* Once a request is routed, a step that changes neither it nor the call leaves
\* all but the type to see to.
LEMMA QuietStep ==
    ASSUME DispatchInv, TypeOK', UNCHANGED <<request, handler, called>>,
           phase # "waiting" \/ phase' = phase
    PROVE  DispatchInv'
BY DEF DispatchInv, RequestKnown, HandlerFits, CallIsHandlers, CallAddressesNamed

LEMMA DispatchInvNext == DispatchInv /\ IndInv /\ [Next]_vars => DispatchInv'
<1> SUFFICES ASSUME DispatchInv, IndInv, [Next]_vars PROVE DispatchInv'
  OBVIOUS
<1>1. ASSUME NEW r \in Requests, Receive(r) PROVE DispatchInv'
  BY <1>1 DEF Receive, DispatchInv, TypeOK, RequestKnown, HandlerFits, CallIsHandlers,
              CallAddressesNamed, Phases
<1>2. CASE CreateRequestHandler
  <2>1. /\ request' = request /\ called' = called /\ wire' = wire /\ called = None
        /\ phase' \in Phases /\ handler' = Route(request) /\ request \in Requests
    BY <1>2 DEF CreateRequestHandler, DispatchInv, IndInv, WireFollowsPhase, RequestKnown, Phases
  <2>2. HandlerFits'
    BY <2>1, RouteFound DEF HandlerFits
  <2> QED BY <2>1, <2>2 DEF DispatchInv, TypeOK, RequestKnown, CallIsHandlers, CallAddressesNamed
<1>3. CASE Reject
  BY <1>3, QuietStep DEF Reject, DispatchInv, TypeOK, Phases
<1>4. CASE CallManager
  <2>1. /\ phase = "handling" /\ handler # None /\ handler \notin Stubs
        /\ called' = ManagerCall(handler, request.path)
        /\ phase' \in Phases /\ UNCHANGED <<request, handler, wire>>
    BY <1>4 DEF CallManager, IndInv, WireFollowsPhase, Phases
  <2>2. CallNamesPath(handler, request.path)
    BY <2>1, CallIsNamed DEF DispatchInv
  <2>3. TypeOK' /\ CallAddressesNamed'
    BY <2>1, <2>2 DEF CallNamesPath, DispatchInv, TypeOK, CallAddressesNamed
  <2> QED BY <2>1, <2>3 DEF DispatchInv, RequestKnown, HandlerFits, CallIsHandlers
<1>5. CASE CallStub
  BY <1>5, QuietStep DEF CallStub, DispatchInv, TypeOK, Phases
<1>6. CASE Answer
  BY <1>6, QuietStep, SendKeepsType DEF Answer, DispatchInv, Phases
<1>7. CASE Render
  BY <1>7, QuietStep DEF Render, DispatchInv, TypeOK, Phases
<1>8. CASE AnswerError
  BY <1>8, QuietStep, SendKeepsType DEF AnswerError, DispatchInv, Phases
<1>9. CASE Explain
  BY <1>9, QuietStep DEF Explain, DispatchInv, TypeOK, Phases
<1>10. CASE FallThrough
  BY <1>10, QuietStep, SendKeepsType DEF FallThrough, DispatchInv, Phases
<1>11. CASE UNCHANGED vars
  BY <1>11, QuietStep DEF vars, DispatchInv, TypeOK
<1> QED BY <1>1, <1>2, <1>3, <1>4, <1>5, <1>6, <1>7, <1>8, <1>9, <1>10, <1>11 DEF Next

\* The request, the call and the wire keep their types; the identifiers of a call
\* are identifiers, never another segment of the path.
THEOREM TypeCorrect == Spec => []TypeOK
<1>1. DispatchInv => TypeOK
  BY DEF DispatchInv
<1> QED BY IndInvInit, IndInvNext, DispatchInvInit, DispatchInvNext, <1>1, PTL DEF Spec

\* No request fits two of the routes the three controllers declare
\* (AgentsController.h, AgentCommunicatorController.h, TasksController.h), so the
\* order in which createRequestHandler tries them (Router.cpp) decides nothing.
THEOREM RoutesUnique == Spec => []RouteIsUnique
<1>1. RouteIsUnique
  BY RoutesAreApart DEF RouteIsUnique
<1> QED BY <1>1, PTL

\* A manager is called with the agent and the task the path names, for whichever
\* of the routes and at whichever position in it, for any identifiers.
THEOREM CallsAddressTheNamed == Spec => []CallAddressesNamed
<1>1. DispatchInv => CallAddressesNamed
  BY DEF DispatchInv
<1> QED BY IndInvInit, IndInvNext, DispatchInvInit, DispatchInvNext, <1>1, PTL DEF Spec
=============================================================================
