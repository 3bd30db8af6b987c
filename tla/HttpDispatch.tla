---------------------------- MODULE HttpDispatch ----------------------------
(***************************************************************************)
(* One HTTP request from the route tables of the controllers to the answer *)
(* on the wire (app/Router.cpp, controllers/).  Controllers keep no state  *)
(* between requests, so one connection serving one request after another   *)
(* stands for every thread of the server.                                  *)
(*                                                                         *)
(* A URI is its sequence of path segments, identifiers among them, and the *)
(* form of its query; a body is the set of fields of a JSON object, with    *)
(* values of the right type, or no JSON.                                   *)
(***************************************************************************)
EXTENDS Naturals, Sequences, SequencesExt

CONSTANTS Ids,          \* identifiers of agents and tasks (GUIDs)
          None          \* no request, no handler, no identifier

\* The fixed segments of the paths, and "id" where a route has an identifier.
Words == {"api", "agents", "agent", "tasks", "registration", "status", "toggle",
          "result", "results", "error", "id"}

ASSUME NoneAssumption == None \notin Ids
\* No GUID is one of them.
ASSUME IdsAssumption == Ids \cap Words = {}

Methods == {"GET", "POST", "PUT", "DELETE"}

\* "comma" is the form ?from={from},to={to}, "pair" is ?from={from}&to={to}.
Queries == {"none", "pair", "comma", "from"}

Paths ==
    {<<"api", "agents">>, <<"api", "agent", "registration">>, <<"api", "agent", "status">>}
    \cup {<<"api", "agents", a>> : a \in Ids}
    \cup {<<"api", "agents", a, "tasks">> : a \in Ids}
    \cup {<<"api", "agents", a, "tasks", k>> : a, k \in Ids}
    \cup {<<"api", "agents", a, "tasks", k, "toggle">> : a, k \in Ids}
    \cup {<<"api", "tasks", k>> : k \in Ids}
    \cup {<<"api", "tasks", k, s>> : k \in Ids, s \in {"result", "results", "error"}}

\* What from_json takes with at(), which throws when the field is missing; the
\* id of an agent or a task is taken when it is there.
EditAgentFields == {"ip", "machineName", "heartbeat"}
EditTaskFields == {"frequency", "delay", "key", "valueType"}
RegistrationFields == {"ip", "machineName"}
StatusFields == {"id", "confirmations", "items"}

Fields == [createAgent |-> EditAgentFields, assignTask |-> EditTaskFields,
           editTask |-> EditTaskFields, registerAgent |-> RegistrationFields,
           statusAgent |-> StatusFields]

ReadsBody == DOMAIN Fields

\* The bodies of clients that know the interface, or forget one field of it.
Bodies == {None} \cup UNION {{Fields[h]} \cup {Fields[h] \ {f} : f \in Fields[h]} : h \in ReadsBody}

Requests == [method : Methods, path : Paths, query : Queries, body : Bodies]

-----------------------------------------------------------------------------
(* The route tables; "id" stands for GUID_REGEX_EXPRESSION.                *)
(* The C++ literal "/result\?.*" is the regex /result?.*, which also takes *)
(* any longer last segment and any query.                                  *)

Endpoint(method, path, handler) ==
    [method |-> method, path |-> path, open |-> FALSE, handler |-> handler]
OpenEndpoint(method, path, handler) ==
    [method |-> method, path |-> path, open |-> TRUE, handler |-> handler]

AgentsEndpoints ==
    <<Endpoint("GET", <<"api", "agents">>, "getAgents"),
      Endpoint("POST", <<"api", "agents">>, "createAgent"),
      Endpoint("PUT", <<"api", "agents">>, "editAgent"),
      Endpoint("GET", <<"api", "agents", "id">>, "getAgent"),
      Endpoint("DELETE", <<"api", "agents", "id">>, "deleteAgent"),
      Endpoint("GET", <<"api", "agents", "id", "tasks">>, "getTasks"),
      Endpoint("POST", <<"api", "agents", "id", "tasks">>, "assignTask"),
      Endpoint("PUT", <<"api", "agents", "id", "tasks">>, "editTask"),
      Endpoint("PUT", <<"api", "agents", "id", "tasks", "id", "toggle">>, "toggleTask"),
      Endpoint("DELETE", <<"api", "agents", "id", "tasks", "id">>, "removeTask")>>

AgentCommunicatorEndpoints ==
    <<Endpoint("POST", <<"api", "agent", "registration">>, "registerAgent"),
      Endpoint("POST", <<"api", "agent", "status">>, "statusAgent")>>

TasksEndpoints ==
    <<Endpoint("GET", <<"api", "tasks", "id">>, "getTask"),
      Endpoint("DELETE", <<"api", "tasks", "id", "result">>, "removeTaskResults"),
      OpenEndpoint("GET", <<"api", "tasks", "id", "result">>, "getResults"),
      OpenEndpoint("GET", <<"api", "tasks", "id", "error">>, "getResults")>>

Controllers == <<AgentsEndpoints, AgentCommunicatorEndpoints, TasksEndpoints>>

\* A segment an open route ends in may go on: /results matches /result?.*
Longer == [result |-> {"result", "results"}, error |-> {"error"}]

SegmentFits(segment, pattern, open) ==
    \/ segment = pattern
    \/ pattern = "id" /\ segment \in Ids
    \/ open /\ pattern \in DOMAIN Longer /\ segment \in Longer[pattern]

\* Fault: regex_search in place of regex_match, so a prefix is enough.
MatchesPrefix(r, endpoint) ==
    /\ endpoint.method = r.method
    /\ Len(r.path) >= Len(endpoint.path)
    /\ \A i \in 1 .. Len(endpoint.path) :
         SegmentFits(r.path[i], endpoint.path[i], endpoint.open)

\* regex_match on the whole URI, query included.
Matches(r, endpoint) ==
    /\ endpoint.method = r.method
    /\ Len(r.path) = Len(endpoint.path)
    /\ \A i \in 1 .. Len(endpoint.path) :
         SegmentFits(r.path[i], endpoint.path[i], endpoint.open)
    /\ endpoint.open \/ r.query = "none"

\* tryToFindEndpointForRequest: the first endpoint that matches.
FindEndpoint(r, endpoints) ==
    LET found == {i \in DOMAIN endpoints : Matches(r, endpoints[i])} IN
    IF found = {} THEN None
    ELSE endpoints[CHOOSE i \in found : \A j \in found : i <= j].handler

\* createRequestHandler: every applicable controller overwrites the one before.
Route(r) ==
    LET applicable == {c \in DOMAIN Controllers :
                         FindEndpoint(r, Controllers[c]) # None} IN
    IF applicable = {} THEN None
    ELSE FindEndpoint(r, Controllers[CHOOSE c \in applicable :
                                             \A d \in applicable : d <= c])

-----------------------------------------------------------------------------
(* What the handlers need and do *)

Stubs == {"getAgent", "editAgent", "deleteAgent", "getTask"}
AnswersJson == {"getAgents", "createAgent", "getTasks", "assignTask", "getResults",
                "registerAgent", "statusAgent"}

\* getQueryParameters: ?from=1,to=2 is one parameter, from.
Parameters(query) ==
    CASE query = "none" -> {}
      [] query = "pair" -> {"from", "to"}
      [] query \in {"comma", "from"} -> {"from"}

\* Fault: identifiers are taken one segment later, as if from a path with a host.
SegmentLater(path, i) == IF i + 2 <= Len(path) THEN path[i + 2] ELSE None

\* uriSegments[i] of the URI split at '/'.
Segment(path, i) == IF i + 1 <= Len(path) THEN path[i + 1] ELSE None

\* Fault: the two identifiers of removeTask and toggleTask are swapped.
ManagerCallSwapped(h, path) ==
    [name |-> h,
     agent |-> IF h \in {"removeTask", "toggleTask"} THEN Segment(path, 4)
               ELSE IF h \in {"getTasks", "assignTask", "editTask"}
               THEN Segment(path, 2) ELSE None,
     task |-> IF h \in {"removeTask", "toggleTask", "removeTaskResults", "getResults"}
              THEN Segment(path, 2) ELSE None]

\* The call a handler makes to its manager: its name and the identifiers passed.
ManagerCall(h, path) ==
    [name |-> h,
     agent |-> IF h \in {"getTasks", "assignTask", "editTask", "removeTask", "toggleTask"}
               THEN Segment(path, 2) ELSE None,
     task |-> CASE h \in {"removeTask", "toggleTask"} -> Segment(path, 4)
                [] h \in {"removeTaskResults", "getResults"} -> Segment(path, 2)
                [] OTHER -> None]

\* from_json of the handler's request type reads every field it needs.
Reads(h, body) == body # None /\ Fields[h] \subseteq body

\* Input that makes the handler throw before it calls its manager.
IsRejected(h, r) ==
    \/ h \in ReadsBody /\ ~Reads(h, r.body)
    \/ h = "getResults" /\ ~({"from", "to"} \subseteq Parameters(r.query))

-----------------------------------------------------------------------------
VARIABLES request,      \* the request being served
          phase,        \* how far it is
          handler,      \* the handler it was routed to
          called,       \* the call made to a manager
          wire          \* status codes sent for the request

vars == <<request, phase, handler, called, wire>>

Init ==
    /\ request = None
    /\ phase = "waiting"
    /\ handler = None
    /\ called = None
    /\ wire = <<>>

Receive(r) ==
    /\ phase \in {"waiting", "done"}
    /\ request' = r
    /\ phase' = "routing"
    /\ handler' = None
    /\ called' = None
    /\ wire' = <<>>

\* Without a handler createRequestHandler throws: the connection ends unanswered.
CreateRequestHandler ==
    /\ phase = "routing"
    /\ handler' = Route(request)
    /\ phase' = IF Route(request) = None THEN "done" ELSE "handling"
    /\ UNCHANGED <<request, called, wire>>

\* The codes of handleHttpStatusCode; any other is answered as 400.
StatusCodes == {200, 201, 202, 204, 205, 206, 400, 401, 403, 404, 405, 406, 409, 410, 415,
                500, 501, 503}

StatusLine(code) == IF code \in StatusCodes THEN code ELSE 400

\* Fault: a response may be sent twice.
SendAgain(status, next) ==
    /\ wire' = Append(wire, StatusLine(status))
    /\ phase' = next

\* response.send() may be called once: after that it throws, which ends the
\* connection from wherever it happens.
Send(status, next) ==
    IF wire = <<>> THEN wire' = <<StatusLine(status)>> /\ phase' = next
    ELSE UNCHANGED wire /\ phase' = "done"

\* The body or a parameter is missing or malformed.
Reject ==
    /\ phase = "handling"
    /\ IsRejected(handler, request)
    /\ phase' = "failing"
    /\ UNCHANGED <<request, handler, called, wire>>

\* The manager is called and returns, or throws.
CallManager ==
    /\ phase = "handling"
    /\ ~IsRejected(handler, request)
    /\ handler \notin Stubs
    /\ called' = ManagerCall(handler, request.path)
    /\ phase' \in {"answering", "failing"}
    /\ UNCHANGED <<request, handler, wire>>

CallStub ==
    /\ phase = "handling"
    /\ handler \in Stubs
    /\ phase' = "answering"
    /\ UNCHANGED <<request, handler, called, wire>>

Answer ==
    /\ phase = "answering"
    /\ Send(200, IF handler \in AnswersJson THEN "rendering" ELSE "falling")
    /\ UNCHANGED <<request, handler, called>>

\* to_string of the JSON, after the status line: it throws for text that is not UTF-8.
Render ==
    /\ phase = "rendering"
    /\ phase' \in {"falling", "failing"}
    /\ UNCHANGED <<request, handler, called, wire>>

\* The catch block of handleRequest.
AnswerError ==
    /\ phase = "failing"
    /\ Send(500, "explaining")
    /\ UNCHANGED <<request, handler, called>>

\* toJson of the exception, after the status line as well: when it throws nothing
\* catches it and the connection ends.
Explain ==
    /\ phase = "explaining"
    /\ phase' \in {"falling", "done"}
    /\ UNCHANGED <<request, handler, called, wire>>

\* handleRequest has no return: every request goes on to the answer 501.
FallThrough ==
    /\ phase = "falling"
    /\ Send(501, "done")
    /\ UNCHANGED <<request, handler, called>>

Next ==
    \/ \E r \in Requests : Receive(r)
    \/ CreateRequestHandler
    \/ Reject \/ CallManager \/ CallStub
    \/ Answer \/ Render \/ AnswerError \/ Explain \/ FallThrough

Spec == Init /\ [][Next]_vars

-----------------------------------------------------------------------------
(* Properties *)

Phases == {"waiting", "routing", "handling", "answering", "rendering", "failing",
           "explaining", "falling", "done"}

TypeOK ==
    /\ request \in Requests \cup {None}
    /\ phase \in Phases
    /\ called # None => {called.agent, called.task} \subseteq Ids \cup {None}
    /\ wire \in {<<>>} \cup {<<code>> : code \in StatusCodes}

\* Every handled request gets exactly one status line, 200 or 500, although
\* handleRequest goes on to send 501 after every one of them: 500 tells that the
\* manager was not called or threw, and no later answer replaces the first.
OneAnswer ==
    phase = "done" /\ handler # None =>
        /\ wire \in {<<200>>, <<500>>}
        /\ IsRejected(handler, request) => wire = <<500>> /\ called = None

AllEndpoints == UNION {ToSet(Controllers[c]) : c \in DOMAIN Controllers}

\* No request fits two routes, so neither the order of the endpoints (the first
\* wins) nor that of the controllers (the last wins) decides who serves it.
RouteIsUnique ==
    request # None =>
        \A e, f \in AllEndpoints : Matches(request, e) /\ Matches(request, f) => e = f

\* The segment that follows a collection in the path is the member addressed.
Named(path, collection) ==
    LET at == {i \in 1 .. Len(path) - 1 : path[i] = collection} IN
    IF at = {} THEN None ELSE path[(CHOOSE i \in at : TRUE) + 1]

\* A manager is asked about the very agent and task the path names, whichever
\* position they have in the routes of the two controllers.
CallAddressesNamed ==
    called # None =>
        /\ called.agent = Named(request.path, "agents")
        /\ called.task = Named(request.path, "tasks")

\* "GET /api/tasks/{id}/error" gets "information about errors in the collection
\* of data" (docs/requests-examples.md:97-99).
ErrorsAnswered ==
    called # None /\ request.method = "GET" /\ Last(request.path) = "error"
        => called.name = "getErrors"
=============================================================================
