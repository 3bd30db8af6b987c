--------------------------- MODULE WorkflowManager ---------------------------
(***************************************************************************)
(* The server's request handlers (core/WorkflowManager.cpp) running on the *)
(* HTTP thread pool over the Agent objects in memory and the database.     *)
(*                                                                         *)
(* A handler takes one step per call on shared state: an Agent method      *)
(* (atomic, see AgentImplementsSpec), findAgent and addAgent under the     *)
(* manager's own mutex, or one SQL statement.  Two fusions keep the number *)
(* of interleavings down and lose none: findAgent is taken with the Agent  *)
(* call that follows when it finds an agent, for that answer never changes *)
(* again, and the Agents table is read with the next step, for it only     *)
(* ever grows.  Requests that only read are not steps, and the tables of   *)
(* items, which no other table's handling depends on, are in TaskItems.    *)
(***************************************************************************)
EXTENDS AgentTasks, TasksRepository, Sequences, Integers

CONSTANTS Threads,      \* HTTP server threads
          Machines,     \* machine name and ip, taken together
          NoMachine,    \* no row in the Agents table
          NoAgent,      \* no agent id
          Allowed,      \* the requests each thread may receive
          Faults,       \* which of "crash" and "db" may happen
          Disciplined   \* clients address a task through the agent that owns it;
                        \* agents report on the tasks in their list and confirm
                        \* only the command outstanding

Requests == {"create", "register", "status", "assign", "edit", "remove", "toggle"}

ASSUME NoMachineAssumption == NoMachine \notin Machines
ASSUME NoAgentAssumption == NoAgent \notin AgentIds
ASSUME AllowedAssumption == Allowed \in [Threads -> SUBSET Requests]
ASSUME DisciplinedAssumption == Disciplined \in BOOLEAN

VARIABLES agentsDb,     \* the Agents table: the machine of each id
          tasksDb,      \* the Tasks table
          agents,       \* _agents: the Agent objects, in the order of addAgent
          owner,        \* the agent each task id was created for (history)
          calls         \* the handler each thread is in

vars == <<agentsDb, tasksDb, agents, owner, calls>>
store == <<agentsDb, tasksDb>>

\* The points of a handler between two steps, named for the step to come.
Points == {"idle", "load", "add", "status", "getNew", "assign",
           "getEdited", "update", "delete", "suspend", "getToggled", "set", "start"}

\* The local variables of a handler: the agent id and task id of the request,
\* the Agent pointer it found (an index, 0 for null), the configuration of an
\* edit, the row object it read, the task list of an Agent it is building.
Calls == [pc : Points, agent : AgentIds \cup {NoAgent}, found : Nat,
          task : TaskIds \cup {NoTask}, config : Configs \cup {NoConfig},
          row : Rows \cup {NoRow}, board : Boards]

Idle == [pc |-> "idle", agent |-> NoAgent, found |-> 0, task |-> NoTask,
         config |-> NoConfig, row |-> NoRow, board |-> EmptyBoard]

\* findAgent: the first object with this id, 0 when there is none.
WithId(id) == {i \in DOMAIN agents : agents[i].id = id}

\* Fault: the search returns the object added last.
FindLastAgent(id) ==
    IF WithId(id) = {} THEN 0
    ELSE CHOOSE i \in WithId(id) : \A j \in WithId(id) : j <= i

FindAgent(id) ==
    IF WithId(id) = {} THEN 0
    ELSE CHOOSE i \in WithId(id) : \A j \in WithId(id) : i <= j

IsConnected(id) == FindAgent(id) # 0

\* The task list that a request naming this agent reaches.
BoardOf(id) == agents[FindAgent(id)].board

SetBoard(i, board) == agents' = [agents EXCEPT ![i].board = board]

Receives(th, request) == calls[th] = Idle /\ request \in Allowed[th]

\* A task that was created, named by a client through the agent id.
Names(id, k) == owner[k] # NoAgent /\ (Disciplined => owner[k] = id)

Goto(th, call) == calls' = [calls EXCEPT ![th] = call]
Finish(th) == Goto(th, Idle)

-----------------------------------------------------------------------------
Init ==
    /\ agentsDb = [id \in AgentIds |-> NoMachine]
    /\ tasksDb = EmptyTable
    /\ agents = <<>>
    /\ owner = [k \in TaskIds |-> NoAgent]
    /\ calls = [th \in Threads |-> Idle]

-----------------------------------------------------------------------------
(* The Agents table *)

IsKnown(id) == agentsDb[id] # NoMachine

\* getByIpAndMachineName
RowsFor(machine) == {id \in AgentIds : agentsDb[id] = machine}

\* The statement throws on a second row for the machine.
MayInsert(machine) == RowsFor(machine) = {}

\* The id is a fresh UUID.
CreateAgent(th, id, machine) ==
    /\ Receives(th, "create")
    /\ ~IsKnown(id)
    /\ MayInsert(machine)
    /\ agentsDb' = [agentsDb EXCEPT ![id] = machine]
    /\ UNCHANGED <<tasksDb, agents, owner, calls>>

-----------------------------------------------------------------------------
(* registerAgent: the id is the first of the rows for the machine. *)

RegisterKnown(th, id) ==
    /\ Receives(th, "register")
    /\ IsConnected(id)
    /\ SetBoard(FindAgent(id), EmptyBoard)
    /\ UNCHANGED <<store, owner, calls>>

RegisterMissing(th, id) ==
    /\ Receives(th, "register")
    /\ ~IsConnected(id)
    /\ Goto(th, [Idle EXCEPT !.pc = "load", !.agent = id])
    /\ UNCHANGED <<store, agents, owner>>

\* Fault: the tasks to load are looked up by their agent, not by their rows.
LoadedDeletedToo(id) ==
    [k \in TaskIds |-> IF owner[k] = id
                       THEN NewTask(k, CHOOSE config \in Configs : TRUE) ELSE NoTask]

\* init of a new Agent with the active rows of its tasks.
Loaded(id) ==
    [k \in TaskIds |-> IF k \in ListRows(tasksDb, id, TRUE)
                       THEN NewTask(k, tasksDb[k].config) ELSE NoTask]

RegisterLoad(th) ==
    /\ calls[th].pc = "load"
    /\ Goto(th, [calls[th] EXCEPT !.pc = "add", !.board = Loaded(calls[th].agent)])
    /\ UNCHANGED <<store, agents, owner>>

RegisterAdd(th) ==
    /\ calls[th].pc = "add"
    /\ agents' = Append(agents, [id |-> calls[th].agent, board |-> calls[th].board])
    /\ Finish(th)
    /\ UNCHANGED <<store, owner>>

-----------------------------------------------------------------------------
(* statusAgent: save the items (see TaskItems), then prepareStatusResponse. *)

StatusFind(th, id) ==
    /\ Receives(th, "status")
    /\ IsConnected(id)
    /\ Goto(th, [Idle EXCEPT !.pc = "status", !.agent = id, !.found = FindAgent(id)])
    /\ UNCHANGED <<store, agents, owner>>

\* The tasks an agent reports on and confirms: any that was ever assigned to
\* it; with a disciplined agent those in the list it is working from.
Known(th) ==
    {k \in TaskIds : /\ owner[k] = calls[th].agent
                     /\ Disciplined => IsListed(agents[calls[th].found].board, k)}

\* The command outstanding for the task is of the type confirmed.
Answers(board, settled, cancelled) ==
    /\ \A k \in settled : IsListed(board, k) /\ board[k].state \in {"Creating", "Changing"}
    /\ \A k \in cancelled : IsListed(board, k) /\ board[k].state = "Cancelling"

PrepareStatus(th, settled, cancelled) ==
    LET board == agents[calls[th].found].board IN
    /\ calls[th].pc = "status"
    /\ settled \cup cancelled \subseteq Known(th)
    /\ Disciplined => Answers(board, settled, cancelled)
    /\ SetBoard(calls[th].found, Confirmed(board, settled, cancelled))
    /\ Finish(th)
    /\ UNCHANGED <<store, owner>>

-----------------------------------------------------------------------------
(* assignTask *)

\* The id is a fresh UUID and taskDb.isActive is never initialised.
SaveTask(th, id, k, config, isActive) ==
    /\ Receives(th, "assign")
    /\ IsKnown(id)
    /\ owner[k] = NoAgent
    /\ owner' = [owner EXCEPT ![k] = id]
    /\ tasksDb' = InsertRow(tasksDb, k, Row(id, config, isActive))
    /\ Goto(th, [Idle EXCEPT !.pc = "getNew", !.agent = id, !.task = k])
    /\ UNCHANGED <<agentsDb, agents>>

AssignGet(th) ==
    /\ calls[th].pc = "getNew"
    /\ HasRow(tasksDb, calls[th].task)
    /\ Goto(th, [calls[th] EXCEPT !.pc = "assign", !.row = tasksDb[calls[th].task]])
    /\ UNCHANGED <<store, agents, owner>>

\* agent->assignTask throws when the task is already listed.
AssignToAgent(th) ==
    LET call == calls[th] IN
    /\ call.pc = "assign"
    /\ IF IsConnected(call.agent) /\ ~IsListed(BoardOf(call.agent), call.task)
       THEN SetBoard(FindAgent(call.agent),
                     AssignTo(BoardOf(call.agent), call.task, call.row.config))
       ELSE UNCHANGED agents
    /\ Finish(th)
    /\ UNCHANGED <<store, owner>>

-----------------------------------------------------------------------------
(* editTask: in memory first, then in the database. *)

\* Without an Agent object, or once it has accepted the change.
EditInAgent(th, id, k, config) ==
    /\ Receives(th, "edit")
    /\ Names(id, k)
    /\ \/ /\ IsConnected(id)
          /\ IsSettled(BoardOf(id), k)
          /\ SetBoard(FindAgent(id), EditOn(BoardOf(id), k, config))
       \/ ~IsConnected(id) /\ UNCHANGED agents
    /\ Goto(th, [Idle EXCEPT !.pc = "getEdited", !.task = k, !.config = config])
    /\ UNCHANGED <<store, owner>>

EditGet(th) ==
    LET call == calls[th] IN
    /\ call.pc = "getEdited"
    /\ IF HasRow(tasksDb, call.task)
       THEN Goto(th, [call EXCEPT !.pc = "update",
                                  !.row = [tasksDb[call.task] EXCEPT !.config = call.config]])
       ELSE Finish(th)
    /\ UNCHANGED <<store, agents, owner>>

EditUpdate(th) ==
    /\ calls[th].pc = "update"
    /\ tasksDb' = UpdateRow(tasksDb, calls[th].task, calls[th].row)
    /\ Finish(th)
    /\ UNCHANGED <<agentsDb, agents, owner>>

-----------------------------------------------------------------------------
(* removeTask: whether cancelTask cancels or finds nothing, the row goes. *)

\* cancelTask: cancels a settled task, is false for an unlisted one, and
\* throws out of the handler for a busy one.
Cancelled(id, k) ==
    /\ IsConnected(id)
    /\ IsSettled(BoardOf(id), k)
    /\ SetBoard(FindAgent(id), CancelOn(BoardOf(id), k))

\* Fault: the exception of a busy task is swallowed.
NothingOrBusy(id, k) == UNCHANGED agents

NothingToCancel(id, k) ==
    /\ IsConnected(id) => ~IsListed(BoardOf(id), k)
    /\ UNCHANGED agents

RemoveInAgent(th, id, k) ==
    /\ Receives(th, "remove")
    /\ Names(id, k)
    /\ Cancelled(id, k) \/ NothingToCancel(id, k)
    /\ Goto(th, [Idle EXCEPT !.pc = "delete", !.task = k])
    /\ UNCHANGED <<store, owner>>

\* The row; the results are cleared after it (see TaskItems).
RemoveTask(th) ==
    /\ calls[th].pc = "delete"
    /\ tasksDb' = RemoveRow(tasksDb, calls[th].task)
    /\ Finish(th)
    /\ UNCHANGED <<agentsDb, agents, owner>>

-----------------------------------------------------------------------------
(* toggleTask *)

ToggleCancel(th, id, k) ==
    /\ Receives(th, "toggle")
    /\ Names(id, k)
    /\ Cancelled(id, k)
    /\ Goto(th, [Idle EXCEPT !.pc = "suspend", !.task = k])
    /\ UNCHANGED <<store, owner>>

ToggleSuspend(th) ==
    /\ calls[th].pc = "suspend"
    /\ tasksDb' = ToggleState(tasksDb, calls[th].task, FALSE)
    /\ Finish(th)
    /\ UNCHANGED <<agentsDb, agents, owner>>

ToggleUnlisted(th, id, k) ==
    /\ Receives(th, "toggle")
    /\ Names(id, k)
    /\ NothingToCancel(id, k)
    /\ Goto(th, [Idle EXCEPT !.pc = "getToggled", !.agent = id, !.task = k,
                             !.found = FindAgent(id)])
    /\ UNCHANGED <<store, owner>>

ToggleGet(th) ==
    LET call == calls[th] IN
    /\ call.pc = "getToggled"
    /\ IF HasRow(tasksDb, call.task)
       THEN Goto(th, [call EXCEPT !.pc = "set", !.row = tasksDb[call.task]])
       ELSE Finish(th)
    /\ UNCHANGED <<store, agents, owner>>

\* Fault: the agent of the row is not compared.
ToBeStartedAnywhere(call) == call.found # 0 /\ ~call.row.isActive

\* The task is started again only in the Agent object of the row's agent.
ToBeStarted(call) ==
    /\ call.found # 0
    /\ call.row.agentId = agents[call.found].id
    /\ ~call.row.isActive

ToggleSet(th) ==
    LET call == calls[th] IN
    /\ call.pc = "set"
    /\ tasksDb' = ToggleState(tasksDb, call.task, ~call.row.isActive)
    /\ IF ToBeStarted(call) THEN Goto(th, [call EXCEPT !.pc = "start"]) ELSE Finish(th)
    /\ UNCHANGED <<agentsDb, agents, owner>>

ToggleStart(th) ==
    LET call == calls[th]
        board == agents[call.found].board IN
    /\ call.pc = "start"
    /\ IF IsListed(board, call.task) THEN UNCHANGED agents
       ELSE SetBoard(call.found, AssignTo(board, call.task, call.row.config))
    /\ Finish(th)
    /\ UNCHANGED <<store, owner>>

-----------------------------------------------------------------------------
(* Failures *)

\* A statement throws: the handler ends, what it did before stays.
DbError(th) ==
    /\ "db" \in Faults
    /\ calls[th].pc \in Points \ {"idle", "add", "assign", "start"}
    /\ Finish(th)
    /\ UNCHANGED <<store, agents, owner>>

\* The process ends and is started again: only the database is left.
Restart ==
    /\ agents' = <<>>
    /\ calls' = [th \in Threads |-> Idle]
    /\ UNCHANGED <<store, owner>>

Crash == "crash" \in Faults /\ Restart

\* assignTask dereferences the null row of a task removed in the meantime.
NullRow(th) ==
    /\ calls[th].pc = "getNew"
    /\ ~HasRow(tasksDb, calls[th].task)
    /\ Restart

-----------------------------------------------------------------------------
Register(th) ==
    \/ \E machine \in Machines : \E id \in RowsFor(machine) :
         RegisterKnown(th, id) \/ RegisterMissing(th, id)
    \/ RegisterLoad(th)
    \/ RegisterAdd(th)

Status(th) ==
    \/ \E id \in AgentIds : StatusFind(th, id)
    \/ \E settled, cancelled \in SUBSET TaskIds : PrepareStatus(th, settled, cancelled)

Assign(th) ==
    \/ \E id \in AgentIds, k \in TaskIds, config \in Configs, isActive \in BOOLEAN :
         SaveTask(th, id, k, config, isActive)
    \/ AssignGet(th)
    \/ AssignToAgent(th)
    \/ NullRow(th)

Edit(th) ==
    \/ \E id \in AgentIds, k \in TaskIds, config \in Configs : EditInAgent(th, id, k, config)
    \/ EditGet(th)
    \/ EditUpdate(th)

Remove(th) ==
    \/ \E id \in AgentIds, k \in TaskIds : RemoveInAgent(th, id, k)
    \/ RemoveTask(th)

Toggle(th) ==
    \/ \E id \in AgentIds, k \in TaskIds : ToggleCancel(th, id, k) \/ ToggleUnlisted(th, id, k)
    \/ ToggleSuspend(th)
    \/ ToggleGet(th)
    \/ ToggleSet(th)
    \/ ToggleStart(th)

Create(th) == \E id \in AgentIds, machine \in Machines : CreateAgent(th, id, machine)

Handle(th) ==
    \/ Create(th) \/ Register(th) \/ Status(th)
    \/ Assign(th) \/ Edit(th) \/ Remove(th) \/ Toggle(th)

Next ==
    \/ \E th \in Threads : Handle(th) \/ DbError(th)
    \/ Crash

Spec == Init /\ [][Next]_vars

-----------------------------------------------------------------------------
(* Properties *)

TypeOK ==
    /\ agentsDb \in [AgentIds -> Machines \cup {NoMachine}]
    /\ tasksDb \in Tables
    /\ agents \in Seq([id : AgentIds, board : Boards])
    /\ owner \in [TaskIds -> AgentIds \cup {NoAgent}]
    /\ calls \in [Threads -> Calls]

\* An Agent object only ever lists tasks created for its own agent, although
\* clients may name any task through any agent and toggleTask works on a row
\* read two steps earlier.
NoForeignTasks ==
    \A i \in DOMAIN agents, k \in TaskIds :
        IsListed(agents[i].board, k) => owner[k] = agents[i].id

\* The raw Agent pointer a handler keeps across its steps is the object
\* findAgent would return now, even after a registration race has added a
\* second object for the same agent.
HeldAgentIsCurrent ==
    \A th \in Threads : calls[th].found # 0 =>
        calls[th].found = FindAgent(calls[th].agent)

\* The second object that such a race leaves in _agents is never used again.
IsShadow(i) == \E j \in DOMAIN agents : j < i /\ agents[j].id = agents[i].id

ShadowAgentsInert ==
    [][\A i \in DOMAIN agents : IsShadow(i) /\ i \in DOMAIN agents' => agents'[i] = agents[i]]_vars

\* A deleted row never comes back, whatever stale row object a concurrent
\* editTask or toggleTask still writes.
RowNeverReturns ==
    [][\A k \in TaskIds : owner[k] # NoAgent /\ ~HasRow(tasksDb, k) => ~HasRow(tasksDb', k)]_vars

\* The handler has read what it may list the task from.
HasCopy(call, k) ==
    \/ call.task = k /\ call.pc \in {"assign", "set", "start"}
    \/ IsListed(call.board, k)

IsUnlisted(k) == \A i \in DOMAIN agents : ~IsListed(agents[i].board, k)

\* The task was deleted, has left every list, and no handler is still at work
\* on a row of it read before: handlers of requests that name it may be.
IsGone(k) ==
    /\ owner[k] # NoAgent
    /\ ~HasRow(tasksDb, k)
    /\ IsUnlisted(k)
    /\ \A th \in Threads : ~HasCopy(calls[th], k)

\* A task that is gone stays so, and is never listed again: not by a request
\* that was under way at its deletion or that names it later (toggleTask,
\* editTask, assignTask), nor by a registration, a confirmation or a restart.
DeletedTasksStayGone ==
    [][\A k \in TaskIds : IsGone(k) => IsGone(k)']_vars

\* "Initialize agent with task list" (Agent.h:27): where no task was ever
\* toggled, a registering agent is given every task assigned to it.
InitListsAssigned ==
    [][\A th \in Threads, k \in TaskIds :
         /\ calls[th].pc = "load"
         /\ calls'[th].pc = "add"
         /\ k \in ListRows(tasksDb, calls[th].agent, FALSE)
         => IsListed(calls'[th].board, k)]_vars
=============================================================================
