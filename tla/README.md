# Verification of the nikmon server

nikmon is a monitoring server: operators assign tasks to monitored machines
through a REST interface; an agent program on each machine (not in this
repository) registers, polls with status requests, is told by the answers which
tasks to start, change and cancel, and reports values that the server stores in
SQLite. The server runs up to `HttpServerMaxThreads` handlers at once (30 in
`conf/server.config`), and they all share the same objects and one database
session.

Paths below are relative to `src/src/` unless they start with `docs/`.

## 1. Inventory

| Component | State | Operations | Hard behaviour |
|---|---|---|---|
| `core/Task` | configuration and a `TaskState` | accept a change, a cancel, a confirmation; build the command outstanding | stale, repeated and negative confirmations |
| `core/Agent` | list of owned tasks under a recursive mutex | `init`, `reset`, `assignTask`, `editTask`, `cancelTask`, `prepareStatusResponse`, `getTask` | iterators used while others change the list; a raw pointer handed out |
| `core/WorkflowManager` | vector of Agents under a mutex; every decision that spans memory and database | `registerAgent`, `statusAgent`, `assignTask`, `editTask`, `removeTask`, `toggleTask`, queries | check-then-act across calls, partial failures, a crash that loses memory only |
| `SQLiteDatabaseManager`, task operations and repository | the Tasks table | single statements, no transaction | read-modify-write, a flag never initialised |
| Agents repository | the Agents table, unique by machine name and ip | insert, get, look-up by machine, list | a machine created twice |
| Task items and their repositories | three tables of results, one of errors | `saveTaskItems`, `getResults`, `removeTask`, `removeTaskResults` | items in parallel with edits and removals, a request stored in part |
| Agent protocol | messages between agent and server | registration, status, commands, confirmations | lost requests and answers, failed commands, restarts of either side, eventual delivery |
| `Controller`, `Router`, controllers | none between requests | match a route, read the request, call a manager, answer | two containers of routes, an answer followed by another |
| `TasksManager` | none | forwards to the database manager | none |
| `Application`, `ServiceLocator`, `ConfigurationManager`, `Router` statics, database creation | settings, singletons, three static controllers, the database file | start the server, make the managers and the file at the first request | several first requests at once, a creation cut short or tried again |

Interactions: the HTTP server calls `Router::createRequestHandler`, which makes
the controllers at the first request and picks one of them; the controller calls
one manager (`WorkflowManager` behind two interfaces, or `TasksManager`); the
manager calls Agent objects and the database manager. There are no callbacks and
no background threads: all the concurrency is between handlers, and all the
waiting is for a mutex, for the guard of a static, or for SQLite.

What makes each part correct is stated as properties in its module (section 3);
the hazards behind them are listed at their lines in `PROJECT.json`.

## 2. Modules

```
Task ---- AgentTasks --- AgentSpec <--refinement-- Agent --- AgentProofs
              |
TasksRepository
     |        |
     +--------+--- WorkflowManager --- WorkflowRaces --refinement--> TaskLife
     |        |          |                  |                          ^
     |        |    WorkflowProofs ----- RacesProofs --- RacesLifeProofs |
     |        |                                                        |
     +--------+--- AgentProtocol ---------------refinement-------------+
                         |
                   ProtocolProofs

TaskItems --- TaskItemsProofs    Startup --- StartupProofs    HttpDispatch --- HttpProofs
```

- **Task** is `core/Task.cpp`: a record of id, configuration and state. Frequency,
  delay, key and value type are always copied together and become one opaque
  configuration.
- **AgentTasks** has the operators on a *board*, at most one task per id, which is
  the task list as its users see it.
- **AgentSpec** is the abstract specification of an Agent object: one atomic step
  on a board per method; a status request, with all its confirmations, is one.
- **Agent** is `core/Agent.cpp` at the level of its lock. `tasks` is `_tasks`, a
  sequence of addresses; `heap` the Task objects allocated; `mutex` the thread
  inside; `calls` the argument and the iterator of each thread. A method takes a
  step to lock and search and a step to use what it found, and a status call as many
  as it has confirmations. Its history variables are `before`, the board the running
  status call has found, and `settled` and `cancelled`, the ids it has confirmed.
- **TasksRepository** is the Tasks table and the statements on it, one atomic
  operator each.
- **WorkflowManager** is `core/WorkflowManager.cpp` on the thread pool, over the
  Agents and Tasks tables. A handler takes one step per call on shared state: a
  method of an Agent (atomic, by the theorem `AgentImplementsSpec`), a
  `findAgent` or `addAgent`, one statement. `agentsDb` and `tasksDb` are the
  tables, `agents` is `_agents`, `calls` holds the local variables: the Agent
  pointer found, the row read, the list being built. `owner` is a history
  variable, the agent each task id was created for. Faults: a statement throws
  (the handler ends in the middle), the process is restarted (only tables are
  left).
- **WorkflowRaces** follows WorkflowManager step by step, adds no behaviour to it and
  translates no code of its own. It has one history variable, `raced`: the
  tasks two handlers have worked on at once, or one has left half done, since
  the lists were last empty (or since before, while a handler is still at work on the
  task). For the others it says when memory and database agree, and reads the stage
  of each in its life off its list, its row and the point its handler has reached
  (`Stage`): a removal, a toggle or an edit has taken effect with its step in memory,
  an assignment once the task is in the table and in the list.
- **AgentProtocol** composes the handlers with the external agent over a lossy
  connection: `wire` is the message under way, `running` what the agent does,
  `unsent` the confirmations it owes, `failed` (history) the tasks whose last
  command it could not carry out. Handlers are one step here; what they do in
  several steps to the life of a task is in WorkflowRaces.
- **TaskLife** is the abstract specification of a task's life as operators may rely
  on it: eight stages from `new` to `gone`, without messages, lists or rows.
  Two modules are mapped to it: `AgentProtocol`, whose `Stage` reads the stage of a
  task off its row and its place in the list, and `WorkflowRaces`, one task at a time,
  since requests of different tasks interleave there.
- **TaskItems** is `saveTaskItems`, `getResults`, `removeTask` and
  `removeTaskResults` at the level of statements on the tables of items: a status
  request is a sequence of items saved one after the other, against edits of the
  value type, removals and queries. History: `everTyped`, the types a task has
  had; `acknowledged`, what status requests were answered for; `discarded`, the
  tasks whose results were cleared; `disturbed`, the tasks whose removal ran into
  a save or was cut short.
- **Startup** is a process from `main` to its first requests: `Application::init`
  in its order, `Router::createRequestHandler` with its three function-local
  statics and their compiler guards, the constructor of `SQLiteDatabaseManager`
  and `createDatabaseIfNotExist` one CREATE TABLE after the other, with
  exceptions, exits and edits of the settings in between. `torn` (history) has
  the files whose creation was cut short.
- **HttpDispatch** follows a request from the route tables to the statuses on the
  wire. A body is the set of its fields. `Send` is Poco's
  `HTTPServerResponse::send`, which may be called once.
- The **Proofs** modules hold the theorems of section 5.

The MC modules add symmetry and the choice of requests per thread. Operators
whose comment starts with "Fault:" are faults a developer might introduce; each
stands in for the definition after it to show that a property notices. They are
used by no specification.

## 3. What the runs check

| Run | Instance | Shows |
|---|---|---|
| `agent_object` | 3 threads, 2 ids, 2 configurations, 3 addresses | `TaskListSound`: owned exactly once, ids unique. `IteratorsValid`: what was found is still what would be found. `ResponseOmitsConfirmed`, `ResponseAnswersRequest`: a response is made of the list its call has found and its own confirmations. `ImplementsAgentSpec`: refinement of the atomic board |
| `workflow_concurrent` | 3 threads, one of them for the agents, 2 agents, 2 machines, 1 task, errors, crashes, careless clients | `NoForeignTasks`: an Agent lists its own agent's tasks only. `HeldAgentIsCurrent`, `ShadowAgentsInert`: racing registrations. `RowNeverReturns`: a stale row object revives no row. `DeletedTasksStayGone`: a deleted task that is out of the lists and in no handler's hands is never listed again, whatever names it |
| `workflow_races` | 2 threads that take any request, 1 agent, 2 tasks, 2 configurations, errors, crashes | `ListMatchesStore`: list and Tasks table agree on every task that no two handlers worked on at once and no statement failed for. `CancelIsStored`: a task being cancelled is not started again by a restart. `HandlersFollowTaskLife`: each kind of request, in several steps, moves such a task only as TaskLife allows that kind, and a new Agent object is given every such task that it should be given |
| `protocol` | 2 tasks, one of which the agent may fail to handle, 2 configurations, lost messages, restarts, fairness | `ActiveMeansCollecting`, `ChangeAwaitsAgent`, `PendingResolves`, `CancelledTaskStops`, `ComesIntoStep`: left alone, agent and list come to agree. `ImplementsTaskLife`: refinement of TaskLife. All for an agent that sends each confirmation once |
| `task_items` | a thread that saves requests of up to 2 items, one that removes, one that edits and queries; 1 task, 4 value types, failures | `ResultsTyped`, `OrphansOnlyFromRace`. `AcknowledgedIsKept`: what a status request was answered for stays stored. `AnswerIsComplete`: a query misses none of it |
| `startup` | 3 first requests at once, 2 database files, 6 tables, edits of the settings, exceptions, exits, fairness | `ServesCompleteStore`: handlers find all the tables in their file. `OneBuilder`: a controller under construction has one thread that constructs it. `ConstructionEnds`: no request waits for ever for a controller |
| `http_dispatch` | 2 identifiers, every method, path, query form, every body complete or lacking a field | `OneAnswer`, `RouteIsUnique`, `CallAddressesNamed` |

Every one of them but `workflow_races` also checks the type invariant of its
module; WorkflowRaces adds one set of task ids to the state of WorkflowManager.

The properties of `workflow_races` are conditional on purpose: two edits of one
task at once are taken by the Agent object in one order and by the database in the
other, and a statement that fails after the Agent object was changed leaves the
two apart until a restart. The variable `raced` says precisely for which tasks, and
for how long, that may be. A status request and a registration that finds its Agent
object work on no task in this sense: they may come between any two steps of a
handler of their tasks, and nothing is excluded. Of a restart,
`HandlersFollowTaskLife` speaks only where no handler was in the middle of the task.

A registration that finds no Agent object reads the rows in one step and adds the
object in a later one. A task that another handler works on in between is in `raced`,
and it may really be missing from the list, or be in it as it was, until the next
restart. `HandlersFollowTaskLife` says that there are no others: when the object is
added (`AddsAgentOf`), every task nobody worked on in between makes the `Load` move
of TaskLife, so that none is missing, outdated, suspended or deleted.

`DeletedTasksStayGone` begins where a deleted task is in no list and no handler holds
a copy of its row (`HasCopy`): a toggle, an assignment or a registration that read the
row before the deletion does list the task once more, with no row behind it (the
stage `stray`). From that moment on nothing lists it again: not a request under way
that names the task and has not read its row yet, nor any later one, nor a
registration, a confirmation or a restart.

`ServesCompleteStore` is conditional in the same way: `createDatabaseIfNotExist`
takes any file for a complete database, so a file whose own creation was cut short
stays incomplete.

### Where the code and its comments disagree

Five runs find a counterexample to what a comment, a schema or `docs/` says;
`PROJECT.json` quotes the lines.

| Run | Behaviour |
|---|---|
| `agent_held_pointer` | `getTasks` uses a Task pointer after the lock is released: it may be gone |
| `workflow_init_list` | `isActive` of a new task is uninitialised, so the task may not be loaded |
| `protocol_resent_confirmation` | a confirmation repeated settles a later command of another type |
| `task_items_foreign_key` | error items outlive their task; SQLite does not enforce the declared key |
| `http_error_route` | the route of errors is served by `getResults` |

Noticed while modelling, in the models, and without a run of its own:

- `isConfirmed` of a confirmation is never read, so a command the agent could not
  carry out settles its task like any other. `docs/TODO_List.md:4` has it as work to
  be done, so it is no disagreement: `Fallible` and `failed` of AgentProtocol say
  what still holds with it.
- An agent that registers a second time, because the answer to the first was lost
  or because it restarted, has its list reset: it runs nothing until tasks are
  toggled or the server restarts. `ComesIntoStep` holds because list and agent are
  then empty alike.
- The documented query `?from={from},to={to}` (`docs/requests-examples.md:95`) is one
  parameter to `getQueryParameters` and is answered 500.
- `DELETE /api/tasks/{id}/result`, listed under "delete a task"
  (`docs/requests-examples.md:88`), removes the results only.
- After an edit of the value type `getResults` no longer returns what was stored
  under the earlier one.
- A value type outside the enumeration is stored and makes the first item of its
  task reach the assertion of `saveTaskItems`.

### Bounds

- Two threads are enough for every pair of handlers to interleave, and the third
  lets something happen between two that already conflict (two registrations and
  an assignment, say). `workflow_concurrent` (510 thousand states) has one task to
  stay within two minutes: a handler works on one task, and tasks meet only in
  lists, whose operations `agent_object` checks with two. For the same reason one
  thread takes the requests of agents and the other two those of operators and
  registrations. `workflow_races` (890 thousand) has two tasks and two
  configurations, and its two threads take any request.
- Two agents, with a machine each, are needed for requests through the wrong agent,
  two registrations of one agent for a shadow object.
- Two configurations distinguish old from new. One configuration is enough in
  `workflow_concurrent`, none of whose properties reads it.
- In `protocol` one task never fails and one may, so that each is checked beside the
  other.
- In `task_items` (1.1 million states) a request has up to two items, so that one
  can be lost for the sake of the other; one task and one time stamp are enough,
  since tables are cleared and queried by task and both bounds of a query are
  inclusive, which a single instant is at both ends of. The kinds of requests are
  split over the threads: what can meet in two threads at once is a save, a removal
  and an edit or a query. The theorems of section 5 have no such bound.
- Three threads in `startup` (80 thousand states): one that constructs, one that
  waits, and one that takes over when the first throws.
- Task ids are UUIDs and never reused; the sets of ids bound how many tasks are
  ever created. `Addresses` bounds how many Task objects are alive at once, and
  lets an address be used again, which is what makes a stale pointer dangerous.
- No counter is unbounded in any module: `agents` grows by one per registration
  in progress, at most one per thread beyond the first; `MaxItems` bounds the items
  of one status request.
- Symmetry is used on sets of model values no definition orders, and not in
  `protocol` and `startup`, which check liveness.

### Assumptions about clients and agents

`WorkflowManager` has a constant `Disciplined`. `workflow_concurrent` runs without
it: clients name a task through any agent, agents report and confirm any task
ever assigned to them. `workflow_races` needs it, as confirmations that
answer nothing (see `protocol_resent_confirmation`) or edits through an agent that
does not own the task put the list and the table apart at once.

`AgentProtocol` has `Resends`, an agent that sends its confirmations again until one
request is answered: the passing run has it false, and
`protocol_resent_confirmation` shows what it breaks. `Fallible` names the tasks
whose commands may fail on the agent.

The agent program is not in this repository, and two more things are assumed of it and
of its connection:

- It runs nothing that it was not given by the answer: with a registration
  (`Register`) it drops what it ran before. `CancelledTaskStops` and `ComesIntoStep`
  rest on this after a restart of the server, which forgets the commands outstanding:
  nobody could tell the agent to stop then.
- It has one request at a time, and one it has given up (`Disconnect`) is not handled
  afterwards: either the handler has run and the answer is lost, or it never runs.

`TaskItems` assumes of agents only that they report on tasks that were assigned
once, `HttpDispatch` of clients that a body is no JSON or an object of one of the
requests with at most one field missing.

### Fairness

`AgentProtocol`: the agent is assumed to go on registering until it is registered
and polling afterwards (weak fairness: nothing disables the step for good).
Delivery is strongly fair: connections may break for ever now and then, but not on
every attempt, neither for requests in general nor for those that carry the
confirmation of one task. Without the latter the connection could break precisely
when a given task is confirmed. Crashes and restarts, operators and lost answers
to registrations have no fairness and may happen never or infinitely often.

`Startup`: each thread that is in a request and can take a step takes one (weak
fairness of `Handle(th)`): the operating system schedules it. Nothing is assumed of
the outcome of a statement, which may throw every time, nor of requests coming at
all.

Elsewhere none is stated. The server's handlers end on their own: they wait only
for mutexes that are never held across another lock of the same kind.

## 4. Modelling decisions

- One SQLite session is shared by all repositories and SQLite serialises its
  statements, so a statement is atomic; nothing in the code opens a transaction.
- `registerAgent` reads the Agents table first. Rows of agents are never removed
  or changed by the server, so this read is taken with the next step.
- `findAgent` is taken with the Agent call that follows it when it finds an
  object: its answer does not change once it is not null (`HeldAgentIsCurrent`).
- A task row is one configuration, one owner and one flag. `isActive` of a new row
  is either value. Machine name and ip are always used together and are one value.
- A build with and without `NDEBUG` both exist in `TaskItems` (`UnsupportedAbort`,
  `UnsupportedSkip`).
- Items are sets: a result stored twice is not told from one stored once.
- The file of a new database appears with the session that opens it or with its
  first statement, which depends on SQLite: `Probe` allows both.
- The container makes one `ConfigurationManager` and one `SQLiteDatabaseManager`
  (`ServiceLocator.cpp` registers both as single instances). That a static which is
  there is resolved a second time for the request it serves (`Router.cpp:14`) changes
  no state and is left out. A static whose
  constructor throws is constructed again by the next thread, as C++ has it.
- The regular expression of the routes `/result` and `/error` is `/result?.*`
  because `\?` in a C++ literal is `?`; it fits longer segments, which
  `HttpDispatch` has an example of (`results`).

## 5. What is proved

The theorems hold for every value of the constants: any sets of threads, agents,
machines, tasks, configurations, times, files and identifiers, status requests of
any length.

| Module | Theorem | Statement |
|---|---|---|
| AgentProofs | `TypeCorrect` | `Spec => []TypeOK` |
| | `ListStaysSound` | `Spec => []TaskListSound` |
| | `IteratorsStayValid` | `Spec => []IteratorsValid` |
| | `ResponseIsOfItsRequest` | `Spec => []ResponseAnswersRequest` |
| | `ResponseIsFresh` | `Spec => []ResponseOmitsConfirmed` |
| | `AgentImplementsSpec` | `Spec => ImplementsAgentSpec` |
| WorkflowProofs | `TypeCorrect` | `Spec => []TypeOK` |
| | `TasksStayWithTheirAgent` | `Spec => []NoForeignTasks` |
| | `FoundAgentStaysCurrent` | `Spec => []HeldAgentIsCurrent` |
| | `ShadowsStayInert` | `Spec => ShadowAgentsInert` |
| | `DeletedRowsStayDeleted` | `Spec => RowNeverReturns` |
| | `GoneTasksStayGone` | `Spec => DeletedTasksStayGone` |
| | `NeverListedAgain` | `Spec => [](IsGone(k) => []IsUnlisted(k))` for every task `k` |
| RacesProofs | `ListsMatchTheTable` | `RacedSpec => []ListMatchesStore`, if `Disciplined` |
| | `CancelledTasksAreStored` | `RacedSpec => []CancelIsStored`, if `Disciplined` |
| RacesLifeProofs | `HandlersLiveAsDescribed` | `RacedSpec => HandlersFollowTaskLife`, if `Disciplined` |
| ProtocolProofs | `TypeCorrect` | `Spec => []TypeOK` |
| | `ActiveTasksAreCollected` | `Spec => []ActiveMeansCollecting`, if `~Resends` |
| | `ChangesAwaitTheAgent` | `Spec => ChangeAwaitsAgent`, if `~Resends` |
| | `TasksLiveAsDescribed` | `Spec => ImplementsTaskLife`, if `~Resends` |
| TaskItemsProofs | `TypeCorrect` | `Spec => []TypeOK` |
| | `ResultsFollowTheType` | `Spec => []ResultsTyped` |
| | `AnsweredReportsStay` | `Spec => []AcknowledgedIsKept` |
| | `AnswersAreComplete` | `Spec => AnswerIsComplete` |
| | `OrphansNeedARace` | `Spec => []OrphansOnlyFromRace` |
| StartupProofs | `TypeCorrect` | `Spec => []TypeOK` |
| | `StoreIsComplete` | `Spec => []ServesCompleteStore` |
| | `GuardsHaveOneBuilder` | `Spec => []OneBuilder` |
| HttpProofs | `TypeCorrect` | `Spec => []TypeOK` |
| | `RoutesUnique` | `Spec => []RouteIsUnique` |
| | `CallsAddressTheNamed` | `Spec => []CallAddressesNamed` |
| | `AnsweredOnce` | `Spec => []OneAnswer` |

Assumptions: the values that stand for "none" (`NoTask`, `NoRow`, `NoAgent`,
`NoMachine`, `NoThread`, `NoAddress`, `Free`, `None`) lie outside the sets
they extend, `DefaultPath` is a path, `AgentId` an agent, `Fallible` a set of tasks,
`Times` are integers, `Allowed` names requests, and no identifier is a word of a
route (`IdsAssumption`: `GUID_REGEX_EXPRESSION` fits none of them).
TLC evaluates all of them in the runs. Nothing is assumed of the sizes. The two
conditions in the table are those of the runs; `protocol_resent_confirmation`
shows that `~Resends` is needed for `ChangeAwaitsAgent`.

### The inductive invariants

**Agent.** `IndInv` is `TypeOK`, `TaskListSound`, `IteratorsValid` and

- `LockOwner`: a thread between the search and the use of a method is the owner of
  the mutex. Without it another thread could change the list under an iterator.

`StatusInv` is inductive relative to it: while a status call runs, the list is the
board it has found with the confirmations made so far (`Confirmed(before, settled,
cancelled)`), since the lock leaves the other threads nothing to do but read a
status (`StatusStep`). Both properties of the response follow from it, and the
refinement: the mapped board is the one the call has found until the call returns,
and then the one `Confirmed` gives.

A lemma per helper (`FindIf`, `PushBack`, `Erase`) says what it does to the list and
the heap; with `TaskListSound`, the task found for an id is the only one with it
on the heap, so that the board can be read off the heap without the order of the
list (`BoardOnHeap`). Each action then takes at most one board step, and a status call
takes its step when it returns.

**WorkflowManager.** `IndInv` is `TypeOK`, `NoForeignTasks`, `HeldAgentIsCurrent` and

- `FirstExists`: where some Agent object has an id, one of them is the first. Said of
  every reachable vector, it needs no induction over its length.
- `RowsOwned`: a row belongs to the agent its task was created for.
- `CallsOK`: what a handler keeps from earlier steps (row, list, index) still means
  when it is used, in terms of `owner` only, which nobody changes once it is set.

The properties of steps `ShadowAgentsInert` and `RowNeverReturns` follow from one
lemma per handler step on what it can do to the objects (`AgentsKept`) and to the
tables (`StoreKept`). `DeletedTasksStayGone` needs a third, `HandleCopies`: what a
handler lists, and what it reads to list later, it takes from a row, in the table or
copied before. A task with neither row nor copy is then kept out of the lists by every
step (`GoneStays`), and `NeverListedAgain` carries this over any number of steps.

**WorkflowRaces.** `RacedInv` adds to the invariant above that whoever overlaps is in
`raced`, and `TaskOK` for each task that is not: at most one handler works on it, so
what that handler read is still true. `Working` says for every point of a handler
what it knows of the task in the list and of its row, `Agree` what holds once it is
done; a step of a handler on another task changes neither. For the life of the tasks,
`LifeInv` adds what a handler has read of the row, whether or not there is an Agent
object (`RowOK`): an assigned task has its row, and a row read is still as active as
it was, so that the list loaded at a registration holds the active tasks and no
other. The stage is then a function of owner, shown task, row and handler (`Staged`),
a step of a handler can change the stage of one task (`OtherStages`), and for each
step one lemma says from which stage to which.

**AgentProtocol.** A busy task waits for one exchange. `ExchangeOK` says that a
command under way is the one its task calls for (`CommandOK`), and a confirmation
under way is of the command outstanding and true of what the agent runs
(`ConfirmationOK`). `Structure`, the types with what the list and the table have to do
with `assigned`, is inductive for any agent; `Shape` adds what each phase of one that
does not send confirmations again leaves empty. `ActiveMeansCollecting` is then
inductive: a task becomes `Running` only by a confirmation that was true. For the
refinement, `LifeInv` adds `StoreOK`: a listed
task has a row unless it is being cancelled, and then the row is inactive, so that
the mapped stage is always one of TaskLife's.

**TaskItems.** `RowsOK` ties a row to the types its task has had and to `discarded`,
`CallOK` says the same of the copies a handler holds and that every report before
the current one is kept, and `KeptOK` that of every report acknowledged. All of them
only get weaker as the history variables grow. For `OrphansOnlyFromRace`,
`ClearingIsAhead` adds that the results of a removed task are only in tables its
removal has still to clear.

**Startup.** `GuardsOK`: the guard of a static has one thread behind it at most, and a
static that is done has a manager. `ManagerOK`: until there is a manager every
request is held at the first controller, so that only one thread writes the file.
`FilesOK`: an incomplete file is being created, with exactly the tables before the
next one, or `torn`. `ProcessOK`: the settings are loaded before the port is opened.
`GuardsHeld`, inductive relative to these, is the other half of `OneBuilder`: behind
a guard that is set there is a thread. It is what is left of `ConstructionEnds`
without fairness.

**HttpDispatch.** `WireFollowsPhase` says what is on the wire at each phase,
`RejectedIsTold` that a rejected request has called no manager and is told so first.
`DispatchInv` follows the request to the call: the handler is that of an endpoint
the request fits (`HandlerFits`, from `RouteFound`), and the call is the one of that
handler (`CallIsHandlers`). What remains is about the tables of routes:
`AgentsRoutes`, `CommunicatorRoutes` and `TasksRoutes` say once what the routes of a
controller have in common and where they differ, so that two routes a request fits
have the same place in the same table (`RoutesAreApart`), and the identifier a handler
passes is the segment after the only `agents`, or `tasks`, of the path
(`CallOfRoute`).

### What is only model-checked

- All liveness, which the prover does not cover: `PendingResolves`,
  `CancelledTaskStops`, `ComesIntoStep`, `ConstructionEnds`.
- The five runs that end in a counterexample.

## 6. Not modelled

- Texts: JSON, log messages, values of items, ip and machine name as text.
  Heartbeats: the server stores and returns the number, and acts on none.
- `getErrors`: no route reaches it. `getTask`, `getAgent`, `editAgent` and
  `deleteAgent` are stubs in the code; `HttpDispatch` has their answers. The second
  constructor of Task, and `update` and `remove` of the Agents repository, are used
  by no handler.
- `getAgents` and `getTasks` of WorkflowManager only read; the one hazard in them,
  the pointer held by `getTasks`, is in Agent.
- The queue and the pool of the HTTP server and the inside of the IoC container are
  libraries.
- The unit tests and build files are not part of the running system.

Some hazards have no property, as `PROJECT.json` says with the reason for each. In
most of them the code has the outcome, no document forbids it, and the model shows it:

- two edits stored in the other order, and a statement that fails after the Agent
  object was changed (`raced`, until the next restart);
- a command the agent could not carry out (`failed`);
- a database file whose creation was cut short (`torn`);
- a task removed between the two statements of its own creation (`NullRow`);
- results that are no longer answered after an edit of the value type.

Two have nothing to check: a machine created twice, which the UNIQUE constraint decides
within one statement, and an item stored twice after a repeated status request, which
no document excludes.

## 7. Plan

Done: Task, AgentTasks, AgentSpec, Agent; WorkflowManager with the Agents table,
TasksRepository, WorkflowRaces; AgentProtocol with failed commands, TaskLife;
TaskItems with requests of several items and queries; Startup; HttpDispatch; proofs
about each of them.

Left, in this order:

1. TaskItems over bags, to count what a repeated status request stores twice, once
   the code or its documents say what it should be.
2. TaskItems composed with WorkflowManager: today they share the removal of a task,
   modelled in each for its own tables.
3. The agent's side, if its program is ever added to the repository: AgentProtocol
   then has a specification to check it against.
