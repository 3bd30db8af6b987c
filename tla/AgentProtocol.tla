---------------------------- MODULE AgentProtocol ----------------------------
(***************************************************************************)
(* The exchange of one monitored machine with the server: the agent        *)
(* registers, then polls with status requests that carry confirmations and *)
(* bring back commands, over connections that may break at any moment.     *)
(*                                                                         *)
(* The handlers on the server's side take one step each here (their inner  *)
(* interleavings are the subject of WorkflowManager).  The agent program   *)
(* is not in the repository: it is modelled from what the messages and the *)
(* handlers expect of it.                                                  *)
(***************************************************************************)
EXTENDS AgentTasks, TasksRepository

CONSTANTS AgentId,      \* the agent this model follows
          Fallible,     \* tasks whose commands the agent may be unable to carry out
          Resends       \* the agent repeats confirmations it got no answer to

ASSUME AgentIdAssumption == AgentId \in AgentIds
ASSUME FallibleAssumption == Fallible \subseteq TaskIds

VARIABLES tasksDb,      \* the Tasks table
          registered,   \* the server has an Agent object for the agent
          board,        \* its task list
          phase,        \* what the agent is doing
          wire,         \* the message under way
          running,      \* the configuration the agent runs each task with
          unsent,       \* confirmations the agent has to send
          assigned,     \* tasks ever assigned: their ids are never given again (history)
          failed        \* tasks whose last command the agent could not carry out (history)

server == <<tasksDb, registered, board, assigned>>
agent == <<phase, running, unsent, failed>>
vars == <<server, agent, wire>>

Confirmations == [taskId : TaskIds, type : CommandType, isConfirmed : BOOLEAN]
Commands == [taskId : TaskIds, type : CommandType, payload : Configs \cup {NoConfig}]

Nothing == [kind |-> "nothing"]
Refusal == [kind |-> "refusal"]
StatusRequest(confirmations) == [kind |-> "request", confirmations |-> confirmations]
StatusResponse(commands) == [kind |-> "response", commands |-> commands]

NothingRuns == [k \in TaskIds |-> NoConfig]

Init ==
    /\ tasksDb = EmptyTable
    /\ registered = FALSE
    /\ board = EmptyBoard
    /\ phase = "registering"
    /\ wire = Nothing
    /\ running = NothingRuns
    /\ unsent = {}
    /\ assigned = {}
    /\ failed = {}

-----------------------------------------------------------------------------
(* Operators, through assignTask, editTask, removeTask and toggleTask *)

AssignTask(k, config, isActive) ==
    /\ k \notin assigned
    /\ assigned' = assigned \cup {k}
    /\ tasksDb' = InsertRow(tasksDb, k, Row(AgentId, config, isActive))
    /\ board' = IF registered THEN AssignTo(board, k, config) ELSE board
    /\ UNCHANGED <<registered, wire, agent>>

EditTask(k, config) ==
    /\ HasRow(tasksDb, k)
    /\ registered => IsSettled(board, k)
    /\ board' = IF registered THEN EditOn(board, k, config) ELSE board
    /\ tasksDb' = UpdateRow(tasksDb, k, [tasksDb[k] EXCEPT !.config = config])
    /\ UNCHANGED <<registered, wire, agent, assigned>>

\* Whether cancelTask cancels or finds nothing, the row goes.
RemoveTask(k) ==
    /\ k \in assigned
    /\ \/ IsSettled(board, k) /\ board' = CancelOn(board, k)
       \/ ~IsListed(board, k) /\ UNCHANGED board
    /\ tasksDb' = RemoveRow(tasksDb, k)
    /\ UNCHANGED <<registered, wire, agent, assigned>>

\* cancelTask accepts: the task is cancelled and its row made inactive.
ToggleListed(k) ==
    /\ registered
    /\ IsSettled(board, k)
    /\ board' = CancelOn(board, k)
    /\ tasksDb' = ToggleState(tasksDb, k, FALSE)
    /\ UNCHANGED <<registered, wire, agent, assigned>>

\* cancelTask is false: the row is toggled and the task started if it is active.
ToggleUnlisted(k) ==
    LET isActive == ~tasksDb[k].isActive IN
    /\ ~IsListed(board, k)
    /\ HasRow(tasksDb, k)
    /\ tasksDb' = ToggleState(tasksDb, k, isActive)
    /\ board' = IF registered /\ isActive THEN AssignTo(board, k, tasksDb[k].config) ELSE board
    /\ UNCHANGED <<registered, wire, agent, assigned>>

-----------------------------------------------------------------------------
(* The server's handlers *)

\* init of a new Agent object with the active rows.
Loaded == [k \in TaskIds |-> IF k \in ListRows(tasksDb, AgentId, TRUE)
                             THEN NewTask(k, tasksDb[k].config) ELSE NoTask]

\* Fault: a known Agent object is not reset.
ListKept == IF registered THEN board ELSE Loaded

\* A known Agent object is reset: its list stays empty until tasks are
\* assigned or toggled, or the server is restarted.
ListOfRegistration == IF registered THEN EmptyBoard ELSE Loaded

RegisterAgent ==
    /\ registered' = TRUE
    /\ board' = ListOfRegistration
    /\ UNCHANGED <<tasksDb, assigned>>

OfType(confirmations, types) ==
    {k \in TaskIds : \E c \in confirmations : c.taskId = k /\ c.type \in types}

\* statusAgent: isConfirmed is never looked at.
StatusAgent ==
    /\ wire.kind = "request"
    /\ registered
    /\ board' = Confirmed(board, OfType(wire.confirmations, {"Add", "Change"}),
                          OfType(wire.confirmations, {"Cancel"}))
    /\ wire' = StatusResponse(CommandsOf(board'))
    /\ UNCHANGED <<tasksDb, registered, agent, assigned>>

\* "Agent is not registered"
StatusRefused ==
    /\ wire.kind = "request"
    /\ ~registered
    /\ wire' = Refusal
    /\ UNCHANGED <<server, agent>>

\* The Agent objects live in memory only.
ServerRestart ==
    /\ registered' = FALSE
    /\ board' = EmptyBoard
    /\ UNCHANGED <<tasksDb, wire, agent, assigned>>

-----------------------------------------------------------------------------
(* The agent (external) *)

\* An assumption on the agent program, which the server relies on when it resets
\* or loads its list: the agent drops whatever it runs when it registers.  What
\* a restart of the server has made it forget stops on the agent by this only.
Register ==
    /\ phase = "registering"
    /\ RegisterAgent
    /\ phase' = "ready"
    /\ running' = NothingRuns
    /\ unsent' = {}
    /\ failed' = {}
    /\ UNCHANGED wire

\* The server has registered the agent and the agent never learns of it.
RegisterUnanswered ==
    /\ phase = "registering"
    /\ RegisterAgent
    /\ UNCHANGED <<wire, agent>>

SendStatus ==
    /\ phase = "ready"
    /\ phase' = "waiting"
    /\ wire' = StatusRequest(unsent)
    /\ unsent' = IF Resends THEN unsent ELSE {}
    /\ UNCHANGED <<server, running, failed>>

TasksOf(commands) == {c.taskId : c \in commands}

\* Carrying out the commands of a response, but for those it is unable to.
Receive ==
    /\ wire.kind = "response"
    /\ \E failures \in SUBSET {c \in wire.commands : c.taskId \in Fallible} :
         /\ running' = [k \in TaskIds |->
              IF k \in TasksOf(wire.commands \ failures)
              THEN (CHOOSE c \in wire.commands : c.taskId = k).payload ELSE running[k]]
         /\ unsent' = {[taskId |-> c.taskId, type |-> c.type, isConfirmed |-> c \notin failures] :
                         c \in wire.commands}
         /\ failed' = (failed \ TasksOf(wire.commands)) \cup TasksOf(failures)
    /\ phase' = "ready"
    /\ wire' = Nothing
    /\ UNCHANGED server

ReceiveRefusal ==
    /\ wire.kind = "refusal"
    /\ phase' = "registering"
    /\ wire' = Nothing
    /\ UNCHANGED <<server, running, unsent, failed>>

\* The connection breaks: the request or the answer is lost.  An assumption on
\* the environment: a request the agent has given up is not handled after its next.
Disconnect ==
    /\ wire # Nothing
    /\ phase' = "ready"
    /\ wire' = Nothing
    /\ UNCHANGED <<server, running, unsent, failed>>

AgentRestart ==
    /\ phase' = "registering"
    /\ wire' = Nothing
    /\ running' = NothingRuns
    /\ unsent' = {}
    /\ failed' = {}
    /\ UNCHANGED server

-----------------------------------------------------------------------------
\* What the exchange does by itself, lost messages included.
Exchange ==
    \/ StatusAgent \/ StatusRefused
    \/ Register \/ SendStatus \/ Receive \/ ReceiveRefusal
    \/ Disconnect

\* What operators and restarts do to it, and an answer to a registration lost.
Disturbance ==
    \/ \E k \in TaskIds, config \in Configs :
         \/ \E isActive \in BOOLEAN : AssignTask(k, config, isActive)
         \/ EditTask(k, config)
    \/ \E k \in TaskIds : RemoveTask(k) \/ ToggleListed(k) \/ ToggleUnlisted(k)
    \/ ServerRestart \/ AgentRestart \/ RegisterUnanswered

Next == Exchange \/ Disturbance

Spec == Init /\ [][Next]_vars

\* The agent keeps polling at its heartbeat, and connections do not break for
\* ever on the requests that confirm one task, nor on the answers.
StatusAbout(k) == StatusAgent /\ k \in OfType(wire.confirmations, CommandType)

Fairness ==
    /\ WF_vars(Register)
    /\ WF_vars(SendStatus)
    /\ SF_vars(StatusAgent)
    /\ \A k \in TaskIds : SF_vars(StatusAbout(k))
    /\ SF_vars(StatusRefused)
    /\ SF_vars(Receive)
    /\ SF_vars(ReceiveRefusal)

FairSpec == Spec /\ Fairness

-----------------------------------------------------------------------------
(* Properties *)

TypeOK ==
    /\ tasksDb \in Tables
    /\ registered \in BOOLEAN
    /\ board \in Boards
    /\ phase \in {"registering", "ready", "waiting"}
    /\ \/ wire \in {Nothing, Refusal}
       \/ wire.kind = "request" /\ wire.confirmations \subseteq Confirmations
       \/ wire.kind = "response" /\ wire.commands \subseteq Commands
    /\ running \in [TaskIds -> Configs \cup {NoConfig}]
    /\ unsent \subseteq Confirmations
    /\ assigned \subseteq TaskIds
    /\ failed \subseteq TaskIds

\* "Task is active (agent collect information)" (TaskStatus.h:12): while the
\* agent is past its registration, it runs every task the server shows as
\* active, with the configuration the server holds; but for those it has said
\* it could not start or change, which the server shows as active all the same.
ActiveMeansCollecting ==
    phase # "registering" =>
        \A k \in TaskIds \ failed : IsListed(board, k) /\ GetStatus(board[k]) = "Active" =>
            running[k] = board[k].config

\* "State when task configuration changed, but agent did not confirm the
\* command" (TaskState.h:17): it is left for Running only once the agent runs
\* the changed configuration, or has said that it cannot.
ChangeAwaitsAgent ==
    [][\A k \in TaskIds \ failed :
         /\ IsListed(board, k) /\ board[k].state = "Changing"
         /\ IsListed(board', k) /\ board'[k].state = "Running"
         => running[k] = board[k].config]_vars

\* Every command is confirmed in the end, or its task leaves the list.
PendingResolves ==
    \A k \in TaskIds :
        IsListed(board, k) /\ IsBusy(board[k]) ~> ~IsListed(board, k) \/ ~IsBusy(board[k])

\* A task the operator suspends or removes stops on the agent in the end, whatever
\* restarts or connections break in between, unless the agent cannot stop it.
CancelledTaskStops ==
    \A k \in TaskIds :
        IsListed(board, k) /\ board[k].state = "Cancelling" ~> running[k] = NoConfig \/ k \in failed

\* The agent runs what the server's list says, no more and no less.
InStep ==
    /\ registered
    /\ phase # "registering"
    /\ \A k \in TaskIds \ failed :
         running[k] = IF IsListed(board, k) THEN board[k].config ELSE NoConfig

\* Once operators and restarts leave the two alone, they come to agree and stay
\* so, whatever was lost, repeated or refused before: no task runs on that the
\* server has forgotten, and none is listed for good that does not run.
ComesIntoStep == <>[][Exchange]_vars => <>[]InStep

\* The stage of a task in its life, read off the list and the table: a task that
\* is listed to run without a row has none.
Stage(k) ==
    CASE k \notin assigned -> "new"
      [] k \in assigned /\ ~IsListed(board, k) ->
           IF ~HasRow(tasksDb, k) THEN "gone"
           ELSE IF tasksDb[k].isActive THEN "unlisted" ELSE "suspended"
      [] k \in assigned /\ IsListed(board, k) ->
           IF board[k].state = "Cancelling"
           THEN IF HasRow(tasksDb, k) THEN "suspending" ELSE "leaving"
           ELSE IF ~HasRow(tasksDb, k) THEN "stray"
           ELSE IF IsBusy(board[k]) THEN "pending" ELSE "active"

StageOfEach == [k \in TaskIds |-> Stage(k)]

Life == INSTANCE TaskLife WITH stage <- StageOfEach

\* Requests, confirmations, registrations and restarts take each task through
\* the life TaskLife describes: no stale confirmation turns a task being
\* stopped active again, no registration starts a suspended one, and none that
\* was removed comes back.
ImplementsTaskLife == Life!Spec
=============================================================================
