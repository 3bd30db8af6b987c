----------------------------- MODULE AgentTasks -----------------------------
(***************************************************************************)
(* The task list of one server-side Agent object (core/Agent.cpp) seen as  *)
(* a board: at most one task per id, NoTask where the list has none.       *)
(* AgentSpec takes the steps of the board; Agent shows that the real list, *)
(* its lock and its heap implement them; WorkflowManager uses a board for  *)
(* every Agent object it owns.                                             *)
(***************************************************************************)
EXTENDS Task

CONSTANT NoTask         \* the list holds no task with this id

ASSUME NoTaskAssumption == NoTask \notin Tasks

Boards == [TaskIds -> Tasks \cup {NoTask}]

EmptyBoard == [id \in TaskIds |-> NoTask]

IsListed(board, id) == board[id] # NoTask

\* Fault: a task is taken for confirmed as soon as it is listed.
IsSettledOnceListed(board, id) == IsListed(board, id)

\* A task the agent has confirmed: the only one edit and cancel accept.
IsSettled(board, id) == IsListed(board, id) /\ ~IsBusy(board[id])

AssignTo(board, id, config) == [board EXCEPT ![id] = NewTask(id, config)]

EditOn(board, id, config) == [board EXCEPT ![id] = AcceptChanges(@, config)]

CancelOn(board, id) == [board EXCEPT ![id] = AcceptCancel(@)]

\* Fault: a confirmation of a cancel settles the task like the others.
ConfirmedAlike(board, settled, cancelled) ==
    [k \in TaskIds |-> IF k \in settled \cup cancelled /\ IsListed(board, k)
                       THEN AcceptConfirmation(board[k]) ELSE board[k]]

\* Confirmations of one request: those of type Cancel drop the task, the
\* others settle it; the ones for tasks not in the list are skipped.
Confirmed(board, settled, cancelled) ==
    [k \in TaskIds |-> CASE k \in cancelled -> NoTask
                         [] k \in settled \ cancelled /\ IsListed(board, k) ->
                              AcceptConfirmation(board[k])
                         [] OTHER -> board[k]]

\* Fault: only tasks not yet created get a command.
CommandsOfNew(board) ==
    UNION {ConstructCommand(board[id]) :
             id \in {i \in TaskIds : IsListed(board, i) /\ board[i].state = "Creating"}}

\* prepareCommandsList: one command for every task that is not settled.
CommandsOf(board) ==
    UNION {ConstructCommand(board[id]) : id \in {i \in TaskIds : IsListed(board, i)}}
=============================================================================
