-------------------------------- MODULE Task --------------------------------
(***************************************************************************)
(* One monitoring task as the server holds it in memory (core/Task.cpp):   *)
(* an id, the configuration the operator gave it and the state of its      *)
(* exchange with the agent.  Frequency, delay, key and value type are      *)
(* always copied together, so a configuration is one opaque value.         *)
(***************************************************************************)
CONSTANTS TaskIds,      \* task identifiers (UUIDs)
          Configs,      \* frequency, delay, key and value type, taken together
          NoConfig      \* no configuration

TaskState == {"Creating", "Running", "Changing", "Cancelling"}
CommandType == {"Add", "Change", "Cancel"}

Tasks == [id : TaskIds, config : Configs, state : TaskState]

\* Fault: the constructor stores a TaskStatus where a TaskState belongs.
NewTaskPending(id, config) == [id |-> id, config |-> config, state |-> "Pending"]

\* The constructor from a TaskDB row: the agent must be told to start it.
NewTask(id, config) == [id |-> id, config |-> config, state |-> "Creating"]

\* The guard of acceptChanges and acceptCancel, which throw on a busy task.
IsBusy(task) == task.state # "Running"

AcceptChanges(task, config) ==
    [task EXCEPT !.state = "Changing", !.config = config]

AcceptCancel(task) == [task EXCEPT !.state = "Cancelling"]

\* The confirmation's type and its isConfirmed flag are both ignored.
AcceptConfirmation(task) == [task EXCEPT !.state = "Running"]

GetStatus(task) == IF task.state = "Running" THEN "Active" ELSE "Pending"

\* The command a state calls for.
CommandFor(state) ==
    CASE state = "Creating" -> "Add"
      [] state = "Changing" -> "Change"
      [] state = "Cancelling" -> "Cancel"

\* The command sent with every status response, none once confirmed; only Add
\* and Change carry the configuration.
ConstructCommand(task) ==
    {[taskId |-> task.id, type |-> CommandFor(s),
      payload |-> IF s = "Cancelling" THEN NoConfig ELSE task.config] :
       s \in {task.state} \ {"Running"}}
=============================================================================
