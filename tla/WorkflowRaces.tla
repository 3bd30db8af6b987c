---------------------------- MODULE WorkflowRaces ----------------------------
(***************************************************************************)
(* When the task lists in memory and the Tasks table agree, and the tasks  *)
(* live as TaskLife says.  Every handler that writes a task changes its    *)
(* Agent object and its row in separate steps, under no common lock, and a *)
(* statement may fail in between; this module follows WorkflowManager and  *)
(* notes which tasks two handlers have worked on at once, or one has left  *)
(* half done.                                                              *)
(***************************************************************************)
EXTENDS WorkflowManager

ASSUME NoTaskIdAssumption == NoTask \notin TaskIds

VARIABLE raced          \* tasks handled so since the lists were empty (history)

\* The tasks a handler has begun to write, or to load into a new Agent object.
Touched(call) ==
    IF call.pc \in {"load", "add"} THEN {k \in TaskIds : owner[k] = call.agent}
    ELSE {call.task} \cap TaskIds

Overlaps ==
    {k \in TaskIds : \E th, u \in Threads :
                       th # u /\ k \in Touched(calls[th]) \cap Touched(calls[u])}

IsTouched(k) == \E th \in Threads : k \in Touched(calls[th])

\* Without an Agent object, there or being built, nothing can disagree with the table.
NothingListed == agents = <<>> /\ \A th \in Threads : calls[th].pc \notin {"load", "add"}

\* A handler that is still at work on what it has read stays one that raced.
StillRaced == IF NothingListed' THEN {k \in raced : IsTouched(k)'} ELSE raced

RacedInit == Init /\ raced = {}

RacedNext ==
    \/ /\ \E th \in Threads : Handle(th)
       /\ raced' = StillRaced \cup Overlaps'
    \/ \E th \in Threads : DbError(th) /\ raced' = raced \cup Touched(calls[th])
    \/ Crash /\ raced' = {}

RacedSpec == RacedInit /\ [][RacedNext]_<<vars, raced>>

-----------------------------------------------------------------------------
(* Properties *)

\* What the server keeps telling the agent to run is what the database says, so
\* that a restart changes nothing for it: a task in the list of its agent, and
\* not being cancelled, has a row with the same configuration.  Only requests
\* that overlap on one task, and a statement that failed, put the two apart,
\* and a restart brings them together again.
ListMatchesStore ==
    \A k \in TaskIds : k \notin raced /\ ~IsTouched(k) =>
        \A i \in DOMAIN agents :
            LET board == agents[i].board IN
            IsListed(board, k) /\ board[k].state # "Cancelling" =>
                HasRow(tasksDb, k) /\ tasksDb[k].config = board[k].config

\* A task being cancelled, suspended or removed, is so in the table as well: a
\* restart forgets the command, but never starts the task again by itself.
CancelIsStored ==
    \A k \in TaskIds : k \notin raced /\ ~IsTouched(k) =>
        \A i \in DOMAIN agents :
            IsListed(agents[i].board, k) /\ agents[i].board[k].state = "Cancelling" =>
                k \notin ListRows(tasksDb, agents[i].id, TRUE)

\* The task that requests naming this agent find in its list.
View(id, k) == IF IsConnected(id) THEN BoardOf(id)[k] ELSE NoTask
Shown(k) == View(owner[k], k)

\* Where the handlers of a task are.
Doing(k) == {calls[th].pc : th \in {u \in Threads : k \in Touched(calls[u])}}

\* The stage of a task in its life, read off its list, its row and the handler
\* at work on it: a request takes the task on with its step in memory, an
\* assignment once it is whole.  One listed to run without a row has none.
Stage(k) ==
    IF owner[k] = NoAgent \/ "getNew" \in Doing(k) \/ "assign" \in Doing(k) THEN "new"
    ELSE IF Shown(k) = NoTask
    THEN IF ~HasRow(tasksDb, k) \/ "delete" \in Doing(k) THEN "gone"
         ELSE IF tasksDb[k].isActive /\ Doing(k) \cap {"suspend", "start"} = {} THEN "unlisted"
         ELSE "suspended"
    ELSE IF Shown(k).state = "Cancelling"
    THEN IF ~HasRow(tasksDb, k) \/ "delete" \in Doing(k) THEN "leaving" ELSE "suspending"
    ELSE IF ~HasRow(tasksDb, k) THEN "stray"
    ELSE IF IsBusy(Shown(k)) THEN "pending" ELSE "active"

Life(k) == INSTANCE TaskLife WITH TaskIds <- {k}, stage <- [j \in {k} |-> Stage(j)]

\* A registration adds an Agent object for the agent of the task.
AddsAgentOf(k) == \E th \in Threads : RegisterAdd(th) /\ calls[th].agent = owner[k]

\* Every request makes the moves of its own kind, a restart loses the lists, and
\* a new Agent object is given the task if it was to be given to the agent.
FollowsLife(k) ==
    /\ AddsAgentOf(k) => Life(k)!Load
    /\ \/ UNCHANGED Stage(k)
       \/ \E th \in Threads :
            \/ (Life(k)!Load \/ Life(k)!Forget) /\ Register(th)
            \/ Life(k)!Confirm({k}) /\ Status(th)
            \/ Life(k)!Assign(k) /\ Assign(th)
            \/ Life(k)!Edit(k) /\ Edit(th)
            \/ Life(k)!Remove(k) /\ Remove(th)
            \/ Life(k)!Toggle(k) /\ Toggle(th)
       \/ Life(k)!Forget /\ Restart

\* Although handlers take several steps and interleave in all ways, to a task
\* they do what TaskLife allows them: no registration or confirmation starts a
\* suspended task, no edit, assignment or confirmation changes what a removal
\* or a toggle of another time has decided, and the rows a registration reads
\* are all in the list it adds afterwards, none missing and none suspended
\* or deleted meanwhile.  Only requests that overlap on the task, and a failure
\* in the middle of one, make more of it.
HandlersFollowTaskLife ==
    [][\A k \in TaskIds \ (raced \cup raced') :
         ~(Restart /\ IsTouched(k)) => FollowsLife(k)]_<<vars, raced>>
=============================================================================
