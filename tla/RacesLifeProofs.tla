--------------------------- MODULE RacesLifeProofs ---------------------------
(***************************************************************************)
(* Proof that the handlers of WorkflowRaces, however they interleave, take *)
(* every task that no two of them work on at once through the life         *)
(* TaskLife describes, for any number of threads, agents, tasks and        *)
(* configurations.                                                         *)
(*                                                                         *)
(* RacesProofs says what a handler knows of the list; RowOK adds what it   *)
(* knows of the row, connected or not.  The stage of a task then changes   *)
(* as the step of its own handler, or the loss of its list, has it.        *)
(***************************************************************************)
EXTENDS RacesProofs

\* What a handler still knows of the row of a task it touches.
RowOK(call, k) ==
    /\ call.pc \in {"getNew", "assign"} => HasRow(tasksDb, k)
    /\ call.pc \in {"update", "set"} /\ HasRow(tasksDb, k) =>
         call.row.isActive = tasksDb[k].isActive
    /\ call.pc = "add" =>
         /\ IsListed(call.board, k) <=> HasRow(tasksDb, k) /\ tasksDb[k].isActive
         /\ IsListed(call.board, k) => call.board[k].state = "Creating"

RowsOK ==
    \A k \in TaskIds \ raced, th \in Threads : k \in Touched(calls[th]) => RowOK(calls[th], k)

LifeInv == RacedInv /\ RowsOK

-----------------------------------------------------------------------------
(* The row a handler has read *)

\* Points at which a handler has read nothing of the row yet, or has no more use for it.
Unread == {"idle", "load", "status", "getEdited", "delete", "suspend", "getToggled", "start"}

LEMMA ReadOK ==
    ASSUME IndInv, NEW th \in Threads, Handle(th), NEW k \in TaskIds, k \in Touched(calls[th])'
    PROVE  RowOK(calls[th], k)'
<1>0. /\ TypeOK /\ RowsOwned /\ CallOK(calls[th]) /\ calls[th] \in Calls
      /\ tasksDb[k] \in Rows \cup {NoRow} /\ th \in DOMAIN calls
  BY CallFacts DEF IndInv, TypeOK, Tables
<1>a. \A call : Goto(th, call) => calls'[th] = call
  BY <1>0 DEF Goto
<1>b. Finish(th) \/ (UNCHANGED calls /\ calls[th] = Idle) => calls'[th].pc \in Unread
  BY <1>a DEF Finish, Idle, Unread
<1>1. CASE calls'[th].pc \in Unread
  BY <1>1 DEF RowOK, Unread
<1>2. CASE Create(th)
  BY <1>2, <1>0, <1>1 DEF Create, CreateAgent, Receives, Idle, Unread
<1>3. CASE Register(th)
  <2>1. CASE RegisterLoad(th)
    <3> DEFINE id == calls[th].agent
    <3>1. /\ UNCHANGED <<tasksDb, owner>>
          /\ calls'[th].pc = "add" /\ calls'[th].agent = id /\ calls'[th].board = Loaded(id)
      BY <2>1, <1>0 DEF RegisterLoad, store, Goto, Calls
    <3>2. owner[k] = id
      BY <3>1 DEF Touched
    <3>3. k \in ListRows(tasksDb, id, TRUE) <=> HasRow(tasksDb, k) /\ tasksDb[k].isActive
      BY <3>2, <1>0 DEF ListRows, RowsOwned
    <3>4. Loaded(id)[k] = IF k \in ListRows(tasksDb, id, TRUE)
                          THEN NewTask(k, tasksDb[k].config) ELSE NoTask
      BY DEF Loaded
    <3>5. HasRow(tasksDb, k) => /\ NewTask(k, tasksDb[k].config) # NoTask
                                /\ NewTask(k, tasksDb[k].config).state = "Creating"
      BY <1>0, NoTaskAssumption DEF HasRow, NewTask, Rows, Tasks, TaskState
    <3> HIDE DEF id
    <3> QED BY <3>1, <3>3, <3>4, <3>5 DEF RowOK, IsListed
  <2>2. CASE ~RegisterLoad(th)
    <3>1. CASE \E id : RegisterKnown(th, id)
      BY <3>1, <1>1, <1>b DEF RegisterKnown, Receives
    <3>2. ASSUME NEW id, RegisterMissing(th, id) PROVE calls'[th].pc \in Unread
      BY <3>2, <1>a DEF RegisterMissing, Idle, Unread
    <3>3. CASE RegisterAdd(th)
      BY <3>3, <1>1, <1>b DEF RegisterAdd
    <3> QED BY <1>3, <1>1, <2>2, <3>1, <3>2, <3>3 DEF Register
  <2> QED BY <2>1, <2>2
<1>4. CASE Status(th)
  <2>1. ASSUME NEW id, StatusFind(th, id) PROVE calls'[th].pc \in Unread
    BY <2>1, <1>a DEF StatusFind, Idle, Unread
  <2>2. ASSUME NEW settled, NEW cancelled, PrepareStatus(th, settled, cancelled)
        PROVE  calls'[th].pc \in Unread
    BY <2>2, <1>b DEF PrepareStatus
  <2> QED BY <1>4, <1>1, <2>1, <2>2 DEF Status
<1>5. CASE Assign(th)
  <2>1. ASSUME NEW id \in AgentIds, NEW t \in TaskIds, NEW config \in Configs, NEW isActive \in BOOLEAN,
               SaveTask(th, id, t, config, isActive)
        PROVE  RowOK(calls[th], k)'
    <3>1. /\ calls'[th].pc = "getNew" /\ calls'[th].task = t
          /\ tasksDb' = [tasksDb EXCEPT ![t] = Row(id, config, isActive)]
      BY <2>1, <1>0 DEF SaveTask, InsertRow, Goto, Idle
    <3>2. k = t /\ Row(id, config, isActive) \in Rows
      BY <3>1, NoTaskIdAssumption DEF Touched, Row, Rows
    <3>3. tasksDb'[k] # NoRow
      BY <3>1, <3>2, <1>0, NoRowAssumption DEF TypeOK, Tables
    <3> QED BY <3>1, <3>3 DEF RowOK, HasRow
  <2>2. CASE AssignGet(th)
    <3>1. calls'[th].pc = "assign" /\ calls'[th].task = calls[th].task /\ UNCHANGED tasksDb
      BY <2>2, <1>0 DEF AssignGet, Goto, store, Calls
    <3>2. HasRow(tasksDb, k)
      BY <2>2, <3>1 DEF AssignGet, Touched
    <3> QED BY <3>1, <3>2 DEF RowOK, HasRow
  <2>3. CASE AssignToAgent(th)
    BY <2>3, <1>0, <1>1 DEF AssignToAgent, Finish, Goto, Idle, Unread
  <2>4. CASE NullRow(th)
    BY <2>4, <1>1 DEF NullRow, Restart, Idle, Unread
  <2> QED BY <1>5, <2>1, <2>2, <2>3, <2>4 DEF Assign
<1>6. CASE Edit(th)
  <2>1. CASE EditGet(th) /\ HasRow(tasksDb, calls[th].task)
    <3>1. /\ calls'[th].pc = "update" /\ calls'[th].task = calls[th].task /\ UNCHANGED tasksDb
          /\ calls'[th].row = [tasksDb[calls[th].task] EXCEPT !.config = calls[th].config]
      BY <2>1, <1>0 DEF EditGet, Goto, store, Calls
    <3>2. k = calls[th].task
      BY <3>1 DEF Touched
    <3>3. calls'[th].row.isActive = tasksDb[k].isActive
      BY <1>0, <2>1, <3>1, <3>2 DEF HasRow, Rows
    <3> QED BY <3>1, <3>3 DEF RowOK, HasRow
  <2>2. CASE ~(EditGet(th) /\ HasRow(tasksDb, calls[th].task))
    <3>1. ASSUME NEW id, NEW t, NEW config, EditInAgent(th, id, t, config)
          PROVE  calls'[th].pc \in Unread
      BY <3>1, <1>a DEF EditInAgent, Idle, Unread
    <3>2. EditGet(th) \/ EditUpdate(th) => calls'[th].pc \in Unread
      BY <2>2, <1>b DEF EditGet, EditUpdate
    <3> QED BY <1>6, <1>1, <3>1, <3>2 DEF Edit
  <2> QED BY <2>1, <2>2
<1>7. CASE Remove(th)
  <2>1. ASSUME NEW id, NEW t, RemoveInAgent(th, id, t) PROVE calls'[th].pc \in Unread
    BY <2>1, <1>a DEF RemoveInAgent, Idle, Unread
  <2> QED BY <1>7, <1>1, <1>b, <2>1 DEF Remove, RemoveTask
<1>8. CASE Toggle(th)
  <2>1. CASE ToggleGet(th) /\ HasRow(tasksDb, calls[th].task)
    <3>1. /\ calls'[th].pc = "set" /\ calls'[th].task = calls[th].task /\ UNCHANGED tasksDb
          /\ calls'[th].row = tasksDb[calls[th].task]
      BY <2>1, <1>0 DEF ToggleGet, Goto, store, Calls
    <3>2. k = calls[th].task
      BY <3>1 DEF Touched
    <3> QED BY <3>1, <3>2 DEF RowOK, HasRow
  <2>2. CASE ToggleSet(th)
    <3>1. calls'[th].pc \in {"start", "idle"}
      BY <2>2, <1>0 DEF ToggleSet, Finish, Goto, Idle, Calls
    <3> QED BY <1>1, <3>1 DEF Unread
  <2>3. CASE ~ToggleSet(th) /\ ~(ToggleGet(th) /\ HasRow(tasksDb, calls[th].task))
    <3>1. ASSUME NEW id, NEW t, ToggleCancel(th, id, t) \/ ToggleUnlisted(th, id, t)
          PROVE  calls'[th].pc \in Unread
      BY <3>1, <1>a DEF ToggleCancel, ToggleUnlisted, Idle, Unread
    <3>2. ToggleSuspend(th) \/ ToggleGet(th) \/ ToggleStart(th) => calls'[th].pc \in Unread
      BY <2>3, <1>b DEF ToggleSuspend, ToggleGet, ToggleStart
    <3> QED BY <1>8, <1>1, <2>3, <3>1, <3>2 DEF Toggle
  <2> QED BY <2>1, <2>2, <2>3
<1> QED BY <1>2, <1>3, <1>4, <1>5, <1>6, <1>7, <1>8 DEF Handle

LEMMA RestartIsIdle ==
    ASSUME Restart
    PROVE  \A th \in Threads : calls'[th] = Idle /\ Touched(calls[th])' = {}
BY IdleTouchesNothing DEF Restart, Touched

\* A handler that goes on changes the rows of tasks it touches only.
LEMMA HandlesItsOwn ==
    ASSUME IndInv, NEW th \in Threads, Handle(th), ~Restart
    PROVE  /\ Others(th)
           /\ \A k \in TaskIds :
                /\ k \in Touched(calls[th]) => owner'[k] = owner[k]
                /\ k \notin Touched(calls[th]) /\ k \notin Touched(calls[th])' =>
                     tasksDb'[k] = tasksDb[k] /\ owner'[k] = owner[k]
<1>0. TypeOK /\ CallOK(calls[th]) /\ calls[th] \in Calls /\ tasksDb \in Tables
  BY CallFacts DEF IndInv, TypeOK
<1>1. ASSUME NEW call, Goto(th, call) PROVE Others(th) /\ calls'[th] = call
  BY <1>0, <1>1 DEF Goto, Others, TypeOK
<1>2. Finish(th) => Others(th)
  BY <1>1 DEF Finish
<1>3. CASE UNCHANGED <<tasksDb, owner>> /\ Others(th)
  BY <1>3
<1>4. ASSUME calls[th].pc \in WithTask, UNCHANGED owner, Others(th),
             \A k \in TaskIds \ {calls[th].task} : tasksDb'[k] = tasksDb[k]
      PROVE  \A k \in TaskIds : k \notin Touched(calls[th]) =>
               tasksDb'[k] = tasksDb[k] /\ owner'[k] = owner[k]
  BY <1>4 DEF Touched, WithTask
<1>5. CASE Create(th)
  BY <1>5, <1>3 DEF Create, CreateAgent, Others
<1>6. CASE Register(th)
  <2>1. ASSUME NEW id, RegisterKnown(th, id) PROVE UNCHANGED <<tasksDb, owner>> /\ Others(th)
    BY <2>1 DEF RegisterKnown, store, Others
  <2>2. ASSUME NEW id, RegisterMissing(th, id) PROVE UNCHANGED <<tasksDb, owner>> /\ Others(th)
    BY <2>2, <1>1 DEF RegisterMissing, store
  <2>3. RegisterLoad(th) \/ RegisterAdd(th) => UNCHANGED <<tasksDb, owner>> /\ Others(th)
    BY <1>1, <1>2 DEF RegisterLoad, RegisterAdd, store
  <2> QED BY <1>3, <1>6, <2>1, <2>2, <2>3 DEF Register
<1>7. CASE Status(th)
  <2>1. ASSUME NEW id, StatusFind(th, id) PROVE UNCHANGED <<tasksDb, owner>> /\ Others(th)
    BY <2>1, <1>1 DEF StatusFind, store
  <2>2. ASSUME NEW settled, NEW cancelled, PrepareStatus(th, settled, cancelled)
        PROVE  UNCHANGED <<tasksDb, owner>> /\ Others(th)
    BY <2>2, <1>2 DEF PrepareStatus, store
  <2> QED BY <1>3, <1>7, <2>1, <2>2 DEF Status
<1>8. CASE Assign(th)
  <2>1. ASSUME NEW id, NEW t \in TaskIds, NEW config, NEW isActive,
               SaveTask(th, id, t, config, isActive), NEW k \in TaskIds
        PROVE  /\ Others(th) /\ k \notin Touched(calls[th])
               /\ k \notin Touched(calls[th])' => tasksDb'[k] = tasksDb[k] /\ owner'[k] = owner[k]
    <3>1. /\ owner' = [owner EXCEPT ![t] = id] /\ calls[th] = Idle
          /\ tasksDb' = [tasksDb EXCEPT ![t] = Row(id, config, isActive)]
          /\ Goto(th, [Idle EXCEPT !.pc = "getNew", !.agent = id, !.task = t])
      BY <2>1 DEF SaveTask, InsertRow, Receives
    <3>3. Others(th) /\ calls'[th].pc = "getNew" /\ calls'[th].task = t
      <4>1. Others(th) /\ calls'[th] = [Idle EXCEPT !.pc = "getNew", !.agent = id, !.task = t]
        BY <3>1, <1>1
      <4> QED BY <4>1 DEF Idle
    <3>2. k # t => tasksDb'[k] = tasksDb[k] /\ owner'[k] = owner[k]
      BY <3>1, <1>0 DEF Tables, TypeOK
    <3> QED BY <3>1, <3>2, <3>3, IdleTouchesNothing DEF Touched
  <2>2. AssignGet(th) \/ AssignToAgent(th) => UNCHANGED <<tasksDb, owner>> /\ Others(th)
    BY <1>1, <1>2 DEF AssignGet, AssignToAgent, store
  <2> QED BY <1>3, <1>8, <2>1, <2>2 DEF Assign, NullRow
<1>9. CASE Edit(th)
  <2>1. ASSUME NEW id, NEW t, NEW config, EditInAgent(th, id, t, config)
        PROVE  UNCHANGED <<tasksDb, owner>> /\ Others(th)
    BY <2>1, <1>1 DEF EditInAgent, store
  <2>2. EditGet(th) => UNCHANGED <<tasksDb, owner>> /\ Others(th)
    BY <1>1, <1>2 DEF EditGet, store
  <2>3. CASE EditUpdate(th)
    BY <2>3, <1>0, <1>2, <1>4 DEF EditUpdate, UpdateRow, WithTask, Tables
  <2> QED BY <1>3, <1>9, <2>1, <2>2, <2>3 DEF Edit
<1>10. CASE Remove(th)
  <2>1. ASSUME NEW id, NEW t, RemoveInAgent(th, id, t)
        PROVE  UNCHANGED <<tasksDb, owner>> /\ Others(th)
    BY <2>1, <1>1 DEF RemoveInAgent, store
  <2>2. CASE RemoveTask(th)
    BY <2>2, <1>0, <1>2, <1>4 DEF RemoveTask, RemoveRow, WithTask, Tables
  <2> QED BY <1>3, <1>10, <2>1, <2>2 DEF Remove
<1>11. CASE Toggle(th)
  <2>1. ASSUME NEW id, NEW t, ToggleCancel(th, id, t) \/ ToggleUnlisted(th, id, t)
        PROVE  UNCHANGED <<tasksDb, owner>> /\ Others(th)
    BY <2>1, <1>1 DEF ToggleCancel, ToggleUnlisted, store
  <2>2. ToggleGet(th) \/ ToggleStart(th) => UNCHANGED <<tasksDb, owner>> /\ Others(th)
    BY <1>1, <1>2 DEF ToggleGet, ToggleStart, store
  <2>3. CASE ToggleSuspend(th)
    BY <2>3, <1>0, <1>2, <1>4 DEF ToggleSuspend, ToggleState, WithTask, Tables
  <2>4. CASE ToggleSet(th)
    BY <2>4, <1>0, <1>1, <1>2, <1>4 DEF ToggleSet, ToggleState, WithTask, Tables
  <2> QED BY <1>3, <1>11, <2>1, <2>2, <2>3, <2>4 DEF Toggle
<1> QED BY <1>5, <1>6, <1>7, <1>8, <1>9, <1>10, <1>11 DEF Handle

\* What a handler that takes no step has read stays true of a task it has for itself.
LEMMA OthersRows ==
    ASSUME LifeInv, NEW th \in Threads, Handle(th), ~Restart, NEW u \in Threads \ {th},
           NEW k \in TaskIds \ raced, k \notin Overlaps', k \in Touched(calls[u])'
    PROVE  RowOK(calls[u], k)'
<1>1. /\ calls'[u] = calls[u]
      /\ k \in Touched(calls[th]) => owner'[k] = owner[k]
      /\ k \notin Touched(calls[th]) /\ k \notin Touched(calls[th])' =>
           tasksDb'[k] = tasksDb[k] /\ owner'[k] = owner[k]
  BY HandlesItsOwn DEF LifeInv, RacedInv, Others
<1>2. k \notin Touched(calls[th])'
  BY DEF Overlaps
<1>3. CASE k \in Touched(calls[th])
  <2>1. k \notin Touched(calls[u])
    BY <1>3 DEF Overlaps, LifeInv, RacedInv
  <2> QED BY <1>1, <1>3, <2>1 DEF Touched
<1>4. CASE k \notin Touched(calls[th])
  <2>1. k \in Touched(calls[u])
    BY <1>1, <1>2, <1>4 DEF Touched
  <2>2. RowOK(calls[u], k)
    BY <2>1 DEF LifeInv, RowsOK
  <2> QED BY <1>1, <1>2, <1>4, <2>2 DEF RowOK, HasRow
<1> QED BY <1>3, <1>4

LEMMA RowsOKNext ==
    ASSUME LifeInv, IndInv', RacedNext
    PROVE  RowsOK'
<1>1. ASSUME NEW th \in Threads, Handle(th), raced' = StillRaced \cup Overlaps',
             NEW k \in TaskIds \ raced', NEW u \in Threads, k \in Touched(calls[u])'
      PROVE  RowOK(calls[u], k)'
  <2>1. ~Restart
    BY <1>1, RestartIsIdle
  <2>2. k \notin raced /\ k \notin Overlaps'
    BY <1>1 DEF StillRaced, IsTouched
  <2>3. CASE u = th
    BY <1>1, <2>3, ReadOK DEF LifeInv, RacedInv
  <2>4. CASE u # th
    BY <1>1, <2>1, <2>2, <2>4, OthersRows
  <2> QED BY <2>3, <2>4
<1>2. ASSUME NEW th \in Threads, DbError(th), raced' = raced \cup Touched(calls[th]),
             NEW k \in TaskIds \ raced', NEW u \in Threads, k \in Touched(calls[u])'
      PROVE  RowOK(calls[u], k)'
  <2>1. UNCHANGED <<tasksDb, agents, owner>> /\ calls'[th] = Idle /\ Others(th)
    BY <1>2 DEF DbError, store, Finish, Goto, Others, LifeInv, RacedInv, IndInv, TypeOK
  <2>2. u # th
    BY <1>2, <2>1, IdleTouchesNothing DEF Touched
  <2>3. calls'[u] = calls[u] /\ k \in Touched(calls[u])
    BY <1>2, <2>1, <2>2 DEF Touched, Others
  <2>4. RowOK(calls[u], k)
    BY <1>2, <2>3 DEF LifeInv, RowsOK
  <2> QED BY <2>1, <2>3, <2>4 DEF RowOK, HasRow
<1>3. Crash => RowsOK'
  BY RestartIsIdle DEF Crash, RowsOK
<1> QED BY <1>1, <1>2, <1>3 DEF RacedNext, RowsOK

LEMMA LifeInvNext ==
    ASSUME Disciplined, LifeInv, [RacedNext]_<<vars, raced>>
    PROVE  LifeInv'
<1>1. RacedInv'
  BY RacedInvNext DEF LifeInv
<1>2. CASE RacedNext
  BY <1>1, <1>2, RowsOKNext DEF LifeInv, RacedInv
<1>3. CASE UNCHANGED <<vars, raced>>
  <2>1. UNCHANGED <<tasksDb, owner, calls, raced>>
    BY <1>3 DEF vars
  <2>2. RowsOK' <=> RowsOK
    BY <2>1 DEF RowsOK, RowOK, Touched, HasRow
  <2> QED BY <1>1, <2>2 DEF LifeInv
<1> QED BY <1>2, <1>3

LEMMA LifeInvariance ==
    ASSUME Disciplined
    PROVE  RacedSpec => []LifeInv
<1>1. RacedInit => LifeInv
  <2>1. RacedInit => \A th \in Threads : Touched(calls[th]) = {}
    BY IdleTouchesNothing DEF RacedInit, Init
  <2> QED BY <2>1, RacedInvInit DEF LifeInv, RowsOK
<1>2. LifeInv /\ [RacedNext]_<<vars, raced>> => LifeInv'
  BY LifeInvNext
<1> QED BY <1>1, <1>2, PTL DEF RacedSpec

-----------------------------------------------------------------------------
(* Stages and moves *)

\* The stage as a function of what it is read off.
Staged(id, shown, row, doing) ==
    IF id = NoAgent \/ "getNew" \in doing \/ "assign" \in doing THEN "new"
    ELSE IF shown = NoTask
    THEN IF row = NoRow \/ "delete" \in doing THEN "gone"
         ELSE IF row.isActive /\ "suspend" \notin doing /\ "start" \notin doing THEN "unlisted"
         ELSE "suspended"
    ELSE IF shown.state = "Cancelling"
    THEN IF row = NoRow \/ "delete" \in doing THEN "leaving" ELSE "suspending"
    ELSE IF row = NoRow THEN "stray"
    ELSE IF shown.state = "Running" THEN "active" ELSE "pending"

\* The points of a handler that decide on it.
Deciding == {"getNew", "assign", "delete", "suspend", "start"}
Decided(k) == Doing(k) \cap Deciding

LEMMA StageIs ==
    ASSUME NEW k
    PROVE  /\ Stage(k) = Staged(owner[k], Shown(k), tasksDb[k], Decided(k))
           /\ Stage(k)' = Staged(owner'[k], Shown(k)', tasksDb'[k], Decided(k)')
BY DEF Stage, Staged, HasRow, IsBusy, Decided, Deciding

LEMMA MovesFromTo ==
    ASSUME NEW k, NEW from, NEW to, Stage(k) = from, Stage(k)' = to
    PROVE  Life(k)!Moves(k, from, to)
BY DEF Life!Moves

LEMMA ConfirmMove ==
    ASSUME NEW k, \/ Stage(k) = "pending" /\ Stage(k)' = "active"
                  \/ Stage(k) = "suspending" /\ Stage(k)' = "suspended"
                  \/ Stage(k) = "leaving" /\ Stage(k)' = "gone"
    PROVE  Life(k)!Confirm({k})
BY DEF Life!Confirm, Life!Resolved

LEMMA LoadMove ==
    ASSUME NEW k, Stage(k) = "unlisted", Stage(k)' = "pending"
    PROVE  Life(k)!Load
BY DEF Life!Load

LEMMA LoadsNothing ==
    ASSUME NEW k, Stage(k) # "unlisted", UNCHANGED Stage(k)
    PROVE  Life(k)!Load
BY DEF Life!Load

LEMMA ForgetMove ==
    ASSUME NEW k, \/ Stage(k) \in {"pending", "active"} /\ Stage(k)' \in {"unlisted", "suspended"}
                  \/ Stage(k) = "suspending" /\ Stage(k)' = "suspended"
                  \/ Stage(k) = "leaving" /\ Stage(k)' = "gone"
    PROVE  Life(k)!Forget
<1> DEFINE stage == [j \in {k} |-> Stage(j)]
<1>1. stage[k] = Stage(k) /\ stage' = [j \in {k} |-> Stage(j)']
  OBVIOUS
<1>2. Stage(k)' \in Life(k)!Forgotten(Stage(k))
  BY DEF Life!Forgotten, Life!Resolved, Life!Waiting
<1> QED BY <1>1, <1>2 DEF Life!Forget

-----------------------------------------------------------------------------
(* What the stage is read off, before and after a step *)

LEMMA SameStage ==
    ASSUME NEW k, owner'[k] = owner[k], tasksDb'[k] = tasksDb[k],
           Shown(k)' = Shown(k), Decided(k)' = Decided(k)
    PROVE  UNCHANGED Stage(k)
BY StageIs

\* A handler that does not decide, on this task, before or after its step.
LEMMA SameDecided ==
    ASSUME NEW th \in Threads, Others(th), NEW k, owner'[k] = owner[k],
           k \in Touched(calls[th]) => calls[th].pc \notin Deciding,
           k \in Touched(calls[th])' => calls'[th].pc \notin Deciding
    PROVE  Decided(k)' = Decided(k)
<1>1. \A u \in Threads \ {th} :
        calls'[u] = calls[u] /\ (k \in Touched(calls[u])' <=> k \in Touched(calls[u]))
  BY DEF Touched, Others
<1>2. Doing(k)' = {calls'[u].pc : u \in {v \in Threads : k \in Touched(calls[v])'}}
  BY DEF Doing
<1>3. ASSUME NEW pc \in Deciding PROVE pc \in Doing(k)' <=> pc \in Doing(k)
  BY <1>1, <1>2, <1>3 DEF Doing
<1> QED BY <1>3 DEF Decided

\* The handler of a task nobody else works on.
LEMMA DecidedAlone ==
    ASSUME LifeInv, NEW th \in Threads, Others(th), NEW k \in TaskIds \ raced, k \notin Overlaps',
           owner'[k] = owner[k], k \in Touched(calls[th]) \/ k \in Touched(calls[th])'
    PROVE  /\ Decided(k) = IF k \in Touched(calls[th]) THEN {calls[th].pc} \cap Deciding ELSE {}
           /\ Decided(k)' = IF k \in Touched(calls[th])' THEN {calls'[th].pc} \cap Deciding ELSE {}
<1>1. ASSUME NEW u \in Threads, u # th
      PROVE  k \notin Touched(calls[u]) /\ k \notin Touched(calls[u])'
  <2>1. k \in Touched(calls[u])' <=> k \in Touched(calls[u])
    BY <1>1 DEF Touched, Others
  <2>2. k \notin Overlaps
    BY DEF LifeInv, RacedInv
  <2> QED BY <1>1, <2>1, <2>2 DEF Overlaps
<1>2. Doing(k) = IF k \in Touched(calls[th]) THEN {calls[th].pc} ELSE {}
  BY <1>1 DEF Doing
<1>3. Doing(k)' = {calls'[u].pc : u \in {v \in Threads : k \in Touched(calls[v])'}}
  BY DEF Doing
<1>4. Doing(k)' = IF k \in Touched(calls[th])' THEN {calls'[th].pc} ELSE {}
  BY <1>1, <1>3
<1> QED BY <1>2, <1>4 DEF Decided

\* What list, row and handlers have to do with each other while a task is listed.
LEMMA ListedFacts ==
    ASSUME LifeInv, NEW k \in TaskIds \ raced, Shown(k) # NoTask
    PROVE  /\ Connected(k) /\ owner[k] # NoAgent /\ Shown(k) \in Tasks
           /\ Doing(k) \cap {"getNew", "assign", "getToggled", "set", "start"} = {}
           /\ Shown(k).state # "Cancelling" =>
                tasksDb[k] # NoRow /\ Doing(k) \cap {"delete", "suspend"} = {}
           /\ Shown(k).state = "Cancelling" =>
                \/ "delete" \in Doing(k) \/ "suspend" \in Doing(k)
                \/ tasksDb[k] = NoRow \/ ~tasksDb[k].isActive
<1>1. IndInv /\ TypeOK /\ TaskOK(k)
  BY DEF LifeInv, RacedInv, IndInv
<1>2. Connected(k) /\ owner[k] # NoAgent
  BY <1>1, NobodyConnects DEF Connected, Shown, View
<1>3. Shown(k) \in Tasks
  <2>1. FindAgent(owner[k]) \in DOMAIN agents
    BY <1>1, <1>2, FoundIsThere, OwnersAreIds DEF Connected, IsConnected, IndInv
  <2>2. BoardOf(owner[k]) \in Boards
    BY <1>1, <2>1, AgentsAreObjects DEF BoardOf
  <2> QED BY <1>2, <2>2 DEF Connected, Shown, View, Boards
<1>4. ASSUME NEW th \in Threads, k \in Touched(calls[th])
      PROVE  Working(calls[th], Shown(k), tasksDb[k])
  BY <1>1, <1>2, <1>4 DEF TaskOK, Knows, Connected
<1>5. ASSUME NEW pc \in Doing(k)
      PROVE  /\ pc \notin {"getNew", "assign", "getToggled", "set", "start"}
             /\ pc \in {"delete", "suspend"} => Shown(k).state = "Cancelling"
             /\ \/ pc \in {"delete", "suspend"}
                \/ Shown(k).state # "Cancelling" /\ tasksDb[k] # NoRow
                \/ Agree(Shown(k), tasksDb[k])
  <2>1. PICK th \in Threads : k \in Touched(calls[th]) /\ pc = calls[th].pc
    BY DEF Doing
  <2> QED BY <1>4, <2>1 DEF Working, WithTask
<1>6. \/ "delete" \in Doing(k) \/ "suspend" \in Doing(k)
      \/ Shown(k).state # "Cancelling" /\ tasksDb[k] # NoRow
      \/ Agree(Shown(k), tasksDb[k])
  <2>1. CASE Doing(k) = {}
    <3>1. ~IsTouched(k)
      BY <2>1 DEF Doing, IsTouched
    <3> QED BY <1>1, <3>1 DEF TaskOK
  <2>2. CASE Doing(k) # {}
    BY <1>5, <2>2
  <2> QED BY <2>1, <2>2
<1> QED BY <1>2, <1>3, <1>5, <1>6 DEF Agree

\* A task the list loses, and nothing else.
LEMMA LosesTask ==
    ASSUME LifeInv, NEW k \in TaskIds \ raced, Shown(k) # NoTask, Shown(k)' = NoTask,
           owner'[k] = owner[k], tasksDb'[k] = tasksDb[k], Decided(k)' = Decided(k)
    PROVE  /\ Life(k)!Forget
           /\ Shown(k).state = "Cancelling" => Life(k)!Confirm({k})
<1> DEFINE before == Staged(owner[k], Shown(k), tasksDb[k], Decided(k))
           after == Staged(owner[k], NoTask, tasksDb[k], Decided(k))
<1>1. Stage(k) = before /\ Stage(k)' = after
  BY StageIs
<1>2. \/ before \in {"pending", "active"} /\ after \in {"unlisted", "suspended"}
         /\ Shown(k).state # "Cancelling"
      \/ before = "suspending" /\ after = "suspended"
      \/ before = "leaving" /\ after = "gone"
  BY ListedFacts DEF Staged, Decided, Deciding
<1> HIDE DEF before, after
<1> QED BY <1>1, <1>2, ForgetMove, ConfirmMove

LEMMA RestartLife ==
    ASSUME LifeInv, Restart, NEW k \in TaskIds \ raced, ~IsTouched(k)
    PROVE  UNCHANGED Stage(k) \/ Life(k)!Forget
<1>1. owner'[k] = owner[k] /\ tasksDb'[k] = tasksDb[k]
  BY DEF Restart, store
<1>2. Doing(k) = {} /\ Doing(k)' = {}
  BY RestartIsIdle DEF Doing, IsTouched
<1>3. Shown(k)' = NoTask
  BY DEF Restart, Shown, View, IsConnected, FindAgent, WithId
<1> QED BY <1>1, <1>2, <1>3, SameStage, LosesTask DEF Decided

-----------------------------------------------------------------------------
(* Registrations and status requests *)

LEMMA OwnersInDomain ==
    ASSUME LifeInv, NEW k \in TaskIds
    PROVE  IndInv /\ TypeOK /\ owner[k] \in AgentIds \cup {NoAgent}
BY OwnersAreIds DEF LifeInv, RacedInv, IndInv

\* A step that neither writes nor decides.
LEMMA LookingLife ==
    ASSUME NEW th \in Threads, UNCHANGED <<tasksDb, agents, owner>>, Others(th),
           calls[th].pc \notin Deciding, calls'[th].pc \notin Deciding, NEW k
    PROVE  UNCHANGED Stage(k)
BY SameListsForTask, SameDecided, SameStage

LEMMA RegisterKnownLife ==
    ASSUME LifeInv, NEW th \in Threads, NEW id \in AgentIds, RegisterKnown(th, id),
           NEW k \in TaskIds \ raced
    PROVE  UNCHANGED Stage(k) \/ Life(k)!Forget
<1>1. /\ FindAgent(id) # 0 /\ SetBoard(FindAgent(id), EmptyBoard)
      /\ UNCHANGED <<tasksDb, owner, calls>>
  BY DEF RegisterKnown, store, IsConnected
<1>2. EmptyBoard \in Boards /\ EmptyBoard[k] = NoTask
  BY DEF EmptyBoard, Boards
<1>3. Shown(k)' \in {NoTask, Shown(k)}
  BY <1>1, <1>2, OwnersInDomain, SetBoardViews DEF Shown
<1>4. Decided(k)' = Decided(k)
  BY <1>1 DEF Decided, Doing, Touched
<1> QED BY <1>1, <1>3, <1>4, SameStage, LosesTask

LEMMA FindingLife ==
    ASSUME LifeInv, NEW th \in Threads, NEW id, RegisterMissing(th, id) \/ StatusFind(th, id), NEW k
    PROVE  UNCHANGED Stage(k)
<1>1. UNCHANGED <<tasksDb, agents, owner>> /\ calls[th] = Idle
  BY DEF RegisterMissing, StatusFind, Receives, store
<1>2. /\ Others(th) /\ calls'[th].pc \in {"load", "status"}
  BY DEF RegisterMissing, StatusFind, Goto, Idle, Others, LifeInv, RacedInv, IndInv, TypeOK
<1> QED BY <1>1, <1>2, LookingLife DEF Deciding, Idle

LEMMA RegisterLoadLife ==
    ASSUME LifeInv, NEW th \in Threads, RegisterLoad(th), NEW k
    PROVE  UNCHANGED Stage(k)
<1>1. /\ UNCHANGED <<tasksDb, agents, owner>> /\ Others(th)
      /\ calls[th].pc = "load" /\ calls'[th].pc = "add"
  BY DEF RegisterLoad, store, Goto, Others, LifeInv, RacedInv, IndInv, TypeOK, Calls
<1> QED BY <1>1, LookingLife DEF Deciding

\* The tasks of the agent that are stored active come into the list, and nothing
\* else happens to its tasks or to others.
LEMMA RegisterAddLife ==
    ASSUME LifeInv, IndInv', NEW th \in Threads, RegisterAdd(th), NEW k \in TaskIds \ raced,
           k \notin Overlaps'
    PROVE  Life(k)!Load \/ (UNCHANGED Stage(k) /\ calls[th].agent # owner[k])
<1>0. /\ IndInv /\ TypeOK /\ owner[k] \in AgentIds \cup {NoAgent}
      /\ CallOK(calls[th]) /\ calls[th] \in Calls
  BY OwnersInDomain, CallFacts
<1>1. PICK id \in AgentIds, b \in Boards : id = calls[th].agent /\ b = calls[th].board
  BY <1>0 DEF RegisterAdd, CallOK, WithAgent, Calls
<1>2. /\ calls[th].pc = "add" /\ agents' = Append(agents, [id |-> id, board |-> b])
      /\ UNCHANGED <<tasksDb, owner>> /\ Others(th) /\ calls'[th] = Idle
  BY <1>0, <1>1 DEF RegisterAdd, store, Finish, Goto, Others, TypeOK
<1>3. Decided(k)' = Decided(k)
  BY <1>2, SameDecided DEF Deciding, Idle
<1>4. PICK o \in AgentIds \cup {NoAgent} : o = owner[k]
  BY <1>0
<1>5. Shown(k) = View(o, k) /\ Shown(k)' = View(o, k)'
  BY <1>2, <1>4 DEF Shown, View, BoardOf
<1>6. CASE o # id
  BY <1>0, <1>1, <1>2, <1>3, <1>4, <1>5, <1>6, AddAgentViews, SameStage
<1>7. CASE o = id
  <2>1. k \in Touched(calls[th])
    BY <1>1, <1>2, <1>4, <1>7 DEF Touched
  <2>2. ~IsConnected(id) /\ RowOK(calls[th], k)
    BY <1>2, <1>4, <1>7, <2>1 DEF LifeInv, RowsOK, RacedInv, TaskOK, Knows, Loading
  <2>3. Shown(k) = NoTask /\ Shown(k)' = b[k]
    BY <1>0, <1>2, <1>5, <1>7, <2>2, AddAgentViews DEF View
  <2>4. Decided(k) = {}
    BY <1>2, <2>1, DecidedAlone DEF Deciding
  <2>5. /\ b[k] # NoTask <=> tasksDb[k] # NoRow /\ tasksDb[k].isActive
        /\ b[k] # NoTask => b[k].state = "Creating"
    BY <1>1, <1>2, <2>2 DEF RowOK, HasRow, IsListed
  <2>6. /\ Stage(k) = Staged(id, NoTask, tasksDb[k], {})
        /\ Stage(k)' = Staged(id, b[k], tasksDb[k], {})
    BY <1>2, <1>3, <1>4, <1>7, <2>3, <2>4, StageIs
  <2>7. CASE b[k] = NoTask
    <3>1. Stage(k) # "unlisted" /\ Stage(k)' = Stage(k)
      BY <2>5, <2>6, <2>7, NoAgentAssumption DEF Staged
    <3> QED BY <3>1, LoadsNothing
  <2>8. CASE b[k] # NoTask
    <3>1. Stage(k) = "unlisted" /\ Stage(k)' = "pending"
      BY <2>5, <2>6, <2>8, NoAgentAssumption DEF Staged
    <3> QED BY <3>1, LoadMove
  <2> QED BY <2>7, <2>8
<1> QED BY <1>6, <1>7

\* Confirmations settle or drop the tasks under way.
LEMMA PrepareStatusLife ==
    ASSUME Disciplined, LifeInv, NEW th \in Threads, NEW settled \in SUBSET TaskIds,
           NEW cancelled \in SUBSET TaskIds, PrepareStatus(th, settled, cancelled),
           NEW k \in TaskIds \ raced
    PROVE  UNCHANGED Stage(k) \/ Life(k)!Confirm({k})
<1>0. IndInv /\ TypeOK /\ owner[k] \in AgentIds \cup {NoAgent}
  BY OwnersInDomain
<1>1. PICK id \in AgentIds : id = calls[th].agent /\ FindAgent(id) # 0 /\ calls[th].found = FindAgent(id)
  BY <1>0, CallFacts DEF PrepareStatus, CallOK, WithAgent
<1>2. BoardOf(id) \in Boards /\ Confirmed(BoardOf(id), settled, cancelled) \in Boards
  BY <1>0, <1>1, FoundIsThere, ConfirmedOperator DEF IndInv
<1>3. PICK b \in Boards : b = Confirmed(BoardOf(id), settled, cancelled)
  BY <1>2
<1>4. /\ SetBoard(FindAgent(id), b) /\ Answers(BoardOf(id), settled, cancelled)
      /\ calls[th].pc = "status" /\ calls'[th] = Idle /\ Others(th) /\ UNCHANGED <<tasksDb, owner>>
  BY <1>0, <1>1, <1>3 DEF PrepareStatus, BoardOf, Finish, Goto, Others, TypeOK, store
<1>5. Decided(k)' = Decided(k)
  BY <1>4, SameDecided DEF Deciding, Idle
<1>6. PICK o \in AgentIds \cup {NoAgent} : o = owner[k]
  BY <1>0
<1>7. Shown(k) = View(o, k) /\ Shown(k)' = View(o, k)'
  BY <1>4, <1>6 DEF Shown, View, BoardOf
<1>8. Shown(k)' = IF o = id THEN b[k] ELSE Shown(k)
  BY <1>0, <1>1, <1>4, <1>7, SetBoardViews
<1>9. CASE Shown(k)' = Shown(k)
  BY <1>4, <1>5, <1>9, SameStage
<1>10. CASE Shown(k)' # Shown(k)
  <2>1. o = id /\ Shown(k)' = b[k] /\ Shown(k) = BoardOf(id)[k]
    BY <1>1, <1>7, <1>8, <1>10 DEF View, IsConnected
  <2>2. CASE k \in cancelled
    <3>1. b[k] = NoTask /\ Shown(k) # NoTask /\ Shown(k).state = "Cancelling"
      BY <1>3, <1>4, <2>1, <2>2 DEF Confirmed, Answers, IsListed
    <3> QED BY <1>4, <1>5, <2>1, <3>1, LosesTask
  <2>3. CASE k \notin cancelled
    <3>1. /\ k \in settled /\ Shown(k) # NoTask /\ b[k] = AcceptConfirmation(Shown(k))
          /\ Shown(k).state \in {"Creating", "Changing"}
      BY <1>3, <1>4, <1>10, <2>1, <2>3 DEF Confirmed, Answers, IsListed
    <3>2. /\ Shown(k) \in Tasks /\ owner[k] # NoAgent /\ tasksDb[k] # NoRow
          /\ Decided(k) = {}
      BY <3>1, ListedFacts DEF Decided, Deciding
    <3>3. b[k] # NoTask /\ b[k].state = "Running"
      BY <3>1, <3>2, NoTaskAssumption DEF AcceptConfirmation, Tasks, TaskState
    <3>4. Stage(k) = "pending"
      BY <3>1, <3>2, StageIs DEF Staged
    <3>5. Stage(k)' = "active"
      BY <1>4, <1>5, <2>1, <3>2, <3>3, StageIs DEF Staged
    <3> QED BY <3>4, <3>5, ConfirmMove
  <2> QED BY <2>2, <2>3
<1> QED BY <1>9, <1>10

-----------------------------------------------------------------------------
(* Handlers of one task *)

LEMMA OtherStages ==
    ASSUME LifeInv, IndInv', NEW th \in Threads, NEW t \in TaskIds, AgentStep(t), Others(th),
           \A j \in TaskIds \ {t} : owner'[j] = owner[j] /\ tasksDb'[j] = tasksDb[j],
           HandlesTask(calls[th], t), HandlesTask(calls'[th], t), NEW k \in TaskIds, k # t
    PROVE  UNCHANGED Stage(k)
<1>1. owner'[k] = owner[k] /\ tasksDb'[k] = tasksDb[k]
  OBVIOUS
<1>2. Shown(k)' = Shown(k)
  <2>1. PICK o \in AgentIds \cup {NoAgent} : o = owner[k]
    BY OwnersInDomain
  <2>2. View(o, k)' = View(o, k)
    BY OwnersInDomain, AgentStepViews
  <2>3. Shown(k) = View(o, k) /\ Shown(k)' = View(o, k)'
    BY <1>1, <2>1 DEF Shown, View, BoardOf
  <2> QED BY <2>2, <2>3
<1>3. k \notin Touched(calls[th]) /\ k \notin Touched(calls[th])'
  BY IdleTouchesNothing, NoTaskIdAssumption DEF HandlesTask, Touched, WithTask
<1> QED BY <1>1, <1>2, <1>3, SameDecided, SameStage

\* What the handler of a task that nobody else works on finds.
Finds(th, t) ==
    /\ Stage(t) = Staged(owner[t], Shown(t), tasksDb[t], {calls[th].pc})
    /\ Stage(t)' = Staged(owner[t], Shown(t)', tasksDb'[t], {calls'[th].pc})
    /\ calls[th] = Idle => Agree(Shown(t), tasksDb[t])
    /\ calls[th] # Idle =>
         /\ RowOK(calls[th], t)
         /\ Connected(t) => Working(calls[th], Shown(t), tasksDb[t])
    /\ ~Connected(t) => Shown(t) = NoTask

LEMMA OwnStage ==
    ASSUME LifeInv, NEW th \in Threads, Others(th), NEW t \in TaskIds \ raced, t \notin Overlaps',
           owner'[t] = owner[t], HandlesTask(calls[th], t), HandlesTask(calls'[th], t),
           calls'[th] # calls[th]
    PROVE  Finds(th, t)
<1>1. /\ t \in Touched(calls[th]) <=> calls[th] # Idle
      /\ t \in Touched(calls[th])' <=> calls'[th] # Idle
  BY IdleTouchesNothing DEF HandlesTask, Touched, WithTask
<1>2. /\ Decided(t) = IF calls[th] # Idle THEN {calls[th].pc} \cap Deciding ELSE {}
      /\ Decided(t)' = IF calls'[th] # Idle THEN {calls'[th].pc} \cap Deciding ELSE {}
  BY <1>1, DecidedAlone
<1>3. Idle.pc \notin Deciding
  BY DEF Idle, Deciding
<1>4. Stage(t) = Staged(owner[t], Shown(t), tasksDb[t], {calls[th].pc})
  BY <1>2, <1>3, StageIs DEF Staged, Deciding
<1>5. Stage(t)' = Staged(owner[t], Shown(t)', tasksDb'[t], {calls'[th].pc})
  BY <1>2, <1>3, StageIs DEF Staged, Deciding
<1>6. TaskOK(t)
  BY DEF LifeInv, RacedInv
<1>7. calls[th] = Idle => Agree(Shown(t), tasksDb[t])
  BY <1>1, <1>6, TakenUp
<1>8. calls[th] # Idle =>
         /\ RowOK(calls[th], t)
         /\ Connected(t) => Working(calls[th], Shown(t), tasksDb[t])
  BY <1>1, <1>6 DEF LifeInv, RowsOK, TaskOK, Knows, Connected, HandlesTask, WithTask, Loading
<1> QED BY <1>4, <1>5, <1>7, <1>8 DEF Finds, Connected, Shown, View

LEMMA OneTaskStages ==
    ASSUME LifeInv, IndInv', NEW th \in Threads, NEW t \in TaskIds, AgentStep(t), Others(th),
           UNCHANGED owner, \A j \in TaskIds \ {t} : tasksDb'[j] = tasksDb[j],
           HandlesTask(calls[th], t), HandlesTask(calls'[th], t), calls'[th] # calls[th],
           NEW k \in TaskIds \ raced, k \notin Overlaps', ~UNCHANGED Stage(k)
    PROVE  k = t /\ Finds(th, t)
<1>1. k = t
  BY OtherStages
<1> QED BY <1>1, OwnStage

\* A step in the database by the handler of a task.
LEMMA StatementStages ==
    ASSUME LifeInv, IndInv', NEW th \in Threads, UNCHANGED <<agents, owner>>,
           calls[th].pc \in WithTask, HandlesTask(calls'[th], calls[th].task),
           calls'[th] # calls[th], Others(th),
           \A j \in TaskIds \ {calls[th].task} : tasksDb'[j] = tasksDb[j],
           NEW k \in TaskIds \ raced, k \notin Overlaps', ~UNCHANGED Stage(k)
    PROVE  /\ k = calls[th].task
           /\ Stage(k) = Staged(owner[k], Shown(k), tasksDb[k], {calls[th].pc})
           /\ Stage(k)' = Staged(owner[k], Shown(k), tasksDb'[k], {calls'[th].pc})
           /\ RowOK(calls[th], k)
           /\ Shown(k) # NoTask => Working(calls[th], Shown(k), tasksDb[k])
<1>1. PICK t \in TaskIds : t = calls[th].task
  BY CallFacts DEF LifeInv, RacedInv, IndInv, CallOK
<1>2. AgentStep(t) /\ Shown(t)' = Shown(t) /\ HandlesTask(calls[th], t)
  BY <1>1, SameListsForTask DEF AgentStep, HandlesTask
<1>3. calls[th] # Idle
  BY IdleTouchesNothing DEF WithTask
<1>4. k = t /\ Finds(th, t)
  BY <1>1, <1>2, OneTaskStages
<1> QED BY <1>1, <1>2, <1>3, <1>4 DEF Finds, Connected, Shown, View

-----------------------------------------------------------------------------
(* assignTask *)

LEMMA SaveTaskLife ==
    ASSUME LifeInv, IndInv', NEW th \in Threads, NEW id \in AgentIds, NEW t \in TaskIds,
           NEW config, NEW isActive, SaveTask(th, id, t, config, isActive), NEW k \in TaskIds
    PROVE  UNCHANGED Stage(k)
<1>0. TypeOK
  BY OwnersInDomain DEF LifeInv, RacedInv, IndInv
<1>1. /\ calls[th] = Idle /\ owner[t] = NoAgent /\ owner' = [owner EXCEPT ![t] = id]
      /\ tasksDb' = [tasksDb EXCEPT ![t] = Row(id, config, isActive)]
      /\ UNCHANGED agents /\ Others(th)
      /\ calls'[th].pc = "getNew" /\ calls'[th].task = t
  BY <1>0 DEF SaveTask, Receives, InsertRow, Goto, Idle, Others, TypeOK
<1>2. CASE k # t
  <2>1. \A j \in TaskIds \ {t} : owner'[j] = owner[j] /\ tasksDb'[j] = tasksDb[j]
    BY <1>0, <1>1 DEF TypeOK, Tables
  <2>2. AgentStep(t) /\ HandlesTask(calls[th], t) /\ HandlesTask(calls'[th], t)
    BY <1>1 DEF AgentStep, HandlesTask, WithTask
  <2> QED BY <1>1, <1>2, <2>1, <2>2, OtherStages
<1>3. CASE k = t
  <2>1. k \in Touched(calls[th])'
    BY <1>1, <1>3 DEF Touched
  <2>2. "getNew" \in Decided(k)'
    BY <1>1, <2>1 DEF Decided, Deciding, Doing
  <2>3. Stage(k) = "new" /\ Stage(k)' = "new"
    BY <1>1, <1>3, <2>2, StageIs DEF Staged
  <2> QED BY <2>3
<1> QED BY <1>2, <1>3

LEMMA AssignGetLife ==
    ASSUME LifeInv, IndInv', NEW th \in Threads, AssignGet(th),
           NEW k \in TaskIds \ raced, k \notin Overlaps'
    PROVE  UNCHANGED Stage(k)
<1>1. /\ calls[th].pc = "getNew" /\ UNCHANGED <<tasksDb, agents, owner>> /\ Others(th)
      /\ calls'[th].pc = "assign" /\ calls'[th].task = calls[th].task
  BY DEF AssignGet, store, Goto, Others, LifeInv, RacedInv, IndInv, TypeOK, Calls
<1> QED BY <1>1, StatementStages DEF WithTask, HandlesTask, Staged

LEMMA AssignToAgentLife ==
    ASSUME LifeInv, IndInv', NEW th \in Threads, AssignToAgent(th),
           NEW k \in TaskIds \ raced, k \notin Overlaps'
    PROVE  UNCHANGED Stage(k) \/ Life(k)!Assign(k)
<1>0. /\ IndInv /\ TypeOK /\ CallOK(calls[th])
  BY OwnersInDomain, CallFacts DEF LifeInv, RacedInv, IndInv
<1>1. PICK t \in TaskIds : t = calls[th].task
  BY <1>0 DEF AssignToAgent, CallOK, WithTask
<1>2. /\ calls[th].pc = "assign" /\ calls[th].agent = owner[t] /\ owner[t] \in AgentIds
      /\ calls[th].row.config \in Configs /\ owner[t] # NoAgent
  BY <1>0, <1>1, NoAgentAssumption DEF AssignToAgent, CallOK, WithRow, WithAgent, Rows
<1>3. UNCHANGED <<tasksDb, owner>> /\ Others(th) /\ calls'[th] = Idle /\ calls'[th] # calls[th]
  BY <1>0, <1>2, IdleTouchesNothing DEF AssignToAgent, store, Finish, Goto, Others, TypeOK
<1>4. HandlesTask(calls[th], t) /\ HandlesTask(calls'[th], t) /\ Idle.pc = "idle"
  BY <1>1, <1>2, <1>3, IdleTouchesNothing DEF HandlesTask, WithTask
<1> DEFINE id == owner[t]
           b == AssignTo(BoardOf(id), t, calls[th].row.config)
<1>5. CASE IsConnected(id) /\ ~IsListed(BoardOf(id), t)
  <2>1. FindAgent(id) # 0 /\ SetBoard(FindAgent(id), b) /\ BoardOf(id) \in Boards
    BY <1>0, <1>1, <1>2, <1>5, FoundIsThere DEF AssignToAgent, IndInv, IsConnected
  <2>2. b \in Boards /\ b[t] = NewTask(t, calls[th].row.config) /\ SetsTask(id, t, b)
    <3>1. /\ \A j \in TaskIds \ {t} : b[j] = BoardOf(id)[j]
          /\ b[t] = NewTask(t, calls[th].row.config)
      BY <2>1 DEF AssignTo, Boards
    <3> QED BY <1>2, <2>1, <3>1, BoardOperators DEF SetsTask
  <2>3. b[t].state = "Creating" /\ b[t] # NoTask
    BY <1>2, <2>2, NoTaskAssumption DEF NewTask, Tasks, TaskState
  <2> HIDE DEF b
  <2>4. AgentStep(t) /\ Connected(t) /\ Shown(t)' = b[t]
    BY <1>0, <1>2, <1>3, <2>2, ListStepShows
  <2>5. ASSUME ~UNCHANGED Stage(k) PROVE Life(k)!Assign(k)
    <3>0. k = t /\ Finds(th, t)
      BY <1>3, <1>4, <2>4, <2>5, OneTaskStages
    <3>1. /\ k = t /\ Stage(t) = Staged(owner[t], Shown(t), tasksDb[t], {"assign"})
          /\ Stage(t)' = Staged(owner[t], b[t], tasksDb[t], {"idle"})
          /\ tasksDb[t] # NoRow
      BY <1>2, <1>3, <1>4, <2>4, <3>0 DEF Finds, Working
    <3>2. Stage(k) = "new" /\ Stage(k)' = "pending"
      BY <1>2, <2>3, <3>1 DEF Staged
    <3> QED BY <3>2, MovesFromTo DEF Life!Assign
  <2> QED BY <2>5
<1>6. CASE ~(IsConnected(id) /\ ~IsListed(BoardOf(id), t))
  <2>1. UNCHANGED agents
    BY <1>1, <1>2, <1>6 DEF AssignToAgent
  <2>2. AgentStep(t) /\ Shown(t)' = Shown(t)
    BY <1>3, <2>1, SameListsForTask DEF AgentStep
  <2>3. ASSUME ~UNCHANGED Stage(k) PROVE Life(k)!Assign(k)
    <3>0. k = t /\ Finds(th, t)
      BY <1>3, <1>4, <2>2, <2>3, OneTaskStages
    <3>1. /\ k = t /\ Stage(t) = Staged(owner[t], Shown(t), tasksDb[t], {"assign"})
          /\ Stage(t)' = Staged(owner[t], Shown(t), tasksDb[t], {"idle"})
          /\ RowOK(calls[th], t) /\ (~Connected(t) => Shown(t) = NoTask)
          /\ Connected(t) => Working(calls[th], Shown(t), tasksDb[t])
      BY <1>2, <1>3, <1>4, <2>2, <3>0 DEF Finds
    <3>2. Shown(t) = NoTask /\ tasksDb[t] # NoRow
      BY <1>2, <1>6, <3>1 DEF Connected, Shown, View, IsListed, Working, RowOK, HasRow
    <3>3. Stage(k) = "new" /\ Stage(k)' \in {"unlisted", "suspended"}
      BY <1>2, <3>1, <3>2 DEF Staged
    <3> QED BY <3>3, MovesFromTo DEF Life!Assign, Life!Waiting
  <2> QED BY <2>3
<1> QED BY <1>5, <1>6

-----------------------------------------------------------------------------
(* editTask *)

LEMMA EditInAgentLife ==
    ASSUME Disciplined, LifeInv, IndInv', NEW th \in Threads, NEW id \in AgentIds,
           NEW t \in TaskIds, NEW config \in Configs, EditInAgent(th, id, t, config),
           NEW k \in TaskIds \ raced, k \notin Overlaps'
    PROVE  UNCHANGED Stage(k) \/ Life(k)!Edit(k)
<1>0. /\ IndInv /\ TypeOK /\ owner[t] = id /\ owner[t] # NoAgent
  BY OwnersInDomain, NamedOwner, NoAgentAssumption DEF EditInAgent
<1>2. /\ calls[th] = Idle /\ UNCHANGED <<tasksDb, owner>> /\ Others(th)
      /\ calls'[th].pc = "getEdited" /\ calls'[th].task = t
  BY <1>0 DEF EditInAgent, Receives, store, Goto, Idle, Others, TypeOK
<1>3. /\ calls'[th] # calls[th] /\ HandlesTask(calls[th], t) /\ HandlesTask(calls'[th], t)
      /\ Idle.pc = "idle"
  BY <1>2, IdleTouchesNothing DEF HandlesTask, WithTask
<1> DEFINE b == EditOn(BoardOf(id), t, config)
<1>4. CASE IsConnected(id) /\ IsSettled(BoardOf(id), t) /\ SetBoard(FindAgent(id), b)
  <2>1. FindAgent(id) # 0 /\ BoardOf(id) \in Boards /\ BoardOf(id)[t] \in Tasks
    BY <1>0, <1>4, FoundIsThere DEF IndInv, IsConnected, IsSettled, IsListed, Boards
  <2>2. /\ b \in Boards /\ \A j \in TaskIds \ {t} : b[j] = BoardOf(id)[j]
        /\ b[t] = AcceptChanges(BoardOf(id)[t], config)
    <3>1. AcceptChanges(BoardOf(id)[t], config) \in Tasks
      BY <2>1 DEF AcceptChanges, Tasks, TaskState
    <3> QED BY <2>1, <3>1 DEF EditOn, Boards
  <2>3. b[t].state = "Changing" /\ b[t] # NoTask /\ SetsTask(id, t, b)
    BY <1>4, <2>1, <2>2, NoTaskAssumption DEF AcceptChanges, Tasks, TaskState, SetsTask
  <2> HIDE DEF b
  <2>4. AgentStep(t) /\ Connected(t) /\ Shown(t) = BoardOf(id)[t] /\ Shown(t)' = b[t]
    BY <1>0, <1>2, <2>2, <2>3, ListStepShows
  <2>5. ASSUME ~UNCHANGED Stage(k) PROVE Life(k)!Edit(k)
    <3>0. k = t /\ Finds(th, t)
      BY <1>2, <1>3, <2>4, <2>5, OneTaskStages
    <3>1. /\ k = t /\ Stage(t) = Staged(owner[t], Shown(t), tasksDb[t], {"idle"})
          /\ Stage(t)' = Staged(owner[t], b[t], tasksDb[t], {"getEdited"})
          /\ Agree(Shown(t), tasksDb[t])
      BY <1>2, <1>3, <2>4, <3>0 DEF Finds
    <3>2. Shown(t) # NoTask /\ Shown(t).state = "Running" /\ tasksDb[t] # NoRow
      BY <1>4, <2>4, <3>1 DEF IsSettled, IsListed, IsBusy, Agree
    <3>3. Stage(k) = "active" /\ Stage(k)' = "pending"
      BY <1>0, <2>3, <3>1, <3>2 DEF Staged
    <3> QED BY <3>3, MovesFromTo DEF Life!Edit
  <2> QED BY <2>5
<1>5. CASE ~IsConnected(id) /\ UNCHANGED agents
  BY <1>2, <1>3, <1>5, LookingLife DEF Deciding
<1> QED BY <1>4, <1>5 DEF EditInAgent

LEMMA EditGetLife ==
    ASSUME LifeInv, NEW th \in Threads, EditGet(th), NEW k
    PROVE  UNCHANGED Stage(k)
<1>1. /\ calls[th].pc = "getEdited" /\ UNCHANGED <<tasksDb, agents, owner>> /\ Others(th)
      /\ calls'[th].pc \in {"update", "idle"}
  BY IdleTouchesNothing
     DEF EditGet, store, Goto, Finish, Others, LifeInv, RacedInv, IndInv, TypeOK, Calls
<1> QED BY <1>1, LookingLife DEF Deciding

LEMMA EditUpdateLife ==
    ASSUME LifeInv, IndInv', NEW th \in Threads, EditUpdate(th),
           NEW k \in TaskIds \ raced, k \notin Overlaps'
    PROVE  UNCHANGED Stage(k)
<1> SUFFICES ASSUME ~UNCHANGED Stage(k) PROVE FALSE
  OBVIOUS
<1>0. /\ IndInv /\ TypeOK /\ CallOK(calls[th])
  BY OwnersInDomain, CallFacts
<1>1. /\ calls[th].pc = "update" /\ UNCHANGED <<agents, owner>> /\ Others(th) /\ calls'[th] = Idle
      /\ calls[th].row \in Rows /\ calls[th].task \in TaskIds
  BY <1>0 DEF EditUpdate, Finish, Goto, Others, TypeOK, CallOK, WithRow, WithTask
<1>2. /\ \A j \in TaskIds \ {calls[th].task} : tasksDb'[j] = tasksDb[j]
      /\ tasksDb'[calls[th].task] = IF tasksDb[calls[th].task] = NoRow THEN NoRow ELSE calls[th].row
  BY <1>0, <1>1 DEF EditUpdate, UpdateRow, TypeOK, Tables
<1>3. /\ k = calls[th].task
      /\ Stage(k) = Staged(owner[k], Shown(k), tasksDb[k], {"update"})
      /\ Stage(k)' = Staged(owner[k], Shown(k), tasksDb'[k], {"idle"})
      /\ tasksDb[k] # NoRow => calls[th].row.isActive = tasksDb[k].isActive
  BY <1>1, <1>2, StatementStages, IdleTouchesNothing DEF WithTask, HandlesTask, RowOK, HasRow
<1> QED BY <1>1, <1>2, <1>3, NoRowAssumption DEF Staged

-----------------------------------------------------------------------------
(* removeTask and toggleTask *)

\* Both begin with a task cancelled, or with none to cancel.
LEMMA CancelledStages ==
    ASSUME Disciplined, LifeInv, IndInv', NEW th \in Threads, NEW id \in AgentIds,
           NEW t \in TaskIds, Names(id, t), Cancelled(id, t),
           UNCHANGED <<tasksDb, owner>>, Others(th), calls[th] = Idle,
           calls'[th].pc \in {"delete", "suspend"}, calls'[th].task = t,
           NEW k \in TaskIds \ raced, k \notin Overlaps', ~UNCHANGED Stage(k)
    PROVE  /\ Stage(k) = "active"
           /\ Stage(k)' = IF calls'[th].pc = "delete" THEN "leaving" ELSE "suspending"
<1>0. /\ IndInv /\ TypeOK /\ owner[t] = id /\ owner[t] # NoAgent
  BY OwnersInDomain, NamedOwner, NoAgentAssumption
<1>1. /\ calls'[th] # calls[th] /\ HandlesTask(calls[th], t) /\ HandlesTask(calls'[th], t)
      /\ Idle.pc = "idle"
  BY IdleTouchesNothing DEF HandlesTask, WithTask
<1> DEFINE b == CancelOn(BoardOf(id), t)
<1>2. /\ FindAgent(id) # 0 /\ SetBoard(FindAgent(id), b)
      /\ BoardOf(id) \in Boards /\ BoardOf(id)[t] \in Tasks
      /\ BoardOf(id)[t] # NoTask /\ BoardOf(id)[t].state = "Running"
  BY <1>0, FoundIsThere DEF Cancelled, IndInv, IsConnected, IsSettled, IsBusy, IsListed, Boards
<1>3. /\ b \in Boards /\ \A j \in TaskIds \ {t} : b[j] = BoardOf(id)[j]
      /\ b[t] = AcceptCancel(BoardOf(id)[t])
  <2>1. AcceptCancel(BoardOf(id)[t]) \in Tasks
    BY <1>2 DEF AcceptCancel, Tasks, TaskState
  <2> QED BY <1>2, <2>1 DEF CancelOn, Boards
<1>4. b[t].state = "Cancelling" /\ b[t] # NoTask /\ SetsTask(id, t, b)
  BY <1>2, <1>3, NoTaskAssumption DEF AcceptCancel, Tasks, TaskState, SetsTask
<1> HIDE DEF b
<1>5. AgentStep(t) /\ Connected(t) /\ Shown(t) = BoardOf(id)[t] /\ Shown(t)' = b[t]
  BY <1>0, <1>3, <1>4, ListStepShows
<1>6. k = t /\ Finds(th, t)
  BY <1>1, <1>5, OneTaskStages
<1>7. /\ Stage(k) = Staged(owner[k], Shown(k), tasksDb[k], {"idle"})
      /\ Stage(k)' = Staged(owner[k], b[k], tasksDb[k], {calls'[th].pc})
      /\ Agree(Shown(k), tasksDb[k])
  BY <1>1, <1>5, <1>6 DEF Finds
<1>8. tasksDb[k] # NoRow
  BY <1>2, <1>5, <1>6, <1>7 DEF Agree
<1> QED BY <1>0, <1>2, <1>4, <1>5, <1>6, <1>7, <1>8 DEF Staged

LEMMA RemoveInAgentLife ==
    ASSUME Disciplined, LifeInv, IndInv', NEW th \in Threads, NEW id \in AgentIds,
           NEW t \in TaskIds, RemoveInAgent(th, id, t),
           NEW k \in TaskIds \ raced, k \notin Overlaps'
    PROVE  UNCHANGED Stage(k) \/ Life(k)!Remove(k)
<1> SUFFICES ASSUME ~UNCHANGED Stage(k) PROVE Life(k)!Remove(k)
  OBVIOUS
<1>0. /\ IndInv /\ TypeOK /\ Names(id, t) /\ owner[t] = id /\ owner[t] # NoAgent
  BY OwnersInDomain, NamedOwner, NoAgentAssumption DEF RemoveInAgent
<1>1. /\ calls[th] = Idle /\ UNCHANGED <<tasksDb, owner>> /\ Others(th)
      /\ calls'[th].pc = "delete" /\ calls'[th].task = t
  BY <1>0 DEF RemoveInAgent, Receives, store, Goto, Idle, Others, TypeOK
<1>2. CASE Cancelled(id, t)
  <2>1. Stage(k) = "active" /\ Stage(k)' = "leaving"
    BY <1>0, <1>1, <1>2, CancelledStages
  <2> QED BY <2>1, MovesFromTo DEF Life!Remove
<1>3. CASE NothingToCancel(id, t)
  <2>1. /\ AgentStep(t) /\ Shown(t)' = Shown(t) /\ Shown(t) = NoTask
        /\ calls'[th] # calls[th] /\ HandlesTask(calls[th], t) /\ HandlesTask(calls'[th], t)
        /\ Idle.pc = "idle"
    BY <1>0, <1>1, <1>3, SameListsForTask, IdleTouchesNothing
       DEF NothingToCancel, AgentStep, Shown, View, IsListed, HandlesTask, WithTask
  <2>2. k = t /\ Finds(th, t)
    BY <1>1, <2>1, OneTaskStages
  <2>3. /\ Stage(k) = Staged(owner[k], NoTask, tasksDb[k], {"idle"})
        /\ Stage(k)' = Staged(owner[k], NoTask, tasksDb[k], {"delete"})
    BY <1>1, <2>1, <2>2 DEF Finds
  <2>4. Stage(k) \in {"gone", "unlisted", "suspended"} /\ Stage(k)' = "gone"
    BY <1>0, <2>2, <2>3 DEF Staged
  <2> QED BY <2>4, MovesFromTo DEF Life!Remove, Life!Waiting
<1> QED BY <1>2, <1>3 DEF RemoveInAgent

LEMMA RemoveTaskLife ==
    ASSUME LifeInv, IndInv', NEW th \in Threads, RemoveTask(th),
           NEW k \in TaskIds \ raced, k \notin Overlaps'
    PROVE  UNCHANGED Stage(k)
<1> SUFFICES ASSUME ~UNCHANGED Stage(k) PROVE FALSE
  OBVIOUS
<1>0. /\ IndInv /\ TypeOK /\ CallOK(calls[th])
  BY OwnersInDomain, CallFacts
<1>1. /\ calls[th].pc = "delete" /\ UNCHANGED <<agents, owner>> /\ Others(th) /\ calls'[th] = Idle
      /\ calls[th].task \in TaskIds /\ Idle.pc = "idle"
  BY <1>0, IdleTouchesNothing DEF RemoveTask, Finish, Goto, Others, TypeOK, CallOK, WithTask
<1>2. /\ \A j \in TaskIds \ {calls[th].task} : tasksDb'[j] = tasksDb[j]
      /\ tasksDb'[calls[th].task] = NoRow
  BY <1>0, <1>1 DEF RemoveTask, RemoveRow, TypeOK, Tables
<1>3. /\ k = calls[th].task
      /\ Stage(k) = Staged(owner[k], Shown(k), tasksDb[k], {"delete"})
      /\ Stage(k)' = Staged(owner[k], Shown(k), tasksDb'[k], {"idle"})
      /\ Shown(k) # NoTask => Shown(k).state = "Cancelling"
  BY <1>1, <1>2, StatementStages DEF WithTask, HandlesTask, Working
<1> QED BY <1>1, <1>2, <1>3 DEF Staged

LEMMA ToggleCancelLife ==
    ASSUME Disciplined, LifeInv, IndInv', NEW th \in Threads, NEW id \in AgentIds,
           NEW t \in TaskIds, ToggleCancel(th, id, t),
           NEW k \in TaskIds \ raced, k \notin Overlaps'
    PROVE  UNCHANGED Stage(k) \/ Life(k)!Toggle(k)
<1> SUFFICES ASSUME ~UNCHANGED Stage(k) PROVE Life(k)!Toggle(k)
  OBVIOUS
<1>1. /\ calls[th] = Idle /\ UNCHANGED <<tasksDb, owner>> /\ Others(th)
      /\ calls'[th].pc = "suspend" /\ calls'[th].task = t
      /\ Names(id, t) /\ Cancelled(id, t)
  BY OwnersInDomain DEF ToggleCancel, Receives, store, Goto, Idle, Others, TypeOK
<1>2. Stage(k) = "active" /\ Stage(k)' = "suspending"
  BY <1>1, CancelledStages
<1> QED BY <1>2, MovesFromTo DEF Life!Toggle

LEMMA ToggleSuspendLife ==
    ASSUME LifeInv, IndInv', NEW th \in Threads, ToggleSuspend(th),
           NEW k \in TaskIds \ raced, k \notin Overlaps'
    PROVE  UNCHANGED Stage(k)
<1> SUFFICES ASSUME ~UNCHANGED Stage(k) PROVE FALSE
  OBVIOUS
<1>0. /\ IndInv /\ TypeOK /\ CallOK(calls[th])
  BY OwnersInDomain, CallFacts
<1>1. /\ calls[th].pc = "suspend" /\ UNCHANGED <<agents, owner>> /\ Others(th)
      /\ calls'[th] = Idle /\ calls[th].task \in TaskIds /\ Idle.pc = "idle"
  BY <1>0, IdleTouchesNothing DEF ToggleSuspend, Finish, Goto, Others, TypeOK, CallOK, WithTask
<1>2. PICK t \in TaskIds : t = calls[th].task
  BY <1>1
<1>3. /\ \A j \in TaskIds \ {t} : tasksDb'[j] = tasksDb[j]
      /\ tasksDb'[t] = NoRow <=> tasksDb[t] = NoRow
      /\ tasksDb[t] # NoRow => ~tasksDb'[t].isActive
  BY <1>0, <1>2, FlagStored DEF ToggleSuspend
<1>4. /\ k = t
      /\ Stage(k) = Staged(owner[k], Shown(k), tasksDb[k], {"suspend"})
      /\ Stage(k)' = Staged(owner[k], Shown(k), tasksDb'[k], {"idle"})
      /\ Shown(k) # NoTask => Shown(k).state = "Cancelling"
  BY <1>1, <1>2, <1>3, StatementStages DEF WithTask, HandlesTask, Working
<1> QED BY <1>3, <1>4 DEF Staged

LEMMA ToggleLooksLife ==
    ASSUME LifeInv, NEW th \in Threads,
           ToggleGet(th) \/ \E id \in AgentIds, t \in TaskIds : ToggleUnlisted(th, id, t), NEW k
    PROVE  UNCHANGED Stage(k)
<1>0. TypeOK
  BY DEF LifeInv, RacedInv, IndInv
<1>1. CASE ToggleGet(th)
  <2>1. /\ calls[th].pc = "getToggled" /\ UNCHANGED <<tasksDb, agents, owner>> /\ Others(th)
        /\ calls'[th].pc \in {"set", "idle"}
    BY <1>0, <1>1, IdleTouchesNothing DEF ToggleGet, store, Goto, Finish, Others, TypeOK, Calls
  <2> QED BY <2>1, LookingLife DEF Deciding
<1>2. ASSUME NEW id \in AgentIds, NEW t \in TaskIds, ToggleUnlisted(th, id, t)
      PROVE  UNCHANGED Stage(k)
  <2>1. /\ calls[th] = Idle /\ UNCHANGED <<tasksDb, agents, owner>>
        /\ Goto(th, [Idle EXCEPT !.pc = "getToggled", !.agent = id, !.task = t,
                                 !.found = FindAgent(id)])
    BY <1>2 DEF ToggleUnlisted, NothingToCancel, Receives, store
  <2>2. calls[th].pc = "idle" /\ calls'[th].pc = "getToggled" /\ Others(th)
    BY <1>0, <2>1 DEF Goto, Idle, Others, TypeOK
  <2> QED BY <2>1, <2>2, LookingLife DEF Deciding
<1> QED BY <1>1, <1>2

\* The flag stored is the other one than the row had when it was read, and has still.
LEMMA ToggleSetLife ==
    ASSUME LifeInv, IndInv', NEW th \in Threads, ToggleSet(th),
           NEW k \in TaskIds \ raced, k \notin Overlaps'
    PROVE  UNCHANGED Stage(k) \/ Life(k)!Toggle(k)
<1> SUFFICES ASSUME ~UNCHANGED Stage(k) PROVE Life(k)!Toggle(k)
  OBVIOUS
<1>0. /\ IndInv /\ TypeOK /\ CallOK(calls[th]) /\ calls[th] \in Calls
  BY OwnersInDomain, CallFacts
<1>1. PICK t \in TaskIds, isActive \in BOOLEAN : t = calls[th].task /\ isActive = calls[th].row.isActive
  BY <1>0 DEF ToggleSet, CallOK, WithTask, WithRow, Rows
<1>2. /\ calls[th].pc = "set" /\ UNCHANGED <<agents, owner>> /\ Others(th)
      /\ \/ calls'[th].pc = "start" /\ calls'[th].task = t /\ ~isActive
         \/ calls'[th] = Idle
      /\ calls'[th] # calls[th] /\ HandlesTask(calls'[th], t) /\ Idle.pc = "idle"
  <2>1. /\ calls[th].pc = "set" /\ UNCHANGED <<agents, owner>>
        /\ \/ ~isActive /\ Goto(th, [calls[th] EXCEPT !.pc = "start"])
           \/ Goto(th, Idle)
    BY <1>1 DEF ToggleSet, ToBeStarted, Finish
  <2>2. /\ Others(th)
        /\ \/ calls'[th].pc = "start" /\ calls'[th].task = t /\ ~isActive
           \/ calls'[th] = Idle
    BY <1>0, <1>1, <2>1 DEF Goto, Others, TypeOK, Calls
  <2> QED BY <2>1, <2>2, IdleTouchesNothing DEF HandlesTask, WithTask
<1>3. /\ \A j \in TaskIds \ {t} : tasksDb'[j] = tasksDb[j]
      /\ tasksDb'[t] = NoRow <=> tasksDb[t] = NoRow
      /\ tasksDb[t] # NoRow => tasksDb'[t].isActive = ~isActive
  BY <1>0, <1>1, FlagStored DEF ToggleSet
<1>4. /\ k = t
      /\ Stage(k) = Staged(owner[k], Shown(k), tasksDb[k], {"set"})
      /\ Stage(k)' = Staged(owner[k], Shown(k), tasksDb'[k], {calls'[th].pc})
      /\ tasksDb[k] # NoRow => tasksDb[k].isActive = isActive
      /\ Shown(k) = NoTask
  <2>1. calls[th].pc \in WithTask
    BY <1>2 DEF WithTask
  <2>2. /\ k = t /\ RowOK(calls[th], k)
        /\ Stage(k) = Staged(owner[k], Shown(k), tasksDb[k], {calls[th].pc})
        /\ Stage(k)' = Staged(owner[k], Shown(k), tasksDb'[k], {calls'[th].pc})
        /\ Shown(k) # NoTask => Working(calls[th], Shown(k), tasksDb[k])
    BY <1>1, <1>2, <1>3, <2>1, StatementStages
  <2> QED BY <1>1, <1>2, <2>2 DEF Working, RowOK, HasRow
<1>5. \/ Stage(k) = "unlisted" /\ Stage(k)' = "suspended"
      \/ Stage(k) = "suspended" /\ Stage(k)' = "unlisted"
  BY <1>2, <1>3, <1>4 DEF Staged
<1> QED BY <1>5, MovesFromTo DEF Life!Toggle

LEMMA ToggleStartLife ==
    ASSUME LifeInv, IndInv', NEW th \in Threads, ToggleStart(th),
           NEW k \in TaskIds \ raced, k \notin Overlaps'
    PROVE  UNCHANGED Stage(k) \/ Life(k)!Toggle(k)
<1> SUFFICES ASSUME ~UNCHANGED Stage(k) PROVE Life(k)!Toggle(k)
  OBVIOUS
<1>0. /\ IndInv /\ TypeOK /\ CallOK(calls[th])
  BY OwnersInDomain, CallFacts
<1>1. PICK t \in TaskIds : t = calls[th].task
  BY <1>0 DEF ToggleStart, CallOK, WithTask
<1>2. /\ calls[th].pc = "start" /\ calls[th].agent = owner[t] /\ owner[t] \in AgentIds
      /\ calls[th].row.config \in Configs /\ owner[t] # NoAgent
      /\ calls[th].found = FindAgent(owner[t]) /\ FindAgent(owner[t]) # 0
  BY <1>0, <1>1, CallFacts, NoAgentAssumption DEF ToggleStart, CallOK, WithRow, WithAgent, Rows
<1>3. UNCHANGED <<tasksDb, owner>> /\ Others(th) /\ calls'[th] = Idle /\ calls'[th] # calls[th]
  BY <1>0, <1>2, IdleTouchesNothing DEF ToggleStart, store, Finish, Goto, Others, TypeOK
<1>4. HandlesTask(calls[th], t) /\ HandlesTask(calls'[th], t) /\ Idle.pc = "idle"
  BY <1>1, <1>2, <1>3, IdleTouchesNothing DEF HandlesTask, WithTask
<1> DEFINE id == owner[t]
           b == AssignTo(BoardOf(id), t, calls[th].row.config)
<1>5. BoardOf(id) \in Boards
  BY <1>0, <1>2, FoundIsThere DEF IndInv
<1>6. CASE ~IsListed(BoardOf(id), t)
  <2>1. SetBoard(FindAgent(id), b)
    BY <1>1, <1>2, <1>6 DEF ToggleStart, BoardOf
  <2>2. b \in Boards /\ b[t] = NewTask(t, calls[th].row.config) /\ SetsTask(id, t, b)
    <3>1. /\ \A j \in TaskIds \ {t} : b[j] = BoardOf(id)[j]
          /\ b[t] = NewTask(t, calls[th].row.config)
      BY <1>5 DEF AssignTo, Boards
    <3> QED BY <1>2, <1>5, <2>1, <3>1, BoardOperators DEF SetsTask
  <2>3. b[t].state = "Creating" /\ b[t] # NoTask
    BY <1>2, <2>2, NoTaskAssumption DEF NewTask, Tasks, TaskState
  <2> HIDE DEF b
  <2>4. AgentStep(t) /\ Connected(t) /\ Shown(t)' = b[t]
    BY <1>0, <1>2, <1>3, <2>2, ListStepShows
  <2>5. k = t /\ Finds(th, t)
    BY <1>3, <1>4, <2>4, OneTaskStages
  <2>6. /\ Stage(k) = Staged(owner[k], Shown(k), tasksDb[k], {"start"})
        /\ Stage(k)' = Staged(owner[k], b[k], tasksDb[k], {"idle"})
        /\ Shown(k) = NoTask /\ tasksDb[k] # NoRow
    BY <1>2, <1>3, <1>4, <2>4, <2>5 DEF Finds, Working
  <2>7. Stage(k) = "suspended" /\ Stage(k)' = "pending"
    BY <1>2, <2>3, <2>5, <2>6 DEF Staged
  <2> QED BY <2>7, MovesFromTo DEF Life!Toggle
<1>7. CASE IsListed(BoardOf(id), t)
  <2>1. UNCHANGED agents
    BY <1>1, <1>2, <1>7 DEF ToggleStart, BoardOf
  <2>2. AgentStep(t) /\ Connected(t) /\ Shown(t) # NoTask
    BY <1>2, <1>7, <2>1 DEF AgentStep, Connected, IsConnected, Shown, View, IsListed
  <2>3. Finds(th, t)
    BY <1>3, <1>4, <2>2, OneTaskStages
  <2> QED BY <1>2, <1>4, <2>2, <2>3 DEF Finds, Working
<1> QED BY <1>6, <1>7

-----------------------------------------------------------------------------
(* The theorem *)

LEMMA HandleLives ==
    ASSUME Disciplined, LifeInv, IndInv', NEW th \in Threads, Handle(th),
           NEW k \in TaskIds \ raced, k \notin Overlaps', ~(Restart /\ IsTouched(k)),
           ~AddsAgentOf(k)
    PROVE  FollowsLife(k)
<1>1. CASE Create(th)
  <2>1. /\ UNCHANGED <<tasksDb, agents, owner>> /\ Others(th)
        /\ calls[th].pc = "idle" /\ calls'[th].pc = "idle"
    BY <1>1, IdleTouchesNothing DEF Create, CreateAgent, Receives, Others
  <2> QED BY <2>1, LookingLife DEF Deciding, FollowsLife
<1>2. CASE Register(th)
  <2>1. UNCHANGED Stage(k) \/ Life(k)!Load \/ Life(k)!Forget
    BY <1>2, RegisterKnownLife, FindingLife, RegisterLoadLife, RegisterAddLife
       DEF Register, RowsFor
  <2> QED BY <1>2, <2>1 DEF FollowsLife
<1>3. CASE Status(th)
  <2>1. UNCHANGED Stage(k) \/ Life(k)!Confirm({k})
    BY <1>3, FindingLife, PrepareStatusLife DEF Status
  <2> QED BY <1>3, <2>1 DEF FollowsLife
<1>4. CASE Assign(th)
  <2>1. CASE NullRow(th)
    BY <2>1, RestartLife DEF NullRow, FollowsLife
  <2>2. UNCHANGED Stage(k) \/ Life(k)!Assign(k) \/ NullRow(th)
    BY <1>4, SaveTaskLife, AssignGetLife, AssignToAgentLife DEF Assign
  <2> QED BY <1>4, <2>1, <2>2 DEF FollowsLife
<1>5. CASE Edit(th)
  <2>1. UNCHANGED Stage(k) \/ Life(k)!Edit(k)
    BY <1>5, EditInAgentLife, EditGetLife, EditUpdateLife DEF Edit
  <2> QED BY <1>5, <2>1 DEF FollowsLife
<1>6. CASE Remove(th)
  <2>1. UNCHANGED Stage(k) \/ Life(k)!Remove(k)
    BY <1>6, RemoveInAgentLife, RemoveTaskLife DEF Remove
  <2> QED BY <1>6, <2>1 DEF FollowsLife
<1>7. CASE Toggle(th)
  <2>1. UNCHANGED Stage(k) \/ Life(k)!Toggle(k)
    BY <1>7, ToggleCancelLife, ToggleSuspendLife, ToggleLooksLife, ToggleSetLife, ToggleStartLife
       DEF Toggle
  <2> QED BY <1>7, <2>1 DEF FollowsLife
<1> QED BY <1>1, <1>2, <1>3, <1>4, <1>5, <1>6, <1>7 DEF Handle

\* A handler that fails leaves what it has not touched.
LEMMA DbErrorLife ==
    ASSUME LifeInv, NEW th \in Threads, DbError(th), NEW k, k \notin Touched(calls[th])
    PROVE  UNCHANGED Stage(k)
<1>1. UNCHANGED <<tasksDb, agents, owner>> /\ calls'[th] = Idle /\ Others(th)
  BY DEF DbError, store, Finish, Goto, Others, LifeInv, RacedInv, IndInv, TypeOK
<1>2. k \notin Touched(calls[th])'
  BY <1>1, IdleTouchesNothing DEF Touched
<1>3. Decided(k)' = Decided(k)
  BY <1>1, <1>2, SameDecided
<1> QED BY <1>1, <1>3, SameListsForTask, SameStage

LEMMA RacedNextLives ==
    ASSUME Disciplined, LifeInv, LifeInv', RacedNext,
           NEW k \in TaskIds \ (raced \cup raced'), ~(Restart /\ IsTouched(k))
    PROVE  FollowsLife(k)
<1>1. IndInv' /\ k \notin Overlaps'
  BY DEF LifeInv, RacedInv
<1>2. CASE AddsAgentOf(k)
  <2>1. PICK th \in Threads : RegisterAdd(th) /\ calls[th].agent = owner[k]
    BY <1>2 DEF AddsAgentOf
  <2>2. Life(k)!Load /\ Register(th)
    BY <1>1, <2>1, RegisterAddLife DEF Register
  <2> QED BY <2>2 DEF FollowsLife
<1>3. CASE ~AddsAgentOf(k)
  <2>1. ASSUME NEW th \in Threads, Handle(th) PROVE FollowsLife(k)
    BY <1>1, <1>3, <2>1, HandleLives
  <2>2. ASSUME NEW th \in Threads, DbError(th), raced' = raced \cup Touched(calls[th])
        PROVE  FollowsLife(k)
    BY <1>3, <2>2, DbErrorLife DEF FollowsLife
  <2>3. CASE Crash
    BY <1>3, <2>3, RestartLife DEF Crash, FollowsLife
  <2> QED BY <2>1, <2>2, <2>3 DEF RacedNext
<1> QED BY <1>2, <1>3

\* Handlers that take several steps, under no common lock, make of every task
\* that no two of them work on at once what TaskLife says of its life: each
\* kind of request moves it as described there, registrations and confirmations
\* included, and a restart does no more than lose the list.
THEOREM HandlersLiveAsDescribed ==
    ASSUME Disciplined
    PROVE  RacedSpec => HandlersFollowTaskLife
<1> DEFINE Lives == \A k \in TaskIds \ (raced \cup raced') :
                      ~(Restart /\ IsTouched(k)) => FollowsLife(k)
<1>1. LifeInv /\ LifeInv' /\ [RacedNext]_<<vars, raced>> => [Lives]_<<vars, raced>>
  BY RacedNextLives DEF LifeInv, RacedInv
<1> HIDE DEF Lives
<1>2. RacedSpec => [][Lives]_<<vars, raced>>
  BY <1>1, LifeInvariance, PTL DEF RacedSpec
<1> QED BY <1>2 DEF HandlersFollowTaskLife, Lives
=============================================================================
