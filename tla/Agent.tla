-------------------------------- MODULE Agent --------------------------------
(***************************************************************************)
(* One server-side Agent object (core/Agent.cpp) at the level of its lock: *)
(* a list of owning pointers to heap-allocated Task objects, a recursive   *)
(* mutex, and the HTTP threads inside its methods.  A method takes one     *)
(* step to lock and search the list and another to use the iterator it     *)
(* found, so the model shows what the lock is for.                         *)
(*                                                                         *)
(* A confirmation, a row to load or a new configuration is chosen at the   *)
(* step that consumes it: the search before it never looks at it.          *)
(***************************************************************************)
EXTENDS AgentTasks, Sequences, Integers

LOCAL INSTANCE SequencesExt

CONSTANTS Threads,      \* HTTP server threads
          NoThread,     \* the mutex is free
          Addresses,    \* where Task objects may be allocated
          NoAddress,    \* cend() of the list, and the null pointer
          Free          \* an address that holds no Task object

ASSUME NoThreadAssumption == NoThread \notin Threads
ASSUME NoAddressAssumption == NoAddress \notin Addresses
ASSUME FreeAssumption == Free \notin Tasks

VARIABLES tasks,        \* _tasks: addresses in list order
          heap,         \* the Task object at each address, or Free
          mutex,        \* the thread inside _mutex, or NoThread
          calls,        \* what each thread is doing in this object
          published,    \* addAgent has made the object reachable
          before,       \* the board the current status call has found (history)
          settled,      \* ids it has confirmed an Add or a Change for (history)
          cancelled     \* ids it has confirmed a Cancel for (history)

request == <<before, settled, cancelled>>
vars == <<tasks, heap, mutex, calls, published, request>>

\* The ids the current status call has confirmed.
confirmed == settled \cup cancelled

\* The points of a method at which another thread may run.
Points == {"idle", "init", "assign", "edit", "cancel", "status", "apply", "held"}

\* id is the argument of the call, at the iterator or pointer it found.
Calls == [pc : Points, id : TaskIds \cup {NoTask}, at : Addresses \cup {NoAddress}]

Outside == [pc |-> "idle", id |-> NoTask, at |-> NoAddress]
InStatus == [Outside EXCEPT !.pc = "status"]

-----------------------------------------------------------------------------
(* The list *)

Matches(id) == {i \in DOMAIN tasks : heap[tasks[i]].id = id}

\* std::find_if over the list, from its front.
FindIf(id) ==
    IF Matches(id) = {} THEN NoAddress
    ELSE tasks[CHOOSE i \in Matches(id) : \A j \in Matches(id) : i <= j]

\* push_back(make_unique<Task>(row))
PushBack(a, id, config) ==
    /\ heap[a] = Free
    /\ heap' = [heap EXCEPT ![a] = NewTask(id, config)]
    /\ tasks' = Append(tasks, a)

\* erase(iterator): the list owns the object, which is deleted with it.
Erase(a) ==
    /\ \E i \in DOMAIN tasks : tasks[i] = a /\ tasks' = RemoveAt(tasks, i)
    /\ heap' = [heap EXCEPT ![a] = Free]

\* The board the list and the heap stand for.
Board == [id \in TaskIds |->
            IF FindIf(id) = NoAddress THEN NoTask ELSE heap[FindIf(id)]]

PrepareCommandsList == UNION {ConstructCommand(heap[tasks[i]]) : i \in DOMAIN tasks}

-----------------------------------------------------------------------------
(* The lock: recursive, held from entry to return. *)

CanLock(th) == mutex \in {NoThread, th}

\* A thread enters a method of the shared object.
Enter(th, call) ==
    /\ published
    /\ calls[th] = Outside
    /\ CanLock(th)
    /\ mutex' = th
    /\ calls' = [calls EXCEPT ![th] = call]

\* The method returns or throws: the lock_guard releases.
Return(th) ==
    /\ mutex' = NoThread
    /\ calls' = [calls EXCEPT ![th] = Outside]

\* The argument and the iterator a method works with once it has searched.
Searched(pc, id) == [pc |-> pc, id |-> id, at |-> FindIf(id)]

-----------------------------------------------------------------------------
Init ==
    /\ tasks = <<>>
    /\ heap = [a \in Addresses |-> Free]
    /\ mutex = NoThread
    /\ calls = [th \in Threads |-> Outside]
    /\ published = FALSE
    /\ before = EmptyBoard
    /\ settled = {}
    /\ cancelled = {}

\* registerAgent has constructed the object and calls init on it.
InitBegin(th) ==
    /\ ~published
    /\ calls[th] = Outside
    /\ mutex = NoThread
    /\ mutex' = th
    /\ calls' = [calls EXCEPT ![th].pc = "init"]
    /\ UNCHANGED <<tasks, heap, request, published>>

\* assignTask of one row, which locks again; rows have distinct primary keys.
InitTask(th, id, config, a) ==
    /\ calls[th].pc = "init"
    /\ CanLock(th)
    /\ FindIf(id) = NoAddress
    /\ PushBack(a, id, config)
    /\ UNCHANGED <<mutex, calls, request, published>>

InitEnd(th) ==
    /\ calls[th].pc = "init"
    /\ Return(th)
    /\ published' = TRUE
    /\ UNCHANGED <<tasks, heap, request>>

\* Fault: reset clears the list without taking the lock.
UnlockedReset(th) ==
    /\ published
    /\ calls[th] = Outside
    /\ tasks' = <<>>
    /\ heap' = [a \in Addresses |-> Free]
    /\ UNCHANGED <<mutex, calls, request, published>>

Reset(th) ==
    /\ published
    /\ calls[th] = Outside
    /\ CanLock(th)
    /\ tasks' = <<>>
    /\ heap' = [a \in Addresses |-> Free]
    /\ UNCHANGED <<mutex, calls, request, published>>

\* Fault: assignTask searches without the lock.
UnlockedAssignSearch(th, id) ==
    /\ \/ /\ published
          /\ calls[th] = Outside
          /\ calls' = [calls EXCEPT ![th] = Searched("assign", id)]
          /\ UNCHANGED mutex
       \/ \E pc \in {"edit", "cancel"} : Enter(th, Searched(pc, id))
    /\ UNCHANGED <<tasks, heap, request, published>>

\* assignTask, editTask and cancelTask lock and search.
Search(th, id) ==
    /\ \E pc \in {"assign", "edit", "cancel"} : Enter(th, Searched(pc, id))
    /\ UNCHANGED <<tasks, heap, request, published>>

AssignTask(th, config, a) ==
    /\ calls[th].pc = "assign"
    /\ calls[th].at = NoAddress
    /\ PushBack(a, calls[th].id, config)
    /\ Return(th)
    /\ UNCHANGED <<request, published>>

\* "already exist"
AssignRefused(th) ==
    /\ calls[th].pc = "assign"
    /\ calls[th].at # NoAddress
    /\ Return(th)
    /\ UNCHANGED <<tasks, heap, request, published>>

\* Fault: acceptChanges and acceptCancel do not look at the state.
AcceptsBusy(th) == calls[th].at # NoAddress

\* The iterator points at a task that is not busy.
Accepts(th) == calls[th].at # NoAddress /\ ~IsBusy(heap[calls[th].at])

EditTask(th, config) ==
    /\ calls[th].pc = "edit"
    /\ Accepts(th)
    /\ heap' = [heap EXCEPT ![calls[th].at] = AcceptChanges(@, config)]
    /\ Return(th)
    /\ UNCHANGED <<tasks, request, published>>

CancelTask(th) ==
    /\ calls[th].pc = "cancel"
    /\ Accepts(th)
    /\ heap' = [heap EXCEPT ![calls[th].at] = AcceptCancel(@)]
    /\ Return(th)
    /\ UNCHANGED <<tasks, request, published>>

\* "not found" (false for cancelTask), or "Task is busy"
ChangeRefused(th) ==
    /\ calls[th].pc \in {"edit", "cancel"}
    /\ ~Accepts(th)
    /\ Return(th)
    /\ UNCHANGED <<tasks, heap, request, published>>

-----------------------------------------------------------------------------
(* prepareStatusResponse: one search and one step per confirmation. *)

StatusBegin(th) ==
    /\ Enter(th, InStatus)
    /\ before' = Board
    /\ UNCHANGED <<tasks, heap, published, settled, cancelled>>

ConfirmationFind(th, id) ==
    /\ calls[th].pc = "status"
    /\ calls' = [calls EXCEPT ![th] = Searched("apply", id)]
    /\ UNCHANGED <<tasks, heap, mutex, request, published>>

\* Fault: the lock is taken for each confirmation and not for the whole call.
UnlockedConfirmationDone(th) ==
    /\ calls' = [calls EXCEPT ![th] = InStatus]
    /\ mutex' = NoThread
    /\ UNCHANGED <<published, before>>

\* The loop goes on to the next confirmation.
ConfirmationDone(th) ==
    /\ calls' = [calls EXCEPT ![th] = InStatus]
    /\ UNCHANGED <<mutex, published, before>>

Settle(th) == settled' = settled \cup {calls[th].id} /\ UNCHANGED cancelled

\* A confirmation of any type is skipped; noted as settled, it stands for both.
ConfirmationMissing(th) ==
    /\ calls[th].pc = "apply"
    /\ calls[th].at = NoAddress
    /\ ConfirmationDone(th)
    /\ Settle(th)
    /\ UNCHANGED <<tasks, heap>>

\* A confirmation of type Cancel erases the task, whatever its state.
ConfirmationCancel(th) ==
    /\ calls[th].pc = "apply"
    /\ calls[th].at # NoAddress
    /\ Erase(calls[th].at)
    /\ ConfirmationDone(th)
    /\ cancelled' = cancelled \cup {calls[th].id}
    /\ UNCHANGED settled

\* Any other type settles the task, whatever command was outstanding.
ConfirmationAccept(th) ==
    /\ calls[th].pc = "apply"
    /\ calls[th].at # NoAddress
    /\ heap' = [heap EXCEPT ![calls[th].at] = AcceptConfirmation(@)]
    /\ ConfirmationDone(th)
    /\ Settle(th)
    /\ UNCHANGED tasks

\* The response is built from PrepareCommandsList and the lock released.
StatusEnd(th) ==
    /\ calls[th].pc = "status"
    /\ Return(th)
    /\ before' = EmptyBoard
    /\ settled' = {}
    /\ cancelled' = {}
    /\ UNCHANGED <<tasks, heap, published>>

-----------------------------------------------------------------------------
(* getTask hands the raw pointer out and releases the lock. *)

GetTask(th, id) ==
    /\ published
    /\ calls[th] = Outside
    /\ CanLock(th)
    /\ FindIf(id) # NoAddress
    /\ calls' = [calls EXCEPT ![th] = Searched("held", id)]
    /\ UNCHANGED <<tasks, heap, mutex, request, published>>

\* WorkflowManager::getTasks calls getStatus through the pointer, unlocked.
ReadStatus(th) ==
    /\ calls[th].pc = "held"
    /\ calls' = [calls EXCEPT ![th] = Outside]
    /\ UNCHANGED <<tasks, heap, mutex, request, published>>

-----------------------------------------------------------------------------
InitStep(th) ==
    \/ InitBegin(th)
    \/ \E id \in TaskIds, config \in Configs, a \in Addresses : InitTask(th, id, config, a)
    \/ InitEnd(th)

OperatorStep(th) ==
    \/ \E id \in TaskIds : Search(th, id)
    \/ \E config \in Configs, a \in Addresses : AssignTask(th, config, a)
    \/ AssignRefused(th)
    \/ \E config \in Configs : EditTask(th, config)
    \/ CancelTask(th)
    \/ ChangeRefused(th)
    \/ \E id \in TaskIds : GetTask(th, id)
    \/ ReadStatus(th)

AgentStep(th) ==
    \/ Reset(th)
    \/ StatusBegin(th)
    \/ \E id \in TaskIds : ConfirmationFind(th, id)
    \/ ConfirmationMissing(th)
    \/ ConfirmationCancel(th)
    \/ ConfirmationAccept(th)
    \/ StatusEnd(th)

Next == \E th \in Threads : InitStep(th) \/ OperatorStep(th) \/ AgentStep(th)

Spec == Init /\ [][Next]_vars

-----------------------------------------------------------------------------
(* Properties *)

TypeOK ==
    /\ tasks \in Seq(Addresses)
    /\ heap \in [Addresses -> Tasks \cup {Free}]
    /\ mutex \in Threads \cup {NoThread}
    /\ calls \in [Threads -> Calls]
    /\ published \in BOOLEAN
    /\ before \in Boards
    /\ settled \in SUBSET TaskIds
    /\ cancelled \in SUBSET TaskIds

\* The list owns exactly the allocated tasks, each once, and no two of them
\* have the same id: the search and the push_back of assignTask are atomic.
TaskListSound ==
    /\ \A a \in Addresses : heap[a] # Free <=> \E i \in DOMAIN tasks : tasks[i] = a
    /\ \A i, j \in DOMAIN tasks :
         heap[tasks[i]].id = heap[tasks[j]].id => i = j

\* Between a search and its use, what the thread found is still what the
\* search would find, whatever the threads around it do.
IteratorsValid ==
    \A th \in Threads : calls[th].pc \in {"assign", "edit", "cancel", "apply"} =>
        calls[th].id \in TaskIds /\ calls[th].at = FindIf(calls[th].id)

\* The response never repeats a command for a task the same request confirmed,
\* whatever the other threads do to the list between two confirmations.
ResponseOmitsConfirmed ==
    \A th \in Threads : calls[th].pc \in {"status", "apply"} =>
        \A c \in PrepareCommandsList : c.taskId \notin confirmed

\* The response is made of the list the call has found and the confirmations of
\* its own request alone, one command for each task they leave unsettled: the
\* statement by which other modules take a status request for one step.
ResponseAnswersRequest ==
    \A th \in Threads : calls[th].pc = "status" =>
        PrepareCommandsList = CommandsOf(Confirmed(before, settled, cancelled))

\* The object behind the pointer getTask returned is the task that was asked
\* for when its status is read ("Get task by task id", Agent.h:48).
HeldTaskIsRequested ==
    \A th \in Threads : calls[th].pc = "held" =>
        heap[calls[th].at] # Free /\ heap[calls[th].at].id = calls[th].id

InStatusCall == \E th \in Threads : calls[th].pc \in {"status", "apply"}

\* The board the other threads may know of: the lock hides a status call until
\* it returns.
VisibleBoard == IF InStatusCall THEN before ELSE Board

Abstract == INSTANCE AgentSpec WITH board <- VisibleBoard

\* Every step of the methods is a step of the atomic board, or changes nothing:
\* a status call, with all its confirmations, is one step, taken when it returns.
ImplementsAgentSpec == Abstract!Spec
=============================================================================
