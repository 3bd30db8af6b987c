----------------------------- MODULE AgentProofs -----------------------------
(***************************************************************************)
(* Proofs about Agent: its type invariant, what its lock protects, and     *)
(* that it implements AgentSpec, for any number of threads, tasks and      *)
(* configurations.                                                         *)
(*                                                                         *)
(* Everything is argued on the heap: TaskListSound makes the list a mere   *)
(* enumeration of the allocated tasks, so that find_if is the unique       *)
(* allocated address with the id (lemma FindIfOnHeap).                     *)
(***************************************************************************)
EXTENDS Agent, SequenceTheorems, TLAPS

LOCAL INSTANCE SequencesExt

Locked(th) == calls[th].pc \notin {"idle", "held"}

\* Exactly the thread in the mutex is inside a method.
LockOwner == \A th \in Threads : Locked(th) <=> mutex = th

IndInv ==
    /\ TypeOK
    /\ TaskListSound
    /\ LockOwner
    /\ IteratorsValid

-----------------------------------------------------------------------------
(* The list as an enumeration of the heap *)

\* The address a holds the task with this id.
At(a, id) == heap[a] # Free /\ heap[a].id = id

LEMMA FindIfOnHeap ==
    ASSUME TypeOK, TaskListSound, NEW id \in TaskIds
    PROVE  /\ FindIf(id) \in Addresses \cup {NoAddress}
           /\ \A a \in Addresses : FindIf(id) = a <=> At(a, id)
<1>1. \A i \in DOMAIN tasks : tasks[i] \in Addresses /\ heap[tasks[i]] # Free
  BY DEF TypeOK, TaskListSound
<1>2. CASE Matches(id) = {}
  <2>1. FindIf(id) = NoAddress
    BY <1>2 DEF FindIf
  <2>2. \A a \in Addresses : ~At(a, id)
    BY <1>2 DEF Matches, TaskListSound, At
  <2> QED BY <2>1, <2>2, NoAddressAssumption
<1>3. CASE Matches(id) # {}
  <2>1. PICK k \in Matches(id) : TRUE
    BY <1>3
  <2>2. \A i \in Matches(id) : i = k
    BY <2>1 DEF Matches, TaskListSound
  <2>3. k \in Int
    BY <2>1 DEF Matches, TypeOK
  <2> DEFINE first == CHOOSE i \in Matches(id) : \A j \in Matches(id) : i <= j
  <2>4. \E i \in Matches(id) : \A j \in Matches(id) : i <= j
    BY <2>1, <2>2, <2>3
  <2>5. first \in Matches(id)
    BY <2>4
  <2> HIDE DEF first
  <2>6. FindIf(id) = tasks[k]
    BY <2>2, <2>5, <1>3 DEF FindIf, first
  <2>7. tasks[k] \in Addresses /\ At(tasks[k], id)
    BY <2>1, <1>1 DEF Matches, At
  <2>8. \A a \in Addresses : At(a, id) => a = tasks[k]
    BY <2>2 DEF At, TaskListSound, Matches
  <2> QED BY <2>6, <2>7, <2>8
<1> QED BY <1>2, <1>3

LEMMA RemoveAtProperties ==
    ASSUME NEW S, NEW s \in Seq(S), NEW p \in 1 .. Len(s)
    PROVE  /\ RemoveAt(s, p) \in Seq(S)
           /\ Len(RemoveAt(s, p)) = Len(s) - 1
           /\ \A i \in 1 .. Len(s) - 1 :
                RemoveAt(s, p)[i] = IF i < p THEN s[i] ELSE s[i + 1]
<1> DEFINE front == SubSeq(s, 1, p - 1)
           back  == SubSeq(s, p + 1, Len(s))
<1>1. front \in Seq(S) /\ Len(front) = p - 1 /\ \A i \in 1 .. p - 1 : front[i] = s[i]
  BY SMT
<1>2. back \in Seq(S) /\ Len(back) = Len(s) - p
      /\ \A i \in 1 .. Len(s) - p : back[i] = s[p + i]
  BY SMT
<1>3. RemoveAt(s, p) = front \o back
  BY DEF RemoveAt
<1> HIDE DEF front, back
<1>4. /\ front \o back \in Seq(S)
      /\ Len(front \o back) = Len(front) + Len(back)
      /\ \A i \in 1 .. Len(front) + Len(back) :
           (front \o back)[i] = IF i <= Len(front) THEN front[i] ELSE back[i - Len(front)]
  BY <1>1, <1>2, ConcatProperties
<1>5. Len(s) \in Nat /\ Len(front) + Len(back) = Len(s) - 1
  BY <1>1, <1>2
<1>6. ASSUME NEW i \in 1 .. Len(s) - 1
      PROVE  (front \o back)[i] = IF i < p THEN s[i] ELSE s[i + 1]
  <2>1. CASE i < p
    BY <2>1, <1>1, <1>4, <1>5
  <2>2. CASE i >= p
    <3>1. i - (p - 1) \in 1 .. Len(s) - p /\ p + (i - (p - 1)) = i + 1
      BY <2>2, <1>5
    <3>2. back[i - (p - 1)] = s[i + 1]
      BY <3>1, <1>2
    <3>3. (front \o back)[i] = back[i - (p - 1)]
      BY <2>2, <1>1, <1>4, <1>5
    <3> QED BY <3>2, <3>3, <2>2, <1>5
  <2> QED BY <2>1, <2>2, <1>5
<1> QED BY <1>3, <1>4, <1>5, <1>6

-----------------------------------------------------------------------------
(* How the three ways of changing the list keep it sound *)

LEMMA PushBackSound ==
    ASSUME TypeOK, TaskListSound,
           NEW a \in Addresses, NEW id \in TaskIds, NEW config \in Configs,
           FindIf(id) = NoAddress, PushBack(a, id, config)
    PROVE  /\ tasks' \in Seq(Addresses)
           /\ heap' \in [Addresses -> Tasks \cup {Free}]
           /\ TaskListSound'
<1> DEFINE n == Len(tasks) + 1
<1>1. NewTask(id, config) \in Tasks /\ NewTask(id, config).id = id
  BY DEF NewTask, Tasks, TaskState
<1>2. heap' \in [Addresses -> Tasks \cup {Free}] /\ heap'[a] = NewTask(id, config)
      /\ \A b \in Addresses \ {a} : heap'[b] = heap[b]
  BY <1>1 DEF PushBack, TypeOK
<1>3. tasks' \in Seq(Addresses) /\ DOMAIN tasks' = DOMAIN tasks \cup {n} /\ tasks'[n] = a
      /\ \A i \in DOMAIN tasks : tasks'[i] = tasks[i] /\ i # n
  BY DEF PushBack, TypeOK
<1>4. \A i \in DOMAIN tasks : tasks[i] \in Addresses /\ tasks[i] # a /\ heap[tasks[i]].id # id
  <2>1. \A b \in Addresses : ~At(b, id)
    BY FindIfOnHeap, NoAddressAssumption
  <2>2. \A i \in DOMAIN tasks : tasks[i] \in Addresses /\ heap[tasks[i]] # Free
    BY DEF TypeOK, TaskListSound
  <2> QED BY <2>1, <2>2 DEF At, PushBack
<1>5. NewTask(id, config) # Free
  BY <1>1, FreeAssumption
<1>6. \A b \in Addresses : heap'[b] # Free <=> \E i \in DOMAIN tasks' : tasks'[i] = b
  <2> TAKE b \in Addresses
  <2>1. CASE b = a
    BY <2>1, <1>2, <1>3, <1>5
  <2>2. CASE b # a
    BY <2>2, <1>2, <1>3 DEF TaskListSound
  <2> QED BY <2>1, <2>2
<1>7. \A i, j \in DOMAIN tasks' : heap'[tasks'[i]].id = heap'[tasks'[j]].id => i = j
  BY <1>1, <1>2, <1>3, <1>4 DEF TaskListSound
<1> QED BY <1>2, <1>3, <1>6, <1>7 DEF TaskListSound

LEMMA EraseSound ==
    ASSUME TypeOK, TaskListSound, NEW a \in Addresses, Erase(a)
    PROVE  /\ tasks' \in Seq(Addresses)
           /\ heap' \in [Addresses -> Tasks \cup {Free}]
           /\ TaskListSound'
<1>1. PICK p \in DOMAIN tasks : tasks[p] = a /\ tasks' = RemoveAt(tasks, p)
  BY DEF Erase
<1> DEFINE shift(i) == IF i < p THEN i ELSE i + 1
<1>2. p \in 1 .. Len(tasks) /\ Len(tasks) \in Nat
  BY DEF TypeOK
<1>3. /\ tasks' \in Seq(Addresses)
      /\ DOMAIN tasks' = 1 .. Len(tasks) - 1
      /\ \A i \in DOMAIN tasks' : tasks'[i] = tasks[shift(i)]
  <2>1. /\ RemoveAt(tasks, p) \in Seq(Addresses)
        /\ Len(RemoveAt(tasks, p)) = Len(tasks) - 1
        /\ \A i \in 1 .. Len(tasks) - 1 :
             RemoveAt(tasks, p)[i] = IF i < p THEN tasks[i] ELSE tasks[i + 1]
    BY <1>2, RemoveAtProperties DEF TypeOK
  <2> QED BY <2>1, <1>1, <1>2
<1>4. heap' \in [Addresses -> Tasks \cup {Free}] /\ heap'[a] = Free
      /\ \A b \in Addresses \ {a} : heap'[b] = heap[b]
  BY DEF Erase, TypeOK
<1>5. \A i, j \in DOMAIN tasks : tasks[i] = tasks[j] => i = j
  BY DEF TaskListSound
<1>6. \A i \in DOMAIN tasks' : shift(i) \in DOMAIN tasks \ {p}
  BY <1>2, <1>3 DEF TypeOK
<1>7. \A i \in DOMAIN tasks' : tasks'[i] \in Addresses \ {a}
  BY <1>1, <1>3, <1>5, <1>6 DEF TypeOK
<1>8. \A k \in DOMAIN tasks \ {p} : \E i \in DOMAIN tasks' : shift(i) = k
  <2> TAKE k \in DOMAIN tasks \ {p}
  <2>1. k \in 1 .. Len(tasks)
    BY DEF TypeOK
  <2>2. CASE k < p
    BY <2>1, <2>2, <1>2, <1>3
  <2>3. CASE k > p
    <3>1. k - 1 \in DOMAIN tasks' /\ shift(k - 1) = k
      BY <2>1, <2>3, <1>2, <1>3
    <3> QED BY <3>1
  <2> QED BY <2>1, <2>2, <2>3, <1>2
<1> HIDE DEF shift
<1>9. \A b \in Addresses : heap'[b] # Free <=> \E i \in DOMAIN tasks' : tasks'[i] = b
  <2> TAKE b \in Addresses
  <2>1. CASE b = a
    BY <2>1, <1>4, <1>7
  <2>2. CASE b # a
    BY <2>2, <1>1, <1>3, <1>4, <1>6, <1>8 DEF TaskListSound
  <2> QED BY <2>1, <2>2
<1>10. \A i, j \in DOMAIN tasks' : heap'[tasks'[i]].id = heap'[tasks'[j]].id => i = j
  <2> SUFFICES ASSUME NEW i \in DOMAIN tasks', NEW j \in DOMAIN tasks',
                      heap'[tasks'[i]].id = heap'[tasks'[j]].id
               PROVE  i = j
    OBVIOUS
  <2>1. shift(i) = shift(j)
    BY <1>3, <1>4, <1>6, <1>7 DEF TaskListSound
  <2> QED BY <2>1, <1>2, <1>3 DEF shift
<1> QED BY <1>3, <1>4, <1>9, <1>10 DEF TaskListSound

LEMMA RewriteSound ==
    ASSUME TypeOK, TaskListSound,
           NEW a \in Addresses, heap[a] # Free,
           NEW t \in Tasks, t.id = heap[a].id,
           tasks' = tasks, heap' = [heap EXCEPT ![a] = t]
    PROVE  /\ tasks' \in Seq(Addresses)
           /\ heap' \in [Addresses -> Tasks \cup {Free}]
           /\ TaskListSound'
           /\ \A id \in TaskIds, b \in Addresses : At(b, id)' <=> At(b, id)
<1>1. tasks' \in Seq(Addresses) /\ heap' \in [Addresses -> Tasks \cup {Free}]
      /\ \A i \in DOMAIN tasks : tasks[i] \in Addresses
  BY DEF TypeOK
<1>2. \A b \in Addresses : (heap'[b] # Free <=> heap[b] # Free) /\ heap'[b].id = heap[b].id
  BY FreeAssumption DEF TypeOK
<1>3. \A b \in Addresses : heap'[b] # Free <=> \E i \in DOMAIN tasks' : tasks'[i] = b
  BY <1>2 DEF TaskListSound
<1>4. \A i, j \in DOMAIN tasks' : heap'[tasks'[i]].id = heap'[tasks'[j]].id => i = j
  BY <1>1, <1>2 DEF TaskListSound
<1> QED BY <1>1, <1>2, <1>3, <1>4 DEF TaskListSound, At

LEMMA BoardType ==
    ASSUME TypeOK, TaskListSound
    PROVE  Board \in Boards
<1> SUFFICES ASSUME NEW id \in TaskIds
             PROVE  (IF FindIf(id) = NoAddress THEN NoTask ELSE heap[FindIf(id)])
                      \in Tasks \cup {NoTask}
  BY DEF Board, Boards
<1>1. /\ FindIf(id) \in Addresses \cup {NoAddress}
      /\ \A a \in Addresses : FindIf(id) = a => heap[a] # Free
  BY FindIfOnHeap DEF At
<1> QED BY <1>1 DEF TypeOK

-----------------------------------------------------------------------------
(* Only the thread in the mutex matters to the invariant *)

LEMMA CallTypes ==
    /\ Outside \in Calls /\ Outside.pc = "idle"
    /\ InStatus \in Calls /\ InStatus.pc = "status"
BY DEF Outside, InStatus, Calls, Points

LEMMA SearchedType ==
    ASSUME TypeOK, TaskListSound, NEW id \in TaskIds, NEW pc \in Points
    PROVE  /\ Searched(pc, id) \in Calls
           /\ Searched(pc, id).pc = pc
           /\ Searched(pc, id).id = id
           /\ Searched(pc, id).at = FindIf(id)
BY FindIfOnHeap DEF Searched, Calls

LEMMA CallerOnly ==
    ASSUME TypeOK, LockOwner, NEW th \in Threads, CanLock(th), NEW c \in Calls,
           calls' = [calls EXCEPT ![th] = c],
           mutex' = IF c.pc \in {"idle", "held"} THEN NoThread ELSE th
    PROVE  /\ mutex' \in Threads \cup {NoThread}
           /\ calls' \in [Threads -> Calls]
           /\ calls'[th] = c
           /\ \A u \in Threads \ {th} : calls'[u].pc \in {"idle", "held"}
           /\ LockOwner'
<1>1. calls' \in [Threads -> Calls] /\ calls'[th] = c
      /\ \A u \in Threads \ {th} : calls'[u] = calls[u]
  BY DEF TypeOK
<1>2. \A u \in Threads \ {th} : calls[u].pc \in {"idle", "held"}
  BY NoThreadAssumption DEF LockOwner, Locked, CanLock
<1>3. LockOwner'
  BY <1>1, <1>2, NoThreadAssumption DEF LockOwner, Locked
<1> QED BY <1>1, <1>2, <1>3

\* A step that leaves its caller outside or between two confirmations.
LEMMA NoIterator ==
    ASSUME NEW th \in Threads,
           calls'[th].pc \notin {"assign", "edit", "cancel", "apply"},
           \A u \in Threads \ {th} : calls'[u].pc \in {"idle", "held"}
    PROVE  IteratorsValid'
BY DEF IteratorsValid

\* A step that ends the caller's call with the list sound is safe.
LEMMA ReturnSafe ==
    ASSUME IndInv, NEW th \in Threads, Return(th), CanLock(th),
           tasks' \in Seq(Addresses),
           heap' \in [Addresses -> Tasks \cup {Free}],
           published' \in BOOLEAN,
           before' \in Boards,
           settled' \in SUBSET TaskIds,
           cancelled' \in SUBSET TaskIds,
           TaskListSound'
    PROVE  IndInv'
<1>1. /\ mutex' \in Threads \cup {NoThread}
      /\ calls' \in [Threads -> Calls]
      /\ calls'[th] = Outside
      /\ \A u \in Threads \ {th} : calls'[u].pc \in {"idle", "held"}
      /\ LockOwner'
  BY CallerOnly, CallTypes DEF IndInv, Return
<1>2. TypeOK'
  BY <1>1 DEF TypeOK
<1>3. IteratorsValid'
  BY <1>1, NoIterator, CallTypes
<1> QED BY <1>1, <1>2, <1>3 DEF IndInv

\* A thread inside a method is the one in the mutex.
LEMMA InsideLocks ==
    ASSUME LockOwner, NEW th \in Threads, Locked(th)
    PROVE  CanLock(th)
BY DEF LockOwner, CanLock

\* A thread that finds the mutex free or its own, outside: it is free.
LEMMA EntersFree ==
    ASSUME LockOwner, NEW th \in Threads, calls[th] = Outside, CanLock(th)
    PROVE  mutex = NoThread
BY CallTypes DEF LockOwner, CanLock, Locked

-----------------------------------------------------------------------------
(* The inductive invariant *)

LEMMA InitInv == Init => IndInv
<1> SUFFICES ASSUME Init PROVE IndInv
  OBVIOUS
<1>1. TypeOK
  <2>1. tasks \in Seq(Addresses)
    BY EmptySeq DEF Init
  <2>2. heap \in [Addresses -> Tasks \cup {Free}] /\ calls \in [Threads -> Calls]
    BY CallTypes DEF Init
  <2> QED BY <2>1, <2>2 DEF Init, TypeOK, Boards, EmptyBoard
<1>2. TaskListSound
  BY DEF Init, TaskListSound
<1>3. LockOwner /\ IteratorsValid
  BY CallTypes, NoThreadAssumption DEF Init, LockOwner, Locked, IteratorsValid
<1> QED BY <1>1, <1>2, <1>3 DEF IndInv

\* The list, the heap and the rest of the state a step does not touch.
LEMMA SameList ==
    ASSUME TaskListSound, UNCHANGED <<tasks, heap>>
    PROVE  TaskListSound' /\ \A id \in TaskIds : FindIf(id)' = FindIf(id)
BY DEF TaskListSound, FindIf, Matches

LEMMA InitStepInv ==
    ASSUME IndInv, NEW th \in Threads, InitStep(th)
    PROVE  IndInv'
<1> USE DEF IndInv
<1>1. CASE InitBegin(th)
  <2> DEFINE c == [Outside EXCEPT !.pc = "init"]
  <2>1. c \in Calls /\ c.pc = "init"
    BY DEF Outside, Calls, Points
  <2>2. calls' = [calls EXCEPT ![th] = c]
    BY <1>1 DEF InitBegin, TypeOK, request
  <2> HIDE DEF c
  <2>3. /\ mutex' \in Threads \cup {NoThread} /\ calls' \in [Threads -> Calls]
        /\ calls'[th] = c /\ LockOwner'
        /\ \A u \in Threads \ {th} : calls'[u].pc \in {"idle", "held"}
    BY <1>1, <2>1, <2>2, CallerOnly DEF InitBegin, CanLock
  <2>4. TypeOK' /\ TaskListSound'
    BY <1>1, <2>3, SameList DEF InitBegin, TypeOK, request
  <2>5. IteratorsValid'
    BY <2>1, <2>3, NoIterator
  <2> QED BY <2>3, <2>4, <2>5
<1>2. ASSUME NEW id \in TaskIds, NEW config \in Configs, NEW a \in Addresses,
             InitTask(th, id, config, a)
      PROVE  IndInv'
  <2>1. TypeOK' /\ TaskListSound'
    BY <1>2, PushBackSound DEF InitTask, TypeOK, request
  <2>2. LockOwner'
    BY <1>2 DEF InitTask, LockOwner, Locked
  <2>3. calls'[th].pc = "init" /\ \A u \in Threads \ {th} : calls'[u].pc \in {"idle", "held"}
    BY <1>2, NoThreadAssumption DEF InitTask, LockOwner, Locked, CanLock
  <2>4. IteratorsValid'
    BY <2>3, NoIterator
  <2> QED BY <2>1, <2>2, <2>4
<1>3. CASE InitEnd(th)
  <2>1. CanLock(th)
    BY <1>3, InsideLocks DEF InitEnd, Locked
  <2> QED BY <1>3, <2>1, SameList, ReturnSafe DEF InitEnd, TypeOK, request
<1> QED BY <1>1, <1>2, <1>3 DEF InitStep

\* The iterator of a thread inside a method points at the task it wants.
LEMMA FoundTask ==
    ASSUME IndInv, NEW th \in Threads,
           calls[th].pc \in {"assign", "edit", "cancel", "apply"},
           calls[th].at # NoAddress
    PROVE  /\ calls[th].at \in Addresses
           /\ heap[calls[th].at] \in Tasks
           /\ heap[calls[th].at] # Free
           /\ heap[calls[th].at].id = calls[th].id
<1>1. calls[th].id \in TaskIds /\ calls[th].at = FindIf(calls[th].id)
  BY DEF IndInv, IteratorsValid
<1>2. calls[th].at \in Addresses /\ At(calls[th].at, calls[th].id)
  BY <1>1, FindIfOnHeap DEF IndInv
<1> QED BY <1>2 DEF At, IndInv, TypeOK

\* Changing the found task in place, keeping its id, and returning.
LEMMA ChangeSafe ==
    ASSUME IndInv, NEW th \in Threads, calls[th].pc \in {"edit", "cancel"},
           calls[th].at # NoAddress,
           NEW t \in Tasks, t.id = heap[calls[th].at].id,
           heap' = [heap EXCEPT ![calls[th].at] = t],
           Return(th), UNCHANGED <<tasks, request, published>>
    PROVE  IndInv'
<1>1. CanLock(th)
  BY InsideLocks DEF IndInv, Locked
<1>2. tasks' \in Seq(Addresses) /\ heap' \in [Addresses -> Tasks \cup {Free}] /\ TaskListSound'
  <2>1. calls[th].at \in Addresses /\ heap[calls[th].at] # Free
    BY FoundTask
  <2> QED BY <2>1, RewriteSound DEF IndInv
<1> QED BY <1>1, <1>2, ReturnSafe DEF IndInv, TypeOK, request

LEMMA OperatorStepInv ==
    ASSUME IndInv, NEW th \in Threads, OperatorStep(th)
    PROVE  IndInv'
<1> USE DEF IndInv
<1> DEFINE call == calls[th]
<1>0. call \in Calls
  BY DEF TypeOK
<1>1. ASSUME NEW id \in TaskIds, Search(th, id)
      PROVE  IndInv'
  <2>1. PICK pc \in {"assign", "edit", "cancel"} : Enter(th, Searched(pc, id))
    BY <1>1 DEF Search
  <2> DEFINE c == Searched(pc, id)
  <2>2. c \in Calls /\ c.pc = pc /\ c.id = id /\ c.at = FindIf(id)
    BY SearchedType DEF Points
  <2> HIDE DEF c
  <2>3. /\ mutex' \in Threads \cup {NoThread} /\ calls' \in [Threads -> Calls]
        /\ calls'[th] = c /\ LockOwner'
        /\ \A u \in Threads \ {th} : calls'[u].pc \in {"idle", "held"}
    BY <2>1, <2>2, CallerOnly DEF Enter, c
  <2>4. TypeOK' /\ TaskListSound' /\ FindIf(id)' = FindIf(id)
    BY <1>1, <2>3, SameList DEF Search, TypeOK, request
  <2>5. IteratorsValid'
    BY <2>2, <2>3, <2>4 DEF IteratorsValid
  <2> QED BY <2>3, <2>4, <2>5
<1>2. ASSUME NEW config \in Configs, NEW a \in Addresses, AssignTask(th, config, a)
      PROVE  IndInv'
  <2>1. CanLock(th)
    BY <1>2, InsideLocks DEF AssignTask, Locked
  <2>2. call.id \in TaskIds /\ FindIf(call.id) = NoAddress
    BY <1>2 DEF AssignTask, IteratorsValid
  <2>3. tasks' \in Seq(Addresses) /\ heap' \in [Addresses -> Tasks \cup {Free}] /\ TaskListSound'
    BY <1>2, <2>2, PushBackSound DEF AssignTask
  <2> QED BY <1>2, <2>1, <2>3, ReturnSafe DEF AssignTask, TypeOK, request
<1>3. CASE AssignRefused(th)
  BY <1>3, InsideLocks, SameList, ReturnSafe DEF AssignRefused, Locked, TypeOK, request
<1>4. ASSUME NEW config \in Configs, EditTask(th, config)
      PROVE  IndInv'
  <2> DEFINE t == AcceptChanges(heap[call.at], config)
  <2>1. call.at \in Addresses /\ heap[call.at] \in Tasks
    BY <1>4, FoundTask DEF EditTask, Accepts
  <2>2. t \in Tasks /\ t.id = heap[call.at].id
    BY <2>1 DEF AcceptChanges, Tasks, TaskState
  <2>3. heap' = [heap EXCEPT ![call.at] = t]
    BY <1>4, <2>1 DEF EditTask, TypeOK
  <2> HIDE DEF t
  <2> QED BY <1>4, <2>2, <2>3, ChangeSafe DEF EditTask, Accepts
<1>5. CASE CancelTask(th)
  <2> DEFINE t == AcceptCancel(heap[call.at])
  <2>1. call.at \in Addresses /\ heap[call.at] \in Tasks
    BY <1>5, FoundTask DEF CancelTask, Accepts
  <2>2. t \in Tasks /\ t.id = heap[call.at].id
    BY <2>1 DEF AcceptCancel, Tasks, TaskState
  <2>3. heap' = [heap EXCEPT ![call.at] = t]
    BY <1>5, <2>1 DEF CancelTask, TypeOK
  <2> HIDE DEF t
  <2> QED BY <1>5, <2>2, <2>3, ChangeSafe DEF CancelTask, Accepts
<1>6. CASE ChangeRefused(th)
  BY <1>6, InsideLocks, SameList, ReturnSafe DEF ChangeRefused, Locked, TypeOK, request
<1>7. ASSUME NEW id \in TaskIds, GetTask(th, id)
      PROVE  IndInv'
  <2> DEFINE c == Searched("held", id)
  <2>1. c \in Calls /\ c.pc = "held"
    BY SearchedType DEF Points
  <2> HIDE DEF c
  <2>2. CanLock(th) /\ mutex = NoThread
    BY <1>7, EntersFree DEF GetTask
  <2>3. /\ mutex' \in Threads \cup {NoThread} /\ calls' \in [Threads -> Calls]
        /\ calls'[th] = c /\ LockOwner'
        /\ \A u \in Threads \ {th} : calls'[u].pc \in {"idle", "held"}
    BY <1>7, <2>1, <2>2, CallerOnly DEF GetTask, c
  <2>4. TypeOK' /\ TaskListSound'
    BY <1>7, <2>3, SameList DEF GetTask, TypeOK, request
  <2>5. IteratorsValid'
    BY <2>1, <2>3, NoIterator
  <2> QED BY <2>3, <2>4, <2>5
<1>8. CASE ReadStatus(th)
  <2>1. calls' \in [Threads -> Calls] /\ calls'[th] = Outside
        /\ \A u \in Threads \ {th} : calls'[u] = calls[u]
    BY <1>8, CallTypes DEF ReadStatus, TypeOK, request
  <2>2. TypeOK' /\ TaskListSound' /\ \A id \in TaskIds : FindIf(id)' = FindIf(id)
    BY <1>8, <2>1, SameList DEF ReadStatus, TypeOK, request
  <2>3. LockOwner'
    BY <1>8, <2>1, CallTypes DEF ReadStatus, LockOwner, Locked
  <2>4. IteratorsValid'
    BY <2>1, <2>2, CallTypes DEF IteratorsValid
  <2> QED BY <2>2, <2>3, <2>4
<1> QED BY <1>1, <1>2, <1>3, <1>4, <1>5, <1>6, <1>7, <1>8 DEF OperatorStep

\* The end of a confirmation that leaves the list sound.
LEMMA ConfirmationSafe ==
    ASSUME IndInv, NEW th \in Threads, calls[th].pc = "apply", ConfirmationDone(th),
           tasks' \in Seq(Addresses),
           heap' \in [Addresses -> Tasks \cup {Free}],
           settled' \in {settled, settled \cup {calls[th].id}},
           cancelled' \in {cancelled, cancelled \cup {calls[th].id}},
           TaskListSound'
    PROVE  IndInv'
<1>1. CanLock(th) /\ mutex = th
  BY InsideLocks DEF IndInv, LockOwner, Locked
<1>2. /\ mutex' \in Threads \cup {NoThread} /\ calls' \in [Threads -> Calls]
      /\ calls'[th] = InStatus /\ LockOwner'
      /\ \A u \in Threads \ {th} : calls'[u].pc \in {"idle", "held"}
  BY <1>1, CallerOnly, CallTypes DEF IndInv, ConfirmationDone
<1>3. settled' \in SUBSET TaskIds /\ cancelled' \in SUBSET TaskIds
  BY DEF IndInv, IteratorsValid, TypeOK
<1>4. published' \in BOOLEAN /\ before' \in Boards
  BY DEF IndInv, TypeOK, ConfirmationDone
<1>5. IteratorsValid'
  BY <1>2, NoIterator, CallTypes
<1> QED BY <1>2, <1>3, <1>4, <1>5 DEF IndInv, TypeOK

LEMMA AgentStepInv ==
    ASSUME IndInv, NEW th \in Threads, AgentStep(th)
    PROVE  IndInv'
<1> USE DEF IndInv
<1> DEFINE call == calls[th]
<1>1. CASE Reset(th)
  <2>1. mutex = NoThread
    BY <1>1, EntersFree DEF Reset
  <2>2. \A u \in Threads : calls'[u].pc \in {"idle", "held"}
    BY <1>1, <2>1, NoThreadAssumption DEF Reset, LockOwner, Locked
  <2>3. tasks' \in Seq(Addresses) /\ heap' \in [Addresses -> Tasks \cup {Free}]
    BY <1>1, EmptySeq DEF Reset
  <2>4. TaskListSound'
    BY <1>1 DEF Reset, TaskListSound
  <2>5. LockOwner' /\ TypeOK'
    BY <1>1, <2>3 DEF Reset, LockOwner, Locked, TypeOK, request
  <2>6. IteratorsValid'
    BY <2>2 DEF IteratorsValid
  <2> QED BY <2>4, <2>5, <2>6
<1>2. CASE StatusBegin(th)
  <2>1. /\ mutex' \in Threads \cup {NoThread} /\ calls' \in [Threads -> Calls]
        /\ calls'[th] = InStatus /\ LockOwner'
        /\ \A u \in Threads \ {th} : calls'[u].pc \in {"idle", "held"}
    BY <1>2, CallerOnly, CallTypes DEF StatusBegin, Enter
  <2>2. TypeOK' /\ TaskListSound'
    BY <1>2, <2>1, SameList, BoardType DEF StatusBegin, TypeOK
  <2>3. IteratorsValid'
    BY <2>1, NoIterator, CallTypes
  <2> QED BY <2>1, <2>2, <2>3
<1>3. ASSUME NEW id \in TaskIds, ConfirmationFind(th, id)
      PROVE  IndInv'
  <2> DEFINE c == Searched("apply", id)
  <2>1. c \in Calls /\ c.pc = "apply" /\ c.id = id /\ c.at = FindIf(id)
    BY SearchedType DEF Points
  <2> HIDE DEF c
  <2>2. CanLock(th) /\ mutex = th
    BY <1>3, InsideLocks DEF ConfirmationFind, LockOwner, Locked
  <2>3. /\ mutex' \in Threads \cup {NoThread} /\ calls' \in [Threads -> Calls]
        /\ calls'[th] = c /\ LockOwner'
        /\ \A u \in Threads \ {th} : calls'[u].pc \in {"idle", "held"}
    BY <1>3, <2>1, <2>2, CallerOnly DEF ConfirmationFind, c
  <2>4. TypeOK' /\ TaskListSound' /\ FindIf(id)' = FindIf(id)
    BY <1>3, <2>3, SameList DEF ConfirmationFind, TypeOK, request
  <2>5. IteratorsValid'
    BY <2>1, <2>3, <2>4 DEF IteratorsValid
  <2> QED BY <2>3, <2>4, <2>5
<1>4. CASE ConfirmationMissing(th)
  BY <1>4, SameList, ConfirmationSafe DEF ConfirmationMissing, Settle, TypeOK
<1>5. CASE ConfirmationCancel(th)
  <2>1. call.at \in Addresses
    BY <1>5, FoundTask DEF ConfirmationCancel
  <2>2. tasks' \in Seq(Addresses) /\ heap' \in [Addresses -> Tasks \cup {Free}] /\ TaskListSound'
    BY <1>5, <2>1, EraseSound DEF ConfirmationCancel
  <2> QED BY <1>5, <2>2, ConfirmationSafe DEF ConfirmationCancel
<1>6. CASE ConfirmationAccept(th)
  <2> DEFINE t == AcceptConfirmation(heap[call.at])
  <2>1. call.at \in Addresses /\ heap[call.at] \in Tasks /\ heap[call.at] # Free
    BY <1>6, FoundTask DEF ConfirmationAccept
  <2>2. t \in Tasks /\ t.id = heap[call.at].id
    BY <2>1 DEF AcceptConfirmation, Tasks, TaskState
  <2>3. heap' = [heap EXCEPT ![call.at] = t]
    BY <1>6, <2>1 DEF ConfirmationAccept, TypeOK
  <2> HIDE DEF t
  <2>4. tasks' \in Seq(Addresses) /\ heap' \in [Addresses -> Tasks \cup {Free}] /\ TaskListSound'
    BY <1>6, <2>1, <2>2, <2>3, RewriteSound DEF ConfirmationAccept
  <2> QED BY <1>6, <2>4, ConfirmationSafe DEF ConfirmationAccept, Settle
<1>7. CASE StatusEnd(th)
  <2>1. CanLock(th)
    BY <1>7, InsideLocks DEF StatusEnd, Locked
  <2>2. EmptyBoard \in Boards
    BY DEF EmptyBoard, Boards
  <2> QED BY <1>7, <2>1, <2>2, SameList, ReturnSafe DEF StatusEnd, TypeOK
<1> QED BY <1>1, <1>2, <1>3, <1>4, <1>5, <1>6, <1>7 DEF AgentStep

LEMMA NextInv == IndInv /\ [Next]_vars => IndInv'
<1> SUFFICES ASSUME IndInv, [Next]_vars PROVE IndInv'
  OBVIOUS
<1>1. CASE Next
  BY <1>1, InitStepInv, OperatorStepInv, AgentStepInv DEF Next
<1>2. CASE UNCHANGED vars
  <2>1. TypeOK' /\ TaskListSound' /\ \A id \in TaskIds : FindIf(id)' = FindIf(id)
    BY <1>2, SameList DEF vars, request, IndInv, TypeOK
  <2>2. LockOwner'
    BY <1>2 DEF vars, IndInv, LockOwner, Locked
  <2>3. IteratorsValid'
    BY <1>2, <2>1 DEF vars, IndInv, IteratorsValid
  <2> QED BY <2>1, <2>2, <2>3 DEF IndInv
<1> QED BY <1>1, <1>2

LEMMA Invariance == Spec => []IndInv
BY InitInv, NextInv, PTL DEF Spec

-----------------------------------------------------------------------------
(* Theorems *)

\* The variables keep their types: in particular the mutex is held by at most
\* one thread and every pointer is an address or null.
THEOREM TypeCorrect == Spec => []TypeOK
<1>1. IndInv => TypeOK
  BY DEF IndInv
<1> QED BY <1>1, Invariance, PTL

\* No interleaving of the HTTP threads makes the list lose, leak or repeat a
\* task (assignTask, prepareStatusResponse and reset of Agent.cpp).
THEOREM ListStaysSound == Spec => []TaskListSound
<1>1. IndInv => TaskListSound
  BY DEF IndInv
<1> QED BY <1>1, Invariance, PTL

\* The iterator find_if returned is still right when the method uses it.
THEOREM IteratorsStayValid == Spec => []IteratorsValid
<1>1. IndInv => IteratorsValid
  BY DEF IndInv
<1> QED BY <1>1, Invariance, PTL

-----------------------------------------------------------------------------
(* What each method does to the heap it does to the board. *)

BoardOnHeap ==
    \A id \in TaskIds :
        /\ \A a \in Addresses : At(a, id) => Board[id] = heap[a]
        /\ (\A a \in Addresses : ~At(a, id)) => Board[id] = NoTask

LEMMA BoardValue == IndInv => BoardOnHeap
<1> SUFFICES ASSUME IndInv, NEW id \in TaskIds
             PROVE  /\ \A a \in Addresses : At(a, id) => Board[id] = heap[a]
                    /\ (\A a \in Addresses : ~At(a, id)) => Board[id] = NoTask
  BY DEF BoardOnHeap
<1>1. Board[id] = IF FindIf(id) = NoAddress THEN NoTask ELSE heap[FindIf(id)]
  BY DEF Board
<1>2. /\ FindIf(id) \in Addresses \cup {NoAddress}
      /\ \A a \in Addresses : FindIf(id) = a <=> At(a, id)
  BY FindIfOnHeap DEF IndInv
<1> QED BY <1>1, <1>2, NoAddressAssumption

LEMMA BoardValueNext == IndInv' => BoardOnHeap'
BY BoardValue, PTL

\* An address holds at most one id, and an id sits at one address at most.
LEMMA AtUnique ==
    ASSUME IndInv, NEW id \in TaskIds, NEW a \in Addresses, NEW b \in Addresses,
           At(a, id), At(b, id)
    PROVE  a = b
BY FindIfOnHeap DEF IndInv

LEMMA SameBoard ==
    ASSUME UNCHANGED <<tasks, heap>>
    PROVE  Board' = Board
BY DEF Board, FindIf, Matches

\* Rewriting the task at an address rewrites its entry on the board.
LEMMA RewriteBoard ==
    ASSUME IndInv, IndInv', NEW id \in TaskIds, NEW a \in Addresses, At(a, id),
           NEW t \in Tasks, t.id = id, heap' = [heap EXCEPT ![a] = t]
    PROVE  Board' = [Board EXCEPT ![id] = t]
<1>1. heap'[a] = t /\ \A b \in Addresses \ {a} : heap'[b] = heap[b]
  BY DEF IndInv, TypeOK
<1>2. \A x \in TaskIds, b \in Addresses : At(b, x)' <=> At(b, x)
  BY <1>1, FreeAssumption DEF At
<1>3. BoardOnHeap /\ BoardOnHeap'
  BY BoardValue, BoardValueNext
<1>4. Board'[id] = t
  BY <1>1, <1>2, <1>3 DEF BoardOnHeap
<1>5. ASSUME NEW x \in TaskIds \ {id}
      PROVE  Board'[x] = Board[x]
  <2>1. CASE \E b \in Addresses : At(b, x)
    <3>1. PICK b \in Addresses : At(b, x)
      BY <2>1
    <3>2. b # a
      BY <3>1 DEF At
    <3> QED BY <3>1, <3>2, <1>1, <1>2, <1>3 DEF BoardOnHeap
  <2>2. CASE \A b \in Addresses : ~At(b, x)
    BY <2>2, <1>2, <1>3 DEF BoardOnHeap
  <2> QED BY <2>1, <2>2
<1>6. Board' = [x \in TaskIds |-> Board'[x]] /\ Board = [x \in TaskIds |-> Board[x]]
  BY DEF Board
<1> QED BY <1>4, <1>5, <1>6

\* push_back adds an entry where the board had none.
LEMMA PushBackBoard ==
    ASSUME IndInv, IndInv', NEW id \in TaskIds, NEW config \in Configs, NEW a \in Addresses,
           FindIf(id) = NoAddress, PushBack(a, id, config)
    PROVE  ~IsListed(Board, id) /\ Board' = AssignTo(Board, id, config)
<1> DEFINE t == NewTask(id, config)
<1>0. t \in Tasks /\ t.id = id /\ t # Free
  BY FreeAssumption DEF NewTask, Tasks, TaskState
<1>1. heap'[a] = t /\ heap[a] = Free /\ \A b \in Addresses \ {a} : heap'[b] = heap[b]
  BY DEF PushBack, IndInv, TypeOK
<1> HIDE DEF t
<1>2. BoardOnHeap /\ BoardOnHeap'
  BY BoardValue, BoardValueNext
<1>3. \A b \in Addresses : ~At(b, id)
  BY FindIfOnHeap, NoAddressAssumption DEF IndInv
<1>4. ~IsListed(Board, id)
  BY <1>2, <1>3 DEF BoardOnHeap, IsListed
<1>5. Board'[id] = t
  BY <1>0, <1>1, <1>2 DEF BoardOnHeap, At
<1>6. ASSUME NEW x \in TaskIds \ {id}
      PROVE  Board'[x] = Board[x]
  <2>1. \A b \in Addresses : At(b, x)' <=> At(b, x)
    BY <1>0, <1>1 DEF At
  <2>2. CASE \E b \in Addresses : At(b, x)
    <3>1. PICK b \in Addresses : At(b, x)
      BY <2>2
    <3>2. heap'[b] = heap[b]
      BY <3>1, <1>1 DEF At
    <3> QED BY <3>1, <3>2, <2>1, <1>2 DEF BoardOnHeap
  <2>3. CASE \A b \in Addresses : ~At(b, x)
    BY <2>1, <2>3, <1>2 DEF BoardOnHeap
  <2> QED BY <2>2, <2>3
<1>7. Board' = [x \in TaskIds |-> Board'[x]] /\ Board = [x \in TaskIds |-> Board[x]]
  BY DEF Board
<1>8. Board' = [Board EXCEPT ![id] = t]
  BY <1>5, <1>6, <1>7
<1> QED BY <1>4, <1>8 DEF AssignTo, t

\* erase removes the entry of the task it deletes.
LEMMA EraseBoard ==
    ASSUME IndInv, IndInv', NEW id \in TaskIds, NEW a \in Addresses, At(a, id), Erase(a)
    PROVE  Board' = [Board EXCEPT ![id] = NoTask]
<1>1. heap'[a] = Free /\ \A b \in Addresses \ {a} : heap'[b] = heap[b]
  BY DEF Erase, IndInv, TypeOK
<1>2. BoardOnHeap /\ BoardOnHeap'
  BY BoardValue, BoardValueNext
<1>3. \A b \in Addresses : ~At(b, id)'
  BY <1>1, AtUnique DEF At
<1>4. Board'[id] = NoTask
  BY <1>2, <1>3 DEF BoardOnHeap
<1>5. ASSUME NEW x \in TaskIds \ {id}
      PROVE  Board'[x] = Board[x]
  <2>1. \A b \in Addresses : At(b, x)' <=> At(b, x)
    BY <1>1 DEF At
  <2>2. CASE \E b \in Addresses : At(b, x)
    <3>1. PICK b \in Addresses : At(b, x)
      BY <2>2
    <3>2. heap'[b] = heap[b]
      BY <3>1, <1>1 DEF At
    <3> QED BY <3>1, <3>2, <2>1, <1>2 DEF BoardOnHeap
  <2>3. CASE \A b \in Addresses : ~At(b, x)
    BY <2>1, <2>3, <1>2 DEF BoardOnHeap
  <2> QED BY <2>2, <2>3
<1>6. Board' = [x \in TaskIds |-> Board'[x]] /\ Board = [x \in TaskIds |-> Board[x]]
  BY DEF Board
<1> QED BY <1>4, <1>5, <1>6

\* The response holds one command for each task the board has unsettled.
LEMMA CommandsOfBoard ==
    ASSUME IndInv
    PROVE  PrepareCommandsList = CommandsOf(Board)
<1>1. BoardOnHeap
  BY BoardValue
<1>2. \A i \in DOMAIN tasks :
        /\ tasks[i] \in Addresses /\ heap[tasks[i]].id \in TaskIds
        /\ At(tasks[i], heap[tasks[i]].id) /\ heap[tasks[i]] \in Tasks
  BY DEF IndInv, TypeOK, TaskListSound, At, Tasks
<1>3. ASSUME NEW i \in DOMAIN tasks
      PROVE  \E id \in TaskIds : IsListed(Board, id) /\ Board[id] = heap[tasks[i]]
  BY <1>1, <1>2, NoTaskAssumption DEF BoardOnHeap, IsListed
<1>4. ASSUME NEW id \in TaskIds, IsListed(Board, id)
      PROVE  \E i \in DOMAIN tasks : Board[id] = heap[tasks[i]]
  <2>1. PICK a \in Addresses : At(a, id)
    BY <1>1, <1>4 DEF BoardOnHeap, IsListed
  <2>2. PICK i \in DOMAIN tasks : tasks[i] = a
    BY <2>1 DEF At, IndInv, TaskListSound
  <2> QED BY <2>1, <2>2, <1>1 DEF BoardOnHeap
<1>5. PrepareCommandsList \subseteq CommandsOf(Board)
  <2> SUFFICES ASSUME NEW i \in DOMAIN tasks, NEW c \in ConstructCommand(heap[tasks[i]])
               PROVE  c \in CommandsOf(Board)
    BY DEF PrepareCommandsList
  <2>1. PICK id \in TaskIds : IsListed(Board, id) /\ Board[id] = heap[tasks[i]]
    BY <1>3
  <2>2. c \in ConstructCommand(Board[id])
    BY <2>1
  <2> QED BY <2>1, <2>2 DEF CommandsOf
<1>6. CommandsOf(Board) \subseteq PrepareCommandsList
  <2> SUFFICES ASSUME NEW id \in TaskIds, IsListed(Board, id), NEW c \in ConstructCommand(Board[id])
               PROVE  c \in PrepareCommandsList
    BY DEF CommandsOf
  <2>1. PICK i \in DOMAIN tasks : Board[id] = heap[tasks[i]]
    BY <1>4
  <2>2. c \in ConstructCommand(heap[tasks[i]])
    BY <2>1
  <2> QED BY <2>2 DEF PrepareCommandsList
<1> QED BY <1>5, <1>6

-----------------------------------------------------------------------------
(* The status call: under the lock, the list it works on is the one it has *)
(* found, with the confirmations of its own request and nothing else.      *)

StatusCalls(th) == calls[th].pc \in {"status", "apply"}

StatusInv ==
    /\ \A th \in Threads : StatusCalls(th) => Board = Confirmed(before, settled, cancelled)
    /\ ~InStatusCall => settled = {} /\ cancelled = {}

\* While a thread is in its status call, it is the only one to do anything,
\* but for those that read a status through a pointer.
LEMMA StatusStep ==
    ASSUME IndInv, NEW u \in Threads, StatusCalls(u), Next
    PROVE  \/ \E id \in TaskIds : ConfirmationFind(u, id)
           \/ ConfirmationMissing(u)
           \/ ConfirmationCancel(u)
           \/ ConfirmationAccept(u)
           \/ StatusEnd(u)
           \/ \E th \in Threads \ {u} : ReadStatus(th)
<1> PICK th \in Threads : InitStep(th) \/ OperatorStep(th) \/ AgentStep(th)
  BY DEF Next
<1>1. mutex = u
  BY DEF IndInv, LockOwner, Locked, StatusCalls
<1>2. CASE th = u
  <2>1. calls[u] # Outside /\ calls[u].pc \notin {"init", "assign", "edit", "cancel", "held"}
    BY CallTypes DEF StatusCalls
  <2>2. ~InitStep(th) /\ ~OperatorStep(th)
    BY <1>2, <2>1
       DEF InitStep, InitBegin, InitTask, InitEnd, OperatorStep, Search, Enter, AssignTask,
           AssignRefused, EditTask, CancelTask, ChangeRefused, GetTask, ReadStatus
  <2>3. ~Reset(th) /\ ~StatusBegin(th)
    BY <1>2, <2>1 DEF Reset, StatusBegin, Enter
  <2> QED BY <1>2, <2>2, <2>3 DEF AgentStep
<1>3. CASE th # u
  <2>1. ~CanLock(th) /\ mutex # NoThread /\ calls[th].pc \in {"idle", "held"}
    BY <1>1, <1>3, NoThreadAssumption DEF CanLock, IndInv, LockOwner, Locked
  <2>2. ~InitStep(th) /\ ~AgentStep(th)
    BY <2>1
       DEF InitStep, InitBegin, InitTask, InitEnd, AgentStep, Reset, StatusBegin, Enter,
           ConfirmationFind, ConfirmationMissing, ConfirmationCancel, ConfirmationAccept,
           StatusEnd
  <2>3. OperatorStep(th) => ReadStatus(th)
    BY <2>1
       DEF OperatorStep, Search, Enter, AssignTask, AssignRefused, EditTask, CancelTask,
           ChangeRefused, GetTask
  <2> QED BY <1>3, <2>2, <2>3
<1> QED BY <1>2, <1>3

\* With no status call under way, only StatusBegin touches what is noted of one.
LEMMA QuietStep ==
    ASSUME IndInv, ~InStatusCall, Next
    PROVE  \/ \E th \in Threads : StatusBegin(th)
           \/ ~InStatusCall' /\ UNCHANGED request
<1> PICK th \in Threads : InitStep(th) \/ OperatorStep(th) \/ AgentStep(th)
  BY DEF Next
<1>0. \A u \in Threads : calls[u].pc \notin {"status", "apply"}
  BY DEF InStatusCall
<1>1. ASSUME UNCHANGED request, NEW c \in Calls, c.pc \notin {"status", "apply"},
             calls' = [calls EXCEPT ![th] = c]
      PROVE  ~InStatusCall' /\ UNCHANGED request
  BY <1>0, <1>1 DEF InStatusCall, IndInv, TypeOK
<1>2. CASE InitStep(th)
  <2> DEFINE c == [Outside EXCEPT !.pc = "init"]
  <2>1. c \in Calls /\ c.pc = "init"
    BY DEF Outside, Calls, Points
  <2>2. CASE InitBegin(th)
    <3>1. calls' = [calls EXCEPT ![th] = c] /\ UNCHANGED request
      BY <2>2 DEF InitBegin, IndInv, TypeOK
    <3> HIDE DEF c
    <3> QED BY <2>1, <3>1, <1>1
  <2>3. CASE InitEnd(th)
    BY <2>3, <1>1, CallTypes DEF InitEnd, Return
  <2>4. CASE UNCHANGED <<calls, request>>
    BY <2>4, <1>0 DEF InStatusCall
  <2> QED BY <1>2, <2>2, <2>3, <2>4 DEF InitStep, InitTask
<1>3. CASE OperatorStep(th)
  <2>1. ASSUME NEW id \in TaskIds, Search(th, id)
        PROVE  ~InStatusCall' /\ UNCHANGED request
    <3>1. PICK pc \in {"assign", "edit", "cancel"} : Enter(th, Searched(pc, id))
      BY <2>1 DEF Search
    <3>2. Searched(pc, id) \in Calls /\ Searched(pc, id).pc = pc
      BY SearchedType DEF Points, IndInv
    <3> QED BY <2>1, <3>1, <3>2, <1>1 DEF Search, Enter
  <2>2. ASSUME NEW id \in TaskIds, GetTask(th, id)
        PROVE  ~InStatusCall' /\ UNCHANGED request
    <3>1. Searched("held", id) \in Calls /\ Searched("held", id).pc = "held"
      BY SearchedType DEF Points, IndInv
    <3> QED BY <2>2, <3>1, <1>1 DEF GetTask
  <2>3. ASSUME UNCHANGED request, calls' = [calls EXCEPT ![th] = Outside]
        PROVE  ~InStatusCall' /\ UNCHANGED request
    BY <2>3, <1>1, CallTypes
  <2> QED BY <1>3, <2>1, <2>2, <2>3
      DEF OperatorStep, AssignTask, AssignRefused, EditTask, CancelTask, ChangeRefused,
          ReadStatus, Return
<1>4. CASE AgentStep(th)
  <2>1. CASE Reset(th)
    BY <2>1, <1>0 DEF Reset, InStatusCall
  <2> QED BY <1>4, <2>1, <1>0
      DEF AgentStep, ConfirmationFind, ConfirmationMissing, ConfirmationCancel,
          ConfirmationAccept, StatusEnd
<1> QED BY <1>2, <1>3, <1>4

\* What a status call knows of its task when it has found it.
LEMMA FoundOnBoard ==
    ASSUME IndInv, NEW th \in Threads,
           calls[th].pc \in {"edit", "cancel", "apply"}, calls[th].at # NoAddress
    PROVE  /\ calls[th].id \in TaskIds
           /\ calls[th].at \in Addresses
           /\ At(calls[th].at, calls[th].id)
           /\ heap[calls[th].at] \in Tasks
           /\ Board[calls[th].id] = heap[calls[th].at]
           /\ IsListed(Board, calls[th].id)
<1>1. calls[th].id \in TaskIds /\ calls[th].at \in Addresses /\ At(calls[th].at, calls[th].id)
      /\ heap[calls[th].at] \in Tasks
  BY FoundTask DEF At, IndInv, IteratorsValid
<1>2. Board[calls[th].id] = heap[calls[th].at]
  BY <1>1, BoardValue DEF BoardOnHeap
<1> QED BY <1>1, <1>2, NoTaskAssumption DEF IsListed

\* What a request makes of the task it finds on the board.
ConfirmedTask(task, isSettled, isCancelled) ==
    IF isCancelled THEN NoTask
    ELSE IF isSettled /\ task # NoTask THEN AcceptConfirmation(task) ELSE task

LEMMA ConfirmedByTask ==
    ASSUME NEW board \in Boards, NEW s, NEW c
    PROVE  /\ DOMAIN Confirmed(board, s, c) = TaskIds
           /\ \A x \in TaskIds :
                Confirmed(board, s, c)[x] = ConfirmedTask(board[x], x \in s, x \in c)
BY DEF Confirmed, ConfirmedTask, IsListed, Boards

\* A second confirmation of a task changes nothing.
LEMMA AcceptedTwice ==
    ASSUME NEW task \in Tasks
    PROVE  /\ AcceptConfirmation(task) \in Tasks
           /\ AcceptConfirmation(AcceptConfirmation(task)) = AcceptConfirmation(task)
BY DEF AcceptConfirmation, Tasks, TaskState

LEMMA NothingConfirmed ==
    ASSUME NEW board \in Boards
    PROVE  Confirmed(board, {}, {}) = board
BY DEF Confirmed, Boards

\* What is noted of a confirmation is what it does to the board.
LEMMA ConfirmationFollows ==
    ASSUME IndInv, IndInv', NEW u \in Threads, StatusCalls(u),
           Board = Confirmed(before, settled, cancelled),
           ConfirmationMissing(u) \/ ConfirmationCancel(u) \/ ConfirmationAccept(u)
    PROVE  Board' = Confirmed(before', settled', cancelled')
<1> DEFINE id == calls[u].id
           at == calls[u].at
<1>0. before' = before /\ before \in Boards /\ settled \in SUBSET TaskIds
      /\ cancelled \in SUBSET TaskIds /\ id \in TaskIds /\ at = FindIf(id)
  BY DEF IndInv, TypeOK, IteratorsValid, ConfirmationMissing, ConfirmationCancel,
         ConfirmationAccept, ConfirmationDone
<1>1. ASSUME \A x \in TaskIds : Board'[x] = Confirmed(before, settled', cancelled')[x]
      PROVE  Board' = Confirmed(before', settled', cancelled')
  <2>1. Board' = [x \in TaskIds |-> Board'[x]]
    BY DEF Board
  <2>2. Confirmed(before, settled', cancelled') =
          [x \in TaskIds |-> Confirmed(before, settled', cancelled')[x]]
    BY DEF Confirmed
  <2> QED BY <1>0, <1>1, <2>1, <2>2
<1>2. CASE ConfirmationMissing(u)
  <2>1. ~IsListed(Board, id)
    BY <1>0, <1>2 DEF ConfirmationMissing, IsListed, Board
  <2>2. Board' = Board /\ settled' = settled \cup {id} /\ cancelled' = cancelled
    BY <1>2, SameBoard DEF ConfirmationMissing, Settle
  <2> HIDE DEF id
  <2>3. \A x \in TaskIds : Confirmed(before, settled \cup {id}, cancelled)[x] = Board[x]
    BY <1>0, <2>1, ConfirmedByTask DEF IsListed, ConfirmedTask
  <2> QED BY <2>2, <2>3, <1>1
<1>3. CASE ConfirmationCancel(u)
  <2>1. at \in Addresses /\ At(at, id) /\ Erase(at)
    BY <1>3, FoundOnBoard DEF ConfirmationCancel
  <2>2. settled' = settled /\ cancelled' = cancelled \cup {id}
    BY <1>3 DEF ConfirmationCancel
  <2> HIDE DEF id, at
  <2>3. Board' = [Board EXCEPT ![id] = NoTask]
    BY <1>0, <2>1, EraseBoard
  <2>4. /\ Confirmed(before, settled, cancelled \cup {id})[id] = NoTask
        /\ \A x \in TaskIds : x # id =>
             Confirmed(before, settled, cancelled \cup {id})[x] = Board[x]
    BY <1>0, ConfirmedByTask DEF ConfirmedTask
  <2>5. Board \in Boards
    BY BoardType DEF IndInv
  <2> QED BY <1>0, <1>1, <2>2, <2>3, <2>4, <2>5 DEF Boards
<1>4. CASE ConfirmationAccept(u)
  <2> DEFINE t == AcceptConfirmation(heap[at])
  <2>1. at \in Addresses /\ At(at, id) /\ heap[at] \in Tasks /\ Board[id] = heap[at]
        /\ IsListed(Board, id)
    BY <1>4, FoundOnBoard DEF ConfirmationAccept
  <2>2. t \in Tasks /\ t.id = id
    BY <2>1 DEF AcceptConfirmation, Tasks, TaskState, At
  <2>3. heap' = [heap EXCEPT ![at] = t] /\ settled' = settled \cup {id} /\ cancelled' = cancelled
    BY <1>4, <2>1 DEF ConfirmationAccept, Settle, IndInv, TypeOK
  <2>4. t = AcceptConfirmation(Board[id])
    BY <2>1
  <2> HIDE DEF id, at, t
  <2>5. Board' = [Board EXCEPT ![id] = t]
    BY <1>0, <2>1, <2>2, <2>3, RewriteBoard
  <2>6. /\ Confirmed(before, settled \cup {id}, cancelled)[id] = t
        /\ \A x \in TaskIds : x # id =>
             Confirmed(before, settled \cup {id}, cancelled)[x] = Board[x]
    <3>1. before[id] \in Tasks \cup {NoTask}
      BY <1>0 DEF Boards
    <3>2. before[id] \in Tasks =>
            AcceptConfirmation(AcceptConfirmation(before[id])) = AcceptConfirmation(before[id])
      BY AcceptedTwice
    <3> QED BY <1>0, <2>1, <2>4, <3>1, <3>2, ConfirmedByTask DEF IsListed, ConfirmedTask
  <2>7. Board \in Boards
    BY BoardType DEF IndInv
  <2> QED BY <1>0, <1>1, <2>3, <2>5, <2>6, <2>7 DEF Boards
<1> QED BY <1>2, <1>3, <1>4

\* The step that is in the way of neither thread nor board: a status is read.
LEMMA ReadStatusQuiet ==
    ASSUME IndInv, NEW th \in Threads, ReadStatus(th)
    PROVE  /\ \A u \in Threads : StatusCalls(u)' <=> StatusCalls(u)
           /\ Board' = Board
           /\ UNCHANGED request
<1>1. calls[th].pc = "held" /\ calls'[th] = Outside
      /\ \A u \in Threads \ {th} : calls'[u] = calls[u]
  BY DEF ReadStatus, IndInv, TypeOK
<1> QED BY <1>1, CallTypes, SameBoard DEF ReadStatus, StatusCalls

\* Where the five steps of the thread in the status call leave the call.
LEMMA StatusStays ==
    ASSUME IndInv, NEW u \in Threads, StatusCalls(u)
    PROVE  /\ \A id \in TaskIds : ConfirmationFind(u, id) => calls'[u].pc = "apply"
           /\ ConfirmationMissing(u) \/ ConfirmationCancel(u) \/ ConfirmationAccept(u)
                => calls'[u].pc = "status"
           /\ StatusEnd(u) => ~InStatusCall'
<1>1. ASSUME NEW id \in TaskIds, ConfirmationFind(u, id)
      PROVE  calls'[u].pc = "apply"
  BY <1>1 DEF ConfirmationFind, Searched, IndInv, TypeOK
<1>2. ASSUME ConfirmationMissing(u) \/ ConfirmationCancel(u) \/ ConfirmationAccept(u)
      PROVE  calls'[u].pc = "status"
  BY <1>2, CallTypes
     DEF ConfirmationMissing, ConfirmationCancel, ConfirmationAccept, ConfirmationDone,
         IndInv, TypeOK
<1>3. ASSUME StatusEnd(u)
      PROVE  ~InStatusCall'
  <2>1. calls'[u] = Outside /\ \A th \in Threads \ {u} : calls'[th] = calls[th]
    BY <1>3 DEF StatusEnd, Return, IndInv, TypeOK
  <2>2. \A th \in Threads \ {u} : calls[th].pc \in {"idle", "held"}
    BY DEF StatusCalls, IndInv, LockOwner, Locked
  <2> QED BY <2>1, <2>2, CallTypes DEF InStatusCall
<1> QED BY <1>1, <1>2, <1>3

LEMMA StatusInvInit == Init => StatusInv
BY CallTypes DEF Init, StatusInv, StatusCalls, InStatusCall

LEMMA StatusInvNext ==
    ASSUME IndInv, IndInv', StatusInv, [Next]_vars
    PROVE  StatusInv'
<1>1. CASE UNCHANGED vars
  <2>1. Board' = Board
    BY <1>1, SameBoard DEF vars
  <2> QED BY <1>1, <2>1 DEF vars, request, StatusInv, StatusCalls, InStatusCall
<1>2. CASE Next /\ InStatusCall
  <2>1. PICK u \in Threads : StatusCalls(u)
    BY <1>2 DEF InStatusCall, StatusCalls
  <2>2. Board = Confirmed(before, settled, cancelled)
    BY <2>1 DEF StatusInv
  <2>3. ASSUME NEW id \in TaskIds, ConfirmationFind(u, id)
        PROVE  StatusInv'
    <3>1. Board' = Board /\ UNCHANGED request
      BY <2>3, SameBoard DEF ConfirmationFind
    <3>2. InStatusCall'
      BY <2>1, <2>3, StatusStays DEF InStatusCall
    <3> QED BY <2>2, <3>1, <3>2 DEF StatusInv, request
  <2>4. CASE ConfirmationMissing(u) \/ ConfirmationCancel(u) \/ ConfirmationAccept(u)
    <3>1. Board' = Confirmed(before', settled', cancelled')
      BY <2>1, <2>2, <2>4, ConfirmationFollows
    <3>2. InStatusCall'
      BY <2>1, <2>4, StatusStays DEF InStatusCall
    <3> QED BY <3>1, <3>2 DEF StatusInv
  <2>5. CASE StatusEnd(u)
    <3>1. ~InStatusCall'
      BY <2>1, <2>5, StatusStays
    <3> QED BY <2>5, <3>1 DEF StatusInv, StatusEnd, StatusCalls, InStatusCall
  <2>6. ASSUME NEW th \in Threads, ReadStatus(th)
        PROVE  StatusInv'
    BY <2>6, ReadStatusQuiet DEF StatusInv, StatusCalls, InStatusCall, request
  <2> QED BY <1>2, <2>1, <2>3, <2>4, <2>5, <2>6, StatusStep
<1>3. CASE Next /\ ~InStatusCall
  <2>1. ASSUME NEW th \in Threads, StatusBegin(th)
        PROVE  StatusInv'
    <3>1. Board' = Board /\ before' = Board /\ settled' = {} /\ cancelled' = {}
      BY <1>3, <2>1, SameBoard DEF StatusBegin, StatusInv
    <3>2. Board \in Boards
      BY BoardType DEF IndInv
    <3>3. InStatusCall'
      BY <2>1, CallTypes DEF StatusBegin, Enter, InStatusCall, IndInv, TypeOK
    <3> QED BY <3>1, <3>2, <3>3, NothingConfirmed DEF StatusInv
  <2>2. CASE ~InStatusCall' /\ UNCHANGED request
    BY <1>3, <2>2 DEF StatusInv, InStatusCall, StatusCalls, request
  <2> QED BY <1>3, <2>1, <2>2, QuietStep
<1> QED BY <1>1, <1>2, <1>3

LEMMA StatusInvariance == Spec => [](IndInv /\ StatusInv)
BY InitInv, NextInv, StatusInvInit, StatusInvNext, PTL DEF Spec

\* A status response is made of the list the call has found and of its own
\* confirmations, one command for each task they leave unsettled: what lets the
\* other modules take prepareStatusResponse of Agent.cpp for one step.
THEOREM ResponseIsOfItsRequest == Spec => []ResponseAnswersRequest
<1>1. IndInv /\ StatusInv => ResponseAnswersRequest
  BY CommandsOfBoard DEF ResponseAnswersRequest, StatusInv, StatusCalls
<1> QED BY <1>1, StatusInvariance, PTL

\* A status response holds no command for a task that the same request has
\* confirmed (prepareStatusResponse of Agent.cpp).
THEOREM ResponseIsFresh == Spec => []ResponseOmitsConfirmed
<1>1. ASSUME IndInv, StatusInv, NEW th \in Threads, StatusCalls(th),
             NEW c \in PrepareCommandsList
      PROVE  c.taskId \notin confirmed
  <2>1. PICK id \in TaskIds : IsListed(Board, id) /\ c \in ConstructCommand(Board[id])
    BY <1>1, CommandsOfBoard DEF CommandsOf
  <2>2. Board[id] \in Tasks /\ Board[id].id = id
    <3>1. \A a \in Addresses : At(a, id) => Board[id] = heap[a] /\ heap[a].id = id
      BY <1>1, BoardValue DEF BoardOnHeap, At
    <3>2. \E a \in Addresses : At(a, id)
      BY <1>1, <2>1, BoardValue DEF BoardOnHeap, IsListed
    <3>3. Board \in Boards
      BY <1>1, BoardType DEF IndInv
    <3> QED BY <2>1, <3>1, <3>2, <3>3 DEF Boards, IsListed
  <2>3. c.taskId = id /\ Board[id].state # "Running"
    BY <2>1, <2>2 DEF ConstructCommand
  <2>4. Board[id] = CASE id \in cancelled -> NoTask
                      [] id \in settled \ cancelled /\ IsListed(before, id) ->
                           AcceptConfirmation(before[id])
                      [] OTHER -> before[id]
    BY <1>1 DEF StatusInv, Confirmed
  <2>5. before[id] \in Tasks \cup {NoTask}
    BY <1>1 DEF IndInv, TypeOK, Boards
  <2>6. before[id] \in Tasks => AcceptConfirmation(before[id]).state = "Running"
    BY DEF AcceptConfirmation, Tasks
  <2> QED BY <2>1, <2>3, <2>4, <2>5, <2>6 DEF IsListed, confirmed
<1>2. IndInv /\ StatusInv => ResponseOmitsConfirmed
  BY <1>1 DEF ResponseOmitsConfirmed, StatusCalls
<1> QED BY <1>2, StatusInvariance, PTL

-----------------------------------------------------------------------------
(* Refinement: a status call is one step of the board, taken when it returns. *)

LEMMA InitRefines == Init => Abstract!Init
<1> SUFFICES ASSUME Init PROVE VisibleBoard = [id \in TaskIds |-> NoTask]
  BY DEF Abstract!Init, Abstract!EmptyBoard
<1>1. \A id \in TaskIds : FindIf(id) = NoAddress
  BY DEF Init, FindIf, Matches
<1>2. ~InStatusCall
  BY CallTypes DEF Init, InStatusCall
<1> QED BY <1>1, <1>2 DEF Board, VisibleBoard

\* Outside a status call, only four kinds of step change the board.
LEMMA BoardStepRefines ==
    ASSUME IndInv, IndInv', Next, ~InStatusCall, ~InStatusCall'
    PROVE  Abstract!Next \/ UNCHANGED VisibleBoard
<1> PICK th \in Threads : InitStep(th) \/ OperatorStep(th) \/ AgentStep(th)
  BY DEF Next
<1> DEFINE call == calls[th]
<1>0. VisibleBoard = Board /\ VisibleBoard' = Board'
  BY DEF VisibleBoard
<1>1. ASSUME UNCHANGED <<tasks, heap>>
      PROVE  UNCHANGED VisibleBoard
  BY <1>0, <1>1, SameBoard
<1>2. ASSUME NEW id \in TaskIds, NEW config \in Configs, NEW a \in Addresses,
             FindIf(id) = NoAddress, PushBack(a, id, config)
      PROVE  Abstract!Next
  BY <1>0, <1>2, PushBackBoard
     DEF Abstract!Next, Abstract!Assign, Abstract!IsListed, Abstract!AssignTo,
         Abstract!NewTask, IsListed, AssignTo, NewTask
<1>3. CASE InitStep(th)
  BY <1>1, <1>2, <1>3 DEF InitStep, InitBegin, InitTask, InitEnd
<1>4. CASE OperatorStep(th)
  <2>1. ASSUME NEW config \in Configs, NEW a \in Addresses, AssignTask(th, config, a)
        PROVE  Abstract!Next
    BY <2>1, <1>2 DEF AssignTask, IndInv, IteratorsValid
  <2>2. ASSUME NEW config \in Configs, EditTask(th, config)
        PROVE  Abstract!Next
    <3> DEFINE t == AcceptChanges(heap[call.at], config)
    <3>1. call.id \in TaskIds /\ call.at \in Addresses /\ At(call.at, call.id)
          /\ heap[call.at] \in Tasks /\ Board[call.id] = heap[call.at] /\ IsListed(Board, call.id)
      BY <2>2, FoundOnBoard DEF EditTask, Accepts
    <3>2. t \in Tasks /\ t.id = call.id
      BY <3>1 DEF AcceptChanges, Tasks, TaskState, At
    <3>3. Board' = [Board EXCEPT ![call.id] = t]
      <4>1. heap' = [heap EXCEPT ![call.at] = t]
        BY <2>2, <3>1 DEF EditTask, IndInv, TypeOK
      <4> HIDE DEF t
      <4> QED BY <3>1, <3>2, <4>1, RewriteBoard
    <3>4. Board' = Abstract!EditOn(Board, call.id, config)
      BY <3>1, <3>3 DEF Abstract!EditOn, Abstract!AcceptChanges, AcceptChanges, Board
    <3>5. Abstract!IsSettled(Board, call.id)
      BY <2>2, <3>1
         DEF Abstract!IsSettled, Abstract!IsListed, Abstract!IsBusy, IsListed, IsBusy,
             EditTask, Accepts
    <3> QED BY <1>0, <3>1, <3>4, <3>5 DEF Abstract!Next, Abstract!Edit
  <2>3. CASE CancelTask(th)
    <3> DEFINE t == AcceptCancel(heap[call.at])
    <3>1. call.id \in TaskIds /\ call.at \in Addresses /\ At(call.at, call.id)
          /\ heap[call.at] \in Tasks /\ Board[call.id] = heap[call.at] /\ IsListed(Board, call.id)
      BY <2>3, FoundOnBoard DEF CancelTask, Accepts
    <3>2. t \in Tasks /\ t.id = call.id
      BY <3>1 DEF AcceptCancel, Tasks, TaskState, At
    <3>3. Board' = [Board EXCEPT ![call.id] = t]
      <4>1. heap' = [heap EXCEPT ![call.at] = t]
        BY <2>3, <3>1 DEF CancelTask, IndInv, TypeOK
      <4> HIDE DEF t
      <4> QED BY <3>1, <3>2, <4>1, RewriteBoard
    <3>4. Board' = Abstract!CancelOn(Board, call.id)
      BY <3>1, <3>3 DEF Abstract!CancelOn, Abstract!AcceptCancel, AcceptCancel, Board
    <3>5. Abstract!IsSettled(Board, call.id)
      BY <2>3, <3>1
         DEF Abstract!IsSettled, Abstract!IsListed, Abstract!IsBusy, IsListed, IsBusy,
             CancelTask, Accepts
    <3> QED BY <1>0, <3>1, <3>4, <3>5 DEF Abstract!Next, Abstract!Cancel
  <2> QED BY <1>1, <1>4, <2>1, <2>2, <2>3
      DEF OperatorStep, Search, AssignRefused, ChangeRefused, GetTask, ReadStatus
<1>5. CASE AgentStep(th)
  <2>1. CASE Reset(th)
    <3>1. \A id \in TaskIds : Board'[id] = NoTask
      BY <2>1 DEF Reset, Board, FindIf, Matches
    <3>2. Board' = [id \in TaskIds |-> NoTask]
      BY <3>1 DEF Board
    <3> QED BY <1>0, <3>2 DEF Abstract!Next, Abstract!Reset, Abstract!EmptyBoard
  <2>2. ~ConfirmationMissing(th) /\ ~ConfirmationCancel(th) /\ ~ConfirmationAccept(th)
    BY DEF InStatusCall, ConfirmationMissing, ConfirmationCancel, ConfirmationAccept
  <2> QED BY <1>1, <1>5, <2>1, <2>2
      DEF AgentStep, StatusBegin, ConfirmationFind, StatusEnd
<1> QED BY <1>3, <1>4, <1>5

\* From its beginning to its end a status call shows the board it has found.
LEMMA StepRefines ==
    ASSUME IndInv, IndInv', StatusInv, Next
    PROVE  Abstract!Next \/ UNCHANGED VisibleBoard
<1>1. CASE InStatusCall
  <2>1. PICK u \in Threads : StatusCalls(u)
    BY <1>1 DEF InStatusCall, StatusCalls
  <2>2. VisibleBoard = before /\ Board = Confirmed(before, settled, cancelled)
    BY <1>1, <2>1 DEF VisibleBoard, StatusInv
  <2>3. ASSUME InStatusCall', before' = before
        PROVE  UNCHANGED VisibleBoard
    BY <2>2, <2>3 DEF VisibleBoard
  <2>4. ASSUME NEW id \in TaskIds, ConfirmationFind(u, id)
        PROVE  UNCHANGED VisibleBoard
    BY <2>1, <2>3, <2>4, StatusStays DEF InStatusCall, ConfirmationFind, request
  <2>5. ASSUME ConfirmationMissing(u) \/ ConfirmationCancel(u) \/ ConfirmationAccept(u)
        PROVE  UNCHANGED VisibleBoard
    <3>1. before' = before
      BY <2>5 DEF ConfirmationMissing, ConfirmationCancel, ConfirmationAccept, ConfirmationDone
    <3>2. InStatusCall'
      BY <2>1, <2>5, StatusStays DEF InStatusCall
    <3> QED BY <2>3, <3>1, <3>2
  <2>6. CASE StatusEnd(u)
    <3>1. VisibleBoard' = Board' /\ Board' = Board
      BY <2>1, <2>6, StatusStays, SameBoard DEF VisibleBoard, StatusEnd
    <3>2. VisibleBoard' = Abstract!Confirmed(VisibleBoard, settled, cancelled)
      BY <2>2, <3>1
         DEF Confirmed, Abstract!Confirmed, IsListed, Abstract!IsListed,
             AcceptConfirmation, Abstract!AcceptConfirmation
    <3>3. settled \in SUBSET TaskIds /\ cancelled \in SUBSET TaskIds
      BY DEF IndInv, TypeOK
    <3> QED BY <3>2, <3>3 DEF Abstract!Next, Abstract!PrepareStatusResponse
  <2>7. ASSUME NEW th \in Threads, ReadStatus(th)
        PROVE  UNCHANGED VisibleBoard
    BY <2>1, <2>3, <2>7, ReadStatusQuiet DEF StatusCalls, InStatusCall, request
  <2> QED BY <2>1, <2>4, <2>5, <2>6, <2>7, StatusStep
<1>2. CASE ~InStatusCall
  <2>1. ASSUME NEW th \in Threads, StatusBegin(th)
        PROVE  UNCHANGED VisibleBoard
    <3>1. InStatusCall'
      BY <2>1, CallTypes DEF StatusBegin, Enter, InStatusCall, IndInv, TypeOK
    <3> QED BY <1>2, <2>1, <3>1 DEF VisibleBoard, StatusBegin
  <2>2. CASE ~InStatusCall'
    BY <1>2, <2>2, BoardStepRefines
  <2> QED BY <1>2, <2>1, <2>2, QuietStep
<1> QED BY <1>1, <1>2

\* The methods of Agent.cpp, interleaved step by step under their mutex,
\* implement the atomic board that WorkflowManager relies on: in particular a
\* status call with all its confirmations happens at once.
THEOREM AgentImplementsSpec == Spec => ImplementsAgentSpec
<1>1. IndInv /\ IndInv' /\ StatusInv /\ [Next]_vars => [Abstract!Next]_VisibleBoard
  <2> SUFFICES ASSUME IndInv, IndInv', StatusInv, [Next]_vars
               PROVE  [Abstract!Next]_VisibleBoard
    OBVIOUS
  <2>1. CASE Next
    BY <2>1, StepRefines
  <2>2. CASE UNCHANGED vars
    BY <2>2, SameBoard DEF vars, request, VisibleBoard, InStatusCall
  <2> QED BY <2>1, <2>2
<1> QED BY <1>1, InitRefines, StatusInvariance, PTL DEF Spec, ImplementsAgentSpec, Abstract!Spec
=============================================================================
