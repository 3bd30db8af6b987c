----------------------------- MODULE RacesProofs -----------------------------
(***************************************************************************)
(* Proofs about WorkflowRaces: memory and database agree on every task     *)
(* that no two handlers have worked on at once, for any number of threads, *)
(* agents, tasks and configurations.                                       *)
(*                                                                         *)
(* Such a task is worked on by one handler at most, so what the handler    *)
(* has read of it is still true when it is used: Working says what each    *)
(* point of a handler may rely on, and Agree what the last one leaves      *)
(* behind.                                                                 *)
(***************************************************************************)
EXTENDS WorkflowRaces, WorkflowProofs

\* The task shown and the row say the same.
Agree(shown, row) ==
    shown # NoTask =>
        IF shown.state = "Cancelling" THEN row # NoRow => ~row.isActive
        ELSE row # NoRow /\ row.config = shown.config

\* What a handler that works on the task alone knows of the two at each point.
Working(call, shown, row) ==
    /\ call.pc \in {"getNew", "getToggled"} => shown = NoTask
    /\ call.pc \in {"assign", "set", "start"} =>
         shown = NoTask /\ row # NoRow /\ row.config = call.row.config
    /\ call.pc \in {"getEdited", "update"} /\ shown # NoTask =>
         /\ shown.state # "Cancelling" /\ row # NoRow
         /\ shown.config = IF call.pc = "update" THEN call.row.config ELSE call.config
    /\ call.pc \in {"delete", "suspend"} /\ shown # NoTask => shown.state = "Cancelling"
    /\ call.pc \notin WithTask => Agree(shown, row)

Loading == {"load", "add"}

\* What the handler knows of a task it touches.
Knows(call, k) ==
    IF call.pc \in Loading
    THEN /\ ~IsConnected(owner[k])
         /\ call.pc = "add" => Agree(call.board[k], tasksDb[k])
    ELSE IsConnected(owner[k]) => Working(call, Shown(k), tasksDb[k])

ListedFirst(k) ==
    \A i \in DOMAIN agents : IsListed(agents[i].board, k) => i = FindAgent(owner[k])

TaskOK(k) ==
    /\ ListedFirst(k)
    /\ \A th \in Threads : k \in Touched(calls[th]) => Knows(calls[th], k)
    /\ ~IsTouched(k) => Agree(Shown(k), tasksDb[k])

RacedInv ==
    /\ IndInv
    /\ Overlaps \subseteq raced
    /\ \A k \in TaskIds \ raced : TaskOK(k)

-----------------------------------------------------------------------------
(* What lists show after a step *)

LEMMA NobodyConnects == TypeOK => ~IsConnected(NoAgent)
BY AgentsAreObjects, NoAgentAssumption DEF IsConnected, FindAgent, WithId

LEMMA OwnersAreIds == ASSUME TypeOK, NEW k \in TaskIds PROVE owner[k] \in AgentIds \cup {NoAgent}
BY DEF TypeOK

LEMMA SameLists ==
    ASSUME UNCHANGED agents
    PROVE  /\ \A id : FindAgent(id)' = FindAgent(id)
           /\ \A id : IsConnected(id)' <=> IsConnected(id)
           /\ \A id : \A k : View(id, k)' = View(id, k)
BY DEF FindAgent, WithId, IsConnected, View, BoardOf

\* The search looks at nothing but which objects have the id.
FirstOf(W) == IF W = {} THEN 0 ELSE CHOOSE i \in W : \A j \in W : i <= j

LEMMA SameMatches ==
    ASSUME NEW id, WithId(id)' = WithId(id)
    PROVE  FindAgent(id)' = FindAgent(id)
<1>1. FindAgent(id) = FirstOf(WithId(id)) /\ FindAgent(id)' = FirstOf(WithId(id)')
  BY Zenon DEF FindAgent, FirstOf
<1> DEFINE V == WithId(id)
           W == WithId(id)'
<1>2. FindAgent(id) = FirstOf(V) /\ FindAgent(id)' = FirstOf(W) /\ V = W
  BY <1>1
<1> HIDE DEF V, W
<1> QED BY <1>2

\* One list is replaced.
LEMMA SetBoardViews ==
    ASSUME IndInv, NEW id \in AgentIds, NEW b \in Boards, FindAgent(id) # 0,
           SetBoard(FindAgent(id), b)
    PROVE  /\ \A j : FindAgent(j)' = FindAgent(j)
           /\ \A j : IsConnected(j)' <=> IsConnected(j)
           /\ \A j \in AgentIds \cup {NoAgent} : \A k :
                View(j, k)' = IF j = id THEN b[k] ELSE View(j, k)
           /\ DOMAIN agents' = DOMAIN agents
           /\ \A i \in DOMAIN agents : \A k :
                /\ agents'[i].board = IF i = FindAgent(id) THEN b ELSE agents[i].board
                /\ agents'[i].id = agents[i].id
<1> DEFINE f == FindAgent(id)
<1>1. TypeOK /\ FirstExists
  BY DEF IndInv
<1>2. f \in DOMAIN agents /\ agents[f].id = id
  BY <1>1, FoundIsThere
<1> HIDE DEF f
<1>3. agents' = [agents EXCEPT ![f] = [agents[f] EXCEPT !.board = b]]
  BY DEF SetBoard, f
<1>4. [agents[f] EXCEPT !.board = b] = [id |-> id, board |-> b]
  BY <1>2, <1>1, AgentsAreObjects DEF Objects
<1>5. /\ DOMAIN agents' = DOMAIN agents
      /\ \A i \in DOMAIN agents : agents'[i] = IF i = f THEN [id |-> id, board |-> b] ELSE agents[i]
  BY <1>2, <1>1, <1>3, <1>4, AgentsAreObjects, ExceptSeq
<1>6. \A j : WithId(j)' = WithId(j)
  BY <1>2, <1>5 DEF WithId
<1>7. \A j : FindAgent(j)' = FindAgent(j)
  BY <1>6, SameMatches
<1>8. ASSUME NEW j \in AgentIds \cup {NoAgent}, NEW k
      PROVE  View(j, k)' = IF j = id THEN b[k] ELSE View(j, k)
  <2>1. CASE ~IsConnected(j)
    BY <1>7, <2>1 DEF IsConnected, View, f
  <2>2. CASE IsConnected(j)
    <3>1. j \in AgentIds /\ FindAgent(j) # 0
      BY <1>1, <2>2, NobodyConnects DEF IsConnected
    <3>2. FindAgent(j) \in DOMAIN agents /\ agents[FindAgent(j)].id = j
      BY <1>1, <3>1, FoundIsThere
    <3>3. FindAgent(j) = f <=> j = id
      BY <1>2, <3>2 DEF f
    <3> QED BY <1>5, <1>7, <3>1, <3>2, <3>3 DEF View, BoardOf, IsConnected
  <2> QED BY <2>1, <2>2
<1>9. \A i \in DOMAIN agents :
        /\ agents'[i].board = IF i = f THEN b ELSE agents[i].board
        /\ agents'[i].id = agents[i].id
  BY <1>2, <1>5
<1> QED BY <1>5, <1>7, <1>8, <1>9 DEF IsConnected, f

\* An object is added.
LEMMA AddAgentViews ==
    ASSUME IndInv, IndInv', NEW id \in AgentIds, NEW b \in Boards,
           agents' = Append(agents, [id |-> id, board |-> b])
    PROVE  /\ \A j \in AgentIds \cup {NoAgent} : j # id =>
                /\ IsConnected(j)' <=> IsConnected(j)
                /\ \A k : View(j, k)' = View(j, k)
           /\ ~IsConnected(id) => \A k : View(id, k)' = b[k]
           /\ \A j \in AgentIds \cup {NoAgent} : IsConnected(j) => FindAgent(j)' = FindAgent(j)
           /\ ~IsConnected(id) => FindAgent(id)' = Len(agents) + 1
           /\ DOMAIN agents' = DOMAIN agents \cup {Len(agents) + 1}
           /\ Len(agents) + 1 \notin DOMAIN agents
           /\ \A i \in DOMAIN agents : agents'[i] = agents[i]
           /\ agents'[Len(agents) + 1].id = id
<1> DEFINE n == Len(agents)
<1>1. TypeOK /\ FirstExists /\ TypeOK' /\ FirstExists'
  BY DEF IndInv
<1>2. /\ n \in Nat /\ DOMAIN agents = 1 .. n /\ DOMAIN agents' = 1 .. (n + 1)
      /\ \A i \in 1 .. n : agents'[i] = agents[i]
      /\ agents'[n + 1] = [id |-> id, board |-> b]
  <2>1. [id |-> id, board |-> b] \in Objects
    BY DEF Objects
  <2> QED BY <1>1, <2>1, AgentsAreObjects, AppendProperties, LenProperties
<1> HIDE DEF n
<1>3. /\ DOMAIN agents' = DOMAIN agents \cup {n + 1} /\ n + 1 \notin DOMAIN agents
      /\ \A i \in DOMAIN agents : agents'[i] = agents[i]
  BY <1>2
<1>4. \A j : WithId(j)' = WithId(j) \cup (IF j = id THEN {n + 1} ELSE {})
  BY <1>2 DEF WithId
<1>5. \A j : WithId(j) \in SUBSET Nat /\ WithId(j) \subseteq 1 .. n /\ WithId(j)' \in SUBSET Nat
  BY <1>2 DEF WithId
<1>6. \A j : j # id => FindAgent(j)' = FindAgent(j)
  BY <1>4, SameMatches
<1>7. ASSUME IsConnected(id) PROVE FindAgent(id)' = FindAgent(id)
  <2>1. FindAgent(id) # 0
    BY <1>7 DEF IsConnected
  <2>2. \A i : IsFirst(i, id) => IsFirst(i, id)'
    BY <1>2, <1>4, <1>5 DEF IsFirst
  <2> QED BY <1>1, <1>5, <2>1, <2>2, FoundStays
<1>8. ASSUME ~IsConnected(id) PROVE FindAgent(id)' = n + 1
  <2>1. WithId(id) = {}
    BY <1>1, <1>8, FindAgentIsFirst DEF IsConnected
  <2>2. WithId(id)' = {n + 1}
    BY <1>4, <2>1
  <2>3. FindAgent(id)' = CHOOSE i \in {n + 1} : \A j \in {n + 1} : i <= j
    BY <2>2, Zenon DEF FindAgent
  <2>4. n + 1 \in {n + 1} /\ {n + 1} \in SUBSET Nat /\ \A j \in {n + 1} : n + 1 <= j
    BY <1>2
  <2> QED BY <2>3, <2>4, LeastIsUnique
<1>9. ASSUME NEW j \in AgentIds \cup {NoAgent}, j # id
      PROVE  /\ IsConnected(j)' <=> IsConnected(j)
             /\ \A k : View(j, k)' = View(j, k)
  <2>1. IsConnected(j)' <=> IsConnected(j)
    BY <1>6, <1>9 DEF IsConnected
  <2>2. CASE IsConnected(j)
    <3>1. j \in AgentIds /\ FindAgent(j) # 0
      BY <1>1, <2>2, NobodyConnects DEF IsConnected
    <3>2. FindAgent(j) \in DOMAIN agents
      BY <1>1, <3>1, FoundIsThere
    <3> QED BY <1>3, <1>6, <1>9, <2>1, <2>2, <3>2 DEF View, BoardOf
  <2> QED BY <2>1, <2>2 DEF View
<1>10. ASSUME ~IsConnected(id), NEW k PROVE View(id, k)' = b[k]
  <2>1. FindAgent(id)' = n + 1 /\ n + 1 # 0
    BY <1>2, <1>8, <1>10
  <2> QED BY <1>2, <2>1 DEF View, BoardOf, IsConnected
<1> QED BY <1>2, <1>3, <1>6, <1>7, <1>8, <1>9, <1>10 DEF n

-----------------------------------------------------------------------------
(* Tasks a step leaves alone, and the one it works on *)

Connected(k) == IsConnected(owner[k])

\* A list only forgets a task, or has it confirmed.
Weaker(after, before) ==
    \/ after \in {NoTask, before}
    \/ /\ NoTask \notin {after, before}
       /\ "Cancelling" \notin {after.state, before.state}
       /\ after.config = before.config

Others(th) == \A u \in Threads \ {th} : calls'[u] = calls[u]

LEMMA WeakerKeeps ==
    ASSUME NEW after, NEW before, Weaker(after, before), NEW row, NEW call
    PROVE  /\ Agree(before, row) => Agree(after, row)
           /\ Working(call, before, row) => Working(call, after, row)
BY DEF Weaker, Agree, Working

LEMMA QuietKeeps ==
    ASSUME NEW th \in Threads, NEW k \in TaskIds, TaskOK(k), Others(th),
           owner'[k] = owner[k], tasksDb'[k] = tasksDb[k],
           Connected(k)' <=> Connected(k), Weaker(Shown(k)', Shown(k)), ListedFirst(k)',
           k \notin Touched(calls[th]), k \notin Touched(calls[th])'
    PROVE  TaskOK(k)'
<1>1. \A u \in Threads : (k \in Touched(calls[u]))' <=> k \in Touched(calls[u])
  BY DEF Touched, Others
<1>2. ASSUME NEW u \in Threads, (k \in Touched(calls[u]))'
      PROVE  Knows(calls[u], k)'
  <2>1. u # th /\ calls'[u] = calls[u] /\ Knows(calls[u], k)
    BY <1>1, <1>2 DEF Others, TaskOK
  <2>2. CASE calls[u].pc \in Loading
    BY <2>1, <2>2 DEF Knows, Connected
  <2>3. CASE calls[u].pc \notin Loading
    <3>1. Connected(k) => Working(calls[u], Shown(k)', tasksDb[k])
      BY <2>1, <2>3, WeakerKeeps DEF Knows, Connected
    <3> QED BY <2>1, <2>3, <3>1 DEF Knows, Connected
  <2> QED BY <2>2, <2>3
<1>3. ASSUME ~IsTouched(k)' PROVE Agree(Shown(k)', tasksDb'[k])
  <2>1. Agree(Shown(k), tasksDb[k])
    BY <1>1, <1>3 DEF IsTouched, TaskOK
  <2> QED BY <2>1, WeakerKeeps
<1>4. (~IsTouched(k) => Agree(Shown(k), tasksDb[k]))'
  BY <1>3 DEF Agree
<1> QED BY <1>2, <1>4 DEF TaskOK

LEMMA WorkKeeps ==
    ASSUME NEW th \in Threads, NEW k \in TaskIds, k \notin raced, Overlaps \subseteq raced,
           k \notin Overlaps', Others(th), ListedFirst(k)',
           k \in Touched(calls[th]) \/ k \in Touched(calls[th])',
           k \in Touched(calls[th])' => Knows(calls[th], k)',
           k \notin Touched(calls[th])' =>
             owner'[k] = owner[k] /\ Agree(Shown(k)', tasksDb'[k])
    PROVE  TaskOK(k)'
<1>1. ASSUME NEW u \in Threads, u # th PROVE k \notin Touched(calls[u])'
  <2>1. CASE k \in Touched(calls[th])'
    BY <1>1, <2>1 DEF Overlaps
  <2>2. CASE k \notin Touched(calls[th])'
    <3>1. k \notin Touched(calls[u])
      BY <1>1, <2>2 DEF Overlaps
    <3> QED BY <1>1, <2>2, <3>1 DEF Touched, Others
  <2> QED BY <2>1, <2>2
<1>2. \A u \in Threads : (k \in Touched(calls[u]) => Knows(calls[u], k))'
  BY <1>1
<1>3. (~IsTouched(k) => Agree(Shown(k), tasksDb[k]))'
  BY DEF IsTouched, Agree
<1> QED BY <1>2, <1>3 DEF TaskOK

\* Before it takes the task up, nobody else has, so memory and table agree.
LEMMA TakenUp ==
    ASSUME NEW th \in Threads, NEW k \in TaskIds, TaskOK(k), k \notin Overlaps', Others(th),
           owner'[k] = owner[k], k \notin Touched(calls[th]), k \in Touched(calls[th])'
    PROVE  Agree(Shown(k), tasksDb[k])
<1>1. ASSUME NEW u \in Threads, u # th PROVE k \notin Touched(calls[u])
  <2>1. (k \notin Touched(calls[u]))'
    BY <1>1 DEF Overlaps
  <2> QED BY <1>1, <2>1 DEF Touched, Others
<1> QED BY <1>1 DEF TaskOK, IsTouched

\* Without an Agent object there is nothing to agree with.
LEMMA NothingListedIsOK ==
    ASSUME NothingListed', NEW k \in TaskIds
    PROVE  TaskOK(k)'
<1>1. agents' = <<>> /\ DOMAIN agents' = {} /\ \A th \in Threads : calls'[th].pc \notin Loading
  BY DEF NothingListed, Loading
<1>2. \A id : ~IsConnected(id)'
  BY <1>1 DEF IsConnected, FindAgent, WithId
<1>3. Shown(k)' = NoTask
  BY <1>2 DEF Shown, View
<1>4. \A th \in Threads : Knows(calls[th], k)'
  BY <1>1, <1>2 DEF Knows
<1>5. Agree(Shown(k), tasksDb[k])' /\ ListedFirst(k)'
  BY <1>1, <1>3 DEF Agree, ListedFirst
<1> QED BY <1>4, <1>5 DEF TaskOK

-----------------------------------------------------------------------------
(* Steps on the list and the row of one task *)

LEMMA IdleTouchesNothing ==
    Idle.pc = "idle" /\ Idle.task = NoTask /\ Touched(Idle) = {} /\ Touched(Idle)' = {}
BY NoTaskIdAssumption DEF Idle, Touched

\* The lists change for one task at most.
SetsTask(id, t, b) ==
    /\ FindAgent(id) # 0
    /\ SetBoard(FindAgent(id), b)
    /\ \A k \in TaskIds \ {t} : b[k] = BoardOf(id)[k]

AgentStep(t) ==
    UNCHANGED agents \/ \E id \in AgentIds : \E b \in Boards : SetsTask(id, t, b)

LEMMA SetListedFirst ==
    ASSUME IndInv, IndInv', NEW id \in AgentIds, NEW b \in Boards, FindAgent(id) # 0,
           SetBoard(FindAgent(id), b), NEW k \in TaskIds, ListedFirst(k), owner'[k] = owner[k]
    PROVE  ListedFirst(k)'
<1>1. TypeOK /\ FirstExists /\ TypeOK' /\ NoForeignTasks'
  BY DEF IndInv
<1>2. /\ \A j : FindAgent(j)' = FindAgent(j)
      /\ DOMAIN agents' = DOMAIN agents
      /\ \A i \in DOMAIN agents : /\ i # FindAgent(id) => agents'[i].board = agents[i].board
                                  /\ agents'[i].id = agents[i].id
  BY SetBoardViews
<1>3. ASSUME NEW i \in DOMAIN agents', IsListed(agents'[i].board, k)
      PROVE  i = FindAgent(owner[k])
  <2>1. CASE i = FindAgent(id)
    <3>1. i \in DOMAIN agents /\ agents'[i].id = id
      BY <1>1, <1>2, <2>1, FoundIsThere
    <3>2. owner'[k] = id
      BY <1>1, <1>3, <3>1 DEF NoForeignTasks
    <3> QED BY <2>1, <3>2
  <2>2. CASE i # FindAgent(id)
    BY <1>2, <1>3, <2>2 DEF ListedFirst, IsListed
  <2> QED BY <2>1, <2>2
<1>4. FindAgent(owner[k])' = FindAgent(owner[k])
  <2>1. PICK j : j = owner[k]
    OBVIOUS
  <2> QED BY <1>2, <2>1
<1> QED BY <1>3, <1>4 DEF ListedFirst

LEMMA AgentStepViews ==
    ASSUME IndInv, IndInv', NEW t, AgentStep(t)
    PROVE  /\ \A id : IsConnected(id)' <=> IsConnected(id)
           /\ \A k \in TaskIds \ {t} : \A id \in AgentIds \cup {NoAgent} : View(id, k)' = View(id, k)
           /\ \A k \in TaskIds : ListedFirst(k) /\ owner'[k] = owner[k] => ListedFirst(k)'
<1>1. CASE UNCHANGED agents
  BY <1>1, SameLists DEF ListedFirst
<1>2. ASSUME NEW id \in AgentIds, NEW b \in Boards, SetsTask(id, t, b)
      PROVE  /\ \A j : IsConnected(j)' <=> IsConnected(j)
             /\ \A k \in TaskIds \ {t} : \A j \in AgentIds \cup {NoAgent} : View(j, k)' = View(j, k)
             /\ \A k \in TaskIds : ListedFirst(k) /\ owner'[k] = owner[k] => ListedFirst(k)'
  <2>1. FindAgent(id) # 0 /\ SetBoard(FindAgent(id), b)
    BY <1>2 DEF SetsTask
  <2>2. \A k \in TaskIds \ {t} : View(id, k) = b[k]
    BY <1>2 DEF SetsTask, View, IsConnected
  <2> QED BY <2>1, <2>2, SetBoardViews, SetListedFirst
<1> QED BY <1>1, <1>2 DEF AgentStep

\* A handler of one task disturbs no other.
LEMMA OtherTasks ==
    ASSUME RacedInv, IndInv', NEW th \in Threads, NEW t \in TaskIds, AgentStep(t), Others(th),
           \A j \in TaskIds \ {t} : owner'[j] = owner[j] /\ tasksDb'[j] = tasksDb[j],
           calls[th].pc \notin Loading, calls'[th].pc \notin Loading,
           {calls[th].task, calls'[th].task} \subseteq {t, NoTask},
           NEW k \in TaskIds \ raced, k # t
    PROVE  TaskOK(k)'
<1>1. TaskOK(k) /\ owner'[k] = owner[k] /\ tasksDb'[k] = tasksDb[k]
  BY DEF RacedInv
<1>2. owner[k] \in AgentIds \cup {NoAgent}
  BY OwnersAreIds DEF RacedInv, IndInv
<1>3. /\ Connected(k)' <=> Connected(k)
      /\ Shown(k)' = Shown(k)
      /\ ListedFirst(k)'
  BY <1>1, <1>2, AgentStepViews DEF Connected, Shown, TaskOK, RacedInv
<1>4. k \notin Touched(calls[th]) /\ k \notin Touched(calls[th])'
  BY NoTaskIdAssumption DEF Touched, Loading
<1> QED BY <1>1, <1>3, <1>4, QuietKeeps DEF Weaker

-----------------------------------------------------------------------------
(* Registrations and status requests *)

\* A handler that touches no task before or after its step.
LEMMA UntouchedKeeps ==
    ASSUME RacedInv, IndInv', NEW th \in Threads, UNCHANGED <<tasksDb, owner>>, Others(th),
           NEW k \in TaskIds \ raced, Connected(k)' <=> Connected(k), Weaker(Shown(k)', Shown(k)),
           ListedFirst(k)', k \notin Touched(calls[th]), k \notin Touched(calls[th])'
    PROVE  TaskOK(k)'
BY QuietKeeps DEF RacedInv

LEMMA SameListsForTask ==
    ASSUME UNCHANGED <<agents, owner>>, NEW k
    PROVE  /\ Connected(k)' <=> Connected(k)
           /\ Shown(k)' = Shown(k) /\ Weaker(Shown(k)', Shown(k))
           /\ ListedFirst(k) => ListedFirst(k)'
BY SameLists DEF Connected, Shown, Weaker, ListedFirst

LEMMA CreateAgentOK ==
    ASSUME RacedInv, IndInv', NEW th \in Threads, Create(th), NEW k \in TaskIds \ raced
    PROVE  TaskOK(k)'
<1>1. calls[th] = Idle /\ UNCHANGED <<tasksDb, agents, owner, calls>>
  BY DEF Create, CreateAgent, Receives
<1>2. k \notin Touched(calls[th]) /\ k \notin Touched(calls[th])' /\ Others(th)
  BY <1>1, IdleTouchesNothing DEF Others, Touched
<1> QED BY <1>1, <1>2, SameListsForTask, UntouchedKeeps DEF RacedInv, TaskOK

LEMMA RegisterKnownOK ==
    ASSUME RacedInv, IndInv', NEW th \in Threads, NEW id \in AgentIds, RegisterKnown(th, id),
           NEW k \in TaskIds \ raced
    PROVE  TaskOK(k)'
<1>1. /\ calls[th] = Idle /\ FindAgent(id) # 0 /\ SetBoard(FindAgent(id), EmptyBoard)
      /\ UNCHANGED <<tasksDb, owner, calls>>
  BY DEF RegisterKnown, Receives, store, IsConnected
<1>2. k \notin Touched(calls[th]) /\ k \notin Touched(calls[th])' /\ Others(th)
  BY <1>1, IdleTouchesNothing DEF Others, Touched
<1>3. EmptyBoard \in Boards /\ EmptyBoard[k] = NoTask
  BY DEF EmptyBoard, Boards
<1>4. IndInv /\ owner[k] \in AgentIds \cup {NoAgent} /\ ListedFirst(k)
  BY OwnersAreIds DEF RacedInv, IndInv, TaskOK
<1>5. Connected(k)' <=> Connected(k)
  BY <1>1, <1>3, <1>4, SetBoardViews DEF Connected
<1>6. Weaker(Shown(k)', Shown(k))
  BY <1>1, <1>3, <1>4, SetBoardViews DEF Shown, Weaker
<1>7. ListedFirst(k)'
  BY <1>1, <1>3, <1>4, SetListedFirst
<1> QED BY <1>1, <1>2, <1>5, <1>6, <1>7, UntouchedKeeps

LEMMA StatusFindOK ==
    ASSUME RacedInv, IndInv', NEW th \in Threads, NEW id, StatusFind(th, id),
           NEW k \in TaskIds \ raced
    PROVE  TaskOK(k)'
<1>1. /\ calls[th] = Idle /\ UNCHANGED <<tasksDb, agents, owner>> /\ Others(th)
      /\ calls'[th].pc = "status" /\ calls'[th].task = NoTask
  BY DEF StatusFind, Receives, store, Goto, Idle, Others, RacedInv, IndInv, TypeOK
<1>2. k \notin Touched(calls[th]) /\ k \notin Touched(calls[th])'
  BY <1>1, IdleTouchesNothing, NoTaskIdAssumption DEF Touched
<1> QED BY <1>1, <1>2, SameListsForTask, UntouchedKeeps DEF RacedInv, TaskOK

\* With a disciplined agent a confirmation answers the command outstanding.
LEMMA ConfirmedIsWeaker ==
    ASSUME NEW b \in Boards, NEW settled \in SUBSET TaskIds, NEW cancelled \in SUBSET TaskIds,
           Answers(b, settled, cancelled), NEW k \in TaskIds
    PROVE  Weaker(Confirmed(b, settled, cancelled)[k], b[k])
<1>1. CASE k \in cancelled
  BY <1>1 DEF Confirmed, Weaker
<1>2. CASE k \notin cancelled /\ k \in settled
  <2>1. b[k] \in Tasks /\ b[k] # NoTask /\ b[k].state \in {"Creating", "Changing"}
    BY <1>2 DEF Answers, IsListed, Boards
  <2>2. Confirmed(b, settled, cancelled)[k] = AcceptConfirmation(b[k])
    BY <1>2, <2>1 DEF Confirmed, IsListed
  <2>3. /\ AcceptConfirmation(b[k]) \in Tasks /\ AcceptConfirmation(b[k]).state = "Running"
        /\ AcceptConfirmation(b[k]).config = b[k].config
    BY <2>1 DEF AcceptConfirmation, Tasks, TaskState
  <2> QED BY <2>1, <2>2, <2>3, NoTaskAssumption DEF Weaker
<1>3. CASE k \notin cancelled /\ k \notin settled
  BY <1>3 DEF Confirmed, Weaker
<1> QED BY <1>1, <1>2, <1>3

\* A thread that has ended, or handles no task, leaves agreement behind.
LEMMA FinishedOK ==
    ASSUME NEW th \in Threads, calls'[th] = Idle, NEW k \in TaskIds,
           k \notin raced, Overlaps \subseteq raced, k \notin Overlaps', Others(th),
           ListedFirst(k)', k \in Touched(calls[th]), owner'[k] = owner[k],
           Agree(Shown(k)', tasksDb'[k])
    PROVE  TaskOK(k)'
<1>1. k \notin Touched(calls[th])'
  BY IdleTouchesNothing DEF Touched
<1> QED BY <1>1, WorkKeeps

LEMMA PrepareStatusOK ==
    ASSUME Disciplined, RacedInv, IndInv', NEW th \in Threads, NEW settled \in SUBSET TaskIds,
           NEW cancelled \in SUBSET TaskIds, PrepareStatus(th, settled, cancelled),
           NEW k \in TaskIds \ raced, k \notin Overlaps'
    PROVE  TaskOK(k)'
<1> DEFINE call == calls[th]
           id == call.agent
           b == Confirmed(BoardOf(id), settled, cancelled)
<1>1. IndInv /\ TaskOK(k) /\ owner[k] \in AgentIds \cup {NoAgent}
  BY OwnersAreIds DEF RacedInv, IndInv
<1>2. call.pc = "status" /\ id \in AgentIds /\ FindAgent(id) # 0 /\ call.found = FindAgent(id)
  BY <1>1, CallFacts DEF PrepareStatus, CallOK, WithAgent
<1>3. /\ SetBoard(FindAgent(id), b) /\ Answers(BoardOf(id), settled, cancelled)
      /\ calls'[th] = Idle /\ Others(th) /\ UNCHANGED <<tasksDb, owner>>
  BY <1>1, <1>2 DEF PrepareStatus, BoardOf, Finish, Goto, Others, IndInv, TypeOK, store
<1>4. BoardOf(id) \in Boards /\ b \in Boards
  BY <1>1, <1>2, FoundIsThere, ConfirmedOperator DEF IndInv
<1>5. Weaker(b[k], BoardOf(id)[k]) /\ View(id, k) = BoardOf(id)[k]
  BY <1>2, <1>3, <1>4, ConfirmedIsWeaker DEF View, IsConnected
<1> HIDE DEF b, id
<1>6. Connected(k)' <=> Connected(k)
  BY <1>1, <1>2, <1>3, <1>4, SetBoardViews DEF Connected, id
<1>7. Weaker(Shown(k)', Shown(k))
  <2>1. PICK j \in AgentIds, c \in Boards : j = id /\ c = b
    BY <1>2, <1>4
  <2>2. View(owner[k], k)' = IF owner[k] = j THEN c[k] ELSE View(owner[k], k)
    <3>1. PICK o \in AgentIds \cup {NoAgent} : o = owner[k]
      BY <1>1
    <3>2. View(o, k)' = IF o = j THEN c[k] ELSE View(o, k)
      BY <1>1, <1>2, <1>3, <2>1, SetBoardViews
    <3>3. View(owner[k], k)' = View(o, k)'
      BY <1>3, <3>1 DEF View, BoardOf
    <3> QED BY <3>1, <3>2, <3>3
  <2>3. Shown(k)' = View(owner[k], k)'
    BY DEF Shown
  <2> QED BY <1>5, <2>1, <2>2, <2>3 DEF Shown, Weaker
<1>8. ListedFirst(k)'
  <2>1. PICK j \in AgentIds, c \in Boards : j = id /\ c = b
    BY <1>2, <1>4
  <2> QED BY <1>1, <1>2, <1>3, <2>1, SetListedFirst DEF TaskOK
<1>9. CASE k \in Touched(call)
  <2>1. Agree(Shown(k), tasksDb[k])
    <3>1. IsConnected(owner[k]) => Working(call, Shown(k), tasksDb[k])
      BY <1>1, <1>2, <1>9 DEF TaskOK, Knows, Loading
    <3>2. ~IsConnected(owner[k]) => Shown(k) = NoTask
      BY DEF Shown, View
    <3> QED BY <1>2, <3>1, <3>2 DEF Working, WithTask, Agree
  <2>2. Agree(Shown(k)', tasksDb'[k])
    BY <1>3, <1>7, <2>1, WeakerKeeps
  <2> QED BY <1>3, <1>8, <1>9, <2>2, FinishedOK DEF RacedInv
<1>10. CASE k \notin Touched(call)
  <2>1. k \notin Touched(calls[th])'
    BY <1>3, IdleTouchesNothing DEF Touched
  <2> QED BY <1>3, <1>6, <1>7, <1>8, <1>10, <2>1, UntouchedKeeps
<1> QED BY <1>9, <1>10

LEMMA RegisterMissingOK ==
    ASSUME RacedInv, IndInv', NEW th \in Threads, NEW id \in AgentIds, RegisterMissing(th, id),
           NEW k \in TaskIds \ raced, k \notin Overlaps'
    PROVE  TaskOK(k)'
<1>1. /\ calls[th] = Idle /\ ~IsConnected(id) /\ UNCHANGED <<tasksDb, agents, owner>> /\ Others(th)
      /\ calls'[th].pc = "load" /\ calls'[th].agent = id
  BY DEF RegisterMissing, Receives, store, Goto, Idle, Others, RacedInv, IndInv, TypeOK
<1>2. k \notin Touched(calls[th]) /\ (k \in Touched(calls[th])' <=> owner[k] = id)
  BY <1>1, IdleTouchesNothing DEF Touched
<1>3. ListedFirst(k)' /\ Shown(k)' = Shown(k) /\ (Connected(k)' <=> Connected(k))
  BY <1>1, SameListsForTask DEF RacedInv, TaskOK
<1>4. CASE owner[k] = id
  <2>1. Knows(calls[th], k)'
    BY <1>1, <1>3, <1>4 DEF Knows, Loading, Connected
  <2> QED BY <1>1, <1>2, <1>3, <1>4, <2>1, WorkKeeps DEF RacedInv
<1>5. CASE owner[k] # id
  BY <1>1, <1>2, <1>5, SameListsForTask, UntouchedKeeps DEF RacedInv, TaskOK
<1> QED BY <1>4, <1>5

LEMMA RegisterLoadOK ==
    ASSUME RacedInv, IndInv', NEW th \in Threads, RegisterLoad(th),
           NEW k \in TaskIds \ raced, k \notin Overlaps'
    PROVE  TaskOK(k)'
<1> DEFINE id == calls[th].agent
<1>1. /\ calls[th].pc = "load" /\ UNCHANGED <<tasksDb, agents, owner>> /\ Others(th)
      /\ calls'[th].pc = "add" /\ calls'[th].agent = id /\ calls'[th].board = Loaded(id)
  BY DEF RegisterLoad, store, Goto, Others, RacedInv, IndInv, TypeOK, Calls
<1>2. (k \in Touched(calls[th]) <=> owner[k] = id) /\ (k \in Touched(calls[th])' <=> owner[k] = id)
  BY <1>1 DEF Touched
<1>3. ListedFirst(k)' /\ Shown(k)' = Shown(k) /\ (Connected(k)' <=> Connected(k))
  BY <1>1, SameListsForTask DEF RacedInv, TaskOK
<1>4. CASE owner[k] = id
  <2>1. ~Connected(k)
    BY <1>1, <1>2, <1>4 DEF RacedInv, TaskOK, Knows, Loading, Connected
  <2>2. Agree(Loaded(id)[k], tasksDb[k])
    <3>1. k \in ListRows(tasksDb, id, TRUE) =>
            /\ Loaded(id)[k] = NewTask(k, tasksDb[k].config)
            /\ tasksDb[k] # NoRow
      BY DEF Loaded, ListRows, HasRow
    <3>2. k \notin ListRows(tasksDb, id, TRUE) => Loaded(id)[k] = NoTask
      BY DEF Loaded
    <3>3. /\ NewTask(k, tasksDb[k].config).state = "Creating"
          /\ NewTask(k, tasksDb[k].config).config = tasksDb[k].config
      BY DEF NewTask
    <3> QED BY <3>1, <3>2, <3>3 DEF Agree
  <2>3. Knows(calls[th], k)'
    BY <1>1, <1>3, <2>1, <2>2 DEF Knows, Loading, Connected
  <2> QED BY <1>1, <1>2, <1>3, <1>4, <2>3, WorkKeeps DEF RacedInv
<1>5. CASE owner[k] # id
  BY <1>1, <1>2, <1>5, SameListsForTask, UntouchedKeeps DEF RacedInv, TaskOK
<1> QED BY <1>4, <1>5

LEMMA RegisterAddOK ==
    ASSUME RacedInv, IndInv', NEW th \in Threads, RegisterAdd(th),
           NEW k \in TaskIds \ raced, k \notin Overlaps'
    PROVE  TaskOK(k)'
<1>1. PICK id \in AgentIds, b \in Boards : id = calls[th].agent /\ b = calls[th].board
  BY CallFacts DEF RacedInv, IndInv, RegisterAdd, CallOK, WithAgent, Calls
<1>2. /\ calls[th].pc = "add" /\ agents' = Append(agents, [id |-> id, board |-> b])
      /\ UNCHANGED <<tasksDb, owner>> /\ Others(th) /\ calls'[th] = Idle
  BY <1>1 DEF RegisterAdd, store, Finish, Goto, Others, RacedInv, IndInv, TypeOK
<1>3. (k \in Touched(calls[th]) <=> owner[k] = id) /\ k \notin Touched(calls[th])'
  BY <1>1, <1>2, IdleTouchesNothing DEF Touched
<1>4. /\ IndInv /\ TypeOK /\ TypeOK' /\ NoForeignTasks' /\ ListedFirst(k)
      /\ owner[k] \in AgentIds \cup {NoAgent}
  BY OwnersAreIds DEF RacedInv, IndInv, TaskOK
<1> DEFINE n == Len(agents) + 1
<1>5. /\ DOMAIN agents' = DOMAIN agents \cup {n} /\ n \notin DOMAIN agents
      /\ \A i \in DOMAIN agents : agents'[i] = agents[i]
      /\ agents'[n].id = id
  BY <1>2, <1>4, AddAgentViews
<1>6. PICK o \in AgentIds \cup {NoAgent} : o = owner[k]
  BY <1>4
<1>7. \A i \in DOMAIN agents : IsListed(agents[i].board, k) => i = FindAgent(o) /\ IsConnected(o)
  BY <1>4, <1>6, AgentsAreObjects DEF ListedFirst, IsConnected
<1>8. /\ Shown(k)' = View(o, k)' /\ (Connected(k)' <=> IsConnected(o)')
      /\ Shown(k) = View(o, k) /\ (Connected(k) <=> IsConnected(o))
      /\ FindAgent(owner[k])' = FindAgent(o)'
  BY <1>2, <1>6 DEF Shown, View, BoardOf, Connected, IsConnected, FindAgent, WithId
<1> HIDE DEF n
<1>9. IsListed(agents'[n].board, k) => o = id
  BY <1>2, <1>4, <1>5, <1>6 DEF NoForeignTasks
<1>10. CASE o = id
  <2>1. ~IsConnected(id) /\ Agree(b[k], tasksDb[k])
    BY <1>1, <1>2, <1>3, <1>6, <1>10 DEF RacedInv, TaskOK, Knows, Loading
  <2>2. View(o, k)' = b[k] /\ FindAgent(o)' = n
    BY <1>2, <1>4, <1>10, <2>1, AddAgentViews DEF n
  <2>3. ListedFirst(k)'
    BY <1>5, <1>7, <1>8, <1>10, <2>1, <2>2 DEF ListedFirst
  <2>4. Agree(Shown(k)', tasksDb'[k])
    BY <1>2, <1>8, <2>1, <2>2
  <2> QED BY <1>2, <1>3, <1>6, <1>10, <2>3, <2>4, FinishedOK DEF RacedInv
<1>11. CASE o # id
  <2>1. /\ IsConnected(o)' <=> IsConnected(o)
        /\ View(o, k)' = View(o, k)
        /\ IsConnected(o) => FindAgent(o)' = FindAgent(o)
    BY <1>2, <1>4, <1>11, AddAgentViews
  <2>2. ListedFirst(k)'
    BY <1>5, <1>7, <1>8, <1>9, <1>11, <2>1 DEF ListedFirst
  <2> QED BY <1>2, <1>3, <1>6, <1>8, <1>11, <2>1, <2>2, UntouchedKeeps DEF Weaker
<1> QED BY <1>10, <1>11

-----------------------------------------------------------------------------
(* assignTask *)

LEMMA SaveTaskOK ==
    ASSUME RacedInv, IndInv', NEW th \in Threads, NEW id \in AgentIds, NEW t \in TaskIds,
           NEW config, NEW isActive, SaveTask(th, id, t, config, isActive),
           NEW k \in TaskIds \ raced, k \notin Overlaps'
    PROVE  TaskOK(k)'
<1>1. IndInv /\ TypeOK /\ NoForeignTasks /\ ListedFirst(k)
  BY DEF RacedInv, IndInv, TaskOK
<1>2. /\ calls[th] = Idle /\ owner[t] = NoAgent /\ owner' = [owner EXCEPT ![t] = id]
      /\ tasksDb' = [tasksDb EXCEPT ![t] = Row(id, config, isActive)]
      /\ UNCHANGED agents /\ Others(th)
      /\ calls'[th].pc = "getNew" /\ calls'[th].task = t
  BY <1>1 DEF SaveTask, Receives, InsertRow, Goto, Idle, Others, TypeOK
<1>3. \A j \in TaskIds \ {t} : owner'[j] = owner[j] /\ tasksDb'[j] = tasksDb[j]
  BY <1>1, <1>2 DEF TypeOK, Tables
<1>4. CASE k # t
  BY <1>2, <1>3, <1>4, IdleTouchesNothing, OtherTasks DEF AgentStep, Loading
<1>5. CASE k = t
  <2>1. \A i \in DOMAIN agents : ~IsListed(agents[i].board, k)
    BY <1>1, <1>2, <1>5, AgentsAreObjects, NoAgentAssumption DEF NoForeignTasks
  <2>2. ListedFirst(k)'
    BY <1>2, <2>1 DEF ListedFirst
  <2>3. owner'[k] = id /\ View(id, k)' = View(id, k) /\ (IsConnected(id)' <=> IsConnected(id))
    BY <1>1, <1>2, <1>5, SameLists DEF TypeOK
  <2>4. Shown(k)' = NoTask
    <3>1. IsConnected(id) => FindAgent(id) \in DOMAIN agents
      BY <1>1, FoundIsThere DEF IsConnected, IndInv
    <3>2. View(id, k) = NoTask
      BY <2>1, <3>1 DEF View, BoardOf, IsListed
    <3> QED BY <1>2, <2>3, <3>2 DEF Shown, View, BoardOf, IsConnected
  <2>5. Knows(calls[th], k)'
    BY <1>2, <2>4 DEF Knows, Loading, Working, WithTask
  <2>6. k \in Touched(calls[th])'
    BY <1>2, <1>5 DEF Touched
  <2> QED BY <1>2, <2>2, <2>5, <2>6, WorkKeeps DEF RacedInv
<1> QED BY <1>4, <1>5

\* A step of a handler of task t.
HandlesTask(call, t) == call = Idle \/ (call.pc \in WithTask /\ call.task = t)

LEMMA TaskStepOK ==
    ASSUME RacedInv, IndInv', NEW th \in Threads, NEW t \in TaskIds,
           AgentStep(t), UNCHANGED owner, Others(th),
           \A j \in TaskIds \ {t} : tasksDb'[j] = tasksDb[j],
           HandlesTask(calls[th], t), HandlesTask(calls'[th], t),
           Idle \notin {calls[th], calls'[th]} \/ calls'[th] # calls[th],
           t \notin raced /\ Connected(t) /\ Working(calls[th], Shown(t), tasksDb[t]) =>
             Working(calls'[th], Shown(t)', tasksDb'[t]),
           NEW k \in TaskIds \ raced, k \notin Overlaps'
    PROVE  TaskOK(k)'
<1>1. calls[th].pc \notin Loading /\ calls'[th].pc \notin Loading /\ Idle.task = NoTask
  BY IdleTouchesNothing DEF WithTask, Loading, HandlesTask
<1>2. CASE k # t
  BY <1>1, <1>2, OtherTasks DEF HandlesTask
<1>3. CASE k = t
  <2>1. /\ k \in Touched(calls[th]) <=> calls[th] # Idle
        /\ k \in Touched(calls[th])' <=> calls'[th] # Idle
    BY <1>1, <1>3, IdleTouchesNothing, NoTaskIdAssumption DEF Touched, Loading, HandlesTask
  <2>2. (Connected(k)' <=> Connected(k)) /\ ListedFirst(k)'
    BY AgentStepViews DEF RacedInv, TaskOK, Connected
  <2>3. Connected(k) => Working(calls[th], Shown(k), tasksDb[k])
    <3>1. CASE calls[th] = Idle
      <4>1. Agree(Shown(k), tasksDb[k])
        BY <2>1, <3>1, TakenUp DEF RacedInv
      <4> QED BY <3>1, <4>1, IdleTouchesNothing DEF Working, WithTask
    <3>2. CASE calls[th] # Idle
      BY <1>1, <2>1, <3>2 DEF RacedInv, TaskOK, Knows, Connected
    <3> QED BY <3>1, <3>2
  <2>4. Connected(k) => Working(calls'[th], Shown(k)', tasksDb'[k])
    BY <1>3, <2>3
  <2>5. CASE calls'[th] = Idle
    <3>1. ~Connected(k) => Shown(k)' = NoTask
      BY <2>2 DEF Connected, Shown, View
    <3>2. Agree(Shown(k)', tasksDb'[k])
      BY <2>4, <2>5, <3>1, IdleTouchesNothing DEF Working, WithTask, Agree
    <3> QED BY <2>1, <2>2, <2>5, <3>2, FinishedOK DEF RacedInv
  <2>6. CASE calls'[th] # Idle
    <3>1. Knows(calls[th], k)'
      BY <1>1, <2>2, <2>4 DEF Knows, Connected
    <3> QED BY <2>1, <2>2, <2>6, <3>1, WorkKeeps DEF RacedInv
  <2> QED BY <2>5, <2>6
<1> QED BY <1>2, <1>3

\* One that leaves the lists alone.
LEMMA StoreStepOK ==
    ASSUME RacedInv, IndInv', NEW th \in Threads, NEW t \in TaskIds,
           UNCHANGED <<agents, owner>>, Others(th),
           \A j \in TaskIds \ {t} : tasksDb'[j] = tasksDb[j],
           calls[th].pc \in WithTask, calls[th].task = t, calls'[th] # calls[th],
           HandlesTask(calls'[th], t),
           Working(calls[th], Shown(t), tasksDb[t]) => Working(calls'[th], Shown(t), tasksDb'[t]),
           NEW k \in TaskIds \ raced, k \notin Overlaps'
    PROVE  TaskOK(k)'
<1>1. Shown(t)' = Shown(t) /\ AgentStep(t) /\ HandlesTask(calls[th], t)
  BY SameListsForTask DEF AgentStep, HandlesTask
<1> QED BY <1>1, TaskStepOK

\* The list of the agent a task was created for changes.
LEMMA ListStepShows ==
    ASSUME IndInv, NEW t \in TaskIds, NEW b \in Boards, owner[t] \in AgentIds,
           SetsTask(owner[t], t, b), UNCHANGED owner
    PROVE  /\ AgentStep(t) /\ Connected(t)
           /\ Shown(t) = BoardOf(owner[t])[t] /\ Shown(t)' = b[t]
<1>1. PICK id \in AgentIds : id = owner[t]
  OBVIOUS
<1>2. FindAgent(id) # 0 /\ SetBoard(FindAgent(id), b) /\ SetsTask(id, t, b)
  BY <1>1 DEF SetsTask
<1>3. View(id, t)' = b[t] /\ Shown(t) = BoardOf(owner[t])[t] /\ Connected(t)
  BY <1>1, <1>2, SetBoardViews DEF Shown, View, Connected, IsConnected
<1>4. View(owner[t], t)' = View(id, t)'
  BY <1>1 DEF View, BoardOf
<1> QED BY <1>2, <1>3, <1>4 DEF Shown, AgentStep

LEMMA ListStepOK ==
    ASSUME RacedInv, IndInv', NEW th \in Threads, NEW t \in TaskIds, NEW b \in Boards,
           owner[t] \in AgentIds, SetsTask(owner[t], t, b),
           UNCHANGED <<tasksDb, owner>>, Others(th), calls'[th] # calls[th],
           HandlesTask(calls[th], t), HandlesTask(calls'[th], t),
           Working(calls[th], BoardOf(owner[t])[t], tasksDb[t]) =>
             Working(calls'[th], b[t], tasksDb[t]),
           NEW k \in TaskIds \ raced, k \notin Overlaps'
    PROVE  TaskOK(k)'
BY ListStepShows, TaskStepOK DEF RacedInv

LEMMA AssignGetOK ==
    ASSUME RacedInv, IndInv', NEW th \in Threads, AssignGet(th),
           NEW k \in TaskIds \ raced, k \notin Overlaps'
    PROVE  TaskOK(k)'
<1>1. PICK t \in TaskIds : t = calls[th].task
  BY CallFacts DEF RacedInv, IndInv, AssignGet, CallOK, WithTask
<1>2. /\ calls[th].pc = "getNew" /\ UNCHANGED <<tasksDb, agents, owner>> /\ Others(th)
      /\ calls'[th].pc = "assign" /\ calls'[th].task = t /\ calls'[th].row = tasksDb[t]
      /\ tasksDb[t] # NoRow
  BY <1>1 DEF AssignGet, store, Goto, Others, HasRow, RacedInv, IndInv, TypeOK, Calls
<1>3. Working(calls[th], Shown(t), tasksDb[t]) => Working(calls'[th], Shown(t), tasksDb'[t])
  BY <1>2 DEF Working, WithTask
<1> QED BY <1>1, <1>2, <1>3, StoreStepOK DEF WithTask, HandlesTask

\* The new task, with the configuration of the row.
LEMMA AssignedAgrees ==
    ASSUME TypeOK, NEW b \in Boards, NEW t \in TaskIds, NEW config \in Configs,
           NEW row, row # NoRow, row.config = config
    PROVE  /\ AssignTo(b, t, config) \in Boards
           /\ \A k \in TaskIds \ {t} : AssignTo(b, t, config)[k] = b[k]
           /\ Working(Idle, AssignTo(b, t, config)[t], row)
<1>1. AssignTo(b, t, config) \in Boards
  BY BoardOperators
<1>2. /\ \A k \in TaskIds \ {t} : AssignTo(b, t, config)[k] = b[k]
      /\ AssignTo(b, t, config)[t] = NewTask(t, config)
  BY DEF AssignTo, Boards
<1>3. NewTask(t, config).state = "Creating" /\ NewTask(t, config).config = config
  BY DEF NewTask
<1>4. Agree(NewTask(t, config), row)
  BY <1>3 DEF Agree
<1> QED BY <1>1, <1>2, <1>4 DEF Working, Idle, WithTask

LEMMA AssignToAgentOK ==
    ASSUME RacedInv, IndInv', NEW th \in Threads, AssignToAgent(th),
           NEW k \in TaskIds \ raced, k \notin Overlaps'
    PROVE  TaskOK(k)'
<1>1. PICK t \in TaskIds : t = calls[th].task
  BY CallFacts DEF RacedInv, IndInv, AssignToAgent, CallOK, WithTask
<1>2. /\ calls[th].pc = "assign" /\ calls[th].agent = owner[t] /\ owner[t] \in AgentIds
      /\ calls[th].row.config \in Configs
  BY <1>1, CallFacts DEF RacedInv, IndInv, AssignToAgent, CallOK, WithRow, WithAgent, Rows
<1>3. UNCHANGED <<tasksDb, owner>> /\ Others(th) /\ calls'[th] = Idle /\ calls'[th] # calls[th]
  BY <1>2, IdleTouchesNothing DEF AssignToAgent, store, Finish, Goto, Others, RacedInv, IndInv, TypeOK
<1>4. HandlesTask(calls[th], t) /\ HandlesTask(calls'[th], t)
  BY <1>1, <1>2, <1>3 DEF HandlesTask, WithTask
<1> DEFINE id == owner[t]
           b == AssignTo(BoardOf(id), t, calls[th].row.config)
<1>5. CASE IsConnected(id) /\ ~IsListed(BoardOf(id), t)
  <2>1. TypeOK /\ FindAgent(id) # 0 /\ SetBoard(FindAgent(id), b) /\ BoardOf(id) \in Boards
    BY <1>1, <1>2, <1>5, FoundIsThere DEF AssignToAgent, RacedInv, IndInv, IsConnected
  <2>2. SetsTask(id, t, b) /\ b \in Boards
    <3>1. \A j \in TaskIds \ {t} : b[j] = BoardOf(id)[j]
      BY <2>1 DEF AssignTo, Boards
    <3> QED BY <1>2, <2>1, <3>1, BoardOperators DEF SetsTask
  <2>3. Working(calls[th], BoardOf(id)[t], tasksDb[t]) => Working(calls'[th], b[t], tasksDb[t])
    <3>1. Working(calls[th], BoardOf(id)[t], tasksDb[t]) =>
            tasksDb[t] # NoRow /\ tasksDb[t].config = calls[th].row.config
      BY <1>2 DEF Working
    <3> QED BY <1>2, <1>3, <2>1, <3>1, AssignedAgrees
  <2> HIDE DEF b
  <2> QED BY <1>2, <1>3, <1>4, <2>2, <2>3, ListStepOK
<1>6. CASE ~(IsConnected(id) /\ ~IsListed(BoardOf(id), t))
  <2>1. UNCHANGED agents
    BY <1>1, <1>2, <1>6 DEF AssignToAgent
  <2>2. AgentStep(t) /\ Shown(t)' = Shown(t)
    BY <1>3, <2>1, SameListsForTask DEF AgentStep
  <2>3. Connected(t) => ~Working(calls[th], Shown(t), tasksDb[t])
    BY <1>2, <1>6 DEF Connected, Shown, View, IsListed, Working
  <2> QED BY <1>3, <1>4, <2>2, <2>3, TaskStepOK
<1> QED BY <1>5, <1>6

-----------------------------------------------------------------------------
(* editTask *)

\* A disciplined client names the task through the agent it was created for.
LEMMA NamedOwner ==
    ASSUME Disciplined, NEW id \in AgentIds, NEW t \in TaskIds, Names(id, t)
    PROVE  owner[t] = id /\ owner[t] \in AgentIds
BY DEF Names

LEMMA EditInAgentOK ==
    ASSUME Disciplined, RacedInv, IndInv', NEW th \in Threads, NEW id \in AgentIds,
           NEW t \in TaskIds, NEW config \in Configs, EditInAgent(th, id, t, config),
           NEW k \in TaskIds \ raced, k \notin Overlaps'
    PROVE  TaskOK(k)'
<1>1. owner[t] = id /\ owner[t] \in AgentIds
  BY NamedOwner DEF EditInAgent
<1>2. /\ calls[th] = Idle /\ UNCHANGED <<tasksDb, owner>> /\ Others(th)
      /\ calls'[th].pc = "getEdited" /\ calls'[th].task = t /\ calls'[th].config = config
  BY DEF EditInAgent, Receives, store, Goto, Idle, Others, RacedInv, IndInv, TypeOK
<1>3. calls'[th] # calls[th] /\ HandlesTask(calls[th], t) /\ HandlesTask(calls'[th], t)
  BY <1>2, IdleTouchesNothing DEF HandlesTask, WithTask
<1> DEFINE b == EditOn(BoardOf(id), t, config)
<1>4. CASE IsConnected(id) /\ IsSettled(BoardOf(id), t) /\ SetBoard(FindAgent(id), b)
  <2>1. FindAgent(id) # 0 /\ BoardOf(id) \in Boards /\ BoardOf(id)[t] \in Tasks
    BY <1>4, FoundIsThere DEF RacedInv, IndInv, IsConnected, IsSettled, IsListed, Boards
  <2>2. /\ b \in Boards /\ \A j \in TaskIds \ {t} : b[j] = BoardOf(id)[j]
        /\ b[t] = AcceptChanges(BoardOf(id)[t], config)
    <3>1. AcceptChanges(BoardOf(id)[t], config) \in Tasks
      BY <2>1 DEF AcceptChanges, Tasks, TaskState
    <3> QED BY <2>1, <3>1 DEF EditOn, Boards
  <2>3. b[t].state = "Changing" /\ b[t].config = config /\ b[t] # NoTask
    BY <2>1, <2>2, NoTaskAssumption DEF AcceptChanges, Tasks, TaskState
  <2>4. SetsTask(id, t, b)
    BY <1>4, <2>1, <2>2 DEF SetsTask
  <2>5. Working(calls[th], BoardOf(id)[t], tasksDb[t]) => Working(calls'[th], b[t], tasksDb[t])
    <3>1. BoardOf(id)[t] # NoTask /\ BoardOf(id)[t].state = "Running"
      BY <1>4 DEF IsSettled, IsListed, IsBusy
    <3>2. Working(calls[th], BoardOf(id)[t], tasksDb[t]) => tasksDb[t] # NoRow
      BY <1>2, <3>1 DEF Working, Agree, Idle, WithTask
    <3> QED BY <1>2, <2>3, <3>2 DEF Working, WithTask
  <2> HIDE DEF b
  <2> QED BY <1>1, <1>2, <1>3, <2>2, <2>4, <2>5, ListStepOK
<1>5. CASE ~IsConnected(id) /\ UNCHANGED agents
  <2>1. AgentStep(t) /\ ~Connected(t)
    BY <1>1, <1>5 DEF AgentStep, Connected
  <2> QED BY <1>2, <1>3, <2>1, TaskStepOK
<1> QED BY <1>4, <1>5 DEF EditInAgent

LEMMA EditGetOK ==
    ASSUME RacedInv, IndInv', NEW th \in Threads, EditGet(th),
           NEW k \in TaskIds \ raced, k \notin Overlaps'
    PROVE  TaskOK(k)'
<1>1. PICK t \in TaskIds : t = calls[th].task
  BY CallFacts DEF RacedInv, IndInv, EditGet, CallOK, WithTask
<1>2. /\ calls[th].pc = "getEdited" /\ UNCHANGED <<tasksDb, agents, owner>> /\ Others(th)
      /\ calls[th] \in Calls /\ tasksDb[t] \in Rows \cup {NoRow}
  BY <1>1 DEF EditGet, store, Goto, Finish, Others, RacedInv, IndInv, TypeOK, Tables
<1>3. CASE HasRow(tasksDb, t)
  <2>1. /\ calls'[th].pc = "update" /\ calls'[th].task = t
        /\ calls'[th].row = [tasksDb[t] EXCEPT !.config = calls[th].config]
    <3>1. calls' = [calls EXCEPT ![th] =
                      [calls[th] EXCEPT !.pc = "update",
                                        !.row = [tasksDb[t] EXCEPT !.config = calls[th].config]]]
      BY <1>1, <1>3 DEF EditGet, Goto
    <3> QED BY <1>1, <1>2, <3>1 DEF RacedInv, IndInv, TypeOK, Calls
  <2>2. calls'[th].row.config = calls[th].config
    BY <1>2, <1>3, <2>1 DEF HasRow, Rows
  <2>3. Working(calls[th], Shown(t), tasksDb[t]) => Working(calls'[th], Shown(t), tasksDb'[t])
    BY <1>2, <2>1, <2>2 DEF Working, WithTask
  <2> QED BY <1>1, <1>2, <2>1, <2>3, StoreStepOK DEF WithTask, HandlesTask
<1>4. CASE ~HasRow(tasksDb, t)
  <2>1. calls'[th] = Idle /\ Idle # calls[th]
    BY <1>1, <1>2, <1>4, IdleTouchesNothing
       DEF EditGet, Finish, Goto, RacedInv, IndInv, TypeOK
  <2>2. Working(calls[th], Shown(t), tasksDb[t]) => Working(calls'[th], Shown(t), tasksDb'[t])
    BY <1>2, <1>4, <2>1, IdleTouchesNothing DEF Working, WithTask, Agree, HasRow
  <2> QED BY <1>1, <1>2, <2>1, <2>2, StoreStepOK DEF WithTask, HandlesTask
<1> QED BY <1>3, <1>4

\* The last step of a handler is a statement on the row of its task.
LEMMA StatementOK ==
    ASSUME RacedInv, IndInv', NEW th \in Threads, NEW t \in TaskIds,
           calls[th].pc \in WithTask, calls[th].task = t, Finish(th), UNCHANGED <<agents, owner>>,
           \A j \in TaskIds \ {t} : tasksDb'[j] = tasksDb[j],
           Working(calls[th], Shown(t), tasksDb[t]) => Agree(Shown(t), tasksDb'[t]),
           NEW k \in TaskIds \ raced, k \notin Overlaps'
    PROVE  TaskOK(k)'
<1>1. calls'[th] = Idle /\ calls[th] # Idle /\ Others(th) /\ HandlesTask(calls'[th], t)
  BY IdleTouchesNothing DEF Finish, Goto, Others, WithTask, HandlesTask, RacedInv, IndInv, TypeOK
<1>2. Working(calls[th], Shown(t), tasksDb[t]) => Working(calls'[th], Shown(t), tasksDb'[t])
  BY <1>1, IdleTouchesNothing DEF Working, WithTask
<1> QED BY <1>1, <1>2, StoreStepOK

LEMMA EditUpdateOK ==
    ASSUME RacedInv, IndInv', NEW th \in Threads, EditUpdate(th),
           NEW k \in TaskIds \ raced, k \notin Overlaps'
    PROVE  TaskOK(k)'
<1>1. PICK t \in TaskIds : t = calls[th].task
  BY CallFacts DEF RacedInv, IndInv, EditUpdate, CallOK, WithTask
<1>2. calls[th].pc = "update" /\ calls[th].row \in Rows
  BY CallFacts DEF RacedInv, IndInv, EditUpdate, CallOK, WithRow
<1>3. /\ \A j \in TaskIds \ {t} : tasksDb'[j] = tasksDb[j]
      /\ tasksDb'[t] = IF tasksDb[t] = NoRow THEN NoRow ELSE calls[th].row
  BY <1>1 DEF EditUpdate, UpdateRow, RacedInv, IndInv, TypeOK, Tables
<1>4. Working(calls[th], Shown(t), tasksDb[t]) => Agree(Shown(t), tasksDb'[t])
  BY <1>2, <1>3, NoRowAssumption DEF Working, Agree
<1> QED BY <1>1, <1>2, <1>3, <1>4, StatementOK DEF WithTask, EditUpdate

-----------------------------------------------------------------------------
(* removeTask *)

\* A task cancelled, or nothing to cancel, as removeTask and toggleTask begin.
LEMMA CancelStepOK ==
    ASSUME Disciplined, RacedInv, IndInv', NEW th \in Threads, NEW id \in AgentIds,
           NEW t \in TaskIds, Names(id, t), Cancelled(id, t) \/ NothingToCancel(id, t),
           UNCHANGED <<tasksDb, owner>>, Others(th), calls[th] = Idle,
           calls'[th].task = t,
           \/ calls'[th].pc \in {"delete", "suspend"}
           \/ calls'[th].pc = "getToggled" /\ NothingToCancel(id, t),
           NEW k \in TaskIds \ raced, k \notin Overlaps'
    PROVE  TaskOK(k)'
<1>1. owner[t] = id /\ owner[t] \in AgentIds
  BY NamedOwner
<1>2. calls'[th] # calls[th] /\ HandlesTask(calls[th], t) /\ HandlesTask(calls'[th], t)
  BY IdleTouchesNothing DEF HandlesTask, WithTask
<1> DEFINE b == CancelOn(BoardOf(id), t)
<1>3. CASE Cancelled(id, t) /\ calls'[th].pc \in {"delete", "suspend"}
  <2>1. /\ FindAgent(id) # 0 /\ SetBoard(FindAgent(id), b)
        /\ BoardOf(id) \in Boards /\ BoardOf(id)[t] \in Tasks
    BY <1>3, FoundIsThere DEF Cancelled, RacedInv, IndInv, IsConnected, IsSettled, IsListed, Boards
  <2>2. /\ b \in Boards /\ \A j \in TaskIds \ {t} : b[j] = BoardOf(id)[j]
        /\ b[t] = AcceptCancel(BoardOf(id)[t])
    <3>1. AcceptCancel(BoardOf(id)[t]) \in Tasks
      BY <2>1 DEF AcceptCancel, Tasks, TaskState
    <3> QED BY <2>1, <3>1 DEF CancelOn, Boards
  <2>3. b[t].state = "Cancelling"
    BY <2>1, <2>2 DEF AcceptCancel, Tasks
  <2>4. SetsTask(id, t, b)
    BY <2>1, <2>2 DEF SetsTask
  <2>5. Working(calls'[th], b[t], tasksDb[t])
    BY <1>3, <2>3 DEF Working, WithTask
  <2> HIDE DEF b
  <2> QED BY <1>1, <1>2, <2>2, <2>4, <2>5, ListStepOK
<1>4. CASE NothingToCancel(id, t)
  <2>1. AgentStep(t) /\ Shown(t)' = Shown(t) /\ Shown(t) = NoTask
    BY <1>1, <1>4, SameListsForTask DEF NothingToCancel, AgentStep, Shown, View, IsListed
  <2>2. Working(calls'[th], Shown(t)', tasksDb'[t])
    BY <2>1 DEF Working, WithTask
  <2> QED BY <1>2, <2>1, <2>2, TaskStepOK
<1> QED BY <1>3, <1>4

LEMMA RemoveInAgentOK ==
    ASSUME Disciplined, RacedInv, IndInv', NEW th \in Threads, NEW id \in AgentIds,
           NEW t \in TaskIds, RemoveInAgent(th, id, t),
           NEW k \in TaskIds \ raced, k \notin Overlaps'
    PROVE  TaskOK(k)'
<1>1. /\ calls[th] = Idle /\ UNCHANGED <<tasksDb, owner>> /\ Others(th)
      /\ calls'[th].pc = "delete" /\ calls'[th].task = t
  BY DEF RemoveInAgent, Receives, store, Goto, Idle, Others, RacedInv, IndInv, TypeOK
<1> QED BY <1>1, CancelStepOK DEF RemoveInAgent

LEMMA RemoveTaskOK ==
    ASSUME RacedInv, IndInv', NEW th \in Threads, RemoveTask(th),
           NEW k \in TaskIds \ raced, k \notin Overlaps'
    PROVE  TaskOK(k)'
<1>1. PICK t \in TaskIds : t = calls[th].task
  BY CallFacts DEF RacedInv, IndInv, RemoveTask, CallOK, WithTask
<1>2. /\ \A j \in TaskIds \ {t} : tasksDb'[j] = tasksDb[j]
      /\ tasksDb'[t] = NoRow
  BY <1>1 DEF RemoveTask, RemoveRow, RacedInv, IndInv, TypeOK, Tables
<1>3. Working(calls[th], Shown(t), tasksDb[t]) => Agree(Shown(t), tasksDb'[t])
  BY <1>2 DEF Working, Agree, RemoveTask
<1> QED BY <1>1, <1>2, <1>3, StatementOK DEF WithTask, RemoveTask

-----------------------------------------------------------------------------
(* toggleTask *)

LEMMA ToggleCancelOK ==
    ASSUME Disciplined, RacedInv, IndInv', NEW th \in Threads, NEW id \in AgentIds,
           NEW t \in TaskIds, ToggleCancel(th, id, t),
           NEW k \in TaskIds \ raced, k \notin Overlaps'
    PROVE  TaskOK(k)'
<1>1. /\ calls[th] = Idle /\ UNCHANGED <<tasksDb, owner>> /\ Others(th)
      /\ calls'[th].pc = "suspend" /\ calls'[th].task = t
  BY DEF ToggleCancel, Receives, store, Goto, Idle, Others, RacedInv, IndInv, TypeOK
<1> QED BY <1>1, CancelStepOK DEF ToggleCancel

LEMMA ToggleUnlistedOK ==
    ASSUME Disciplined, RacedInv, IndInv', NEW th \in Threads, NEW id \in AgentIds,
           NEW t \in TaskIds, ToggleUnlisted(th, id, t),
           NEW k \in TaskIds \ raced, k \notin Overlaps'
    PROVE  TaskOK(k)'
<1>1. /\ calls[th] = Idle /\ UNCHANGED <<tasksDb, owner>> /\ Others(th)
      /\ calls'[th].pc = "getToggled" /\ calls'[th].task = t
  BY DEF ToggleUnlisted, Receives, store, Goto, Idle, Others, RacedInv, IndInv, TypeOK
<1> QED BY <1>1, CancelStepOK DEF ToggleUnlisted

\* What storing the flag does to the row.
LEMMA FlagStored ==
    ASSUME TypeOK, NEW t \in TaskIds, NEW isActive \in BOOLEAN,
           tasksDb' = ToggleState(tasksDb, t, isActive)
    PROVE  /\ \A j \in TaskIds \ {t} : tasksDb'[j] = tasksDb[j]
           /\ tasksDb'[t] = NoRow <=> tasksDb[t] = NoRow
           /\ tasksDb[t] # NoRow =>
                tasksDb'[t].config = tasksDb[t].config /\ tasksDb'[t].isActive = isActive
<1>1. tasksDb[t] \in Rows \cup {NoRow} /\ tasksDb \in Tables
  BY DEF TypeOK, Tables
<1>2. /\ \A j \in TaskIds \ {t} : tasksDb'[j] = tasksDb[j]
      /\ tasksDb'[t] = IF tasksDb[t] = NoRow THEN NoRow
                       ELSE [tasksDb[t] EXCEPT !.isActive = isActive]
  BY <1>1 DEF ToggleState, Tables
<1>3. ASSUME tasksDb[t] # NoRow
      PROVE  /\ [tasksDb[t] EXCEPT !.isActive = isActive] \in Rows
             /\ [tasksDb[t] EXCEPT !.isActive = isActive].config = tasksDb[t].config
             /\ [tasksDb[t] EXCEPT !.isActive = isActive].isActive = isActive
  BY <1>1, <1>3 DEF Rows
<1> QED BY <1>2, <1>3, NoRowAssumption

LEMMA ToggleSuspendOK ==
    ASSUME RacedInv, IndInv', NEW th \in Threads, ToggleSuspend(th),
           NEW k \in TaskIds \ raced, k \notin Overlaps'
    PROVE  TaskOK(k)'
<1>1. PICK t \in TaskIds : t = calls[th].task
  BY CallFacts DEF RacedInv, IndInv, ToggleSuspend, CallOK, WithTask
<1>2. /\ \A j \in TaskIds \ {t} : tasksDb'[j] = tasksDb[j]
      /\ tasksDb'[t] # NoRow => ~tasksDb'[t].isActive
  BY <1>1, FlagStored DEF ToggleSuspend, RacedInv, IndInv
<1>3. Working(calls[th], Shown(t), tasksDb[t]) => Agree(Shown(t), tasksDb'[t])
  BY <1>2 DEF Working, Agree, ToggleSuspend
<1> QED BY <1>1, <1>2, <1>3, StatementOK DEF WithTask, ToggleSuspend

LEMMA ToggleGetOK ==
    ASSUME RacedInv, IndInv', NEW th \in Threads, ToggleGet(th),
           NEW k \in TaskIds \ raced, k \notin Overlaps'
    PROVE  TaskOK(k)'
<1>1. PICK t \in TaskIds : t = calls[th].task
  BY CallFacts DEF RacedInv, IndInv, ToggleGet, CallOK, WithTask
<1>2. calls[th].pc = "getToggled" /\ UNCHANGED <<tasksDb, agents, owner>> /\ Others(th)
  BY DEF ToggleGet, store, Goto, Finish, Others, RacedInv, IndInv, TypeOK
<1>3. CASE HasRow(tasksDb, t)
  <2>1. calls'[th].pc = "set" /\ calls'[th].task = t /\ calls'[th].row = tasksDb[t]
    <3>1. calls' = [calls EXCEPT ![th] = [calls[th] EXCEPT !.pc = "set", !.row = tasksDb[t]]]
      BY <1>1, <1>3 DEF ToggleGet, Goto
    <3> QED BY <1>1, <3>1 DEF RacedInv, IndInv, TypeOK, Calls
  <2>2. Working(calls[th], Shown(t), tasksDb[t]) => Working(calls'[th], Shown(t), tasksDb'[t])
    BY <1>2, <1>3, <2>1 DEF Working, WithTask, HasRow
  <2> QED BY <1>1, <1>2, <2>1, <2>2, StoreStepOK DEF WithTask, HandlesTask
<1>4. CASE ~HasRow(tasksDb, t)
  <2>1. Finish(th) /\ UNCHANGED tasksDb
    BY <1>1, <1>2, <1>4 DEF ToggleGet
  <2>2. Working(calls[th], Shown(t), tasksDb[t]) => Agree(Shown(t), tasksDb'[t])
    BY <1>2 DEF Working, Agree
  <2> QED BY <1>1, <1>2, <2>1, <2>2, StatementOK DEF WithTask
<1> QED BY <1>3, <1>4

LEMMA ToggleSetOK ==
    ASSUME RacedInv, IndInv', NEW th \in Threads, ToggleSet(th),
           NEW k \in TaskIds \ raced, k \notin Overlaps'
    PROVE  TaskOK(k)'
<1>1. PICK t \in TaskIds : t = calls[th].task
  BY CallFacts DEF RacedInv, IndInv, ToggleSet, CallOK, WithTask
<1>2. calls[th].pc = "set" /\ UNCHANGED <<agents, owner>> /\ calls[th].row \in Rows
  BY <1>1, CallFacts DEF ToggleSet, RacedInv, IndInv, CallOK, WithRow
<1>3. /\ \A j \in TaskIds \ {t} : tasksDb'[j] = tasksDb[j]
      /\ tasksDb'[t] = NoRow <=> tasksDb[t] = NoRow
      /\ tasksDb[t] # NoRow => tasksDb'[t].config = tasksDb[t].config
  BY <1>1, FlagStored DEF ToggleSet, RacedInv, IndInv
<1>4. CASE Goto(th, [calls[th] EXCEPT !.pc = "start"])
  <2>1. /\ calls'[th].pc = "start" /\ calls'[th].task = t /\ calls'[th].row = calls[th].row
        /\ Others(th)
    BY <1>1, <1>4 DEF Goto, Others, RacedInv, IndInv, TypeOK, Calls
  <2>2. Working(calls[th], Shown(t), tasksDb[t]) => Working(calls'[th], Shown(t), tasksDb'[t])
    BY <1>2, <1>3, <2>1 DEF Working, WithTask
  <2> QED BY <1>1, <1>2, <1>3, <2>1, <2>2, StoreStepOK DEF WithTask, HandlesTask
<1>5. CASE Finish(th)
  <2>1. Working(calls[th], Shown(t), tasksDb[t]) => Agree(Shown(t), tasksDb'[t])
    BY <1>2 DEF Working, Agree
  <2> QED BY <1>1, <1>2, <1>3, <1>5, <2>1, StatementOK DEF WithTask
<1> QED BY <1>4, <1>5 DEF ToggleSet

LEMMA ToggleStartOK ==
    ASSUME RacedInv, IndInv', NEW th \in Threads, ToggleStart(th),
           NEW k \in TaskIds \ raced, k \notin Overlaps'
    PROVE  TaskOK(k)'
<1>1. PICK t \in TaskIds : t = calls[th].task
  BY CallFacts DEF RacedInv, IndInv, ToggleStart, CallOK, WithTask
<1>2. /\ calls[th].pc = "start" /\ calls[th].agent = owner[t] /\ owner[t] \in AgentIds
      /\ calls[th].row.config \in Configs
      /\ calls[th].found = FindAgent(owner[t]) /\ FindAgent(owner[t]) # 0
  BY <1>1, CallFacts DEF RacedInv, IndInv, ToggleStart, CallOK, WithRow, WithAgent, Rows
<1>3. UNCHANGED <<tasksDb, owner>> /\ Others(th) /\ calls'[th] = Idle /\ calls'[th] # calls[th]
  BY <1>2, IdleTouchesNothing DEF ToggleStart, store, Finish, Goto, Others, RacedInv, IndInv, TypeOK
<1>4. HandlesTask(calls[th], t) /\ HandlesTask(calls'[th], t)
  BY <1>1, <1>2, <1>3 DEF HandlesTask, WithTask
<1> DEFINE id == owner[t]
           b == AssignTo(BoardOf(id), t, calls[th].row.config)
<1>5. CASE ~IsListed(BoardOf(id), t)
  <2>1. TypeOK /\ SetBoard(FindAgent(id), b) /\ BoardOf(id) \in Boards
    BY <1>1, <1>2, <1>5, FoundIsThere DEF ToggleStart, RacedInv, IndInv, BoardOf
  <2>2. SetsTask(id, t, b) /\ b \in Boards
    <3>1. \A j \in TaskIds \ {t} : b[j] = BoardOf(id)[j]
      BY <2>1 DEF AssignTo, Boards
    <3> QED BY <1>2, <2>1, <3>1, BoardOperators DEF SetsTask
  <2>3. Working(calls[th], BoardOf(id)[t], tasksDb[t]) => Working(calls'[th], b[t], tasksDb[t])
    <3>1. Working(calls[th], BoardOf(id)[t], tasksDb[t]) =>
            tasksDb[t] # NoRow /\ tasksDb[t].config = calls[th].row.config
      BY <1>2 DEF Working
    <3> QED BY <1>2, <1>3, <2>1, <3>1, AssignedAgrees
  <2> HIDE DEF b
  <2> QED BY <1>2, <1>3, <1>4, <2>2, <2>3, ListStepOK
<1>6. CASE IsListed(BoardOf(id), t)
  <2>1. UNCHANGED agents
    BY <1>1, <1>2, <1>6 DEF ToggleStart, BoardOf
  <2>2. AgentStep(t) /\ Shown(t)' = Shown(t)
    BY <1>3, <2>1, SameListsForTask DEF AgentStep
  <2>3. Connected(t) => ~Working(calls[th], Shown(t), tasksDb[t])
    BY <1>2, <1>6 DEF Connected, Shown, View, IsListed, Working
  <2> QED BY <1>3, <1>4, <2>2, <2>3, TaskStepOK
<1> QED BY <1>5, <1>6

-----------------------------------------------------------------------------
(* The invariant *)

LEMMA RestartListsNothing == Restart => NothingListed'
BY DEF Restart, NothingListed, Idle

LEMMA HandleOK ==
    ASSUME Disciplined, RacedInv, IndInv', NEW th \in Threads, Handle(th), ~NothingListed',
           NEW k \in TaskIds \ raced, k \notin Overlaps'
    PROVE  TaskOK(k)'
<1>1. CASE Create(th)
  BY <1>1, CreateAgentOK
<1>2. CASE Register(th)
  BY <1>2, RegisterKnownOK, RegisterMissingOK, RegisterLoadOK, RegisterAddOK
     DEF Register, RowsFor
<1>3. CASE Status(th)
  BY <1>3, StatusFindOK, PrepareStatusOK DEF Status
<1>4. CASE Assign(th)
  BY <1>4, SaveTaskOK, AssignGetOK, AssignToAgentOK, RestartListsNothing DEF Assign, NullRow
<1>5. CASE Edit(th)
  BY <1>5, EditInAgentOK, EditGetOK, EditUpdateOK DEF Edit
<1>6. CASE Remove(th)
  BY <1>6, RemoveInAgentOK, RemoveTaskOK DEF Remove
<1>7. CASE Toggle(th)
  BY <1>7, ToggleCancelOK, ToggleUnlistedOK, ToggleSuspendOK, ToggleGetOK, ToggleSetOK,
     ToggleStartOK DEF Toggle
<1> QED BY <1>1, <1>2, <1>3, <1>4, <1>5, <1>6, <1>7 DEF Handle

\* A handler that fails has touched its task: the others are as they were.
LEMMA DbErrorOK ==
    ASSUME RacedInv, NEW th \in Threads, DbError(th)
    PROVE  /\ Overlaps' \subseteq Overlaps
           /\ IndInv' => \A k \in TaskIds \ (raced \cup Touched(calls[th])) : TaskOK(k)'
<1>1. UNCHANGED <<tasksDb, agents, owner>> /\ calls'[th] = Idle /\ Others(th)
  BY DEF DbError, store, Finish, Goto, Others, RacedInv, IndInv, TypeOK
<1>2. Touched(calls[th])' = {}
  BY <1>1, IdleTouchesNothing DEF Touched
<1>3. \A u \in Threads \ {th} : Touched(calls[u])' = Touched(calls[u])
  BY <1>1 DEF Touched, Others
<1>4. Overlaps' \subseteq Overlaps
  BY <1>2, <1>3 DEF Overlaps
<1>5. ASSUME IndInv', NEW k \in TaskIds \ (raced \cup Touched(calls[th])) PROVE TaskOK(k)'
  BY <1>1, <1>2, <1>5, SameListsForTask, UntouchedKeeps DEF RacedInv, TaskOK
<1> QED BY <1>4, <1>5

LEMMA RacedInvInit == RacedInit => RacedInv
<1> SUFFICES ASSUME RacedInit PROVE RacedInv
  OBVIOUS
<1>1. IndInv
  BY IndInvInit DEF RacedInit
<1>2. \A th \in Threads : calls[th] = Idle
  BY DEF RacedInit, Init
<1>3. \A th \in Threads : Touched(calls[th]) = {}
  BY <1>2, IdleTouchesNothing
<1>4. agents = <<>> /\ DOMAIN agents = {} /\ \A id : ~IsConnected(id)
  BY DEF RacedInit, Init, IsConnected, FindAgent, WithId
<1>5. ASSUME NEW k \in TaskIds PROVE TaskOK(k)
  <2>1. Shown(k) = NoTask /\ ListedFirst(k)
    BY <1>4 DEF Shown, View, ListedFirst
  <2> QED BY <1>3, <2>1 DEF TaskOK, Agree
<1> QED BY <1>1, <1>3, <1>5 DEF RacedInv, Overlaps

LEMMA RacedInvNext ==
    ASSUME Disciplined, RacedInv, [RacedNext]_<<vars, raced>>
    PROVE  RacedInv'
<1>1. IndInv'
  <2>1. [Next]_vars
    BY DEF RacedNext, Next
  <2> QED BY <2>1, IndInvNext DEF RacedInv
<1>2. ASSUME NEW th \in Threads, Handle(th), raced' = StillRaced \cup Overlaps'
      PROVE  RacedInv'
  <2>1. ASSUME NEW k \in TaskIds \ raced' PROVE TaskOK(k)'
    <3>1. k \notin Overlaps' /\ (~NothingListed' => k \notin raced)
      BY <1>2, <2>1 DEF StillRaced
    <3> QED BY <1>1, <1>2, <3>1, NothingListedIsOK, HandleOK
  <2> QED BY <1>1, <1>2, <2>1 DEF RacedInv
<1>3. ASSUME NEW th \in Threads, DbError(th), raced' = raced \cup Touched(calls[th])
      PROVE  RacedInv'
  <2>1. Overlaps' \subseteq raced'
    BY <1>3, DbErrorOK DEF RacedInv
  <2>2. \A k \in TaskIds \ raced' : TaskOK(k)'
    BY <1>1, <1>3, DbErrorOK
  <2> QED BY <1>1, <2>1, <2>2 DEF RacedInv
<1>4. ASSUME Crash PROVE RacedInv'
  <2>1. NothingListed' /\ \A th \in Threads : calls'[th] = Idle
    BY <1>4, RestartListsNothing DEF Crash, Restart
  <2>2. Overlaps' = {}
    BY <2>1, IdleTouchesNothing DEF Overlaps, Touched
  <2> QED BY <1>1, <2>1, <2>2, NothingListedIsOK DEF RacedInv
<1>5. ASSUME UNCHANGED <<vars, raced>> PROVE RacedInv'
  <2>1. UNCHANGED <<agentsDb, tasksDb, agents, owner, calls, raced>>
    BY <1>5 DEF vars
  <2>2. ASSUME NEW k \in TaskIds PROVE TaskOK(k)' <=> TaskOK(k)
    <3>1. /\ ListedFirst(k)' <=> ListedFirst(k)
          /\ Shown(k)' = Shown(k) /\ (IsConnected(owner[k])' <=> IsConnected(owner[k]))
          /\ \A th \in Threads : Touched(calls[th])' = Touched(calls[th])
      BY <2>1 DEF ListedFirst, Shown, View, BoardOf, IsConnected, FindAgent, WithId, Touched
    <3> QED BY <2>1, <3>1 DEF TaskOK, IsTouched, Knows, Working, Agree
  <2>3. Overlaps' = Overlaps
    BY <2>1 DEF Overlaps, Touched
  <2> QED BY <1>1, <2>1, <2>2, <2>3 DEF RacedInv
<1> QED BY <1>2, <1>3, <1>4, <1>5 DEF RacedNext

LEMMA RacesInvariance ==
    ASSUME Disciplined
    PROVE  RacedSpec => []RacedInv
<1>1. RacedInit => RacedInv
  BY RacedInvInit
<1>2. RacedInv /\ [RacedNext]_<<vars, raced>> => RacedInv'
  BY RacedInvNext
<1> QED BY <1>1, <1>2, PTL DEF RacedSpec

-----------------------------------------------------------------------------
(* Theorems *)

\* A task in a list is the one its agent's first object shows.
LEMMA ListedIsShown ==
    ASSUME RacedInv, NEW k \in TaskIds, k \notin raced, ~IsTouched(k),
           NEW i \in DOMAIN agents, IsListed(agents[i].board, k)
    PROVE  Agree(agents[i].board[k], tasksDb[k]) /\ agents[i].board[k] # NoTask
<1>1. TaskOK(k) /\ i # 0
  BY AgentsAreObjects DEF RacedInv, IndInv
<1>2. i = FindAgent(owner[k]) /\ IsConnected(owner[k])
  BY <1>1 DEF TaskOK, ListedFirst, IsConnected
<1> QED BY <1>1, <1>2 DEF TaskOK, Shown, View, BoardOf, IsListed

\* What the server tells an agent to run is what the table says: handlers that
\* never meet on a task, and no statement that fails, keep the two in step
\* through every sequence of assignments, edits, toggles and registrations.
THEOREM ListsMatchTheTable ==
    ASSUME Disciplined
    PROVE  RacedSpec => []ListMatchesStore
<1>1. RacedInv => ListMatchesStore
  BY ListedIsShown DEF ListMatchesStore, Agree, HasRow
<1> QED BY <1>1, RacesInvariance, PTL

\* A task the agent was told to stop is not one a restart would start again.
THEOREM CancelledTasksAreStored ==
    ASSUME Disciplined
    PROVE  RacedSpec => []CancelIsStored
<1>1. RacedInv => CancelIsStored
  BY ListedIsShown DEF CancelIsStored, Agree, ListRows, HasRow
<1> QED BY <1>1, RacesInvariance, PTL
=============================================================================
