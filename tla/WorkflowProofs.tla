--------------------------- MODULE WorkflowProofs ---------------------------
(***************************************************************************)
(* Proofs about WorkflowManager, for any number of threads, agents,        *)
(* machines, tasks and configurations, with careless clients, statements   *)
(* that throw and restarts.                                                *)
(*                                                                         *)
(* A handler works from copies taken steps before: a row, a list of tasks, *)
(* the index of an Agent object.  CallOK says what each copy still means   *)
(* when it is used, in terms of owner alone, which no other handler can    *)
(* change once it is set.                                                  *)
(***************************************************************************)
EXTENDS WorkflowManager, SequenceTheorems, TLAPS

\* The vector is searched from the front, so a first match must exist; said of
\* every reachable vector, it needs no induction over its length.
IsFirst(i, id) == i \in WithId(id) /\ \A j \in WithId(id) : i <= j

FirstExists == \A id \in AgentIds : WithId(id) # {} => \E i \in WithId(id) : IsFirst(i, id)

RowsOwned == \A k \in TaskIds : HasRow(tasksDb, k) => tasksDb[k].agentId = owner[k]

WithAgent == {"load", "add", "status", "getNew", "assign", "start"}
WithTask == {"getNew", "assign", "getEdited", "update", "delete",
             "suspend", "getToggled", "set", "start"}
WithRow == {"assign", "update", "set", "start"}

\* What the local variables of a handler hold at each of its points.
CallOK(call) ==
    /\ call.pc \in WithAgent \/ call.found # 0 => call.agent \in AgentIds
    /\ call.pc \in {"status", "start"} => call.found # 0
    /\ call.pc \in WithTask => call.task \in TaskIds
    /\ call.pc = "getEdited" => call.config \in Configs
    /\ call.pc \in {"getNew", "assign"} => owner[call.task] = call.agent
    /\ call.pc \in WithRow => call.row \in Rows /\ call.row.agentId = owner[call.task]
    /\ call.pc = "start" => call.row.agentId = call.agent
    /\ call.pc = "add" =>
         \A k \in TaskIds : IsListed(call.board, k) => owner[k] = call.agent

CallsOK == \A th \in Threads : CallOK(calls[th])

IndInv ==
    /\ TypeOK
    /\ FirstExists
    /\ RowsOwned
    /\ NoForeignTasks
    /\ HeldAgentIsCurrent
    /\ CallsOK

Objects == [id : AgentIds, board : Boards]

-----------------------------------------------------------------------------
(* findAgent *)

LEMMA LeastIsUnique ==
    ASSUME NEW W \in SUBSET Nat, NEW f \in W, \A j \in W : f <= j
    PROVE  (CHOOSE i \in W : \A j \in W : i <= j) = f
<1> DEFINE least == CHOOSE i \in W : \A j \in W : i <= j
<1>1. least \in W /\ \A j \in W : least <= j
  OBVIOUS
<1> HIDE DEF least
<1>2. least = f
  BY <1>1
<1> QED BY <1>2 DEF least

LEMMA AgentsAreObjects ==
    ASSUME TypeOK
    PROVE  /\ agents \in Seq(Objects)
           /\ DOMAIN agents = 1 .. Len(agents) /\ Len(agents) \in Nat
           /\ \A i \in DOMAIN agents :
                agents[i] \in Objects /\ agents[i].id \in AgentIds /\ agents[i].board \in Boards
<1>1. agents \in Seq(Objects)
  BY DEF TypeOK, Objects
<1>2. DOMAIN agents = 1 .. Len(agents) /\ Len(agents) \in Nat
  BY <1>1, LenProperties
<1>3. \A i \in DOMAIN agents : agents[i] \in Objects
  BY <1>1, <1>2, ElementOfSeq
<1> QED BY <1>1, <1>2, <1>3 DEF Objects

\* The search returns the first object with the id, and 0 only for none.
LEMMA FindAgentIsFirst ==
    ASSUME TypeOK, FirstExists, NEW id \in AgentIds
    PROVE  /\ FindAgent(id) = 0 <=> WithId(id) = {}
           /\ \A i : FindAgent(id) = i /\ i # 0 <=> IsFirst(i, id)
<1>1. WithId(id) \subseteq Nat \ {0}
  BY AgentsAreObjects DEF WithId
<1>2. CASE WithId(id) = {}
  BY <1>2 DEF FindAgent, IsFirst
<1>3. CASE WithId(id) # {}
  <2>1. PICK i \in WithId(id) : IsFirst(i, id)
    BY <1>3 DEF FirstExists
  <2>2. \A j : IsFirst(j, id) => j = i
    BY <1>1, <2>1 DEF IsFirst
  <2>3. IsFirst(FindAgent(id), id)
    BY <1>3, <2>1 DEF FindAgent, IsFirst
  <2> QED BY <1>1, <1>3, <2>2, <2>3 DEF IsFirst
<1> QED BY <1>2, <1>3

\* An object that is found is in the vector under the id searched.
LEMMA FoundIsThere ==
    ASSUME TypeOK, FirstExists, NEW id \in AgentIds, FindAgent(id) # 0
    PROVE  /\ FindAgent(id) \in DOMAIN agents
           /\ agents[FindAgent(id)].id = id
           /\ BoardOf(id) \in Boards
<1>1. IsFirst(FindAgent(id), id)
  BY FindAgentIsFirst
<1>2. FindAgent(id) \in DOMAIN agents /\ agents[FindAgent(id)].id = id
  BY <1>1 DEF IsFirst, WithId
<1> QED BY <1>2, AgentsAreObjects DEF BoardOf

\* A search that succeeded has the same answer for as long as its first match
\* stays the first.
LEMMA FoundStays ==
    ASSUME TypeOK, FirstExists, NEW id \in AgentIds, FindAgent(id) # 0,
           WithId(id)' \in SUBSET Nat, \A i : IsFirst(i, id) => IsFirst(i, id)'
    PROVE  FindAgent(id)' = FindAgent(id)
<1> DEFINE W == WithId(id)'
<1>1. PICK f : f = FindAgent(id) /\ IsFirst(f, id)
  BY FindAgentIsFirst
<1>2. IsFirst(f, id)'
  BY <1>1
<1>3. f \in W /\ W # {} /\ \A i \in W : f <= i
  BY <1>2 DEF IsFirst
<1>4. FindAgent(id)' = CHOOSE i \in W : \A j \in W : i <= j
  BY <1>3, Zenon DEF FindAgent
<1>5. FindAgent(id)' = f
  <2>1. W \in SUBSET Nat
    OBVIOUS
  <2> HIDE DEF W
  <2> QED BY <1>3, <1>4, <2>1, LeastIsUnique
<1> QED BY <1>1, <1>5

-----------------------------------------------------------------------------
(* The board operators *)

LEMMA BoardOperators ==
    ASSUME NEW b \in Boards, NEW k \in TaskIds, NEW config \in Configs
    PROVE  /\ EmptyBoard \in Boards
           /\ \A j \in TaskIds : ~IsListed(EmptyBoard, j)
           /\ AssignTo(b, k, config) \in Boards
           /\ \A j \in TaskIds : IsListed(AssignTo(b, k, config), j) => j = k \/ IsListed(b, j)
           /\ IsListed(b, k) =>
                /\ EditOn(b, k, config) \in Boards
                /\ \A j \in TaskIds : IsListed(EditOn(b, k, config), j) => IsListed(b, j)
                /\ CancelOn(b, k) \in Boards
                /\ \A j \in TaskIds : IsListed(CancelOn(b, k), j) => IsListed(b, j)
<1>1. EmptyBoard \in Boards /\ \A j \in TaskIds : ~IsListed(EmptyBoard, j)
  BY DEF EmptyBoard, Boards, IsListed
<1>2. NewTask(k, config) \in Tasks
  BY DEF NewTask, Tasks, TaskState
<1>3. /\ AssignTo(b, k, config) \in Boards
      /\ \A j \in TaskIds : IsListed(AssignTo(b, k, config), j) => j = k \/ IsListed(b, j)
  BY <1>2 DEF AssignTo, Boards, IsListed
<1>4. ASSUME IsListed(b, k)
      PROVE  /\ EditOn(b, k, config) \in Boards
             /\ \A j \in TaskIds : IsListed(EditOn(b, k, config), j) => IsListed(b, j)
             /\ CancelOn(b, k) \in Boards
             /\ \A j \in TaskIds : IsListed(CancelOn(b, k), j) => IsListed(b, j)
  <2>1. b[k] \in Tasks
    BY <1>4 DEF Boards, IsListed
  <2>2. AcceptChanges(b[k], config) \in Tasks /\ AcceptCancel(b[k]) \in Tasks
    BY <2>1 DEF AcceptChanges, AcceptCancel, Tasks, TaskState
  <2> QED BY <1>4, <2>2 DEF EditOn, CancelOn, Boards, IsListed
<1> QED BY <1>1, <1>3, <1>4

LEMMA ConfirmedOperator ==
    ASSUME NEW b \in Boards, NEW settled \in SUBSET TaskIds, NEW cancelled \in SUBSET TaskIds
    PROVE  /\ Confirmed(b, settled, cancelled) \in Boards
           /\ \A j \in TaskIds : IsListed(Confirmed(b, settled, cancelled), j) => IsListed(b, j)
<1>1. \A j \in TaskIds : IsListed(b, j) => AcceptConfirmation(b[j]) \in Tasks
  BY DEF Boards, IsListed, AcceptConfirmation, Tasks, TaskState
<1>2. \A j \in TaskIds : b[j] \in Tasks \cup {NoTask}
  BY DEF Boards
<1> QED BY <1>1, <1>2 DEF Confirmed, Boards, IsListed

-----------------------------------------------------------------------------
(* What a step does to the vector of Agent objects *)

\* The list is one an object for this agent may hold from now on.
Fits(id, b) == \A k \in TaskIds : IsListed(b, k) => owner[k] = id /\ ~IsGone(k)

SetsBoard ==
    \E id \in AgentIds, b \in Boards :
        FindAgent(id) # 0 /\ Fits(id, b) /\ SetBoard(FindAgent(id), b)

AddsAgent ==
    \E id \in AgentIds, b \in Boards :
        Fits(id, b) /\ agents' = Append(agents, [id |-> id, board |-> b])

AgentsChange == UNCHANGED agents \/ SetsBoard \/ AddsAgent \/ Restart

OwnerKept == \A k \in TaskIds : owner[k] # NoAgent => owner'[k] = owner[k]

FoundKept == \A id \in AgentIds : FindAgent(id) # 0 => FindAgent(id)' = FindAgent(id)

ShadowsKept ==
    \A i \in DOMAIN agents : IsShadow(i) /\ i \in DOMAIN agents' => agents'[i] = agents[i]

GoneKept == \A k \in TaskIds : IsGone(k) => IsUnlisted(k)'

\* What every kind of change preserves; a restart forgets the objects found.
AgentsKept ==
    /\ agents' \in Seq(Objects)
    /\ FirstExists'
    /\ NoForeignTasks'
    /\ FoundKept \/ Restart
    /\ ShadowsKept
    /\ GoneKept

\* A list that has only lost tasks still fits the agent.
LEMMA SmallerFits ==
    ASSUME IndInv, NEW id \in AgentIds, FindAgent(id) # 0, NEW b \in Boards,
           \A k \in TaskIds : IsListed(b, k) => IsListed(BoardOf(id), k)
    PROVE  Fits(id, b)
BY FoundIsThere DEF Fits, IndInv, NoForeignTasks, IsGone, IsUnlisted, BoardOf

LEMMA SetBoardKeeps ==
    ASSUME IndInv, OwnerKept, SetsBoard
    PROVE  AgentsKept
<1>1. PICK id \in AgentIds, b \in Boards :
         FindAgent(id) # 0 /\ Fits(id, b) /\ SetBoard(FindAgent(id), b)
  BY DEF SetsBoard
<1> DEFINE f == FindAgent(id)
<1>2. f \in DOMAIN agents /\ agents[f].id = id /\ IsFirst(f, id)
  BY <1>1, FoundIsThere, FindAgentIsFirst DEF IndInv
<1>3. TypeOK /\ FirstExists
  BY DEF IndInv
<1> HIDE DEF f
<1>4. agents' = [agents EXCEPT ![f] = [agents[f] EXCEPT !.board = b]]
  BY <1>1 DEF SetBoard, f
<1>5. [agents[f] EXCEPT !.board = b] = [id |-> id, board |-> b]
  BY <1>2, <1>3, AgentsAreObjects DEF Objects
<1>6. /\ agents' \in Seq(Objects)
      /\ DOMAIN agents' = DOMAIN agents
      /\ \A i \in DOMAIN agents : agents'[i] = IF i = f THEN [id |-> id, board |-> b] ELSE agents[i]
  <2>1. [id |-> id, board |-> b] \in Objects
    BY DEF Objects
  <2> QED BY <1>2, <1>3, <1>4, <1>5, <2>1, AgentsAreObjects, ExceptSeq
<1>7. \A j \in AgentIds : WithId(j)' = WithId(j)
  BY <1>2, <1>6 DEF WithId
<1>8. FirstExists' /\ FoundKept
  <2>1. FirstExists'
    BY <1>3, <1>7 DEF FirstExists, IsFirst
  <2>2. \A j \in AgentIds : WithId(j)' \in SUBSET Nat
    BY <1>3, <1>7, AgentsAreObjects DEF WithId
  <2>3. \A j \in AgentIds : \A i : IsFirst(i, j) => IsFirst(i, j)'
    BY <1>7 DEF IsFirst
  <2> QED BY <1>3, <2>1, <2>2, <2>3, FoundStays DEF FoundKept
<1>9. NoForeignTasks'
  BY <1>1, <1>6, <1>3, AgentsAreObjects, NoAgentAssumption
     DEF NoForeignTasks, Fits, OwnerKept, IndInv
<1>10. ShadowsKept
  <2>1. ~IsShadow(f)
    BY <1>2, <1>3, AgentsAreObjects DEF IsShadow, IsFirst, WithId
  <2> QED BY <2>1, <1>6 DEF ShadowsKept
<1>11. GoneKept
  BY <1>1, <1>6 DEF GoneKept, Fits, IsGone, IsUnlisted
<1> QED BY <1>6, <1>8, <1>9, <1>10, <1>11 DEF AgentsKept

LEMMA AddAgentKeeps ==
    ASSUME IndInv, OwnerKept, AddsAgent
    PROVE  AgentsKept
<1>1. PICK id \in AgentIds, b \in Boards :
         Fits(id, b) /\ agents' = Append(agents, [id |-> id, board |-> b])
  BY DEF AddsAgent
<1> DEFINE n == Len(agents)
<1>2. TypeOK /\ FirstExists
  BY DEF IndInv
<1>3. /\ agents' \in Seq(Objects)
      /\ n \in Nat /\ DOMAIN agents = 1 .. n /\ DOMAIN agents' = 1 .. (n + 1)
      /\ \A i \in 1 .. n : agents'[i] = agents[i]
      /\ agents'[n + 1] = [id |-> id, board |-> b]
  <2>1. [id |-> id, board |-> b] \in Objects
    BY DEF Objects
  <2> QED BY <1>1, <1>2, <2>1, AgentsAreObjects, AppendProperties, LenProperties
<1> HIDE DEF n
<1>4. \A j \in AgentIds : WithId(j)' = WithId(j) \cup (IF j = id THEN {n + 1} ELSE {})
  BY <1>3 DEF WithId
<1>5. \A j \in AgentIds : WithId(j) \subseteq 1 .. n
  BY <1>3 DEF WithId
<1>6. ASSUME NEW j \in AgentIds, NEW i, IsFirst(i, j)
      PROVE  IsFirst(i, j)'
  BY <1>3, <1>4, <1>5, <1>6 DEF IsFirst
<1>7. FirstExists'
  <2> SUFFICES ASSUME NEW j \in AgentIds, WithId(j)' # {}
               PROVE  \E i \in WithId(j)' : IsFirst(i, j)'
    BY DEF FirstExists
  <2>1. CASE WithId(j) = {}
    BY <2>1, <1>3, <1>4 DEF IsFirst
  <2>2. CASE WithId(j) # {}
    <3>1. PICK i \in WithId(j) : IsFirst(i, j)
      BY <2>2, <1>2 DEF FirstExists
    <3> QED BY <3>1, <1>4, <1>6
  <2> QED BY <2>1, <2>2
<1>8. FoundKept
  <2> SUFFICES ASSUME NEW j \in AgentIds, FindAgent(j) # 0
               PROVE  FindAgent(j)' = FindAgent(j)
    BY DEF FoundKept
  <2>1. WithId(j)' \in SUBSET Nat
    BY <1>3 DEF WithId
  <2>2. \A i : IsFirst(i, j) => IsFirst(i, j)'
    BY <1>6
  <2> QED BY <1>2, <2>1, <2>2, FoundStays
<1>9. NoForeignTasks'
  BY <1>1, <1>3, <1>2, AgentsAreObjects, NoAgentAssumption
     DEF NoForeignTasks, Fits, OwnerKept, IndInv
<1>10. ShadowsKept /\ GoneKept
  BY <1>1, <1>3 DEF ShadowsKept, GoneKept, Fits, IsGone, IsUnlisted
<1> QED BY <1>3, <1>7, <1>8, <1>9, <1>10 DEF AgentsKept

LEMMA AgentsKeep ==
    ASSUME IndInv, OwnerKept, AgentsChange
    PROVE  AgentsKept
<1>1. agents \in Seq(Objects)
  BY AgentsAreObjects DEF IndInv
<1>2. CASE UNCHANGED agents
  <2>1. agents' \in Seq(Objects) /\ FirstExists' /\ FoundKept /\ ShadowsKept /\ GoneKept
    BY <1>1, <1>2
       DEF IndInv, FirstExists, IsFirst, WithId, FoundKept, FindAgent, ShadowsKept,
           GoneKept, IsGone, IsUnlisted
  <2>2. NoForeignTasks'
    BY <1>2, AgentsAreObjects, NoAgentAssumption DEF IndInv, NoForeignTasks, OwnerKept
  <2> QED BY <2>1, <2>2 DEF AgentsKept
<1>3. CASE Restart
  <2>1. agents' = <<>> /\ DOMAIN agents' = {}
    BY <1>3 DEF Restart
  <2> QED BY <1>3, <2>1
      DEF AgentsKept, FirstExists, WithId, NoForeignTasks, ShadowsKept, GoneKept, IsUnlisted
<1> QED BY <1>2, <1>3, SetBoardKeeps, AddAgentKeeps DEF AgentsChange

-----------------------------------------------------------------------------
(* Which change each step is *)

LEMMA CallFacts ==
    ASSUME IndInv, NEW th \in Threads
    PROVE  /\ calls[th] \in Calls
           /\ CallOK(calls[th])
           /\ calls[th].found # 0 => calls[th].found = FindAgent(calls[th].agent)
BY DEF IndInv, TypeOK, CallsOK, HeldAgentIsCurrent

LEMMA CancelledChanges ==
    ASSUME IndInv, NEW id \in AgentIds, NEW k \in TaskIds, Cancelled(id, k)
    PROVE  SetsBoard
<1>1. FindAgent(id) # 0 /\ BoardOf(id) \in Boards /\ IsListed(BoardOf(id), k)
  BY FoundIsThere DEF Cancelled, IsConnected, IsSettled, IndInv
<1>2. PICK config : config \in Configs
  BY <1>1 DEF Boards, IsListed, Tasks
<1>3. CancelOn(BoardOf(id), k) \in Boards /\ Fits(id, CancelOn(BoardOf(id), k))
  BY <1>1, <1>2, BoardOperators, SmallerFits
<1> QED BY <1>1, <1>3 DEF Cancelled, SetsBoard

LEMMA HandleChanges ==
    ASSUME IndInv, NEW th \in Threads, Handle(th)
    PROVE  AgentsChange
<1> DEFINE call == calls[th]
<1> USE CallFacts
<1> HIDE DEF call
<1>1. CASE Create(th)
  BY <1>1 DEF Create, CreateAgent, AgentsChange
<1>2. CASE Register(th)
  <2>1. ASSUME NEW machine \in Machines, NEW id \in RowsFor(machine), RegisterKnown(th, id)
        PROVE  SetsBoard
    <3>1. id \in AgentIds /\ FindAgent(id) # 0 /\ SetBoard(FindAgent(id), EmptyBoard)
      BY <2>1 DEF RegisterKnown, RowsFor, IsConnected
    <3>2. EmptyBoard \in Boards /\ Fits(id, EmptyBoard)
      BY DEF EmptyBoard, Boards, IsListed, Fits
    <3> QED BY <3>1, <3>2 DEF SetsBoard
  <2>2. CASE RegisterAdd(th)
    <3>1. /\ call.agent \in AgentIds /\ call.board \in Boards
          /\ \A k \in TaskIds : IsListed(call.board, k) => owner[k] = call.agent
          /\ agents' = Append(agents, [id |-> call.agent, board |-> call.board])
      BY <2>2 DEF RegisterAdd, CallOK, Calls, WithAgent, call
    <3>2. Fits(call.agent, call.board)
      BY <3>1 DEF Fits, IsGone, HasCopy, call
    <3> QED BY <3>1, <3>2 DEF AddsAgent, AgentsChange
  <2> QED BY <1>2, <2>1, <2>2 DEF Register, RegisterMissing, RegisterLoad, AgentsChange
<1>3. CASE Status(th)
  <2>1. ASSUME NEW settled \in SUBSET TaskIds, NEW cancelled \in SUBSET TaskIds,
               PrepareStatus(th, settled, cancelled)
        PROVE  SetsBoard
    <3> DEFINE b == Confirmed(BoardOf(call.agent), settled, cancelled)
    <3>1. call.agent \in AgentIds /\ FindAgent(call.agent) # 0
          /\ call.found = FindAgent(call.agent) /\ SetBoard(FindAgent(call.agent), b)
      BY <2>1 DEF PrepareStatus, CallOK, WithAgent, BoardOf, call
    <3>2. BoardOf(call.agent) \in Boards
      BY <3>1, FoundIsThere DEF IndInv
    <3>3. b \in Boards /\ Fits(call.agent, b)
      BY <3>1, <3>2, ConfirmedOperator, SmallerFits
    <3> QED BY <3>1, <3>3 DEF SetsBoard
  <2> QED BY <1>3, <2>1 DEF Status, StatusFind, AgentsChange
<1>4. CASE Assign(th)
  <2>1. CASE AssignToAgent(th)
    <3>1. /\ call.agent \in AgentIds /\ call.task \in TaskIds /\ call.row.config \in Configs
          /\ owner[call.task] = call.agent /\ call.pc = "assign"
      BY <2>1 DEF AssignToAgent, CallOK, WithAgent, WithTask, WithRow, Rows, call
    <3>2. CASE UNCHANGED agents
      BY <3>2 DEF AgentsChange
    <3>3. CASE IsConnected(call.agent)
               /\ SetBoard(FindAgent(call.agent),
                           AssignTo(BoardOf(call.agent), call.task, call.row.config))
      <4>1. FindAgent(call.agent) # 0 /\ BoardOf(call.agent) \in Boards
        BY <3>1, <3>3, FoundIsThere DEF IsConnected, IndInv
      <4>2. AssignTo(BoardOf(call.agent), call.task, call.row.config) \in Boards
        BY <3>1, <4>1, BoardOperators
      <4>3. Fits(call.agent, AssignTo(BoardOf(call.agent), call.task, call.row.config))
        <5>1. Fits(call.agent, BoardOf(call.agent))
          BY <3>1, <4>1, SmallerFits
        <5> QED BY <3>1, <4>1, <5>1, BoardOperators DEF Fits, IsGone, HasCopy, call
      <4> QED BY <3>1, <3>3, <4>1, <4>2, <4>3 DEF SetsBoard, AgentsChange
    <3> QED BY <2>1, <3>2, <3>3 DEF AssignToAgent, call
  <2>2. CASE NullRow(th)
    BY <2>2 DEF NullRow, AgentsChange
  <2> QED BY <1>4, <2>1, <2>2 DEF Assign, SaveTask, AssignGet, AgentsChange
<1>5. CASE Edit(th)
  <2>1. ASSUME NEW id \in AgentIds, NEW k \in TaskIds, NEW config \in Configs,
               EditInAgent(th, id, k, config), ~UNCHANGED agents
        PROVE  SetsBoard
    <3>1. FindAgent(id) # 0 /\ IsListed(BoardOf(id), k)
          /\ SetBoard(FindAgent(id), EditOn(BoardOf(id), k, config))
      BY <2>1 DEF EditInAgent, IsConnected, IsSettled
    <3>2. BoardOf(id) \in Boards
      BY <3>1, FoundIsThere DEF IndInv
    <3>3. EditOn(BoardOf(id), k, config) \in Boards /\ Fits(id, EditOn(BoardOf(id), k, config))
      BY <3>1, <3>2, BoardOperators, SmallerFits
    <3> QED BY <3>1, <3>3 DEF SetsBoard
  <2> QED BY <1>5, <2>1 DEF Edit, EditGet, EditUpdate, AgentsChange
<1>6. CASE Remove(th)
  BY <1>6, CancelledChanges
     DEF Remove, RemoveInAgent, NothingToCancel, RemoveTask, AgentsChange
<1>7. CASE Toggle(th)
  <2>1. CASE ToggleStart(th)
    <3> DEFINE b == AssignTo(BoardOf(call.agent), call.task, call.row.config)
    <3>1. /\ call.agent \in AgentIds /\ call.task \in TaskIds /\ call.row.config \in Configs
          /\ owner[call.task] = call.agent /\ call.pc = "start"
          /\ call.found # 0 /\ call.found = FindAgent(call.agent)
      BY <2>1 DEF ToggleStart, CallOK, WithAgent, WithTask, WithRow, Rows, call
    <3>2. UNCHANGED agents \/ SetBoard(FindAgent(call.agent), b)
      BY <2>1, <3>1 DEF ToggleStart, BoardOf, call
    <3>3. BoardOf(call.agent) \in Boards
      BY <3>1, FoundIsThere DEF IndInv
    <3>4. b \in Boards /\ Fits(call.agent, b)
      <4>1. Fits(call.agent, BoardOf(call.agent))
        BY <3>1, <3>3, SmallerFits
      <4> QED BY <3>1, <3>3, <4>1, BoardOperators DEF Fits, IsGone, HasCopy, call
    <3> QED BY <3>1, <3>2, <3>4 DEF SetsBoard, AgentsChange
  <2> QED BY <1>7, <2>1, CancelledChanges
      DEF Toggle, ToggleCancel, ToggleUnlisted, NothingToCancel, ToggleSuspend, ToggleGet,
          ToggleSet, AgentsChange
<1> QED BY <1>1, <1>2, <1>3, <1>4, <1>5, <1>6, <1>7 DEF Handle

-----------------------------------------------------------------------------
(* The tables and the history of owners *)

StoreKept ==
    /\ agentsDb' \in [AgentIds -> Machines \cup {NoMachine}]
    /\ tasksDb' \in Tables
    /\ owner' \in [TaskIds -> AgentIds \cup {NoAgent}]
    /\ OwnerKept
    /\ RowsOwned'
    /\ \A k \in TaskIds : owner[k] # NoAgent /\ ~HasRow(tasksDb, k) => ~HasRow(tasksDb', k)

LEMMA StoreUnchanged ==
    ASSUME IndInv, UNCHANGED <<agentsDb, tasksDb, owner>>
    PROVE  StoreKept
BY DEF IndInv, TypeOK, StoreKept, OwnerKept, RowsOwned, HasRow

\* Statements that rewrite rows of tasks under their owner, or delete them.
LEMMA RowRewritten ==
    ASSUME IndInv, NEW k \in TaskIds, NEW row \in Rows \cup {NoRow},
           UNCHANGED <<agentsDb, owner>>,
           tasksDb' = [tasksDb EXCEPT ![k] = row],
           row # NoRow => HasRow(tasksDb, k) /\ row.agentId = owner[k]
    PROVE  StoreKept
BY DEF IndInv, TypeOK, StoreKept, OwnerKept, RowsOwned, HasRow, Tables

LEMMA RowUpdated ==
    ASSUME IndInv, NEW k \in TaskIds, NEW row \in Rows, row.agentId = owner[k],
           UNCHANGED <<agentsDb, owner>>, tasksDb' = UpdateRow(tasksDb, k, row)
    PROVE  StoreKept
<1> DEFINE new == IF tasksDb[k] = NoRow THEN NoRow ELSE row
<1>1. tasksDb' = [tasksDb EXCEPT ![k] = new]
  BY DEF UpdateRow
<1>2. new \in Rows \cup {NoRow} /\ (new # NoRow => HasRow(tasksDb, k) /\ new.agentId = owner[k])
  BY DEF HasRow
<1> HIDE DEF new
<1> QED BY <1>1, <1>2, RowRewritten

LEMMA StateToggled ==
    ASSUME IndInv, NEW k \in TaskIds, NEW isActive \in BOOLEAN,
           UNCHANGED <<agentsDb, owner>>, tasksDb' = ToggleState(tasksDb, k, isActive)
    PROVE  StoreKept
<1> DEFINE new == IF tasksDb[k] = NoRow THEN NoRow
                  ELSE [tasksDb[k] EXCEPT !.isActive = isActive]
<1>1. tasksDb' = [tasksDb EXCEPT ![k] = new]
  BY DEF ToggleState
<1>2. tasksDb[k] \in Rows \cup {NoRow}
  BY DEF IndInv, TypeOK, Tables
<1>3. HasRow(tasksDb, k) => tasksDb[k].agentId = owner[k]
  BY DEF IndInv, RowsOwned
<1>4. new \in Rows \cup {NoRow} /\ (new # NoRow => HasRow(tasksDb, k) /\ new.agentId = owner[k])
  BY <1>2, <1>3 DEF HasRow, Rows
<1> HIDE DEF new
<1> QED BY <1>1, <1>4, RowRewritten

LEMMA HandleStores ==
    ASSUME IndInv, NEW th \in Threads, Handle(th)
    PROVE  StoreKept
<1> DEFINE call == calls[th]
<1>0. call \in Calls /\ CallOK(call)
  BY CallFacts
<1> HIDE DEF call
<1>1. CASE Create(th)
  BY <1>1 DEF Create, CreateAgent, IndInv, TypeOK, StoreKept, OwnerKept, RowsOwned, HasRow
<1>2. CASE Register(th) \/ Status(th)
  BY <1>2, StoreUnchanged
     DEF Register, RegisterKnown, RegisterMissing, RegisterLoad, RegisterAdd,
         Status, StatusFind, PrepareStatus, store
<1>3. CASE Assign(th)
  <2>1. ASSUME NEW id \in AgentIds, NEW k \in TaskIds, NEW config \in Configs,
               NEW isActive \in BOOLEAN, SaveTask(th, id, k, config, isActive)
        PROVE  StoreKept
    <3>1. Row(id, config, isActive) \in Rows /\ Row(id, config, isActive).agentId = id
      BY DEF Row, Rows
    <3>2. /\ owner[k] = NoAgent /\ owner' = [owner EXCEPT ![k] = id]
          /\ tasksDb' = [tasksDb EXCEPT ![k] = Row(id, config, isActive)]
          /\ agentsDb' = agentsDb
      BY <2>1 DEF SaveTask, InsertRow
    <3> QED BY <3>1, <3>2 DEF IndInv, TypeOK, StoreKept, OwnerKept, RowsOwned, HasRow, Tables
  <2> QED BY <1>3, <2>1, StoreUnchanged
      DEF Assign, AssignGet, AssignToAgent, NullRow, Restart, store
<1>4. CASE Edit(th)
  <2>1. CASE EditUpdate(th)
    BY <1>0, <2>1, RowUpdated DEF EditUpdate, CallOK, WithTask, WithRow, call
  <2> QED BY <1>4, <2>1, StoreUnchanged DEF Edit, EditInAgent, EditGet, store
<1>5. CASE Remove(th)
  <2>1. CASE RemoveTask(th)
    <3>1. call.task \in TaskIds /\ tasksDb' = [tasksDb EXCEPT ![call.task] = NoRow]
          /\ UNCHANGED <<agentsDb, owner>>
      BY <1>0, <2>1 DEF RemoveTask, RemoveRow, CallOK, WithTask, call
    <3> QED BY <3>1, RowRewritten
  <2> QED BY <1>5, <2>1, StoreUnchanged DEF Remove, RemoveInAgent, store
<1>6. CASE Toggle(th)
  <2>1. CASE ToggleSuspend(th)
    BY <1>0, <2>1, StateToggled DEF ToggleSuspend, CallOK, WithTask, call
  <2>2. CASE ToggleSet(th)
    <3>1. call.task \in TaskIds /\ (~call.row.isActive) \in BOOLEAN
      BY <1>0, <2>2 DEF ToggleSet, CallOK, WithTask, call
    <3>2. tasksDb' = ToggleState(tasksDb, call.task, ~call.row.isActive)
          /\ UNCHANGED <<agentsDb, owner>>
      BY <2>2 DEF ToggleSet, call
    <3> QED BY <3>1, <3>2, StateToggled
  <2> QED BY <1>6, <2>1, <2>2, StoreUnchanged
      DEF Toggle, ToggleCancel, ToggleUnlisted, ToggleGet, ToggleStart, store
<1> QED BY <1>1, <1>2, <1>3, <1>4, <1>5, <1>6 DEF Handle

-----------------------------------------------------------------------------
(* The handlers' local variables *)

\* The handler goes on with variables that mean what its next step takes them for.
GoesOn(th) ==
    \E call \in Calls :
        /\ Goto(th, call)
        /\ CallOK(call)'
        /\ call.found # 0 => call.found = FindAgent(call.agent)

LEMMA IdleIsSound == Idle \in Calls /\ CallOK(Idle) /\ CallOK(Idle)' /\ Idle.found = 0
BY DEF Idle, Calls, Points, EmptyBoard, Boards, CallOK, WithAgent, WithTask, WithRow

LEMMA FinishGoesOn ==
    ASSUME NEW th \in Threads, Finish(th)
    PROVE  GoesOn(th)
BY IdleIsSound DEF Finish, GoesOn

LEMMA GotoGoesOn ==
    ASSUME NEW th \in Threads, NEW call \in Calls, CallOK(call), UNCHANGED owner,
           call.found # 0 => call.found = FindAgent(call.agent), Goto(th, call)
    PROVE  GoesOn(th)
<1>1. CallOK(call)'
  BY DEF CallOK
<1> QED BY <1>1 DEF GoesOn

LEMMA HandleGoesOn ==
    ASSUME IndInv, NEW th \in Threads, Handle(th)
    PROVE  UNCHANGED calls \/ GoesOn(th) \/ Restart
<1> DEFINE call == calls[th]
<1>0. /\ call \in Calls /\ CallOK(call)
      /\ call.found # 0 => call.found = FindAgent(call.agent)
  BY CallFacts
<1> HIDE DEF call
<1> USE DEF CallOK, Calls, Points, WithAgent, WithTask, WithRow
<1>1. CASE Create(th)
  BY <1>1 DEF Create, CreateAgent
<1>2. CASE Register(th)
  <2>1. ASSUME NEW id \in AgentIds, RegisterMissing(th, id)
        PROVE  GoesOn(th)
    <3> DEFINE next == [Idle EXCEPT !.pc = "load", !.agent = id]
    <3>1. next \in Calls /\ CallOK(next) /\ (next.found # 0 => next.found = FindAgent(next.agent))
      BY IdleIsSound DEF Idle
    <3>2. Goto(th, next) /\ UNCHANGED owner
      BY <2>1 DEF RegisterMissing
    <3> HIDE DEF next
    <3> QED BY <3>1, <3>2, GotoGoesOn
  <2>2. CASE RegisterLoad(th)
    <3>1. call.agent \in AgentIds /\ call.pc = "load"
      BY <1>0, <2>2 DEF RegisterLoad, call
    <3>2. Loaded(call.agent) \in Boards
      BY DEF IndInv, TypeOK, Tables, Rows, Loaded, Boards, NewTask, Tasks, TaskState, ListRows, HasRow
    <3>3. \A k \in TaskIds : IsListed(Loaded(call.agent), k) => owner[k] = call.agent
      BY DEF Loaded, IsListed, ListRows, IndInv, RowsOwned
    <3> DEFINE next == [call EXCEPT !.pc = "add", !.board = Loaded(call.agent)]
    <3>4. next \in Calls /\ CallOK(next) /\ (next.found # 0 => next.found = FindAgent(next.agent))
      BY <1>0, <3>1, <3>2, <3>3 DEF Calls
    <3>5. Goto(th, next) /\ UNCHANGED owner
      BY <2>2 DEF RegisterLoad, call
    <3> HIDE DEF next
    <3> QED BY <3>4, <3>5, GotoGoesOn
  <2> QED BY <1>2, <2>1, <2>2, FinishGoesOn DEF Register, RegisterKnown, RegisterAdd, RowsFor
<1>3. CASE Status(th)
  <2>1. ASSUME NEW id \in AgentIds, StatusFind(th, id)
        PROVE  GoesOn(th)
    <3>1. FindAgent(id) \in Nat /\ FindAgent(id) # 0
      BY <2>1, FoundIsThere, AgentsAreObjects DEF StatusFind, IsConnected, IndInv
    <3> DEFINE next == [Idle EXCEPT !.pc = "status", !.agent = id, !.found = FindAgent(id)]
    <3>2. next \in Calls /\ CallOK(next) /\ (next.found # 0 => next.found = FindAgent(next.agent))
      BY <3>1, IdleIsSound DEF Idle
    <3>3. Goto(th, next) /\ UNCHANGED owner
      BY <2>1 DEF StatusFind
    <3> HIDE DEF next
    <3> QED BY <3>2, <3>3, GotoGoesOn
  <2> QED BY <1>3, <2>1, FinishGoesOn DEF Status, PrepareStatus
<1>4. CASE Assign(th)
  <2>1. ASSUME NEW id \in AgentIds, NEW k \in TaskIds, NEW config \in Configs,
               NEW isActive \in BOOLEAN, SaveTask(th, id, k, config, isActive)
        PROVE  GoesOn(th)
    <3> DEFINE next == [Idle EXCEPT !.pc = "getNew", !.agent = id, !.task = k]
    <3>1. owner'[k] = id
      BY <2>1 DEF SaveTask, IndInv, TypeOK
    <3>2. next \in Calls /\ CallOK(next)' /\ next.found = 0
      BY <3>1, IdleIsSound DEF Idle
    <3>3. Goto(th, next)
      BY <2>1 DEF SaveTask
    <3> HIDE DEF next
    <3> QED BY <3>2, <3>3 DEF GoesOn
  <2>2. CASE AssignGet(th)
    <3>1. call.task \in TaskIds /\ tasksDb[call.task] \in Rows
          /\ tasksDb[call.task].agentId = owner[call.task]
      BY <1>0, <2>2 DEF AssignGet, call, IndInv, TypeOK, Tables, HasRow, RowsOwned
    <3> DEFINE next == [call EXCEPT !.pc = "assign", !.row = tasksDb[call.task]]
    <3>2. next \in Calls /\ CallOK(next) /\ (next.found # 0 => next.found = FindAgent(next.agent))
      BY <1>0, <2>2, <3>1 DEF AssignGet, call
    <3>3. Goto(th, next) /\ UNCHANGED owner
      BY <2>2 DEF AssignGet, call
    <3> HIDE DEF next
    <3> QED BY <3>2, <3>3, GotoGoesOn
  <2> QED BY <1>4, <2>1, <2>2, FinishGoesOn DEF Assign, AssignToAgent, NullRow
<1>5. CASE Edit(th)
  <2>1. ASSUME NEW id \in AgentIds, NEW k \in TaskIds, NEW config \in Configs,
               EditInAgent(th, id, k, config)
        PROVE  GoesOn(th)
    <3> DEFINE next == [Idle EXCEPT !.pc = "getEdited", !.task = k, !.config = config]
    <3>1. next \in Calls /\ CallOK(next) /\ (next.found # 0 => next.found = FindAgent(next.agent))
      BY IdleIsSound DEF Idle
    <3>2. Goto(th, next) /\ UNCHANGED owner
      BY <2>1 DEF EditInAgent
    <3> HIDE DEF next
    <3> QED BY <3>1, <3>2, GotoGoesOn
  <2>2. CASE EditGet(th)
    <3>1. call.task \in TaskIds /\ call.config \in Configs /\ call.pc = "getEdited"
      BY <1>0, <2>2 DEF EditGet, call
    <3>2. CASE HasRow(tasksDb, call.task)
      <4>1. tasksDb[call.task] \in Rows /\ tasksDb[call.task].agentId = owner[call.task]
        BY <3>1, <3>2 DEF IndInv, TypeOK, Tables, HasRow, RowsOwned
      <4>2. [tasksDb[call.task] EXCEPT !.config = call.config] \in Rows
            /\ [tasksDb[call.task] EXCEPT !.config = call.config].agentId = owner[call.task]
        BY <3>1, <4>1 DEF Rows
      <4> DEFINE next == [call EXCEPT !.pc = "update",
                                          !.row = [tasksDb[call.task] EXCEPT !.config = call.config]]
      <4>3. next \in Calls /\ CallOK(next) /\ (next.found # 0 => next.found = FindAgent(next.agent))
        BY <1>0, <3>1, <4>2 DEF Calls
      <4>4. Goto(th, next) /\ UNCHANGED owner
        BY <2>2, <3>2 DEF EditGet, call
      <4> HIDE DEF next
      <4> QED BY <4>3, <4>4, GotoGoesOn
    <3> QED BY <2>2, <3>2, FinishGoesOn DEF EditGet, call
  <2> QED BY <1>5, <2>1, <2>2, FinishGoesOn DEF Edit, EditUpdate
<1>6. CASE Remove(th)
  <2>1. ASSUME NEW id \in AgentIds, NEW k \in TaskIds, RemoveInAgent(th, id, k)
        PROVE  GoesOn(th)
    <3> DEFINE next == [Idle EXCEPT !.pc = "delete", !.task = k]
    <3>1. next \in Calls /\ CallOK(next) /\ (next.found # 0 => next.found = FindAgent(next.agent))
      BY IdleIsSound DEF Idle
    <3>2. Goto(th, next) /\ UNCHANGED owner
      BY <2>1 DEF RemoveInAgent
    <3> HIDE DEF next
    <3> QED BY <3>1, <3>2, GotoGoesOn
  <2> QED BY <1>6, <2>1, FinishGoesOn DEF Remove, RemoveTask
<1>7. CASE Toggle(th)
  <2>1. ASSUME NEW id \in AgentIds, NEW k \in TaskIds, ToggleCancel(th, id, k)
        PROVE  GoesOn(th)
    <3> DEFINE next == [Idle EXCEPT !.pc = "suspend", !.task = k]
    <3>1. next \in Calls /\ CallOK(next) /\ (next.found # 0 => next.found = FindAgent(next.agent))
      BY IdleIsSound DEF Idle
    <3>2. Goto(th, next) /\ UNCHANGED owner
      BY <2>1 DEF ToggleCancel
    <3> HIDE DEF next
    <3> QED BY <3>1, <3>2, GotoGoesOn
  <2>2. ASSUME NEW id \in AgentIds, NEW k \in TaskIds, ToggleUnlisted(th, id, k)
        PROVE  GoesOn(th)
    <3>1. FindAgent(id) \in Nat
      BY FoundIsThere, AgentsAreObjects DEF IndInv
    <3> DEFINE next == [Idle EXCEPT !.pc = "getToggled", !.agent = id, !.task = k,
                              !.found = FindAgent(id)]
    <3>2. next \in Calls /\ CallOK(next) /\ (next.found # 0 => next.found = FindAgent(next.agent))
      BY <3>1, IdleIsSound DEF Idle
    <3>3. Goto(th, next) /\ UNCHANGED owner
      BY <2>2 DEF ToggleUnlisted
    <3> HIDE DEF next
    <3> QED BY <3>2, <3>3, GotoGoesOn
  <2>3. CASE ToggleGet(th)
    <3>1. call.task \in TaskIds /\ call.pc = "getToggled"
      BY <1>0, <2>3 DEF ToggleGet, call
    <3>2. CASE HasRow(tasksDb, call.task)
      <4>1. tasksDb[call.task] \in Rows /\ tasksDb[call.task].agentId = owner[call.task]
        BY <3>1, <3>2 DEF IndInv, TypeOK, Tables, HasRow, RowsOwned
      <4> DEFINE next == [call EXCEPT !.pc = "set", !.row = tasksDb[call.task]]
      <4>2. next \in Calls /\ CallOK(next) /\ (next.found # 0 => next.found = FindAgent(next.agent))
        BY <1>0, <3>1, <4>1 DEF Calls
      <4>3. Goto(th, next) /\ UNCHANGED owner
        BY <2>3, <3>2 DEF ToggleGet, call
      <4> HIDE DEF next
      <4> QED BY <4>2, <4>3, GotoGoesOn
    <3> QED BY <2>3, <3>2, FinishGoesOn DEF ToggleGet, call
  <2>4. CASE ToggleSet(th)
    <3>1. CASE ToBeStarted(call)
      <4>1. call.found # 0 /\ call.row.agentId = call.agent /\ call.agent \in AgentIds
        BY <1>0, <3>1, FoundIsThere DEF ToBeStarted, IndInv
      <4> DEFINE next == [call EXCEPT !.pc = "start"]
      <4>2. next \in Calls /\ CallOK(next) /\ (next.found # 0 => next.found = FindAgent(next.agent))
        BY <1>0, <2>4, <4>1 DEF ToggleSet, call
      <4>3. Goto(th, next) /\ UNCHANGED owner
        BY <2>4, <3>1 DEF ToggleSet, call
      <4> HIDE DEF next
      <4> QED BY <4>2, <4>3, GotoGoesOn
    <3> QED BY <2>4, <3>1, FinishGoesOn DEF ToggleSet, call
  <2> QED BY <1>7, <2>1, <2>2, <2>3, <2>4, FinishGoesOn DEF Toggle, ToggleSuspend, ToggleStart
<1> QED BY <1>1, <1>2, <1>3, <1>4, <1>5, <1>6, <1>7 DEF Handle

-----------------------------------------------------------------------------
(* The invariant *)

LEMMA OthersStayOK ==
    ASSUME IndInv, OwnerKept, NEW th \in Threads, UNCHANGED calls[th]
    PROVE  CallOK(calls[th])'
<1>1. CallOK(calls[th]) /\ calls[th] \in Calls
  BY CallFacts
<1>2. \A id \in AgentIds, k \in TaskIds : owner[k] = id => owner'[k] = id
  BY NoAgentAssumption DEF OwnerKept
<1> QED BY <1>1, <1>2 DEF CallOK, WithAgent, WithTask, WithRow, Rows

LEMMA NextKeeps ==
    ASSUME IndInv, [Next]_vars
    PROVE  /\ StoreKept
           /\ AgentsChange
           /\ UNCHANGED calls \/ Restart \/ \E th \in Threads : GoesOn(th)
<1>1. ASSUME NEW th \in Threads, Handle(th)
      PROVE  /\ StoreKept
             /\ AgentsChange
             /\ UNCHANGED calls \/ Restart \/ GoesOn(th)
  BY <1>1, HandleChanges, HandleStores, HandleGoesOn
<1>2. ASSUME NEW th \in Threads, DbError(th)
      PROVE  StoreKept /\ AgentsChange /\ GoesOn(th)
  BY <1>2, StoreUnchanged, FinishGoesOn DEF DbError, AgentsChange, store
<1>3. CASE Crash
  BY <1>3, StoreUnchanged DEF Crash, Restart, AgentsChange, store
<1>4. CASE UNCHANGED vars
  BY <1>4, StoreUnchanged DEF vars, AgentsChange
<1> QED BY <1>1, <1>2, <1>3, <1>4 DEF Next

\* Handlers read copies of rows that are there only.
LEMMA HandleCopies ==
    ASSUME IndInv, NEW th \in Threads, Handle(th), NEW k \in TaskIds, IsGone(k)
    PROVE  \A u \in Threads : ~HasCopy(calls[u], k)'
<1> DEFINE call == calls[th]
<1>0. /\ calls \in [Threads -> Calls] /\ \A u \in Threads : ~HasCopy(calls[u], k)
      /\ ~HasRow(tasksDb, k) /\ ~HasCopy(call, k)
  BY DEF IndInv, TypeOK, IsGone
<1> HIDE DEF call
<1>1. CASE UNCHANGED calls \/ Restart \/ Finish(th)
  BY <1>0, <1>1, IdleIsSound DEF Restart, Finish, Goto, HasCopy, Idle, EmptyBoard, IsListed
<1>2. ASSUME NEW next, Goto(th, next), ~HasCopy(next, k)
      PROVE  \A u \in Threads : ~HasCopy(calls[u], k)'
  BY <1>0, <1>2 DEF Goto, HasCopy
<1>3. \A next : next.board = EmptyBoard /\ next.pc \notin {"assign", "set", "start"} =>
        ~HasCopy(next, k)
  BY DEF HasCopy, EmptyBoard, IsListed
<1>4. \A next : next.board = call.board /\ next.task = call.task
               /\ (next.pc \in {"assign", "set", "start"} => HasRow(tasksDb, call.task)) =>
        ~HasCopy(next, k)
  BY <1>0 DEF HasCopy
<1>5. CASE Register(th)
  <2>1. ASSUME NEW id, RegisterMissing(th, id)
        PROVE  \A u \in Threads : ~HasCopy(calls[u], k)'
    <3> DEFINE next == [Idle EXCEPT !.pc = "load", !.agent = id]
    <3>1. ~HasCopy(next, k)
      BY <1>3 DEF Idle
    <3> HIDE DEF next
    <3> QED BY <2>1, <3>1, <1>2 DEF RegisterMissing, next
  <2>2. CASE RegisterLoad(th)
    <3> DEFINE next == [call EXCEPT !.pc = "add", !.board = Loaded(call.agent)]
    <3>1. ~IsListed(Loaded(call.agent), k)
      BY <1>0 DEF Loaded, ListRows, IsListed
    <3>2. next.pc = "add" /\ next.board = Loaded(call.agent)
      BY <1>0 DEF Calls, call
    <3>3. Goto(th, next)
      BY <2>2 DEF RegisterLoad, call
    <3> HIDE DEF next
    <3>4. ~HasCopy(next, k)
      BY <3>1, <3>2 DEF HasCopy
    <3> QED BY <3>3, <3>4, <1>2
  <2> QED BY <1>5, <2>1, <2>2, <1>1 DEF Register, RegisterKnown, RegisterAdd
<1>6. CASE Create(th) \/ Status(th)
  <2>1. ASSUME NEW id, StatusFind(th, id)
        PROVE  \A u \in Threads : ~HasCopy(calls[u], k)'
    <3> DEFINE next == [Idle EXCEPT !.pc = "status", !.agent = id, !.found = FindAgent(id)]
    <3>1. ~HasCopy(next, k)
      BY <1>3 DEF Idle
    <3> HIDE DEF next
    <3> QED BY <2>1, <3>1, <1>2 DEF StatusFind, next
  <2> QED BY <1>6, <2>1, <1>1 DEF Create, CreateAgent, Status, PrepareStatus
<1>7. CASE Assign(th)
  <2>1. ASSUME NEW id, NEW j, NEW config, NEW isActive, SaveTask(th, id, j, config, isActive)
        PROVE  \A u \in Threads : ~HasCopy(calls[u], k)'
    <3> DEFINE next == [Idle EXCEPT !.pc = "getNew", !.agent = id, !.task = j]
    <3>1. ~HasCopy(next, k)
      BY <1>3 DEF Idle
    <3> HIDE DEF next
    <3> QED BY <2>1, <3>1, <1>2 DEF SaveTask, next
  <2>2. CASE AssignGet(th)
    <3> DEFINE next == [call EXCEPT !.pc = "assign", !.row = tasksDb[call.task]]
    <3>1. next.board = call.board /\ next.task = call.task /\ HasRow(tasksDb, call.task)
      BY <1>0, <2>2 DEF AssignGet, Calls, call
    <3>2. Goto(th, next)
      BY <2>2 DEF AssignGet, call
    <3> HIDE DEF next
    <3> QED BY <3>1, <3>2, <1>2, <1>4
  <2> QED BY <1>7, <2>1, <2>2, <1>1 DEF Assign, AssignToAgent, NullRow
<1>8. CASE Edit(th)
  <2>1. ASSUME NEW id, NEW j, NEW config, EditInAgent(th, id, j, config)
        PROVE  \A u \in Threads : ~HasCopy(calls[u], k)'
    <3> DEFINE next == [Idle EXCEPT !.pc = "getEdited", !.task = j, !.config = config]
    <3>1. ~HasCopy(next, k)
      BY <1>3 DEF Idle
    <3> HIDE DEF next
    <3> QED BY <2>1, <3>1, <1>2 DEF EditInAgent, next
  <2>2. CASE EditGet(th) /\ ~Finish(th)
    <3> DEFINE next == [call EXCEPT !.pc = "update",
                              !.row = [tasksDb[call.task] EXCEPT !.config = call.config]]
    <3>1. next.board = call.board /\ next.task = call.task /\ next.pc = "update"
      BY <1>0 DEF Calls, call
    <3>2. Goto(th, next)
      BY <2>2 DEF EditGet, call
    <3> HIDE DEF next
    <3> QED BY <3>1, <3>2, <1>2, <1>4
  <2> QED BY <1>8, <2>1, <2>2, <1>1 DEF Edit, EditUpdate
<1>9. CASE Remove(th)
  <2>1. ASSUME NEW id, NEW j, RemoveInAgent(th, id, j)
        PROVE  \A u \in Threads : ~HasCopy(calls[u], k)'
    <3> DEFINE next == [Idle EXCEPT !.pc = "delete", !.task = j]
    <3>1. ~HasCopy(next, k)
      BY <1>3 DEF Idle
    <3> HIDE DEF next
    <3> QED BY <2>1, <3>1, <1>2 DEF RemoveInAgent, next
  <2> QED BY <1>9, <2>1, <1>1 DEF Remove, RemoveTask
<1>10. CASE Toggle(th)
  <2>1. ASSUME NEW id, NEW j, ToggleCancel(th, id, j)
        PROVE  \A u \in Threads : ~HasCopy(calls[u], k)'
    <3> DEFINE next == [Idle EXCEPT !.pc = "suspend", !.task = j]
    <3>1. ~HasCopy(next, k)
      BY <1>3 DEF Idle
    <3> HIDE DEF next
    <3> QED BY <2>1, <3>1, <1>2 DEF ToggleCancel, next
  <2>2. ASSUME NEW id, NEW j, ToggleUnlisted(th, id, j)
        PROVE  \A u \in Threads : ~HasCopy(calls[u], k)'
    <3> DEFINE next == [Idle EXCEPT !.pc = "getToggled", !.agent = id, !.task = j,
                              !.found = FindAgent(id)]
    <3>1. ~HasCopy(next, k)
      BY <1>3 DEF Idle
    <3> HIDE DEF next
    <3> QED BY <2>2, <3>1, <1>2 DEF ToggleUnlisted, next
  <2>3. CASE ToggleGet(th) /\ ~Finish(th)
    <3> DEFINE next == [call EXCEPT !.pc = "set", !.row = tasksDb[call.task]]
    <3>1. next.board = call.board /\ next.task = call.task /\ HasRow(tasksDb, call.task)
      BY <1>0, <2>3 DEF ToggleGet, Calls, call
    <3>2. Goto(th, next)
      BY <2>3 DEF ToggleGet, call
    <3> HIDE DEF next
    <3> QED BY <3>1, <3>2, <1>2, <1>4
  <2>4. CASE ToggleSet(th) /\ ~Finish(th)
    <3> DEFINE next == [call EXCEPT !.pc = "start"]
    <3>1. call.pc = "set" /\ next.board = call.board /\ next.task = call.task
      BY <1>0, <2>4 DEF ToggleSet, Calls, call
    <3>2. Goto(th, next)
      BY <2>4 DEF ToggleSet, call
    <3> HIDE DEF next
    <3>3. ~HasCopy(next, k)
      BY <1>0, <3>1 DEF HasCopy
    <3> QED BY <3>2, <3>3, <1>2
  <2> QED BY <1>10, <2>1, <2>2, <2>3, <2>4, <1>1 DEF Toggle, ToggleSuspend, ToggleStart
<1> QED BY <1>5, <1>6, <1>7, <1>8, <1>9, <1>10 DEF Handle

\* A deleted task outside the lists stays so: without a row there is nothing a
\* handler could read, and only a copy of a row is ever listed.
LEMMA GoneStays ==
    ASSUME IndInv, [Next]_vars, NEW k \in TaskIds, IsGone(k)
    PROVE  IsGone(k)'
<1>1. StoreKept /\ AgentsKept
  BY NextKeeps, AgentsKeep DEF StoreKept
<1>2. owner'[k] # NoAgent /\ ~HasRow(tasksDb', k) /\ IsUnlisted(k)'
  BY <1>1 DEF StoreKept, OwnerKept, AgentsKept, GoneKept, IsGone, IsUnlisted
<1>3. ASSUME NEW th \in Threads, DbError(th) \/ Restart
      PROVE  \A u \in Threads : ~HasCopy(calls[u], k)'
  BY <1>3
     DEF IndInv, TypeOK, IsGone, DbError, Restart, Finish, Goto, HasCopy, Idle, EmptyBoard, IsListed
<1>4. ASSUME UNCHANGED calls PROVE \A u \in Threads : ~HasCopy(calls[u], k)'
  BY <1>4 DEF IsGone, HasCopy
<1>5. \A u \in Threads : ~HasCopy(calls[u], k)'
  BY <1>3, <1>4, HandleCopies DEF Next, Crash, vars
<1> QED BY <1>2, <1>5 DEF IsGone

LEMMA IndInvInit == Init => IndInv
<1> SUFFICES ASSUME Init PROVE IndInv
  OBVIOUS
<1>1. agents = <<>> /\ DOMAIN agents = {} /\ agents \in Seq(Objects)
  BY EmptySeq DEF Init
<1>2. TypeOK
  BY <1>1, IdleIsSound DEF Init, TypeOK, EmptyTable, Tables, Objects
<1>3. FirstExists /\ NoForeignTasks
  BY <1>1 DEF FirstExists, WithId, NoForeignTasks
<1>4. RowsOwned
  BY DEF Init, RowsOwned, HasRow, EmptyTable
<1>5. HeldAgentIsCurrent /\ CallsOK
  BY IdleIsSound DEF Init, HeldAgentIsCurrent, CallsOK
<1> QED BY <1>2, <1>3, <1>4, <1>5 DEF IndInv

LEMMA IndInvNext == IndInv /\ [Next]_vars => IndInv'
<1> SUFFICES ASSUME IndInv, [Next]_vars PROVE IndInv'
  OBVIOUS
<1>1. StoreKept /\ OwnerKept /\ AgentsKept
  BY NextKeeps, AgentsKeep DEF StoreKept
<1>2. calls' \in [Threads -> Calls] /\ CallsOK' /\ HeldAgentIsCurrent'
  <2>1. CASE Restart
    BY <2>1, IdleIsSound DEF Restart, CallsOK, HeldAgentIsCurrent
  <2>2. CASE UNCHANGED calls /\ ~Restart
    <3>1. calls' \in [Threads -> Calls] /\ CallsOK'
      BY <1>1, <2>2, OthersStayOK DEF IndInv, TypeOK, CallsOK
    <3>2. HeldAgentIsCurrent'
      BY <1>1, <2>2, CallFacts DEF HeldAgentIsCurrent, AgentsKept, FoundKept, CallOK
    <3> QED BY <3>1, <3>2
  <2>3. ASSUME NEW th \in Threads, GoesOn(th), ~Restart
        PROVE  calls' \in [Threads -> Calls] /\ CallsOK' /\ HeldAgentIsCurrent'
    <3>1. PICK call \in Calls : /\ calls' = [calls EXCEPT ![th] = call]
                                /\ CallOK(call)'
                                /\ call.found # 0 => call.found = FindAgent(call.agent)
      BY <2>3 DEF GoesOn, Goto
    <3>2. calls \in [Threads -> Calls]
      BY DEF IndInv, TypeOK
    <3>3. calls'[th] = call /\ \A u \in Threads \ {th} : calls'[u] = calls[u]
      BY <3>1, <3>2
    <3>4. CallsOK'
      <4>1. \A u \in Threads \ {th} : CallOK(calls[u])'
        BY <1>1, <3>3, OthersStayOK
      <4>2. CallOK(calls[th])'
        BY <3>1, <3>3 DEF CallOK
      <4> QED BY <4>1, <4>2 DEF CallsOK
    <3>5. HeldAgentIsCurrent'
      <4>1. call.found # 0 => call.agent \in AgentIds
        BY <3>1 DEF CallOK
      <4>2. FoundKept
        BY <1>1, <2>3 DEF AgentsKept
      <4>3. call.found # 0 => call.found = FindAgent(call.agent)'
        BY <3>1, <4>1, <4>2 DEF FoundKept
      <4>4. \A u \in Threads \ {th} :
              calls[u].found # 0 => calls[u].found = FindAgent(calls[u].agent)'
        BY <3>3, <4>2, CallFacts DEF FoundKept, CallOK
      <4> QED BY <3>3, <4>3, <4>4 DEF HeldAgentIsCurrent
    <3> QED BY <3>1, <3>2, <3>4, <3>5
  <2> QED BY <2>1, <2>2, <2>3, NextKeeps
<1> QED BY <1>1, <1>2 DEF IndInv, TypeOK, StoreKept, AgentsKept, Objects

\* The inductive invariant holds in every reachable state.
THEOREM Invariance == Spec => []IndInv
BY IndInvInit, IndInvNext, PTL DEF Spec

-----------------------------------------------------------------------------
(* The theorems *)

\* The tables, the objects and the variables of every handler keep their types.
THEOREM TypeCorrect == Spec => []TypeOK
<1>1. IndInv => TypeOK
  BY DEF IndInv
<1> QED BY <1>1, Invariance, PTL

\* An Agent object lists only tasks created for its own agent, however many
\* clients name whatever tasks through it at once.
THEOREM TasksStayWithTheirAgent == Spec => []NoForeignTasks
<1>1. IndInv => NoForeignTasks
  BY DEF IndInv
<1> QED BY <1>1, Invariance, PTL

\* The pointer a handler got from findAgent stays the answer of findAgent.
THEOREM FoundAgentStaysCurrent == Spec => []HeldAgentIsCurrent
<1>1. IndInv => HeldAgentIsCurrent
  BY DEF IndInv
<1> QED BY <1>1, Invariance, PTL

\* The second object a registration race leaves for an agent is never touched.
THEOREM ShadowsStayInert == Spec => ShadowAgentsInert
<1>1. IndInv /\ [Next]_vars => ShadowsKept
  BY NextKeeps, AgentsKeep DEF StoreKept, AgentsKept
<1>2. IndInv /\ [Next]_vars =>
        [\A i \in DOMAIN agents :
            IsShadow(i) /\ i \in DOMAIN agents' => agents'[i] = agents[i]]_vars
  BY <1>1 DEF ShadowsKept
<1> QED BY <1>2, Invariance, PTL DEF Spec, ShadowAgentsInert

\* No handler brings back a row that another has deleted.
THEOREM DeletedRowsStayDeleted == Spec => RowNeverReturns
<1>1. IndInv /\ [Next]_vars =>
        [\A k \in TaskIds :
            owner[k] # NoAgent /\ ~HasRow(tasksDb, k) => ~HasRow(tasksDb', k)]_vars
  BY NextKeeps DEF StoreKept
<1> QED BY <1>1, Invariance, PTL DEF Spec, RowNeverReturns

\* A deleted task that has left the lists stays so, whatever names it.
THEOREM GoneTasksStayGone == Spec => DeletedTasksStayGone
<1>1. IndInv /\ [Next]_vars => [\A k \in TaskIds : IsGone(k) => IsGone(k)']_vars
  BY GoneStays
<1> QED BY <1>1, Invariance, PTL DEF Spec, DeletedTasksStayGone

\* Once a deleted task has left the lists, no behaviour ever lists it again,
\* however many toggles, registrations, confirmations and restarts follow.
THEOREM NeverListedAgain ==
    ASSUME NEW k \in TaskIds
    PROVE  Spec => [](IsGone(k) => []IsUnlisted(k))
<1>1. IndInv /\ IsGone(k) /\ [Next]_vars => IsGone(k)'
  BY GoneStays
<1>2. IsGone(k) => IsUnlisted(k)
  BY DEF IsGone
<1> QED BY <1>1, <1>2, Invariance, PTL DEF Spec

=============================================================================
