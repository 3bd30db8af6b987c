--------------------------- MODULE ProtocolProofs ---------------------------
(***************************************************************************)
(* Proofs about AgentProtocol, for any tasks and configurations, with      *)
(* commands that fail, lost messages and restarts of either side: the      *)
(* types for any agent, the rest for one that sends each confirmation once.*)
(* Then that it takes every task through the life TaskLife describes.      *)
(*                                                                         *)
(* A busy task waits for exactly one exchange: its command, the agent's    *)
(* carrying it out, its confirmation.  CommandOK and ConfirmationOK say    *)
(* that what is under way is still about the state the task is in.         *)
(***************************************************************************)
EXTENDS AgentProtocol, TLAPS

\* The confirmations that may still reach the server.
Pending == unsent \cup (IF wire.kind = "request" THEN wire.confirmations ELSE {})

Waits(k) == IsListed(board, k) /\ IsBusy(board[k])

\* The command is the one the task calls for.
CommandOK(c) == Waits(c.taskId) /\ c \in ConstructCommand(board[c.taskId])

\* What the agent runs once it has carried out the command of the task.
Wanted(task) == IF task.state = "Cancelling" THEN NoConfig ELSE task.config

\* The confirmation is of the command the task calls for, and true.
ConfirmationOK(c) ==
    /\ Waits(c.taskId)
    /\ c.type = CommandFor(board[c.taskId].state)
    /\ c.taskId \notin failed => running[c.taskId] = Wanted(board[c.taskId])

BoardOK ==
    /\ \A k \in TaskIds : IsListed(board, k) => board[k].id = k /\ k \in assigned
    /\ \A k \in TaskIds : HasRow(tasksDb, k) => k \in assigned
    /\ ~registered => board = EmptyBoard

PhaseOK ==
    /\ wire # Nothing => phase = "waiting"
    /\ phase # "ready" => unsent = {}

\* After a restart of the server nothing under way matters: the agent is refused.
ExchangeOK ==
    registered =>
        /\ wire.kind = "response" => \A c \in wire.commands : CommandOK(c)
        /\ \A c \in Pending : ConfirmationOK(c)

\* What holds of any agent.
Structure == TypeOK /\ BoardOK

Shape == Structure /\ PhaseOK
IndInv == Shape /\ ExchangeOK /\ ActiveMeansCollecting

-----------------------------------------------------------------------------
(* Tasks and boards *)

LEMMA TaskOperators ==
    ASSUME NEW t \in Tasks, NEW k \in TaskIds, NEW config \in Configs
    PROVE  /\ NewTask(k, config) \in Tasks /\ NewTask(k, config).id = k
           /\ NewTask(k, config).state = "Creating"
           /\ AcceptChanges(t, config) \in Tasks /\ AcceptChanges(t, config).id = t.id
           /\ AcceptChanges(t, config).state = "Changing"
           /\ AcceptCancel(t) \in Tasks /\ AcceptCancel(t).id = t.id
           /\ AcceptCancel(t).state = "Cancelling"
           /\ AcceptConfirmation(t) \in Tasks /\ AcceptConfirmation(t).id = t.id
           /\ AcceptConfirmation(t).state = "Running"
           /\ AcceptConfirmation(t).config = t.config
BY DEF NewTask, AcceptChanges, AcceptCancel, AcceptConfirmation, Tasks, TaskState

LEMMA ListedIsTask ==
    ASSUME TypeOK, NEW k \in TaskIds, IsListed(board, k)
    PROVE  board[k] \in Tasks
BY DEF TypeOK, Boards, IsListed

LEMMA CommandOfTask ==
    ASSUME NEW t \in Tasks, NEW c \in ConstructCommand(t)
    PROVE  /\ c \in Commands
           /\ c.taskId = t.id /\ c.type = CommandFor(t.state) /\ c.payload = Wanted(t)
           /\ IsBusy(t)
           /\ c.type \in {"Add", "Change"} <=> t.state \in {"Creating", "Changing"}
           /\ c.type = "Cancel" <=> t.state = "Cancelling"
BY DEF ConstructCommand, Commands, Tasks, TaskState, CommandFor, CommandType, Wanted, IsBusy

LEMMA ConfirmedBoard ==
    ASSUME TypeOK, NEW settled \in SUBSET TaskIds, NEW cancelled \in SUBSET TaskIds,
           board' = Confirmed(board, settled, cancelled)
    PROVE  /\ board' \in Boards
           /\ \A k \in TaskIds : IsListed(board', k) =>
                /\ IsListed(board, k) /\ k \notin cancelled
                /\ board'[k] = IF k \in settled THEN AcceptConfirmation(board[k]) ELSE board[k]
<1>1. \A k \in TaskIds : IsListed(board, k) => AcceptConfirmation(board[k]) \in Tasks
  BY ListedIsTask DEF AcceptConfirmation, Tasks, TaskState
<1>2. \A k \in TaskIds : board[k] \in Tasks \cup {NoTask}
  BY DEF TypeOK, Boards
<1> QED BY <1>1, <1>2 DEF Confirmed, Boards, IsListed

-----------------------------------------------------------------------------
(* The Tasks table *)

LEMMA RowStatements ==
    ASSUME NEW table \in Tables, NEW k \in TaskIds, NEW row \in Rows, NEW flag \in BOOLEAN
    PROVE  /\ InsertRow(table, k, row) \in Tables
           /\ UpdateRow(table, k, row) \in Tables
           /\ ToggleState(table, k, flag) \in Tables
           /\ RemoveRow(table, k) \in Tables
           /\ \A j \in TaskIds : HasRow(InsertRow(table, k, row), j) => j = k \/ HasRow(table, j)
           /\ \A j \in TaskIds : HasRow(UpdateRow(table, k, row), j) => HasRow(table, j)
           /\ \A j \in TaskIds : HasRow(ToggleState(table, k, flag), j) => HasRow(table, j)
           /\ \A j \in TaskIds : HasRow(RemoveRow(table, k), j) => HasRow(table, j)
<1>1. table[k] # NoRow => [table[k] EXCEPT !.isActive = flag] \in Rows
  BY DEF Tables, Rows
<1> QED BY <1>1, NoRowAssumption
    DEF Tables, InsertRow, UpdateRow, ToggleState, RemoveRow, HasRow

-----------------------------------------------------------------------------
(* The structure holds whatever the agent sends, confirmations sent again  *)
(* included.                                                               *)

Operator ==
    \/ \E k \in TaskIds, config \in Configs :
         \/ \E isActive \in BOOLEAN : AssignTask(k, config, isActive)
         \/ EditTask(k, config)
    \/ \E k \in TaskIds : RemoveTask(k) \/ ToggleListed(k) \/ ToggleUnlisted(k)

\* Writing one task of the list and statements on rows of assigned tasks.
LEMMA WriteKeeps ==
    ASSUME Structure, registered, NEW k \in TaskIds, NEW t \in Tasks, t.id = k,
           k \in assigned', board' = [board EXCEPT ![k] = t],
           UNCHANGED <<registered, wire, agent>>,
           tasksDb' \in Tables, assigned' \in SUBSET TaskIds, assigned \subseteq assigned',
           \A j \in TaskIds : HasRow(tasksDb', j) => j \in assigned'
    PROVE  Structure'
<1>1. board \in Boards
  BY DEF Structure, TypeOK
<1>2. board' \in Boards /\ \A j \in TaskIds : board'[j] = IF j = k THEN t ELSE board[j]
  BY <1>1 DEF Boards
<1>3. TypeOK'
  BY <1>2 DEF Structure, TypeOK, agent
<1>4. BoardOK'
  BY <1>2 DEF Structure, BoardOK, IsListed
<1> QED BY <1>3, <1>4 DEF Structure

LEMMA RowsKeep ==
    ASSUME Structure, UNCHANGED <<registered, board, wire, agent>>,
           tasksDb' \in Tables, assigned' \in SUBSET TaskIds, assigned \subseteq assigned',
           \A j \in TaskIds : HasRow(tasksDb', j) => j \in assigned'
    PROVE  Structure'
BY DEF Structure, TypeOK, BoardOK, agent

LEMMA OperatorStructure ==
    ASSUME Structure, Operator
    PROVE  Structure'
<1>1. /\ TypeOK /\ tasksDb \in Tables /\ board \in Boards /\ assigned \in SUBSET TaskIds
      /\ registered \in BOOLEAN
  BY DEF Structure, TypeOK
<1>2. \A j \in TaskIds : HasRow(tasksDb, j) => j \in assigned
  BY DEF Structure, BoardOK
<1>3. ASSUME NEW k \in TaskIds, IsListed(board, k)
      PROVE  registered /\ board[k] \in Tasks /\ board[k].id = k /\ k \in assigned
  BY <1>1, <1>3, ListedIsTask DEF Structure, BoardOK, EmptyBoard, IsListed
<1>4. ASSUME NEW k \in TaskIds, NEW config \in Configs
      PROVE  NewTask(k, config) \in Tasks /\ NewTask(k, config).id = k
  BY <1>4 DEF NewTask, Tasks, TaskState
<1>5. ASSUME NEW k \in TaskIds, NEW config \in Configs, NEW isActive \in BOOLEAN,
             AssignTask(k, config, isActive)
      PROVE  Structure'
  <2>1. Row(AgentId, config, isActive) \in Rows
    BY AgentIdAssumption DEF Row, Rows
  <2>2. tasksDb' \in Tables /\ \A j \in TaskIds : HasRow(tasksDb', j) => j \in assigned'
    BY <1>1, <1>2, <1>5, <2>1, RowStatements DEF AssignTask
  <2>3. assigned' = assigned \cup {k} /\ UNCHANGED <<registered, wire, agent>>
    BY <1>5 DEF AssignTask
  <2>4. CASE registered
    <3>1. board' = [board EXCEPT ![k] = NewTask(k, config)]
      BY <1>5, <2>4 DEF AssignTask, AssignTo
    <3> QED BY <1>1, <1>4, <2>2, <2>3, <2>4, <3>1, WriteKeeps
  <2>5. CASE ~registered
    BY <1>1, <1>5, <2>2, <2>3, <2>5, RowsKeep DEF AssignTask
  <2> QED BY <2>4, <2>5
<1>6. ASSUME NEW k \in TaskIds, NEW config \in Configs, EditTask(k, config)
      PROVE  Structure'
  <2> DEFINE row == [tasksDb[k] EXCEPT !.config = config]
  <2>1. row \in Rows
    BY <1>1, <1>6 DEF EditTask, HasRow, Tables, Rows
  <2>2. tasksDb' = UpdateRow(tasksDb, k, row) /\ UNCHANGED <<registered, wire, agent, assigned>>
    BY <1>6 DEF EditTask
  <2> HIDE DEF row
  <2>3. tasksDb' \in Tables /\ \A j \in TaskIds : HasRow(tasksDb', j) => j \in assigned'
    BY <1>1, <1>2, <2>1, <2>2, RowStatements
  <2>4. CASE registered
    <3> DEFINE t == AcceptChanges(board[k], config)
    <3>1. IsListed(board, k) /\ board' = [board EXCEPT ![k] = t]
      BY <1>6, <2>4 DEF EditTask, IsSettled, EditOn
    <3>2. t \in Tasks /\ t.id = k /\ k \in assigned'
      BY <1>3, <2>2, <3>1, TaskOperators
    <3> HIDE DEF t
    <3> QED BY <1>1, <2>2, <2>3, <2>4, <3>1, <3>2, WriteKeeps
  <2>5. CASE ~registered
    BY <1>1, <1>6, <2>2, <2>3, <2>5, RowsKeep DEF EditTask
  <2> QED BY <2>4, <2>5
<1>7. ASSUME NEW k \in TaskIds, IsSettled(board, k), board' = CancelOn(board, k),
             tasksDb' \in Tables, \A j \in TaskIds : HasRow(tasksDb', j) => j \in assigned',
             UNCHANGED <<registered, wire, agent, assigned>>
      PROVE  Structure'
  <2>1. IsListed(board, k) /\ board' = [board EXCEPT ![k] = AcceptCancel(board[k])]
    BY <1>7 DEF IsSettled, CancelOn
  <2>2. AcceptCancel(board[k]) \in Tasks /\ AcceptCancel(board[k]).id = k
    <3>1. PICK config : config \in Configs
      BY <1>3, <2>1 DEF Tasks
    <3> QED BY <1>3, <2>1, <3>1, TaskOperators
  <2> QED BY <1>1, <1>3, <1>7, <2>1, <2>2, WriteKeeps
<1>8. ASSUME NEW k \in TaskIds, RemoveTask(k)
      PROVE  Structure'
  <2>1. tasksDb' \in Tables /\ \A j \in TaskIds : HasRow(tasksDb', j) => j \in assigned'
    BY <1>1, <1>2, <1>8 DEF RemoveTask, RemoveRow, Tables, HasRow
  <2>2. CASE UNCHANGED board
    BY <1>1, <1>8, <2>1, <2>2, RowsKeep DEF RemoveTask
  <2> QED BY <1>7, <1>8, <2>1, <2>2 DEF RemoveTask
<1>9. ASSUME NEW k \in TaskIds, ToggleListed(k)
      PROVE  Structure'
  <2>1. tasksDb' \in Tables /\ \A j \in TaskIds : HasRow(tasksDb', j) => j \in assigned'
    BY <1>1, <1>2, <1>9 DEF ToggleListed, ToggleState, Tables, HasRow, Rows
  <2> QED BY <1>7, <1>9, <2>1 DEF ToggleListed
<1>10. ASSUME NEW k \in TaskIds, ToggleUnlisted(k)
       PROVE  Structure'
  <2>1. tasksDb[k] \in Rows /\ k \in assigned
    BY <1>1, <1>2, <1>10 DEF ToggleUnlisted, Tables, HasRow
  <2>2. tasksDb' \in Tables /\ \A j \in TaskIds : HasRow(tasksDb', j) => j \in assigned'
    BY <1>1, <1>2, <1>10 DEF ToggleUnlisted, ToggleState, Tables, HasRow, Rows
  <2>3. UNCHANGED <<registered, wire, agent, assigned>>
    BY <1>10 DEF ToggleUnlisted
  <2>4. CASE UNCHANGED board
    BY <1>1, <2>2, <2>3, <2>4, RowsKeep
  <2>5. CASE registered /\ board' = AssignTo(board, k, tasksDb[k].config)
    <3>1. board' = [board EXCEPT ![k] = NewTask(k, tasksDb[k].config)]
          /\ tasksDb[k].config \in Configs
      BY <2>1, <2>5 DEF AssignTo, Rows
    <3> QED BY <1>1, <1>4, <2>1, <2>2, <2>3, <2>5, <3>1, WriteKeeps
  <2> QED BY <1>10, <2>4, <2>5 DEF ToggleUnlisted
<1> QED BY <1>5, <1>6, <1>8, <1>9, <1>10 DEF Operator

-----------------------------------------------------------------------------
(* The list after a registration: no task of it runs. *)

LEMMA FreshList ==
    ASSUME Structure
    PROVE  /\ ListOfRegistration \in Boards
           /\ \A k \in TaskIds : IsListed(ListOfRegistration, k) =>
                /\ ListOfRegistration[k].id = k
                /\ ListOfRegistration[k].state = "Creating"
                /\ k \in assigned
<1>1. tasksDb \in Tables
  BY DEF Structure, TypeOK
<1>2. CASE registered
  BY <1>2 DEF ListOfRegistration, EmptyBoard, Boards, IsListed
<1>3. CASE ~registered
  <2>1. \A k \in TaskIds : HasRow(tasksDb, k) =>
          NewTask(k, tasksDb[k].config) \in Tasks /\ NewTask(k, tasksDb[k].config).id = k
          /\ NewTask(k, tasksDb[k].config).state = "Creating"
    BY <1>1 DEF Tables, Rows, HasRow, NewTask, Tasks, TaskState
  <2>2. ListOfRegistration = Loaded
    BY <1>3 DEF ListOfRegistration
  <2>3. \A k \in TaskIds : Loaded[k] =
          IF k \in ListRows(tasksDb, AgentId, TRUE) THEN NewTask(k, tasksDb[k].config) ELSE NoTask
    BY DEF Loaded
  <2>4. \A k \in ListRows(tasksDb, AgentId, TRUE) : k \in TaskIds /\ HasRow(tasksDb, k)
    BY DEF ListRows
  <2>5. Loaded \in Boards
    BY <2>1, <2>4 DEF Loaded, Boards
  <2> QED BY <2>1, <2>2, <2>3, <2>4, <2>5 DEF IsListed, Structure, BoardOK
<1> QED BY <1>2, <1>3

-----------------------------------------------------------------------------
(* What the exchange does to the structure *)

LEMMA RegistrationStructure ==
    ASSUME Structure, Register \/ RegisterUnanswered
    PROVE  Structure'
<1>1. /\ wire' = wire /\ registered' = TRUE /\ board' = ListOfRegistration
      /\ UNCHANGED <<tasksDb, assigned>>
  BY DEF Register, RegisterUnanswered, RegisterAgent
<1>2. /\ phase' \in {"registering", "ready", "waiting"} /\ unsent' \subseteq Confirmations
      /\ running' \in [TaskIds -> Configs \cup {NoConfig}] /\ failed' \subseteq TaskIds
  BY DEF Register, RegisterUnanswered, Structure, TypeOK, NothingRuns, agent
<1> QED BY <1>1, <1>2, FreshList DEF Structure, TypeOK, BoardOK

LEMMA BoardAfterStatus ==
    ASSUME Structure, StatusAgent
    PROVE  /\ board' \in Boards
           /\ \A k \in TaskIds : IsListed(board', k) =>
                /\ IsListed(board, k) /\ board'[k] \in Tasks /\ board'[k].id = k
           /\ \A c \in CommandsOf(board') : \E k \in TaskIds :
                /\ IsListed(board', k) /\ c \in ConstructCommand(board'[k])
                /\ c \in Commands /\ c.taskId = k /\ IsBusy(board'[k])
<1>1. TypeOK /\ \A k \in TaskIds : IsListed(board, k) =>
          /\ board[k] \in Tasks /\ board[k].id = k
          /\ AcceptConfirmation(board[k]) \in Tasks /\ AcceptConfirmation(board[k]).id = k
  BY ListedIsTask DEF Structure, BoardOK, AcceptConfirmation, Tasks, TaskState
<1>2. \E settled, cancelled \in SUBSET TaskIds : board' = Confirmed(board, settled, cancelled)
  BY DEF StatusAgent, OfType
<1>3. /\ board' \in Boards
      /\ \A k \in TaskIds : IsListed(board', k) =>
           IsListed(board, k) /\ board'[k] \in {board[k], AcceptConfirmation(board[k])}
  BY <1>1, <1>2, ConfirmedBoard
<1>4. \A k \in TaskIds : IsListed(board', k) =>
        IsListed(board, k) /\ board'[k] \in Tasks /\ board'[k].id = k
  BY <1>1, <1>3
<1>5. ASSUME NEW c \in CommandsOf(board')
      PROVE  \E k \in TaskIds :
               /\ IsListed(board', k) /\ c \in ConstructCommand(board'[k])
               /\ c \in Commands /\ c.taskId = k /\ IsBusy(board'[k])
  <2>1. PICK k \in TaskIds : IsListed(board', k) /\ c \in ConstructCommand(board'[k])
    BY DEF CommandsOf
  <2> QED BY <1>4, <2>1, CommandOfTask
<1> QED BY <1>3, <1>4, <1>5

LEMMA StatusStructure ==
    ASSUME Structure, StatusAgent
    PROVE  Structure'
<1>1. /\ wire' = StatusResponse(CommandsOf(board')) /\ UNCHANGED <<tasksDb, registered, agent, assigned>>
      /\ registered
  BY DEF StatusAgent
<1>2. wire'.kind = "response" /\ wire'.commands \subseteq Commands
  BY <1>1, BoardAfterStatus DEF StatusResponse
<1>3. TypeOK'
  BY <1>1, <1>2, BoardAfterStatus DEF Structure, TypeOK, agent
<1>4. BoardOK'
  BY <1>1, BoardAfterStatus DEF Structure, BoardOK
<1> QED BY <1>3, <1>4 DEF Structure

LEMMA ReceiveStructure ==
    ASSUME Structure, Receive
    PROVE  Structure'
<1> DEFINE commands == wire.commands
<1>1. PICK failures \in SUBSET {c \in commands : c.taskId \in Fallible} :
         /\ running' = [k \in TaskIds |->
              IF k \in TasksOf(commands \ failures)
              THEN (CHOOSE c \in commands : c.taskId = k).payload ELSE running[k]]
         /\ unsent' = {[taskId |-> c.taskId, type |-> c.type, isConfirmed |-> c \notin failures] :
                         c \in commands}
         /\ failed' = (failed \ TasksOf(commands)) \cup TasksOf(failures)
  BY DEF Receive
<1>2. /\ wire.kind = "response" /\ phase' = "ready" /\ wire' = Nothing
      /\ UNCHANGED <<tasksDb, registered, board, assigned>>
  BY DEF Receive, server
<1>3. commands \in SUBSET Commands /\ TypeOK
  BY <1>2 DEF Structure, TypeOK, Nothing, Refusal
<1> HIDE DEF commands
<1>4. \A c \in commands : c.taskId \in TaskIds /\ c.type \in CommandType
                          /\ c.payload \in Configs \cup {NoConfig}
  BY <1>3 DEF Commands
<1>5. TypeOK'
  <2>1. running' \in [TaskIds -> Configs \cup {NoConfig}]
    <3>1. \A k \in TasksOf(commands \ failures) :
            (CHOOSE c \in commands : c.taskId = k).payload \in Configs \cup {NoConfig}
      <4> TAKE k \in TasksOf(commands \ failures)
      <4>1. \E c \in commands : c.taskId = k
        BY DEF TasksOf
      <4>2. (CHOOSE c \in commands : c.taskId = k) \in commands
        BY <4>1
      <4> QED BY <1>4, <4>2
    <3>2. running \in [TaskIds -> Configs \cup {NoConfig}]
      BY <1>3 DEF TypeOK
    <3>3. \A k \in TaskIds :
            (IF k \in TasksOf(commands \ failures)
             THEN (CHOOSE c \in commands : c.taskId = k).payload ELSE running[k])
            \in Configs \cup {NoConfig}
      BY <3>1, <3>2
    <3> QED BY <1>1, <3>3
  <2>2. unsent' \subseteq Confirmations
    <3> SUFFICES ASSUME NEW d \in unsent' PROVE d \in Confirmations
      OBVIOUS
    <3>1. PICK c \in commands :
            d = [taskId |-> c.taskId, type |-> c.type, isConfirmed |-> c \notin failures]
      BY <1>1
    <3>2. c.taskId \in TaskIds /\ c.type \in CommandType /\ (c \notin failures) \in BOOLEAN
      BY <1>4
    <3> QED BY <3>1, <3>2 DEF Confirmations
  <2>3. failed' \subseteq TaskIds
    BY <1>1, <1>3, <1>4 DEF TypeOK, TasksOf
  <2> QED BY <1>2, <1>3, <2>1, <2>2, <2>3 DEF TypeOK
<1> QED BY <1>2, <1>5 DEF Structure, BoardOK

LEMMA QuietStructure ==
    ASSUME Structure,
           \/ StatusRefused \/ ServerRestart \/ SendStatus \/ ReceiveRefusal
           \/ Disconnect \/ AgentRestart \/ UNCHANGED vars
    PROVE  Structure'
<1>1. CASE ServerRestart
  <2>1. EmptyBoard \in Boards /\ \A k \in TaskIds : ~IsListed(EmptyBoard, k)
    BY DEF EmptyBoard, Boards, IsListed
  <2> QED BY <1>1, <2>1 DEF ServerRestart, Structure, TypeOK, BoardOK, agent
<1>2. CASE ~ServerRestart
  <2>1. UNCHANGED server
    BY <1>2 DEF StatusRefused, SendStatus, ReceiveRefusal, Disconnect, AgentRestart, vars
  <2>2. \/ wire' \in {Nothing, Refusal} \/ UNCHANGED wire
        \/ wire' = StatusRequest(unsent)
    BY <1>2 DEF StatusRefused, SendStatus, ReceiveRefusal, Disconnect, AgentRestart, vars
  <2>3. \/ wire' \in {Nothing, Refusal}
        \/ wire'.kind = "request" /\ wire'.confirmations \subseteq Confirmations
        \/ wire'.kind = "response" /\ wire'.commands \subseteq Commands
    BY <2>2 DEF Structure, TypeOK, StatusRequest
  <2>4. /\ phase' \in {"registering", "ready", "waiting"} /\ unsent' \subseteq Confirmations
        /\ running' \in [TaskIds -> Configs \cup {NoConfig}] /\ failed' \subseteq TaskIds
    BY <1>2 DEF StatusRefused, SendStatus, ReceiveRefusal, Disconnect, AgentRestart, vars, agent,
                Structure, TypeOK, NothingRuns
  <2> QED BY <2>1, <2>3, <2>4 DEF Structure, TypeOK, BoardOK, server
<1> QED BY <1>1, <1>2

LEMMA StructureNext == Structure /\ [Next]_vars => Structure'
<1> SUFFICES ASSUME Structure, [Next]_vars PROVE Structure'
  OBVIOUS
<1>1. CASE Exchange
  BY <1>1, StatusStructure, RegistrationStructure, ReceiveStructure, QuietStructure DEF Exchange
<1>2. CASE Disturbance
  BY <1>2, OperatorStructure, RegistrationStructure, QuietStructure DEF Disturbance, Operator
<1> QED BY <1>1, <1>2, QuietStructure DEF Next

-----------------------------------------------------------------------------
(* From here on the agent sends each confirmation once.  A task that an    *)
(* operator writes was settled or not listed, and waits for the agent      *)
(* afterwards: nothing under way was about it.                             *)

LEMMA OperatorKeeps ==
    ASSUME IndInv, Structure', NEW k \in TaskIds, ~Waits(k),
           NEW t \in Tasks, t.state # "Running",
           board' = [board EXCEPT ![k] = t],
           UNCHANGED <<registered, wire, agent>>
    PROVE  IndInv'
<1>1. \A j \in TaskIds : board'[j] = IF j = k THEN t ELSE board[j]
  BY DEF IndInv, Shape, Structure, TypeOK, Boards
<1>2. Shape'
  BY DEF IndInv, Shape, PhaseOK, agent
<1>3. \A j \in TaskIds : Waits(j) => board'[j] = board[j]
  BY <1>1
<1>4. \A c \in Pending : c.taskId \in TaskIds
  BY DEF Pending, IndInv, Shape, Structure, TypeOK, Confirmations, Nothing, Refusal
<1>5. wire.kind = "response" => \A c \in wire.commands : c.taskId \in TaskIds
  BY DEF IndInv, Shape, Structure, TypeOK, Commands, Nothing, Refusal
<1>6. Pending' = Pending
  BY DEF Pending, agent
<1>7. ExchangeOK'
  <2>1. ASSUME registered, NEW c \in Pending
        PROVE  ConfirmationOK(c)'
    BY <1>3, <1>4, <2>1 DEF IndInv, ExchangeOK, ConfirmationOK, Waits, IsListed, agent
  <2>2. ASSUME registered, wire.kind = "response", NEW c \in wire.commands
        PROVE  CommandOK(c)'
    BY <1>3, <1>5, <2>2 DEF IndInv, ExchangeOK, CommandOK, Waits, IsListed
  <2> QED BY <1>6, <2>1, <2>2 DEF ExchangeOK
<1>8. ActiveMeansCollecting'
  BY <1>1 DEF IndInv, ActiveMeansCollecting, GetStatus, IsListed, agent
<1> QED BY <1>2, <1>7, <1>8 DEF IndInv

\* Statements on the table alone touch nothing of the exchange.
LEMMA TableKeeps ==
    ASSUME IndInv, Structure', UNCHANGED <<registered, board, wire, agent>>
    PROVE  IndInv'
<1>1. Shape'
  BY DEF IndInv, Shape, PhaseOK, agent
<1>2. ExchangeOK'
  BY DEF IndInv, ExchangeOK, CommandOK, ConfirmationOK, Pending, Waits, agent
<1>3. ActiveMeansCollecting'
  BY DEF IndInv, ActiveMeansCollecting, agent
<1> QED BY <1>1, <1>2, <1>3 DEF IndInv

LEMMA OperatorStep ==
    ASSUME IndInv, Structure', Operator
    PROVE  IndInv'
<1>1. UNCHANGED <<registered, wire, agent>>
  BY DEF Operator, AssignTask, EditTask, RemoveTask, ToggleListed, ToggleUnlisted
<1>2. TypeOK /\ \A k \in TaskIds : HasRow(tasksDb, k) => tasksDb[k].config \in Configs
  BY DEF IndInv, Shape, Structure, TypeOK, Tables, Rows, HasRow
<1>3. \A k \in TaskIds : IsListed(board, k) => board[k] \in Tasks
  BY <1>2, ListedIsTask
<1>4. ASSUME NEW k \in TaskIds, NEW config \in Configs, ~IsListed(board, k),
             board' = AssignTo(board, k, config)
      PROVE  IndInv'
  BY <1>1, <1>4, OperatorKeeps DEF AssignTo, Waits, NewTask, Tasks, TaskState
<1>5. ASSUME NEW k \in TaskIds, NEW config \in Configs, IsSettled(board, k),
             board' = EditOn(board, k, config)
      PROVE  IndInv'
  BY <1>1, <1>3, <1>5, OperatorKeeps, TaskOperators DEF EditOn, IsSettled, Waits
<1>6. ASSUME NEW k \in TaskIds, IsSettled(board, k), board' = CancelOn(board, k)
      PROVE  IndInv'
  <2>1. PICK config : config \in Configs
    BY <1>3, <1>6 DEF IsSettled, Tasks
  <2> QED BY <1>1, <1>3, <1>6, <2>1, OperatorKeeps, TaskOperators DEF CancelOn, IsSettled, Waits
<1>7. ASSUME UNCHANGED board
      PROVE  IndInv'
  BY <1>1, <1>7, TableKeeps
<1>8. \A k \in TaskIds : IsListed(board, k) => k \in assigned
  BY DEF IndInv, Shape, Structure, BoardOK
<1> QED BY <1>2, <1>4, <1>5, <1>6, <1>7, <1>8
        DEF Operator, AssignTask, EditTask, RemoveTask, ToggleListed, ToggleUnlisted

-----------------------------------------------------------------------------
(* Registrations *)

LEMMA RegistrationStep ==
    ASSUME IndInv, Structure', Register \/ RegisterUnanswered
    PROVE  IndInv'
<1>1. /\ phase = "registering" /\ wire = Nothing /\ unsent = {} /\ wire' = wire /\ unsent' = {}
      /\ board' = ListOfRegistration
  BY DEF Register, RegisterUnanswered, RegisterAgent, IndInv, Shape, PhaseOK, agent
<1>2. Shape'
  BY <1>1 DEF Shape, PhaseOK
<1>3. ExchangeOK'
  BY <1>1 DEF ExchangeOK, Pending, Nothing
<1>4. ActiveMeansCollecting'
  BY <1>1, FreshList DEF IndInv, Shape, ActiveMeansCollecting, GetStatus
<1> QED BY <1>2, <1>3, <1>4 DEF IndInv

-----------------------------------------------------------------------------
(* A status request *)

Settled == OfType(wire.confirmations, {"Add", "Change"})
Dropped == OfType(wire.confirmations, {"Cancel"})

\* Each confirmation meets its task in the state it is about.
LEMMA ConfirmedTasks ==
    ASSUME IndInv, StatusAgent
    PROVE  /\ Settled \in SUBSET TaskIds /\ Dropped \in SUBSET TaskIds
           /\ \A k \in Settled :
                /\ Waits(k) /\ board[k].state \in {"Creating", "Changing"}
                /\ k \notin failed => running[k] = board[k].config
           /\ board' = Confirmed(board, Settled, Dropped)
<1>1. wire.kind = "request" /\ registered /\ TypeOK
  BY DEF StatusAgent, IndInv, Shape, Structure
<1>2. \A c \in wire.confirmations : c \in Pending /\ ConfirmationOK(c)
  BY <1>1 DEF IndInv, ExchangeOK, Pending
<1>3. Settled \in SUBSET TaskIds /\ Dropped \in SUBSET TaskIds
  BY DEF Settled, Dropped, OfType
<1>4. ASSUME NEW k \in Settled
      PROVE  /\ Waits(k) /\ board[k].state \in {"Creating", "Changing"}
             /\ k \notin failed => running[k] = board[k].config
  <2>1. PICK c \in wire.confirmations : c.taskId = k /\ c.type \in {"Add", "Change"}
    BY DEF Settled, OfType
  <2>2. ConfirmationOK(c) /\ Waits(k) /\ c.type = CommandFor(board[k].state)
    BY <1>2, <2>1 DEF ConfirmationOK
  <2>3. board[k] \in Tasks /\ IsBusy(board[k])
    BY <1>1, <1>3, <2>2, ListedIsTask DEF Waits
  <2>4. board[k].state \in {"Creating", "Changing"}
    BY <2>1, <2>2, <2>3 DEF Tasks, TaskState, IsBusy, CommandFor
  <2> QED BY <2>1, <2>2, <2>4 DEF ConfirmationOK, Wanted
<1> QED BY <1>3, <1>4 DEF StatusAgent, Settled, Dropped

LEMMA StatusStep ==
    ASSUME IndInv, Structure', StatusAgent
    PROVE  IndInv'
<1>1. /\ TypeOK /\ Structure /\ registered /\ phase = "waiting" /\ unsent = {}
      /\ wire' = StatusResponse(CommandsOf(board')) /\ UNCHANGED <<tasksDb, registered, assigned>>
      /\ UNCHANGED <<phase, running, unsent, failed>>
  BY DEF StatusAgent, IndInv, Shape, Structure, PhaseOK, Nothing, agent
<1>2. wire'.kind = "response" /\ wire'.commands = CommandsOf(board')
  BY <1>1 DEF StatusResponse
<1>3. \A c \in CommandsOf(board') : CommandOK(c)'
  BY <1>1, BoardAfterStatus DEF CommandOK, Waits
<1>4. Shape'
  BY <1>1 DEF Shape, PhaseOK
<1>5. ExchangeOK'
  BY <1>1, <1>2, <1>3 DEF ExchangeOK, Pending
<1>6. \A k \in TaskIds : IsListed(board', k) =>
        /\ IsListed(board, k)
        /\ board'[k] = IF k \in Settled THEN AcceptConfirmation(board[k]) ELSE board[k]
  BY <1>1, ConfirmedTasks, ConfirmedBoard
<1>7. ActiveMeansCollecting'
  <2> SUFFICES ASSUME NEW k \in TaskIds \ failed, IsListed(board', k), GetStatus(board'[k]) = "Active"
               PROVE  running[k] = board'[k].config
    BY <1>1 DEF ActiveMeansCollecting
  <2>1. CASE k \in Settled
    <3>1. board[k] \in Tasks /\ board'[k] = AcceptConfirmation(board[k])
      BY <1>1, <1>6, <2>1, ListedIsTask
    <3>2. board'[k].config = board[k].config
      BY <3>1 DEF AcceptConfirmation, Tasks
    <3> QED BY <2>1, <3>2, ConfirmedTasks
  <2>2. CASE k \notin Settled
    BY <1>1, <1>6, <2>2 DEF IndInv, ActiveMeansCollecting
  <2> QED BY <2>1, <2>2
<1> QED BY <1>4, <1>5, <1>7 DEF IndInv

\* Every other step of the server.
LEMMA ServerStep ==
    ASSUME IndInv, Structure', StatusRefused \/ ServerRestart
    PROVE  IndInv'
<1>1. CASE StatusRefused
  <2>1. wire' = Refusal /\ phase = "waiting" /\ unsent = {}
    BY <1>1 DEF StatusRefused, IndInv, Shape, PhaseOK, Nothing
  <2>2. Shape'
    BY <1>1, <2>1 DEF StatusRefused, Shape, PhaseOK, agent
  <2>3. ExchangeOK'
    BY <1>1, <2>1 DEF StatusRefused, ExchangeOK, server
  <2>4. ActiveMeansCollecting'
    BY <1>1 DEF StatusRefused, IndInv, ActiveMeansCollecting, server, agent
  <2> QED BY <2>2, <2>3, <2>4 DEF IndInv
<1>2. CASE ServerRestart
  <2>1. board' = EmptyBoard /\ registered' = FALSE /\ UNCHANGED <<wire, agent>>
    BY <1>2 DEF ServerRestart
  <2>2. \A k \in TaskIds : ~IsListed(EmptyBoard, k)
    BY DEF EmptyBoard, IsListed
  <2>3. Shape'
    BY <2>1 DEF IndInv, Shape, PhaseOK, agent
  <2> QED BY <2>1, <2>2, <2>3 DEF IndInv, ExchangeOK, ActiveMeansCollecting
<1> QED BY <1>1, <1>2

-----------------------------------------------------------------------------
(* The agent *)

LEMMA SendStep ==
    ASSUME IndInv, Structure', ~Resends, SendStatus
    PROVE  IndInv'
<1>1. /\ phase' = "waiting" /\ wire' = StatusRequest(unsent) /\ unsent' = {} /\ wire = Nothing
      /\ UNCHANGED <<tasksDb, registered, board, assigned, running, failed>>
  BY DEF SendStatus, IndInv, Shape, PhaseOK, server
<1>2. wire'.kind = "request" /\ wire'.confirmations = unsent
  BY <1>1 DEF StatusRequest
<1>3. Shape'
  BY <1>1 DEF Shape, PhaseOK
<1>4. Pending' = Pending
  BY <1>1, <1>2 DEF Pending, Nothing
<1>5. \A c : ConfirmationOK(c)' <=> ConfirmationOK(c)
  BY <1>1 DEF ConfirmationOK, Waits
<1>6. ExchangeOK'
  BY <1>1, <1>2, <1>4, <1>5 DEF IndInv, ExchangeOK
<1>7. phase # "registering" /\ ActiveMeansCollecting'
  BY <1>1 DEF IndInv, ActiveMeansCollecting, SendStatus
<1> QED BY <1>3, <1>6, <1>7 DEF IndInv

LEMMA ReceiveStep ==
    ASSUME IndInv, Structure', Receive
    PROVE  IndInv'
<1> DEFINE commands == wire.commands
<1>1. PICK failures \in SUBSET {c \in commands : c.taskId \in Fallible} :
         /\ running' = [k \in TaskIds |->
              IF k \in TasksOf(commands \ failures)
              THEN (CHOOSE c \in commands : c.taskId = k).payload ELSE running[k]]
         /\ unsent' = {[taskId |-> c.taskId, type |-> c.type, isConfirmed |-> c \notin failures] :
                         c \in commands}
         /\ failed' = (failed \ TasksOf(commands)) \cup TasksOf(failures)
  BY DEF Receive
<1>2. /\ wire.kind = "response" /\ phase = "waiting" /\ phase' = "ready" /\ wire' = Nothing
      /\ UNCHANGED <<tasksDb, registered, board, assigned>>
  BY DEF Receive, IndInv, Shape, PhaseOK, Nothing, server
<1>3. commands \in SUBSET Commands /\ TypeOK
  BY <1>2 DEF IndInv, Shape, Structure, TypeOK, Nothing, Refusal
<1> HIDE DEF commands
<1>4. \A c \in commands : c.taskId \in TaskIds /\ c.type \in CommandType
                          /\ c.payload \in Configs \cup {NoConfig}
  BY <1>3 DEF Commands
<1>5. ASSUME registered, NEW c \in commands
      PROVE  /\ CommandOK(c) /\ Waits(c.taskId)
             /\ c.type = CommandFor(board[c.taskId].state)
             /\ c.payload = Wanted(board[c.taskId])
  <2>1. CommandOK(c)
    BY <1>2, <1>5 DEF IndInv, ExchangeOK, commands
  <2>2. board[c.taskId] \in Tasks
    BY <1>3, <1>4, <2>1, ListedIsTask DEF CommandOK, Waits
  <2> QED BY <2>1, <2>2, CommandOfTask DEF CommandOK
<1>6. Shape'
  BY <1>2 DEF Shape, PhaseOK
<1>7. ExchangeOK'
  <2> SUFFICES ASSUME registered, NEW d \in unsent'
               PROVE  ConfirmationOK(d)'
    BY <1>2 DEF ExchangeOK, Pending, Nothing
  <2>1. PICK c \in commands :
          d = [taskId |-> c.taskId, type |-> c.type, isConfirmed |-> c \notin failures]
    BY <1>1
  <2>2. d.taskId = c.taskId /\ d.type = c.type
    BY <2>1
  <2>3. /\ Waits(d.taskId) /\ d.type = CommandFor(board[d.taskId].state)
    BY <1>5, <2>2
  <2>4. ASSUME d.taskId \notin failed'
        PROVE  running'[d.taskId] = Wanted(board[d.taskId])
    <3>1. c \notin failures
      BY <1>1, <2>2, <2>4 DEF TasksOf
    <3>2. d.taskId \in TasksOf(commands \ failures) /\ d.taskId \in TaskIds
      BY <1>4, <2>2, <3>1 DEF TasksOf
    <3>3. running'[d.taskId] = (CHOOSE b \in commands : b.taskId = d.taskId).payload
      BY <1>1, <3>2
    <3>4. (CHOOSE b \in commands : b.taskId = d.taskId) \in commands
          /\ (CHOOSE b \in commands : b.taskId = d.taskId).taskId = d.taskId
      BY <2>2
    <3> QED BY <1>5, <3>3, <3>4
  <2> QED BY <1>2, <2>3, <2>4 DEF ConfirmationOK, Waits
<1>8. ActiveMeansCollecting'
  <2> SUFFICES ASSUME NEW k \in TaskIds \ failed', IsListed(board, k), GetStatus(board[k]) = "Active"
               PROVE  running'[k] = board[k].config
    BY <1>2 DEF ActiveMeansCollecting
  <2>1. registered
    BY DEF IndInv, Shape, Structure, BoardOK, EmptyBoard, IsListed
  <2>2. ~Waits(k)
    BY DEF GetStatus, Waits, IsBusy
  <2>3. k \notin TasksOf(commands) /\ k \notin TasksOf(commands \ failures)
    BY <1>5, <2>1, <2>2 DEF TasksOf
  <2>4. k \notin failed /\ running'[k] = running[k]
    BY <1>1, <2>3
  <2> QED BY <1>2, <2>4 DEF IndInv, ActiveMeansCollecting
<1> QED BY <1>6, <1>7, <1>8 DEF IndInv

\* Steps that only forget what is under way.
LEMMA ForgetStep ==
    ASSUME IndInv, Structure', ReceiveRefusal \/ Disconnect \/ AgentRestart
    PROVE  IndInv'
<1>1. /\ wire' = Nothing /\ unsent' = {} /\ UNCHANGED <<registered, board>>
  BY DEF ReceiveRefusal, Disconnect, AgentRestart, IndInv, Shape, PhaseOK, Refusal, Nothing, server
<1>2. Shape'
  BY <1>1 DEF Shape, PhaseOK
<1>3. ExchangeOK'
  BY <1>1 DEF ExchangeOK, Pending, Nothing
<1>4. ActiveMeansCollecting'
  BY <1>1 DEF ReceiveRefusal, Disconnect, AgentRestart, IndInv, Shape, PhaseOK,
              ActiveMeansCollecting
<1> QED BY <1>2, <1>3, <1>4 DEF IndInv

-----------------------------------------------------------------------------
(* The theorems *)

LEMMA StructureInit == Init => Structure
BY DEF Init, Structure, TypeOK, BoardOK, EmptyTable, Tables, EmptyBoard, Boards, NothingRuns,
       Nothing, IsListed, HasRow

LEMMA IndInvInit == Init => IndInv
BY StructureInit
   DEF Init, IndInv, Shape, PhaseOK, ExchangeOK, ActiveMeansCollecting, Pending, Nothing

LEMMA IndInvNext == IndInv /\ ~Resends /\ [Next]_vars => IndInv'
<1> SUFFICES ASSUME IndInv, ~Resends, [Next]_vars PROVE IndInv'
  OBVIOUS
<1>1. Structure'
  BY StructureNext DEF IndInv, Shape
<1>2. CASE UNCHANGED vars
  BY <1>1, <1>2, TableKeeps DEF vars, server
<1>3. CASE Exchange
  BY <1>1, <1>3, StatusStep, ServerStep, RegistrationStep, SendStep, ReceiveStep, ForgetStep
     DEF Exchange
<1>4. CASE Disturbance
  BY <1>1, <1>4, OperatorStep, ServerStep, RegistrationStep, ForgetStep DEF Disturbance, Operator
<1> QED BY <1>2, <1>3, <1>4 DEF Next

\* The inductive invariant holds in every reachable state.
THEOREM Invariance == ASSUME ~Resends PROVE Spec => []IndInv
<1>1. IndInv /\ [Next]_vars => IndInv'
  BY IndInvNext
<1> QED BY <1>1, IndInvInit, PTL DEF Spec

\* The tables, lists and messages keep their types, whether or not the agent sends
\* confirmations again.
THEOREM TypeCorrect == Spec => []TypeOK
<1>1. Structure => TypeOK
  BY DEF Structure
<1> QED BY <1>1, StructureInit, StructureNext, PTL DEF Spec

\* A task the server shows as active is collected by the agent, with the same
\* configuration, when it sends each confirmation once.
THEOREM ActiveTasksAreCollected == ASSUME ~Resends PROVE Spec => []ActiveMeansCollecting
<1>1. IndInv => ActiveMeansCollecting
  BY DEF IndInv
<1> QED BY <1>1, Invariance, PTL

LEMMA ConfirmedChange ==
    ASSUME IndInv, StatusAgent, NEW k \in TaskIds \ failed,
           IsListed(board, k), board[k].state = "Changing",
           IsListed(board', k), board'[k].state = "Running"
    PROVE  running[k] = board[k].config
<1>1. TypeOK
  BY DEF IndInv, Shape, Structure
<1>2. board'[k] = IF k \in Settled THEN AcceptConfirmation(board[k]) ELSE board[k]
  BY <1>1, ConfirmedTasks, ConfirmedBoard
<1> QED BY <1>2, ConfirmedTasks

LEMMA OnlyStatusSettles ==
    ASSUME IndInv, [Next]_vars, ~StatusAgent, NEW k \in TaskIds,
           IsListed(board, k), board[k].state = "Changing", IsListed(board', k)
    PROVE  board'[k].state # "Running"
<1>1. TypeOK /\ board \in Boards /\ board[k] \in Tasks /\ ~IsSettled(board, k)
  BY ListedIsTask DEF IndInv, Shape, Structure, TypeOK, IsSettled, IsBusy
<1>2. CASE UNCHANGED board
  BY <1>2
<1>3. CASE Register \/ RegisterUnanswered
  BY <1>3, FreshList DEF Register, RegisterUnanswered, RegisterAgent, IndInv, Shape
<1>4. CASE Operator
  <2>1. \/ UNCHANGED board
        \/ \E j \in TaskIds : j # k /\ \E t : board' = [board EXCEPT ![j] = t]
    BY <1>1, <1>4
       DEF Operator, AssignTask, EditTask, RemoveTask, ToggleListed, ToggleUnlisted,
           AssignTo, EditOn, CancelOn, IndInv, Shape, Structure, BoardOK
  <2> QED BY <1>1, <2>1 DEF Boards
<1>5. CASE ServerRestart
  BY <1>5 DEF ServerRestart, EmptyBoard, IsListed
<1> QED BY <1>2, <1>3, <1>4, <1>5
    DEF Next, Exchange, Disturbance, Operator, StatusRefused, SendStatus, Receive, ReceiveRefusal,
        Disconnect, AgentRestart, server, vars

\* A changed task is shown as running again only once the agent has carried out
\* the change, or has said that it cannot.
THEOREM ChangesAwaitTheAgent == ASSUME ~Resends PROVE Spec => ChangeAwaitsAgent
<1>1. IndInv /\ [Next]_vars =>
        [\A k \in TaskIds \ failed :
           /\ IsListed(board, k) /\ board[k].state = "Changing"
           /\ IsListed(board', k) /\ board'[k].state = "Running"
           => running[k] = board[k].config]_vars
  BY ConfirmedChange, OnlyStatusSettles
<1> QED BY <1>1, Invariance, PTL DEF Spec, ChangeAwaitsAgent

-----------------------------------------------------------------------------
(* The life of the tasks *)

\* The handlers are whole here, so the list and the table never disagree: a
\* listed task has a row unless it is being cancelled, and then an inactive one.
StoreOK(k) ==
    /\ HasRow(tasksDb, k) => tasksDb[k].agentId = AgentId
    /\ IsListed(board, k) =>
         IF board[k].state = "Cancelling" THEN HasRow(tasksDb, k) => ~tasksDb[k].isActive
         ELSE HasRow(tasksDb, k)

LifeInv == IndInv /\ \A k \in TaskIds : StoreOK(k)

\* The invariant holds afterwards and the step is one of the abstract life.
Refines == LifeInv' /\ [Life!Next]_StageOfEach

-----------------------------------------------------------------------------
(* Steps on one task *)

LEMMA TypesOfTask ==
    ASSUME LifeInv, NEW k \in TaskIds
    PROVE  /\ tasksDb \in Tables /\ board \in Boards
           /\ tasksDb[k] \in Rows \cup {NoRow} /\ board[k] \in Tasks \cup {NoTask}
           /\ IsListed(board, k) => board[k] \in Tasks /\ k \in assigned /\ registered
           /\ HasRow(tasksDb, k) => tasksDb[k] \in Rows /\ k \in assigned
BY DEF LifeInv, IndInv, Shape, Structure, TypeOK, BoardOK, Tables, Boards, IsListed, HasRow, EmptyBoard

LEMMA OneTask ==
    ASSUME LifeInv, IndInv', NEW k \in TaskIds, StoreOK(k)',
           \A j \in TaskIds \ {k} : /\ board'[j] = board[j] /\ tasksDb'[j] = tasksDb[j]
                                    /\ j \in assigned' <=> j \in assigned
    PROVE  /\ LifeInv'
           /\ StageOfEach' = [StageOfEach EXCEPT ![k] = Stage(k)']
           /\ StageOfEach[k] = Stage(k)
<1>1. \A j \in TaskIds \ {k} : StoreOK(j)' /\ Stage(j)' = Stage(j)
  BY DEF LifeInv, StoreOK, Stage, IsListed, HasRow
<1>2. StageOfEach' = [j \in TaskIds |-> Stage(j)']
  BY DEF StageOfEach
<1>3. StageOfEach = [j \in TaskIds |-> Stage(j)]
  BY DEF StageOfEach
<1> QED BY <1>1, <1>2, <1>3 DEF LifeInv

LEMMA UnchangedLife ==
    ASSUME LifeInv, IndInv', UNCHANGED <<board, tasksDb, assigned>>
    PROVE  Refines
<1>1. \A k \in TaskIds : StoreOK(k)' /\ Stage(k)' = Stage(k)
  BY DEF LifeInv, StoreOK, Stage
<1>2. UNCHANGED StageOfEach
  BY <1>1 DEF StageOfEach
<1> QED BY <1>1, <1>2 DEF Refines, LifeInv

LEMMA AssignLife ==
    ASSUME LifeInv, IndInv', NEW k \in TaskIds, NEW config \in Configs, NEW isActive \in BOOLEAN,
           AssignTask(k, config, isActive)
    PROVE  Refines
<1> DEFINE t == NewTask(k, config)
           row == Row(AgentId, config, isActive)
<1>1. /\ k \notin assigned /\ ~IsListed(board, k)
      /\ tasksDb' = [tasksDb EXCEPT ![k] = row] /\ assigned' = assigned \cup {k}
      /\ board' = IF registered THEN [board EXCEPT ![k] = t] ELSE board
  BY TypesOfTask DEF AssignTask, InsertRow, AssignTo
<1>2. /\ row \in Rows /\ row # NoRow /\ row.agentId = AgentId /\ row.isActive = isActive
      /\ t # NoTask /\ t.state = "Creating"
  BY AgentIdAssumption, NoRowAssumption, NoTaskAssumption DEF Row, Rows, NewTask, Tasks, TaskState
<1> HIDE DEF t, row
<1>3. /\ tasksDb'[k] = row /\ k \in assigned'
      /\ board'[k] = IF registered THEN t ELSE NoTask
      /\ \A j \in TaskIds \ {k} : /\ board'[j] = board[j] /\ tasksDb'[j] = tasksDb[j]
                                  /\ j \in assigned' <=> j \in assigned
  BY <1>1, TypesOfTask DEF Tables, Boards, IsListed
<1>4. StoreOK(k)' /\ Stage(k) = "new" /\ Stage(k)' \in {"pending", "unlisted", "suspended"}
  BY <1>1, <1>2, <1>3 DEF StoreOK, Stage, IsListed, HasRow, IsBusy
<1>5. Life!Assign(k)
  BY <1>3, <1>4, OneTask DEF Life!Assign, Life!Moves, Life!Waiting
<1> QED BY <1>3, <1>4, <1>5, OneTask DEF Refines, Life!Next

LEMMA EditLife ==
    ASSUME LifeInv, IndInv', NEW k \in TaskIds, NEW config \in Configs, EditTask(k, config)
    PROVE  Refines
<1> DEFINE t == AcceptChanges(board[k], config)
           row == [tasksDb[k] EXCEPT !.config = config]
<1>1. /\ HasRow(tasksDb, k) /\ tasksDb[k] \in Rows /\ k \in assigned /\ assigned' = assigned
      /\ tasksDb' = [tasksDb EXCEPT ![k] = row]
      /\ registered => IsSettled(board, k)
      /\ board' = IF registered THEN [board EXCEPT ![k] = t] ELSE board
  BY TypesOfTask DEF EditTask, UpdateRow, EditOn, HasRow
<1>2. row \in Rows /\ row # NoRow /\ row.agentId = tasksDb[k].agentId
      /\ row.isActive = tasksDb[k].isActive
  BY <1>1, NoRowAssumption DEF Rows
<1>3. registered => /\ board[k] \in Tasks /\ board[k].state = "Running" /\ IsListed(board, k)
                    /\ t # NoTask /\ t.state = "Changing"
  <2>1. registered => board[k] \in Tasks /\ board[k].state = "Running" /\ IsListed(board, k)
    BY <1>1, TypesOfTask DEF IsSettled, IsBusy
  <2>2. board[k] \in Tasks => t \in Tasks /\ t.state = "Changing"
    BY TaskOperators
  <2> QED BY <2>1, <2>2, NoTaskAssumption
<1> HIDE DEF t, row
<1>4. /\ tasksDb'[k] = row
      /\ board'[k] = IF registered THEN t ELSE board[k]
      /\ \A j \in TaskIds \ {k} : /\ board'[j] = board[j] /\ tasksDb'[j] = tasksDb[j]
                                  /\ j \in assigned' <=> j \in assigned
  BY <1>1, TypesOfTask DEF Tables, Boards
<1>5. ~registered => ~IsListed(board, k)
  BY TypesOfTask
<1>6. StoreOK(k)'
  BY <1>1, <1>2, <1>3, <1>4, <1>5 DEF LifeInv, StoreOK, IsListed, HasRow
<1>7. CASE registered
  <2>1. Stage(k) = "active" /\ Stage(k)' = "pending"
    BY <1>1, <1>2, <1>3, <1>4, <1>7 DEF Stage, IsListed, HasRow, IsBusy
  <2>2. Life!Edit(k)
    BY <1>4, <1>6, <2>1, OneTask DEF Life!Edit, Life!Moves
  <2> QED BY <1>4, <1>6, <2>2, OneTask DEF Refines, Life!Next
<1>8. CASE ~registered
  <2>1. Stage(k)' = Stage(k)
    BY <1>1, <1>2, <1>4, <1>5, <1>8 DEF Stage, IsListed, HasRow
  <2>2. UNCHANGED StageOfEach
    BY <1>4, <1>6, <2>1, OneTask DEF StageOfEach
  <2> QED BY <1>4, <1>6, <2>2, OneTask DEF Refines
<1> QED BY <1>7, <1>8

LEMMA CancelledTask ==
    ASSUME LifeInv, NEW k \in TaskIds, IsSettled(board, k), board' = CancelOn(board, k)
    PROVE  /\ IsListed(board, k) /\ board[k].state = "Running"
           /\ IsListed(board', k) /\ board'[k].state = "Cancelling"
           /\ \A j \in TaskIds \ {k} : board'[j] = board[j]
<1>1. IsListed(board, k) /\ board[k] \in Tasks /\ board[k].state = "Running" /\ board \in Boards
  BY TypesOfTask DEF IsSettled, IsBusy
<1>2. AcceptCancel(board[k]) # NoTask /\ AcceptCancel(board[k]).state = "Cancelling"
  BY <1>1, NoTaskAssumption DEF AcceptCancel, Tasks, TaskState
<1> QED BY <1>1, <1>2 DEF CancelOn, Boards, IsListed

LEMMA RemoveLife ==
    ASSUME LifeInv, IndInv', NEW k \in TaskIds, RemoveTask(k)
    PROVE  Refines
<1>1. /\ k \in assigned /\ assigned' = assigned
      /\ tasksDb'[k] = NoRow /\ \A j \in TaskIds \ {k} : tasksDb'[j] = tasksDb[j]
  BY TypesOfTask DEF RemoveTask, RemoveRow, Tables
<1>2. CASE IsSettled(board, k) /\ board' = CancelOn(board, k)
  <2>1. StoreOK(k)' /\ Stage(k) = "active" /\ Stage(k)' = "leaving"
    BY <1>1, <1>2, CancelledTask DEF LifeInv, StoreOK, Stage, IsListed, HasRow, IsBusy
  <2>2. Life!Remove(k)
    BY <1>1, <1>2, <2>1, CancelledTask, OneTask DEF Life!Remove, Life!Moves
  <2> QED BY <1>1, <1>2, <2>1, <2>2, CancelledTask, OneTask DEF Refines, Life!Next
<1>3. CASE ~IsListed(board, k) /\ UNCHANGED board
  <2>1. StoreOK(k)' /\ Stage(k) \in {"unlisted", "suspended", "gone"} /\ Stage(k)' = "gone"
    BY <1>1, <1>3 DEF StoreOK, Stage, HasRow
  <2>2. CASE Stage(k) = "gone"
    <3>1. UNCHANGED StageOfEach
      BY <1>1, <1>3, <2>1, <2>2, OneTask DEF StageOfEach
    <3> QED BY <1>1, <1>3, <2>1, <3>1, OneTask DEF Refines
  <2>3. CASE Stage(k) # "gone"
    <3>1. Life!Remove(k)
      BY <1>1, <1>3, <2>1, <2>3, OneTask DEF Life!Remove, Life!Moves, Life!Waiting
    <3> QED BY <1>1, <1>3, <2>1, <3>1, OneTask DEF Refines, Life!Next
  <2> QED BY <2>2, <2>3
<1> QED BY <1>2, <1>3 DEF RemoveTask

\* The flag of a row is written.
LEMMA FlagOfRow ==
    ASSUME LifeInv, NEW k \in TaskIds, NEW flag \in BOOLEAN, tasksDb' = ToggleState(tasksDb, k, flag)
    PROVE  /\ HasRow(tasksDb', k) <=> HasRow(tasksDb, k)
           /\ HasRow(tasksDb, k) =>
                tasksDb'[k].agentId = tasksDb[k].agentId /\ tasksDb'[k].isActive = flag
           /\ \A j \in TaskIds \ {k} : tasksDb'[j] = tasksDb[j]
<1>1. tasksDb \in Tables /\ (HasRow(tasksDb, k) => tasksDb[k] \in Rows)
  BY TypesOfTask
<1>2. /\ tasksDb'[k] = IF tasksDb[k] = NoRow THEN NoRow ELSE [tasksDb[k] EXCEPT !.isActive = flag]
      /\ \A j \in TaskIds \ {k} : tasksDb'[j] = tasksDb[j]
  BY <1>1 DEF ToggleState, Tables
<1>3. HasRow(tasksDb, k) =>
        /\ [tasksDb[k] EXCEPT !.isActive = flag] \in Rows
        /\ [tasksDb[k] EXCEPT !.isActive = flag].agentId = tasksDb[k].agentId
        /\ [tasksDb[k] EXCEPT !.isActive = flag].isActive = flag
  BY <1>1 DEF Rows
<1> QED BY <1>2, <1>3, NoRowAssumption DEF HasRow

LEMMA ToggleListedLife ==
    ASSUME LifeInv, IndInv', NEW k \in TaskIds, ToggleListed(k)
    PROVE  Refines
<1>1. /\ IsSettled(board, k) /\ board' = CancelOn(board, k) /\ assigned' = assigned
      /\ tasksDb' = ToggleState(tasksDb, k, FALSE) /\ k \in assigned
  BY TypesOfTask DEF ToggleListed, IsSettled
<1>2. /\ IsListed(board, k) /\ board[k].state = "Running"
      /\ IsListed(board', k) /\ board'[k].state = "Cancelling"
      /\ \A j \in TaskIds \ {k} : board'[j] = board[j] /\ tasksDb'[j] = tasksDb[j]
  BY <1>1, CancelledTask, FlagOfRow
<1>3. HasRow(tasksDb, k) /\ HasRow(tasksDb', k) /\ ~tasksDb'[k].isActive
      /\ tasksDb'[k].agentId = AgentId
  BY <1>1, <1>2, FlagOfRow DEF LifeInv, StoreOK
<1>4. StoreOK(k)' /\ Stage(k) = "active" /\ Stage(k)' = "suspending"
  BY <1>1, <1>2, <1>3 DEF StoreOK, Stage, IsBusy
<1>5. Life!Toggle(k)
  BY <1>1, <1>2, <1>4, OneTask DEF Life!Toggle, Life!Moves
<1> QED BY <1>1, <1>2, <1>4, <1>5, OneTask DEF Refines, Life!Next

LEMMA ToggleUnlistedLife ==
    ASSUME LifeInv, IndInv', NEW k \in TaskIds, ToggleUnlisted(k)
    PROVE  Refines
<1> DEFINE flag == ~tasksDb[k].isActive
           t == NewTask(k, tasksDb[k].config)
<1>1. /\ ~IsListed(board, k) /\ HasRow(tasksDb, k) /\ tasksDb[k] \in Rows
      /\ k \in assigned /\ assigned' = assigned /\ flag \in BOOLEAN
      /\ tasksDb' = ToggleState(tasksDb, k, flag)
      /\ board' = IF registered /\ flag THEN [board EXCEPT ![k] = t] ELSE board
  BY TypesOfTask DEF ToggleUnlisted, AssignTo
<1>2. t # NoTask /\ t.state = "Creating"
  BY <1>1, NoTaskAssumption DEF NewTask, Tasks, TaskState, Rows
<1> HIDE DEF t
<1>3. /\ board'[k] = IF registered /\ flag THEN t ELSE NoTask
      /\ \A j \in TaskIds \ {k} : board'[j] = board[j]
  BY <1>1, TypesOfTask DEF Boards, IsListed
<1>4. /\ HasRow(tasksDb', k) /\ tasksDb'[k].agentId = AgentId /\ tasksDb'[k].isActive = flag
      /\ \A j \in TaskIds \ {k} : tasksDb'[j] = tasksDb[j]
  BY <1>1, FlagOfRow DEF LifeInv, StoreOK
<1>5. StoreOK(k)'
  BY <1>2, <1>3, <1>4 DEF StoreOK, IsListed
<1>6. \/ Stage(k) = "unlisted" /\ Stage(k)' = "suspended"
      \/ Stage(k) = "suspended" /\ Stage(k)' \in {"pending", "unlisted"}
  <2>1. CASE tasksDb[k].isActive
    BY <1>1, <1>3, <1>4, <2>1 DEF Stage, IsListed
  <2>2. CASE ~tasksDb[k].isActive
    BY <1>1, <1>2, <1>3, <1>4, <2>2 DEF Stage, IsListed, IsBusy
  <2> QED BY <2>1, <2>2
<1>7. Life!Toggle(k)
  BY <1>1, <1>3, <1>4, <1>5, <1>6, OneTask DEF Life!Toggle, Life!Moves
<1> QED BY <1>1, <1>3, <1>4, <1>5, <1>7, OneTask DEF Refines, Life!Next

-----------------------------------------------------------------------------
(* Steps on the whole list *)

LEMMA DroppedTasks ==
    ASSUME IndInv, StatusAgent, NEW k \in Dropped
    PROVE  IsListed(board, k) /\ board[k].state = "Cancelling"
<1>1. wire.kind = "request" /\ registered /\ TypeOK /\ k \in TaskIds
  BY DEF StatusAgent, IndInv, Shape, Structure, Dropped, OfType
<1>2. PICK c \in wire.confirmations : c.taskId = k /\ c.type = "Cancel"
  BY DEF Dropped, OfType
<1>3. ConfirmationOK(c)
  BY <1>1 DEF IndInv, ExchangeOK, Pending
<1>4. Waits(k) /\ CommandFor(board[k].state) = "Cancel" /\ board[k] \in Tasks
  BY <1>1, <1>2, <1>3, ListedIsTask DEF ConfirmationOK, Waits
<1> QED BY <1>4 DEF Waits, IsBusy, Tasks, TaskState, CommandFor

LEMMA StatusLife ==
    ASSUME LifeInv, IndInv', StatusAgent
    PROVE  Refines
<1>1. IndInv /\ UNCHANGED <<tasksDb, assigned>> /\ board' = Confirmed(board, Settled, Dropped)
  BY ConfirmedTasks DEF LifeInv, StatusAgent
<1>2. ASSUME NEW k \in TaskIds
      PROVE  /\ StoreOK(k)'
             /\ Stage(k)' = IF k \in Settled \cup Dropped THEN Life!Resolved(Stage(k)) ELSE Stage(k)
  <2>1. IsListed(board, k) => k \in assigned /\ board[k] \in Tasks
    BY TypesOfTask
  <2>2. CASE k \in Dropped
    <3>1. IsListed(board, k) /\ board[k].state = "Cancelling" /\ ~IsListed(board', k)
      BY <1>1, <2>2, DroppedTasks DEF Confirmed, IsListed
    <3>2. StoreOK(k)'
      BY <1>1, <3>1 DEF LifeInv, StoreOK, HasRow
    <3>3. CASE HasRow(tasksDb, k)
      <4>1. Stage(k) = "suspending" /\ Stage(k)' = "suspended"
        BY <1>1, <2>1, <3>1, <3>3 DEF LifeInv, StoreOK, Stage, HasRow
      <4> QED BY <2>2, <3>2, <4>1 DEF Life!Resolved
    <3>4. CASE ~HasRow(tasksDb, k)
      <4>1. Stage(k) = "leaving" /\ Stage(k)' = "gone"
        BY <1>1, <2>1, <3>1, <3>4 DEF Stage, HasRow
      <4> QED BY <2>2, <3>2, <4>1 DEF Life!Resolved
    <3> QED BY <3>3, <3>4
  <2>3. CASE k \in Settled \ Dropped
    <3>1. IsListed(board, k) /\ board[k].state \in {"Creating", "Changing"} /\ board[k] \in Tasks
      BY <1>1, <2>1, <2>3, ConfirmedTasks DEF Waits
    <3>2. board'[k] = AcceptConfirmation(board[k])
      BY <1>1, <2>3, <3>1 DEF Confirmed
    <3>3. IsListed(board', k) /\ board'[k].state = "Running"
      BY <3>1, <3>2, NoTaskAssumption DEF AcceptConfirmation, Tasks, TaskState, IsListed
    <3>4. HasRow(tasksDb, k)
      BY <3>1 DEF LifeInv, StoreOK
    <3>5. StoreOK(k)' /\ Stage(k) = "pending" /\ Stage(k)' = "active"
      BY <1>1, <2>1, <3>1, <3>3, <3>4 DEF LifeInv, StoreOK, Stage, HasRow, IsBusy
    <3> QED BY <2>3, <3>5 DEF Life!Resolved
  <2>4. CASE k \notin Settled \cup Dropped
    <3>1. board'[k] = board[k]
      BY <1>1, <2>4 DEF Confirmed
    <3> QED BY <1>1, <2>4, <3>1 DEF LifeInv, StoreOK, Stage, IsListed, HasRow
  <2> QED BY <2>2, <2>3, <2>4
<1>3. Settled \cup Dropped \in SUBSET TaskIds
  BY <1>1, ConfirmedTasks
<1>4. Life!Confirm(Settled \cup Dropped)
  <2>1. StageOfEach' = [k \in TaskIds |-> Stage(k)']
    BY DEF StageOfEach
  <2> QED BY <1>2, <2>1 DEF StageOfEach, Life!Confirm
<1> QED BY <1>2, <1>3, <1>4 DEF Refines, LifeInv, Life!Next

LEMMA ForgetLife ==
    ASSUME LifeInv, IndInv', board' = EmptyBoard, UNCHANGED <<tasksDb, assigned>>
    PROVE  Refines
<1>1. \A k \in TaskIds : ~IsListed(board', k)
  BY DEF EmptyBoard, IsListed
<1>2. ASSUME NEW k \in TaskIds
      PROVE  StoreOK(k)' /\ Stage(k)' \in Life!Forgotten(Stage(k))
  <2>1. StoreOK(k) /\ StoreOK(k)' /\ (IsListed(board, k) => k \in assigned)
    BY <1>1, TypesOfTask DEF LifeInv, StoreOK
  <2>2. CASE ~IsListed(board, k)
    <3>1. Stage(k)' = Stage(k) /\ Stage(k) \in {"new", "gone", "unlisted", "suspended"}
      BY <1>1, <2>2 DEF Stage
    <3> QED BY <2>1, <3>1 DEF Life!Forgotten
  <2>3. CASE IsListed(board, k) /\ board[k].state = "Cancelling"
    <3>1. \/ Stage(k) = "suspending" /\ Stage(k)' = "suspended"
          \/ Stage(k) = "leaving" /\ Stage(k)' = "gone"
      BY <1>1, <2>1, <2>3 DEF Stage, StoreOK
    <3> QED BY <2>1, <3>1 DEF Life!Forgotten, Life!Resolved
  <2>4. CASE IsListed(board, k) /\ board[k].state # "Cancelling"
    <3>1. Stage(k) \in {"pending", "active"} /\ Stage(k)' \in {"unlisted", "suspended"}
      BY <1>1, <2>1, <2>4 DEF Stage, StoreOK
    <3> QED BY <2>1, <3>1 DEF Life!Forgotten, Life!Waiting
  <2> QED BY <2>2, <2>3, <2>4
<1>3. Life!Forget
  <2>1. StageOfEach' = [k \in TaskIds |-> Stage(k)']
    BY DEF StageOfEach
  <2> QED BY <1>2, <2>1 DEF StageOfEach, Life!Forget
<1> QED BY <1>2, <1>3 DEF Refines, LifeInv, Life!Next

LEMMA RegistrationLife ==
    ASSUME LifeInv, IndInv', RegisterAgent
    PROVE  Refines
<1>1. UNCHANGED <<tasksDb, assigned>> /\ board' = ListOfRegistration
  BY DEF RegisterAgent
<1>2. CASE registered
  BY <1>1, <1>2, ForgetLife DEF ListOfRegistration
<1>3. CASE ~registered
  <2>1. ASSUME NEW k \in TaskIds
        PROVE  /\ StoreOK(k)'
               /\ Stage(k)' = IF Stage(k) = "unlisted" THEN "pending" ELSE Stage(k)
    <3>1. /\ ~IsListed(board, k) /\ (HasRow(tasksDb, k) => tasksDb[k] \in Rows /\ k \in assigned)
          /\ StoreOK(k)
      BY <1>3, TypesOfTask DEF LifeInv
    <3>2. board'[k] = IF k \in ListRows(tasksDb, AgentId, TRUE)
                      THEN NewTask(k, tasksDb[k].config) ELSE NoTask
      BY <1>1, <1>3 DEF ListOfRegistration, Loaded
    <3>3. k \in ListRows(tasksDb, AgentId, TRUE) <=> HasRow(tasksDb, k) /\ tasksDb[k].isActive
      BY <3>1 DEF ListRows, StoreOK
    <3>4. CASE HasRow(tasksDb, k) /\ tasksDb[k].isActive
      <4>1. IsListed(board', k) /\ board'[k].state = "Creating"
        BY <3>1, <3>2, <3>3, <3>4, NoTaskAssumption
           DEF NewTask, Tasks, TaskState, Rows, IsListed
      <4> QED BY <1>1, <3>1, <3>4, <4>1 DEF StoreOK, Stage, HasRow, IsBusy
    <3>5. CASE ~(HasRow(tasksDb, k) /\ tasksDb[k].isActive)
      <4>1. ~IsListed(board', k)
        BY <3>2, <3>3, <3>5 DEF IsListed
      <4> QED BY <1>1, <3>1, <3>5, <4>1 DEF StoreOK, Stage, HasRow
    <3> QED BY <3>4, <3>5
  <2>2. Life!Load
    <3>1. StageOfEach' = [k \in TaskIds |-> Stage(k)']
      BY DEF StageOfEach
    <3> QED BY <2>1, <3>1 DEF StageOfEach, Life!Load
  <2> QED BY <2>1, <2>2 DEF Refines, LifeInv, Life!Next
<1> QED BY <1>2, <1>3

-----------------------------------------------------------------------------
(* The theorem *)

LEMMA LifeInit == Init => LifeInv /\ Life!Init
<1> SUFFICES ASSUME Init PROVE LifeInv /\ Life!Init
  OBVIOUS
<1>1. \A k \in TaskIds : ~HasRow(tasksDb, k) /\ ~IsListed(board, k) /\ k \notin assigned
  BY DEF Init, EmptyTable, EmptyBoard, HasRow, IsListed
<1>2. \A k \in TaskIds : StoreOK(k) /\ Stage(k) = "new"
  BY <1>1 DEF StoreOK, Stage
<1> QED BY <1>2, IndInvInit DEF LifeInv, StageOfEach, Life!Init

LEMMA StepRefines ==
    ASSUME LifeInv, ~Resends, [Next]_vars
    PROVE  Refines
<1>1. IndInv'
  BY IndInvNext DEF LifeInv
<1>2. CASE Operator
  BY <1>1, <1>2, AssignLife, EditLife, RemoveLife, ToggleListedLife, ToggleUnlistedLife
     DEF Operator
<1>3. CASE Register \/ RegisterUnanswered
  BY <1>1, <1>3, RegistrationLife DEF Register, RegisterUnanswered
<1>4. CASE StatusAgent
  BY <1>1, <1>4, StatusLife
<1>5. CASE ServerRestart
  BY <1>1, <1>5, ForgetLife DEF ServerRestart
<1>6. CASE UNCHANGED <<board, tasksDb, assigned>>
  BY <1>1, <1>6, UnchangedLife
<1> QED BY <1>2, <1>3, <1>4, <1>5, <1>6
    DEF Next, Exchange, Disturbance, Operator, StatusRefused, SendStatus, Receive, ReceiveRefusal,
        Disconnect, AgentRestart, server, vars

\* Whatever is lost, fails or restarts, every task goes through the life that
\* TaskLife describes when the agent sends each confirmation once.
THEOREM TasksLiveAsDescribed == ASSUME ~Resends PROVE Spec => ImplementsTaskLife
<1>1. LifeInv /\ [Next]_vars => LifeInv' /\ [Life!Next]_StageOfEach
  BY StepRefines DEF Refines
<1> QED BY <1>1, LifeInit, PTL DEF Spec, ImplementsTaskLife, Life!Spec
=============================================================================
