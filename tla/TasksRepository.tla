--------------------------- MODULE TasksRepository ---------------------------
(***************************************************************************)
(* The Tasks table and the statements SQLiteTasksRepository runs on it.    *)
(* All threads share one SQLite session, which serialises statements: each *)
(* is one atomic operator here, and nothing groups two of them into a      *)
(* transaction.  UPDATE and DELETE touch nothing when no row matches.      *)
(***************************************************************************)
EXTENDS Task

CONSTANTS AgentIds,     \* rows of the Agents table
          NoRow         \* no row has this id

Rows == [agentId : AgentIds, config : Configs, isActive : BOOLEAN]

ASSUME NoRowAssumption == NoRow \notin Rows

Tables == [TaskIds -> Rows \cup {NoRow}]

EmptyTable == [id \in TaskIds |-> NoRow]

Row(agentId, config, isActive) ==
    [agentId |-> agentId, config |-> config, isActive |-> isActive]

HasRow(table, id) == table[id] # NoRow

\* list(agentId, onlyActive): the ids of the rows selected.
ListRows(table, agentId, onlyActive) ==
    {id \in TaskIds : /\ HasRow(table, id)
                      /\ table[id].agentId = agentId
                      /\ onlyActive => table[id].isActive}

InsertRow(table, id, row) == [table EXCEPT ![id] = row]

\* Fault: the update is an INSERT OR REPLACE.
UpsertRow(table, id, row) == [table EXCEPT ![id] = row]

\* UPDATE ... WHERE Id = ? writes every column of the row object.
UpdateRow(table, id, row) == [table EXCEPT ![id] = IF @ = NoRow THEN NoRow ELSE row]

\* Fault: the statement inverts the flag instead of storing the one given.
InvertState(table, id, isActive) ==
    [table EXCEPT ![id] = IF @ = NoRow THEN NoRow ELSE [@ EXCEPT !.isActive = ~@]]

ToggleState(table, id, isActive) ==
    [table EXCEPT ![id] = IF @ = NoRow THEN NoRow ELSE [@ EXCEPT !.isActive = isActive]]

RemoveRow(table, id) == [table EXCEPT ![id] = NoRow]
=============================================================================
