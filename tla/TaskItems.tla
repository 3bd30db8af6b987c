------------------------------ MODULE TaskItems ------------------------------
(***************************************************************************)
(* The items an agent reports (SQLiteDatabaseManager::saveTaskItems), the  *)
(* four tables they are kept in, and the requests that query and clear     *)
(* them while other threads edit or remove the task.                       *)
(*                                                                         *)
(* A result goes to the table of the value type its task has when the item *)
(* is looked up; the insert is a second statement, and removing a task     *)
(* takes one statement for the row and one for each table of results.      *)
(***************************************************************************)
EXTENDS Integers, Sequences, FiniteSets

CONSTANTS TaskIds,      \* task identifiers
          Times,        \* time stamps of items
          MaxItems,     \* most items in one status request
          Threads,      \* HTTP server threads
          Allowed,      \* the kinds of requests each thread may receive
          None          \* no task, no time, no row

ASSUME TimesAssumption == Times \subseteq Int
Kinds == {"edit", "remove", "save", "query"}

ASSUME AllowedAssumption == Allowed \in [Threads -> SUBSET Kinds]
ASSUME MaxItemsAssumption == MaxItems \in Nat
ASSUME NoneAssumption == None \notin TaskIds

\* TaskValueType: the types with a table, in the order the tables are cleared.
ResultTables == <<"longlong", "float", "text">>
ValueTypes == {"longlong", "float", "text"}

\* A valueType of a request is cast to the enumeration without a check.
StoredTypes == ValueTypes \cup {"unsupported"}
ASSUME NoneTypeAssumption == None \notin StoredTypes

Items == [task : TaskIds, time : Times]

\* An item of a status request: an error, or a value for the task's table.
Reports == [item : Items, isError : BOOLEAN]
Batches == UNION {[1 .. n -> Reports] : n \in 0 .. MaxItems}

VARIABLES valueType,    \* Type column of the task's row, or None without a row
          results,      \* the rows of each table of results
          errors,       \* the rows of the table of errors
          calls,        \* what each thread is doing
          everTyped,    \* value types the task has had (history)
          disturbed,    \* tasks whose removal was overtaken or interrupted (history)
          discarded,    \* tasks whose results a request has cleared (history)
          acknowledged  \* reports of the status requests answered (history)

tables == <<valueType, results, errors>>
history == <<everTyped, disturbed, discarded, acknowledged>>
vars == <<tables, calls, history>>

\* batch, next: the items of a status request and the one being saved; type:
\* the value type read from the row; left: tables still to be cleared; from, to,
\* answer: the range a query asks for and the items it returns.
Calls == [pc : {"idle", "saving", "insert", "clear", "list", "answered"},
          batch : Batches, next : 1 .. MaxItems + 1,
          task : TaskIds \cup {None}, type : StoredTypes \cup {None},
          left : {ResultTables, <<"float", "text">>, <<"text">>, <<>>},
          from : Times \cup {None}, to : Times \cup {None}, answer : SUBSET Items]

Idle == [pc |-> "idle", batch |-> <<>>, next |-> 1, task |-> None, type |-> None,
         left |-> <<>>, from |-> None, to |-> None, answer |-> {}]

Receives(th, kind) == calls[th] = Idle /\ kind \in Allowed[th]

Goto(th, call) == calls' = [calls EXCEPT ![th] = call]

IsClearing(k) == \E th \in Threads : calls[th].pc = "clear" /\ calls[th].task = k

Init ==
    /\ valueType = [k \in TaskIds |-> None]
    /\ results = [t \in ValueTypes |-> {}]
    /\ errors = {}
    /\ calls = [th \in Threads |-> Idle]
    /\ everTyped = [k \in TaskIds |-> {}]
    /\ disturbed = {}
    /\ discarded = {}
    /\ acknowledged = {}

-----------------------------------------------------------------------------
(* The task's row: saveTask and editTask write whatever type the request has. *)

SetType(k, type) ==
    /\ valueType' = [valueType EXCEPT ![k] = type]
    /\ everTyped' = [everTyped EXCEPT ![k] = @ \cup {type}]
    /\ UNCHANGED <<results, errors, calls, disturbed, discarded, acknowledged>>

\* A fresh id: its row was never there before.
SaveTask(th, k, type) ==
    /\ Receives(th, "edit")
    /\ everTyped[k] = {}
    /\ SetType(k, type)

EditTask(th, k, type) ==
    /\ Receives(th, "edit")
    /\ valueType[k] # None
    /\ SetType(k, type)

-----------------------------------------------------------------------------
(* saveTaskItems: one item after the other *)

\* The report a thread is saving.
Current(call) == call.batch[call.next]

IsLeft(call) == call.next <= Len(call.batch)

\* Fault: the loop is left where it should go on to the next item.
LeaveLoop(call) == [call EXCEPT !.pc = "saving", !.type = None, !.next = Len(call.batch) + 1]

GoOn(call) == [call EXCEPT !.pc = "saving", !.type = None, !.next = @ + 1]

\* An agent reports on tasks that were assigned once.
SaveBegin(th, batch) ==
    /\ Receives(th, "save")
    /\ \A i \in DOMAIN batch : everTyped[batch[i].item.task] # {}
    /\ Goto(th, [Idle EXCEPT !.pc = "saving", !.batch = batch])
    /\ UNCHANGED <<tables, history>>

\* An item of status Error is stored without looking for its task.
SaveError(th) ==
    LET call == calls[th] IN
    /\ call.pc = "saving"
    /\ IsLeft(call)
    /\ Current(call).isError
    /\ errors' = errors \cup {Current(call).item}
    /\ Goto(th, GoOn(call))
    /\ UNCHANGED <<valueType, results, history>>

\* Fault: the look-up is not tested for null.
Looked(call, type) == [call EXCEPT !.pc = "insert", !.type = type]

\* Any other item is stored by the type of its task, and skipped without one.
LookedUp(call, type) == IF type = None THEN GoOn(call)
                        ELSE [call EXCEPT !.pc = "insert", !.type = type]

LookupTask(th) ==
    LET call == calls[th] IN
    /\ call.pc = "saving"
    /\ IsLeft(call)
    /\ ~Current(call).isError
    /\ Goto(th, LookedUp(call, valueType[Current(call).item.task]))
    /\ UNCHANGED <<tables, history>>

\* Fault: the float branch inserts into the table of integers.
TableForCopied(type) == IF type = "float" THEN "longlong" ELSE type

\* The table for a value type.
TableFor(type) == type

InsertResult(th) ==
    LET call == calls[th] IN
    /\ call.pc = "insert"
    /\ call.type \in ValueTypes
    /\ results' = [results EXCEPT ![TableFor(call.type)] = @ \cup {Current(call).item}]
    /\ Goto(th, GoOn(call))
    /\ UNCHANGED <<valueType, errors, history>>

\* assert(0 && "Unsupported task result type"): the process aborts ...
UnsupportedAbort(th) ==
    /\ calls[th].pc = "insert"
    /\ calls[th].type \notin ValueTypes
    /\ calls' = [u \in Threads |-> Idle]
    /\ disturbed' = disturbed \cup {k \in TaskIds : IsClearing(k)}
    /\ UNCHANGED <<tables, everTyped, discarded, acknowledged>>

\* ... or, built with NDEBUG, goes on with the next item.
UnsupportedSkip(th) ==
    /\ calls[th].pc = "insert"
    /\ calls[th].type \notin ValueTypes
    /\ Goto(th, GoOn(calls[th]))
    /\ UNCHANGED <<tables, history>>

\* The handler goes on to its answer: the agent will not report these again.
SaveEnd(th) ==
    LET call == calls[th] IN
    /\ call.pc = "saving"
    /\ ~IsLeft(call)
    /\ acknowledged' = acknowledged \cup {call.batch[i] : i \in DOMAIN call.batch}
    /\ Goto(th, Idle)
    /\ UNCHANGED <<tables, everTyped, disturbed, discarded>>

\* A statement throws: what was stored before it stays, and the agent gets an
\* error for the whole request.
SaveFails(th) ==
    LET call == calls[th] IN
    /\ call.pc \in {"saving", "insert"}
    /\ IsLeft(call)
    /\ Goto(th, Idle)
    /\ UNCHANGED <<tables, history>>

-----------------------------------------------------------------------------
(* removeTask and removeTaskResults *)

InFlight(k) == \E th \in Threads : calls[th].pc = "insert" /\ Current(calls[th]).item.task = k

\* Fault: the first table is forgotten.
ClearAllButOne(k) == [Idle EXCEPT !.pc = "clear", !.task = k, !.left = Tail(ResultTables)]

\* The three tables of results, and not the table of errors.
ClearAll(k) == [Idle EXCEPT !.pc = "clear", !.task = k, !.left = ResultTables]

RemoveRow(th, k) ==
    /\ Receives(th, "remove")
    /\ everTyped[k] # {}
    /\ valueType' = [valueType EXCEPT ![k] = None]
    /\ disturbed' = IF InFlight(k) THEN disturbed \cup {k} ELSE disturbed
    /\ discarded' = discarded \cup {k}
    /\ Goto(th, ClearAll(k))
    /\ UNCHANGED <<results, errors, everTyped, acknowledged>>

RemoveResults(th, k) ==
    /\ Receives(th, "remove")
    /\ everTyped[k] # {}
    /\ discarded' = discarded \cup {k}
    /\ Goto(th, ClearAll(k))
    /\ UNCHANGED <<tables, everTyped, disturbed, acknowledged>>

ClearTable(th) ==
    LET call == calls[th] IN
    /\ call.pc = "clear"
    /\ results' = [results EXCEPT ![Head(call.left)] = {i \in @ : i.task # call.task}]
    /\ Goto(th, IF Tail(call.left) = <<>> THEN Idle
                ELSE [call EXCEPT !.left = Tail(@)])
    /\ UNCHANGED <<valueType, errors, history>>

\* A statement throws, or the process stops: the tables left stay as they are.
Interrupt(th) ==
    /\ calls[th].pc = "clear"
    /\ disturbed' = disturbed \cup {calls[th].task}
    /\ Goto(th, Idle)
    /\ UNCHANGED <<tables, everTyped, discarded, acknowledged>>

-----------------------------------------------------------------------------
(* getResults: the row for its type, then that type's table. *)

QueryBegin(th, k, from, to) ==
    /\ Receives(th, "query")
    /\ valueType[k] # None
    /\ Goto(th, [Idle EXCEPT !.pc = "list", !.task = k, !.type = valueType[k],
                             !.from = from, !.to = to])
    /\ UNCHANGED <<tables, history>>

\* Fault: the upper bound is taken as exclusive.
InRangeBelow(call, time) == call.from <= time /\ time < call.to

\* Time >= from AND Time <= to
InRange(call, time) == call.from <= time /\ time <= call.to

\* A task of a type without a table has no results.
Selected(call) ==
    IF call.type \in ValueTypes
    THEN {i \in results[call.type] : i.task = call.task /\ InRange(call, i.time)}
    ELSE {}

QueryList(th) ==
    /\ calls[th].pc = "list"
    /\ Goto(th, [calls[th] EXCEPT !.pc = "answered", !.answer = Selected(calls[th])])
    /\ UNCHANGED <<tables, history>>

QueryEnd(th) ==
    /\ calls[th].pc = "answered"
    /\ Goto(th, Idle)
    /\ UNCHANGED <<tables, history>>

-----------------------------------------------------------------------------
Write(th) ==
    \/ \E k \in TaskIds, type \in StoredTypes : SaveTask(th, k, type) \/ EditTask(th, k, type)
    \/ \E k \in TaskIds : RemoveRow(th, k) \/ RemoveResults(th, k)
    \/ ClearTable(th) \/ Interrupt(th)

Save(th) ==
    \/ \E batch \in Batches : SaveBegin(th, batch)
    \/ SaveError(th) \/ LookupTask(th)
    \/ InsertResult(th) \/ UnsupportedAbort(th) \/ UnsupportedSkip(th)
    \/ SaveEnd(th) \/ SaveFails(th)

Query(th) ==
    \/ \E k \in TaskIds, from, to \in Times : QueryBegin(th, k, from, to)
    \/ QueryList(th)
    \/ QueryEnd(th)

Next == \E th \in Threads : Write(th) \/ Save(th) \/ Query(th)

Spec == Init /\ [][Next]_vars

-----------------------------------------------------------------------------
(* Properties *)

TypeOK ==
    /\ valueType \in [TaskIds -> StoredTypes \cup {None}]
    /\ results \in [ValueTypes -> SUBSET Items]
    /\ errors \subseteq Items
    /\ calls \in [Threads -> Calls]
    /\ everTyped \in [TaskIds -> SUBSET StoredTypes]
    /\ disturbed \subseteq TaskIds
    /\ discarded \subseteq TaskIds
    /\ acknowledged \subseteq Reports
    /\ \A th \in Threads : calls[th].pc \in {"insert", "list"} => calls[th].type # None

\* Results of the task in any of the tables.
HasResults(k) == \E type \in ValueTypes : \E i \in results[type] : i.task = k

\* A result sits in the table of a type its task had (saveTaskItems): an edit of
\* the type between the look-up and the insert leaves it in the table of the
\* earlier type, never in that of a type the task did not have.
ResultsTyped ==
    \A type \in ValueTypes : \A i \in results[type] : type \in everTyped[i.task]

\* Results outlive their task only when its removal ran into a save of one of its
\* items or was cut short: otherwise none is left once the three tables are
\* cleared (removeTask, removeTaskResults), whichever types the task had.
OrphansOnlyFromRace ==
    \A k \in TaskIds :
        /\ everTyped[k] # {} /\ valueType[k] = None
        /\ k \notin disturbed /\ ~IsClearing(k)
        => ~HasResults(k)

\* What a status request was answered for is in the tables until a request
\* clears the task's results (saveTaskItems, removeTaskResults): no other item of
\* the request, skipped or of another kind, and no edit loses it. Only a task
\* that has had a type without a table loses items silently.
IsKept(report) ==
    IF report.isError THEN report.item \in errors
    ELSE \E type \in ValueTypes : report.item \in results[type]

AcknowledgedIsKept ==
    \A report \in acknowledged :
        report.isError \/ (/\ report.item.task \notin discarded
                          /\ everTyped[report.item.task] \subseteq ValueTypes) => IsKept(report)

\* A query in a range answers every result the agent was acknowledged for, its
\* bounds included, while the type of the task was never edited.
AnswerIsComplete ==
    [][\A th \in Threads, report \in acknowledged :
         LET call == calls'[th] IN
         /\ calls[th].pc = "list" /\ call.pc = "answered"
         /\ ~report.isError /\ report.item.task = call.task
         /\ report.item.task \notin discarded
         /\ everTyped[call.task] = {call.type} /\ call.type \in ValueTypes
         /\ call.from <= report.item.time /\ report.item.time <= call.to
         => report.item \in call.answer]_vars

\* "FOREIGN KEY (TaskId) REFERENCES Tasks(Id)" of every table of items
\* (SQLiteDatabaseManager.cpp:43-53): while nothing is being removed, each item
\* belongs to a task that exists, unless its removal was disturbed.
ItemsHaveTask ==
    \A item \in errors \cup UNION {results[type] : type \in ValueTypes} :
        valueType[item.task] # None \/ IsClearing(item.task) \/ item.task \in disturbed
=============================================================================
