------------------------------- MODULE Startup -------------------------------
(***************************************************************************)
(* The life of the server process up to the first requests: main and       *)
(* Application::init read the settings and open the port; the controllers, *)
(* the managers behind them and the database are only made when the first  *)
(* request asks Router::createRequestHandler for a controller.             *)
(*                                                                         *)
(* The three controllers are function-local statics: the compiler guards   *)
(* each of them, so that one thread constructs it while the others wait,   *)
(* and a construction that throws is tried again by the next request.  The *)
(* container makes one ConfigurationManager and one SQLiteDatabaseManager. *)
(***************************************************************************)
EXTENDS Naturals, Sequences

CONSTANTS Threads,      \* HTTP server threads
          Paths,        \* database files
          DefaultPath,  \* "./nikmon.db"
          None          \* no settings, no file, no manager

ASSUME DefaultPathAssumption == DefaultPath \in Paths
ASSUME NonePathAssumption == None \notin Paths

\* The tables in the order of their CREATE TABLE statements.
Tables == <<"Agents", "Tasks", "TasksItems_long", "TasksItems_float",
            "TasksItems_text", "TasksItems_errors">>
AllTables == {Tables[i] : i \in DOMAIN Tables}
ASSUME NoneTablesAssumption == \A S \in SUBSET AllTables : S # None

\* The keys without which init gives up, in the order it looks for them.
RequiredKeys == <<"Port", "HttpServerQueueSize", "HttpServerMaxThreads">>
AllKeys == {RequiredKeys[i] : i \in DOMAIN RequiredKeys}

\* The settings file: which required keys it has, and DatabasePath if it does.
Settings == [keys : SUBSET AllKeys, path : Paths \cup {None}]
ASSUME NoneSettingsAssumption == None \notin Settings

\* The controllers createRequestHandler asks, in this order.
Controllers == <<"AgentsController", "AgentCommunicatorController", "TasksController">>

VARIABLES conf,         \* the settings file
          files,        \* the tables in each database file, None without a file
          process,      \* how far the process is
          settings,     \* what ConfigurationManager loaded
          statics,      \* the guard of each static controller
          manager,      \* the file of the one SQLiteDatabaseManager, None before it
          calls,        \* what each thread is doing
          torn          \* files whose creation was cut short (history)

disk == <<conf, files, torn>>
vars == <<disk, process, settings, statics, manager, calls>>

\* controller: the static being looked at; table: the next to create.
Calls == [pc : {"idle", "static", "resolve", "create", "open", "serving"},
          controller : DOMAIN Controllers, table : DOMAIN Tables]

Idle == [pc |-> "idle", controller |-> 1, table |-> 1]

Goto(th, call) == calls' = [calls EXCEPT ![th] = call]

NoStatics == [c \in DOMAIN Controllers |-> "none"]

Init ==
    /\ conf \in Settings
    /\ files = [p \in Paths |-> None]
    /\ torn = {}
    /\ process = "down"
    /\ settings = None
    /\ statics = NoStatics
    /\ manager = None
    /\ calls = [th \in Threads |-> Idle]

DatabasePath == IF settings.path = None THEN DefaultPath ELSE settings.path

\* What a creation that ends before its last CREATE TABLE leaves behind.
LeftIncomplete(th) ==
    IF calls[th].pc = "create" /\ files[DatabasePath] # None THEN {DatabasePath} ELSE {}

-----------------------------------------------------------------------------
(* The machine around the process *)

\* Read once per start, so a change made while the server runs is one made later.
EditConf ==
    /\ process = "down"
    /\ conf' \in Settings
    /\ UNCHANGED <<files, torn, process, settings, statics, manager, calls>>

\* The process ends, by a crash, a failed init or a termination request.
Exit ==
    /\ process # "down"
    /\ process' = "down"
    /\ torn' = torn \cup UNION {LeftIncomplete(th) : th \in Threads}
    /\ settings' = None
    /\ statics' = NoStatics
    /\ manager' = None
    /\ calls' = [th \in Threads |-> Idle]
    /\ UNCHANGED <<conf, files>>

-----------------------------------------------------------------------------
(* main and Application::init *)

\* The Router is made first and, with it, the container.
Main ==
    /\ process = "down"
    /\ process' = "logger"
    /\ UNCHANGED <<disk, settings, statics, manager, calls>>

\* A file that cannot be read ends the process (Exit).
ConfigureLogger ==
    /\ process = "logger"
    /\ process' = "config"
    /\ UNCHANGED <<disk, settings, statics, manager, calls>>

LoadConfig ==
    /\ process = "config"
    /\ settings' = conf
    /\ process' = "keys"
    /\ UNCHANGED <<disk, statics, manager, calls>>

\* Without one of the keys, or a number behind it, the process ends (Exit).
Listen ==
    /\ process = "keys"
    /\ settings.keys = AllKeys
    /\ process' = "listening"
    /\ UNCHANGED <<disk, settings, statics, manager, calls>>

-----------------------------------------------------------------------------
(* Router::createRequestHandler *)

Receive(th) ==
    /\ process = "listening"
    /\ calls[th] = Idle
    /\ Goto(th, [Idle EXCEPT !.pc = "static"])
    /\ UNCHANGED <<disk, process, settings, statics, manager>>

GuardOf(th) == statics[calls[th].controller]

\* Fault: a plain static pointer tested for null, without the compiler's guard.
Unguarded(th) == GuardOf(th) # "done"

\* Nobody has constructed the controller and nobody is at it.
MayConstruct(th) == GuardOf(th) = "none"

Construct(th) ==
    /\ calls[th].pc = "static"
    /\ MayConstruct(th)
    /\ statics' = [statics EXCEPT ![calls[th].controller] = "building"]
    /\ Goto(th, [calls[th] EXCEPT !.pc = "resolve"])
    /\ UNCHANGED <<disk, process, settings, manager>>

\* Fault: one controller too many is asked.
PastLast(th) == calls[th].controller > Len(Controllers)

AtLast(th) == calls[th].controller = Len(Controllers)

\* On to the next controller, or, after the last, to the handler.  A controller
\* that takes the request is resolved once more for it; the container has it, or
\* makes it of managers that are there, and no state of this module changes.
PassStatic(th) ==
    LET call == calls[th] IN
    /\ call.pc = "static"
    /\ GuardOf(th) = "done"
    /\ Goto(th, IF AtLast(th)
                THEN [call EXCEPT !.pc = "serving"]
                ELSE [call EXCEPT !.controller = @ + 1])
    /\ UNCHANGED <<disk, process, settings, statics, manager>>

\* The container has the database manager: the controller is complete.
Resolved(th) ==
    /\ calls[th].pc = "resolve"
    /\ manager # None
    /\ statics' = [statics EXCEPT ![calls[th].controller] = "done"]
    /\ Goto(th, [calls[th] EXCEPT !.pc = "static"])
    /\ UNCHANGED <<disk, process, settings, manager>>

-----------------------------------------------------------------------------
(* SQLiteDatabaseManager::SQLiteDatabaseManager *)

\* createDatabaseIfNotExist: file.exists, and the session that may make the
\* file at once; else its first statement does.
Probe(th) ==
    LET isMissing == files[DatabasePath] = None IN
    /\ calls[th].pc = "resolve"
    /\ manager = None
    /\ \/ UNCHANGED files
       \/ isMissing /\ files' = [files EXCEPT ![DatabasePath] = {}]
    /\ Goto(th, [calls[th] EXCEPT !.pc = IF isMissing THEN "create" ELSE "open", !.table = 1])
    /\ UNCHANGED <<conf, torn, process, settings, statics, manager>>

Existing(path) == IF files[path] = None THEN {} ELSE files[path]

\* A table that exists already makes the statement throw.
CreateTable(th) ==
    LET call == calls[th]
        table == Tables[call.table] IN
    /\ call.pc = "create"
    /\ table \notin Existing(DatabasePath)
    /\ files' = [files EXCEPT ![DatabasePath] = Existing(DatabasePath) \cup {table}]
    /\ Goto(th, IF call.table = Len(Tables) THEN [call EXCEPT !.pc = "open"]
                ELSE [call EXCEPT !.table = @ + 1])
    /\ UNCHANGED <<conf, torn, process, settings, statics, manager>>

\* The session of the repositories; with it the constructor returns.
OpenSession(th) ==
    /\ calls[th].pc = "open"
    /\ manager' = DatabasePath
    /\ Goto(th, [calls[th] EXCEPT !.pc = "resolve"])
    /\ UNCHANGED <<disk, process, settings, statics>>

\* Fault: the flag of the static stays set when its constructor throws.
KeepGuard(th) == UNCHANGED statics

\* A construction that throws leaves the static as it was.
ReleaseGuard(th) == statics' = [statics EXCEPT ![calls[th].controller] = "none"]

\* SQLite throws: createRequestHandler does too, and the connection ends.
Throw(th) ==
    /\ calls[th].pc \in {"create", "open"}
    /\ torn' = torn \cup LeftIncomplete(th)
    /\ ReleaseGuard(th)
    /\ Goto(th, Idle)
    /\ UNCHANGED <<conf, files, process, settings, manager>>

\* The handler runs on the tables there are and answers.
Serve(th) ==
    /\ calls[th].pc = "serving"
    /\ Goto(th, Idle)
    /\ UNCHANGED <<disk, process, settings, statics, manager>>

-----------------------------------------------------------------------------
Handle(th) ==
    \/ Construct(th) \/ PassStatic(th) \/ Resolved(th)
    \/ Probe(th) \/ CreateTable(th) \/ OpenSession(th) \/ Throw(th)
    \/ Serve(th)

Next ==
    \/ EditConf \/ Exit
    \/ Main \/ ConfigureLogger \/ LoadConfig \/ Listen
    \/ \E th \in Threads : Receive(th) \/ Handle(th)

\* A thread that is in a request and not waiting for another goes on.
Fairness == \A th \in Threads : WF_vars(Handle(th))

Spec == Init /\ [][Next]_vars
FairSpec == Spec /\ Fairness

-----------------------------------------------------------------------------
(* Properties *)

TypeOK ==
    /\ conf \in Settings
    /\ files \in [Paths -> {None} \cup SUBSET AllTables]
    /\ process \in {"down", "logger", "config", "keys", "listening"}
    /\ settings \in Settings \cup {None}
    /\ statics \in [DOMAIN Controllers -> {"none", "building", "done"}]
    /\ manager \in Paths \cup {None}
    /\ calls \in [Threads -> Calls]
    /\ torn \subseteq Paths

\* A handler finds all six tables in the file its repositories use, however many
\* first requests came at once, whichever constructions threw and were tried
\* again: only a file whose own creation was cut short lacks some, for
\* createDatabaseIfNotExist takes any file for a complete one.
ServesCompleteStore ==
    \A th \in Threads : calls[th].pc = "serving" =>
        manager # None /\ (files[manager] = AllTables \/ manager \in torn)

\* The thread is inside the constructor of a static.
IsBuilding(th) == calls[th].pc \in {"resolve", "create", "open"}

Builders(c) == {th \in Threads : IsBuilding(th) /\ calls[th].controller = c}

\* A static is under construction just when one thread constructs it, and then by
\* that one alone: a construction that throws leaves no guard behind that the
\* requests to come would wait at, and no two threads make a controller, or the
\* database manager, twice.
OneBuilder ==
    \A c \in DOMAIN Controllers :
        IF statics[c] = "building" THEN \E th \in Threads : Builders(c) = {th}
        ELSE Builders(c) = {}

\* A static under construction does not stay so: the requests that wait for it
\* are let through, or one of them constructs it, even after it threw.
ConstructionEnds ==
    \A c \in DOMAIN Controllers : statics[c] = "building" ~> statics[c] # "building"
=============================================================================
