---------------------------- MODULE StartupProofs ----------------------------
(***************************************************************************)
(* Proofs about Startup, for any number of threads and any database files: *)
(* what the first requests find, whichever of them constructs the managers *)
(* and whatever throws or ends in between.                                 *)
(*                                                                         *)
(* Until there is a manager every request is held at the first controller, *)
(* whose guard lets one thread through: that thread alone writes the file. *)
(***************************************************************************)
EXTENDS Startup, TLAPS

IsInside(th) == calls[th].pc \in {"create", "open"}

\* The guard of a static has at most one thread behind it.
GuardsOK ==
    /\ \A th \in Threads : IsBuilding(th) => statics[calls[th].controller] = "building"
    /\ \A th, u \in Threads :
         IsBuilding(th) /\ IsBuilding(u) /\ calls[th].controller = calls[u].controller => th = u
    /\ \A c \in DOMAIN Controllers : statics[c] = "done" => manager # None

\* Beyond the first controller there is a manager.
ManagerOK ==
    /\ \A th \in Threads : calls[th].pc = "serving" \/ calls[th].controller # 1 => manager # None
    /\ \A th \in Threads : IsInside(th) => manager = None

ProcessOK ==
    /\ process \in {"keys", "listening"} => settings \in Settings
    /\ process # "listening" => manager = None /\ \A th \in Threads : calls[th] = Idle

IsComplete(path) == files[path] = AllTables \/ path \in torn

\* An incomplete file is one being created, or one whose creation was cut short.
FilesOK ==
    /\ \A path \in Paths :
         files[path] # None /\ ~IsComplete(path) =>
            \E th \in Threads : calls[th].pc = "create" /\ DatabasePath = path
    /\ \A th \in Threads : calls[th].pc = "create" =>
         Existing(DatabasePath) = {Tables[i] : i \in 1 .. calls[th].table - 1}
    /\ \A th \in Threads : calls[th].pc = "open" => IsComplete(DatabasePath)
    /\ manager # None => manager = DatabasePath /\ IsComplete(manager)

IndInv == TypeOK /\ GuardsOK /\ ManagerOK /\ ProcessOK /\ FilesOK

-----------------------------------------------------------------------------

LEMMA Tuples ==
    /\ DOMAIN Tables = 1 .. 6 /\ Len(Tables) = 6
    /\ DOMAIN Controllers = 1 .. 3 /\ Len(Controllers) = 3
    /\ AllTables = {Tables[i] : i \in 1 .. 6}
BY DEF Tables, Controllers, AllTables

LEMMA PathIsConfigured == settings \in Settings => DatabasePath \in Paths
BY DefaultPathAssumption DEF Settings, DatabasePath

LEMMA IdleIsSound == Idle \in Calls /\ Idle.pc = "idle" /\ Idle.controller = 1
BY Tuples DEF Idle, Calls

\* At most one thread is inside the constructor of the manager.
LEMMA OneInside ==
    ASSUME IndInv, NEW th \in Threads, NEW u \in Threads, IsInside(th), IsInside(u)
    PROVE  th = u
BY DEF IndInv, GuardsOK, ManagerOK, IsInside, IsBuilding

LEMMA Listening ==
    ASSUME IndInv, NEW th \in Threads, calls[th].pc # "idle"
    PROVE  process = "listening" /\ settings \in Settings /\ DatabasePath \in Paths
BY PathIsConfigured, IdleIsSound DEF IndInv, ProcessOK

LEMMA IndInvInit == Init => IndInv
<1> SUFFICES ASSUME Init PROVE IndInv
  OBVIOUS
<1>1. \A th \in Threads : calls[th] = Idle
  BY DEF Init
<1>2. TypeOK
  BY IdleIsSound DEF Init, TypeOK, NoStatics
<1>3. GuardsOK /\ ManagerOK /\ ProcessOK
  BY <1>1, IdleIsSound
     DEF Init, GuardsOK, ManagerOK, ProcessOK, IsBuilding, IsInside, NoStatics
<1>4. FilesOK
  BY <1>1, IdleIsSound DEF Init, FilesOK
<1> QED BY <1>2, <1>3, <1>4 DEF IndInv

-----------------------------------------------------------------------------
(* Steps of the process *)

LEMMA ProcessStep ==
    ASSUME IndInv, EditConf \/ Exit \/ Main \/ ConfigureLogger \/ LoadConfig \/ Listen
    PROVE  IndInv'
<1>1. CASE Exit
  <2>1. /\ process' = "down" /\ settings' = None /\ statics' = NoStatics /\ manager' = None
        /\ calls' = [th \in Threads |-> Idle] /\ UNCHANGED <<conf, files>>
        /\ torn' = torn \cup UNION {LeftIncomplete(th) : th \in Threads}
    BY <1>1 DEF Exit
  <2>2. \A th \in Threads : LeftIncomplete(th) \subseteq Paths
    BY Listening DEF LeftIncomplete
  <2>3. TypeOK'
    BY <2>1, <2>2, IdleIsSound DEF IndInv, TypeOK, NoStatics
  <2>4. GuardsOK' /\ ManagerOK' /\ ProcessOK'
    BY <2>1, IdleIsSound DEF GuardsOK, ManagerOK, ProcessOK, IsBuilding, IsInside, NoStatics
  <2>5. \A path \in Paths : files[path] # None => IsComplete(path)'
    <3> SUFFICES ASSUME NEW path \in Paths, files[path] # None, ~IsComplete(path)
                 PROVE  path \in torn'
      BY <2>1 DEF IsComplete
    <3>1. PICK th \in Threads : calls[th].pc = "create" /\ DatabasePath = path
      BY DEF IndInv, FilesOK
    <3> QED BY <2>1, <3>1 DEF LeftIncomplete
  <2>6. FilesOK'
    BY <2>1, <2>5, IdleIsSound DEF FilesOK
  <2> QED BY <2>3, <2>4, <2>6 DEF IndInv
<1>2. CASE ~Exit
  <2>1. /\ process # "listening" /\ manager = None /\ \A th \in Threads : calls[th] = Idle
        /\ UNCHANGED <<files, torn, statics, manager, calls>>
    BY <1>2 DEF EditConf, Main, ConfigureLogger, LoadConfig, Listen, disk, IndInv, ProcessOK
  <2>2. TypeOK'
    BY <1>2, <2>1 DEF EditConf, Main, ConfigureLogger, LoadConfig, Listen, disk, IndInv, TypeOK
  <2>3. GuardsOK' /\ ManagerOK'
    BY <2>1 DEF IndInv, GuardsOK, ManagerOK, IsBuilding, IsInside
  <2>4. ProcessOK'
    BY <1>2, <2>1
       DEF EditConf, Main, ConfigureLogger, LoadConfig, Listen, disk, IndInv, TypeOK, ProcessOK
  <2>5. FilesOK'
    BY <2>1, IdleIsSound DEF IndInv, FilesOK, IsComplete
  <2> QED BY <2>2, <2>3, <2>4, <2>5 DEF IndInv
<1> QED BY <1>1, <1>2

-----------------------------------------------------------------------------
(* Steps of a request *)

LEMMA CallFacts ==
    ASSUME IndInv, NEW th \in Threads
    PROVE  /\ calls \in [Threads -> Calls] /\ calls[th] \in Calls
           /\ calls[th].controller \in 1 .. 3 /\ calls[th].table \in 1 .. 6
           /\ \A u \in Threads : calls[u] \in Calls
BY Tuples DEF IndInv, TypeOK, Calls

LEMMA GotoOthers ==
    ASSUME IndInv, NEW th \in Threads, NEW call, Goto(th, call)
    PROVE  /\ calls'[th] = call
           /\ \A u \in Threads \ {th} : calls'[u] = calls[u]
           /\ call \in Calls => calls' \in [Threads -> Calls]
BY CallFacts DEF Goto

\* A step that is none of the constructor's, and leaves its guard alone.
LEMMA OutsideStep ==
    ASSUME IndInv, NEW th \in Threads, NEW call \in Calls, Goto(th, call),
           process = "listening",
           call.pc \in {"idle", "static", "serving"}, ~IsBuilding(th),
           call.pc = "serving" \/ call.controller # 1 => manager # None,
           UNCHANGED <<disk, process, settings, statics, manager>>
    PROVE  IndInv'
<1>1. /\ calls'[th] = call /\ calls' \in [Threads -> Calls]
      /\ \A u \in Threads \ {th} : calls'[u] = calls[u]
  BY GotoOthers
<1>2. TypeOK' /\ ProcessOK'
  BY <1>1 DEF IndInv, TypeOK, ProcessOK, disk
<1>3. \A u \in Threads : IsBuilding(u)' => IsBuilding(u) /\ calls'[u] = calls[u]
  BY <1>1 DEF IsBuilding
<1>4. GuardsOK'
  BY <1>3 DEF IndInv, GuardsOK
<1>5. ManagerOK'
  BY <1>1 DEF IndInv, ManagerOK, IsInside
<1>6. DatabasePath' = DatabasePath /\ Existing(DatabasePath)' = Existing(DatabasePath)
      /\ \A path \in Paths : IsComplete(path)' = IsComplete(path)
  BY DEF DatabasePath, Existing, IsComplete, disk
<1>7. FilesOK'
  <2>1. \A u \in Threads : calls[u].pc = "create" => calls'[u] = calls[u]
    BY <1>1 DEF IsBuilding
  <2>2. \A u \in Threads : calls'[u].pc \in {"create", "open"} => calls'[u] = calls[u]
    BY <1>3 DEF IsBuilding
  <2>3. DatabasePath \in Paths
    BY PathIsConfigured DEF IndInv, ProcessOK
  <2> QED BY <1>6, <2>1, <2>2, <2>3 DEF IndInv, FilesOK, disk
<1> QED BY <1>2, <1>4, <1>5, <1>7 DEF IndInv

LEMMA StaticStep ==
    ASSUME IndInv, NEW th \in Threads, Receive(th) \/ PassStatic(th) \/ Serve(th)
    PROVE  IndInv'
<1>1. CASE Receive(th)
  <2> DEFINE call == [Idle EXCEPT !.pc = "static"]
  <2>1. call \in Calls /\ call.pc = "static" /\ call.controller = 1
    BY IdleIsSound DEF Calls, Idle
  <2>2. Goto(th, call) /\ process = "listening" /\ ~IsBuilding(th)
        /\ UNCHANGED <<disk, process, settings, statics, manager>>
    BY <1>1, IdleIsSound DEF Receive, IsBuilding
  <2> HIDE DEF call
  <2> QED BY <2>1, <2>2, OutsideStep
<1>2. CASE PassStatic(th)
  <2> DEFINE call == IF AtLast(th) THEN [calls[th] EXCEPT !.pc = "serving"]
                     ELSE [calls[th] EXCEPT !.controller = @ + 1]
  <2>1. calls[th].pc = "static" /\ Goto(th, call)
        /\ UNCHANGED <<disk, process, settings, statics, manager>>
    BY <1>2 DEF PassStatic
  <2>2. manager # None
    BY <1>2, CallFacts, Tuples DEF PassStatic, GuardOf, IndInv, GuardsOK
  <2>3. call \in Calls /\ call.pc \in {"static", "serving"}
    BY <2>1, CallFacts, Tuples DEF Calls, AtLast
  <2> HIDE DEF call
  <2> QED BY <2>1, <2>2, <2>3, OutsideStep, Listening DEF IsBuilding
<1>3. CASE Serve(th)
  BY <1>3, OutsideStep, Listening, IdleIsSound DEF Serve, IsBuilding
<1> QED BY <1>1, <1>2, <1>3

\* A thread takes the guard of a controller, or gives it back.
LEMMA ConstructStep ==
    ASSUME IndInv, NEW th \in Threads, Construct(th)
    PROVE  IndInv'
<1> DEFINE c == calls[th].controller
           call == [calls[th] EXCEPT !.pc = "resolve"]
<1>1. /\ calls[th].pc = "static" /\ statics[c] = "none" /\ c \in 1 .. 3
      /\ statics' = [statics EXCEPT ![c] = "building"]
      /\ UNCHANGED <<disk, process, settings, manager>>
  BY CallFacts DEF Construct, MayConstruct, GuardOf
<1>2. call \in Calls /\ call.pc = "resolve" /\ call.controller = c
  BY CallFacts DEF Calls
<1>3. Goto(th, call)
  BY DEF Construct
<1> HIDE DEF call
<1>4. /\ calls'[th] = call /\ calls' \in [Threads -> Calls]
      /\ \A u \in Threads \ {th} : calls'[u] = calls[u]
  BY <1>2, <1>3, GotoOthers
<1>5. statics \in [1 .. 3 -> {"none", "building", "done"}]
  BY Tuples DEF IndInv, TypeOK
<1>6. TypeOK' /\ ProcessOK'
  BY <1>1, <1>4, <1>5, Listening, Tuples DEF IndInv, TypeOK, ProcessOK, disk
<1>7. \A u \in Threads \ {th} : IsBuilding(u) => calls[u].controller # c
  BY <1>1 DEF IndInv, GuardsOK
<1>8. GuardsOK'
  <2>1. \A u \in Threads : IsBuilding(u)' => statics'[calls'[u].controller] = "building"
    BY <1>1, <1>2, <1>4, <1>5, <1>7, CallFacts DEF IndInv, GuardsOK, IsBuilding
  <2>2. \A u, v \in Threads :
          IsBuilding(u)' /\ IsBuilding(v)' /\ calls'[u].controller = calls'[v].controller => u = v
    BY <1>2, <1>4, <1>7 DEF IndInv, GuardsOK, IsBuilding
  <2>3. \A d \in DOMAIN Controllers : statics'[d] = "done" => manager' # None
    BY <1>1, <1>5, Tuples DEF IndInv, GuardsOK
  <2> QED BY <2>1, <2>2, <2>3 DEF GuardsOK
<1>9. ManagerOK'
  BY <1>1, <1>2, <1>4 DEF IndInv, ManagerOK, IsInside
<1>10. FilesOK'
  <2>1. \A u \in Threads : calls[u].pc = "create" => calls'[u] = calls[u]
    BY <1>1, <1>4
  <2>2. \A u \in Threads : calls'[u].pc \in {"create", "open"} => calls'[u] = calls[u]
    BY <1>2, <1>4
  <2>3. DatabasePath' = DatabasePath /\ Existing(DatabasePath)' = Existing(DatabasePath)
        /\ \A path : IsComplete(path)' = IsComplete(path)
    BY <1>1 DEF DatabasePath, Existing, IsComplete, disk
  <2> QED BY <1>1, <2>1, <2>2, <2>3 DEF IndInv, FilesOK, disk
<1> QED BY <1>6, <1>8, <1>9, <1>10 DEF IndInv

LEMMA ResolvedStep ==
    ASSUME IndInv, NEW th \in Threads, Resolved(th)
    PROVE  IndInv'
<1> DEFINE c == calls[th].controller
           call == [calls[th] EXCEPT !.pc = "static"]
<1>1. /\ calls[th].pc = "resolve" /\ manager # None /\ c \in 1 .. 3
      /\ statics' = [statics EXCEPT ![c] = "done"]
      /\ UNCHANGED <<disk, process, settings, manager>>
  BY CallFacts DEF Resolved
<1>2. call \in Calls /\ call.pc = "static" /\ call.controller = c
  BY CallFacts DEF Calls
<1>3. Goto(th, call)
  BY DEF Resolved
<1> HIDE DEF call
<1>4. /\ calls'[th] = call /\ calls' \in [Threads -> Calls]
      /\ \A u \in Threads \ {th} : calls'[u] = calls[u]
  BY <1>2, <1>3, GotoOthers
<1>5. statics \in [1 .. 3 -> {"none", "building", "done"}]
  BY Tuples DEF IndInv, TypeOK
<1>6. TypeOK' /\ ProcessOK'
  BY <1>1, <1>4, <1>5, Listening, Tuples DEF IndInv, TypeOK, ProcessOK, disk
<1>7. \A u \in Threads \ {th} : IsBuilding(u) => calls[u].controller # c
  BY <1>1 DEF IndInv, GuardsOK, IsBuilding
<1>8. GuardsOK'
  <2>1. \A u \in Threads : IsBuilding(u)' => IsBuilding(u) /\ u # th
    BY <1>2, <1>4 DEF IsBuilding
  <2>2. \A u \in Threads : IsBuilding(u)' => statics'[calls'[u].controller] = "building"
    BY <1>1, <1>4, <1>5, <1>7, <2>1, CallFacts DEF IndInv, GuardsOK
  <2>3. \A u, v \in Threads :
          IsBuilding(u)' /\ IsBuilding(v)' /\ calls'[u].controller = calls'[v].controller => u = v
    BY <1>4, <2>1 DEF IndInv, GuardsOK
  <2> QED BY <1>1, <2>2, <2>3 DEF GuardsOK
<1>9. ManagerOK'
  BY <1>1, <1>2, <1>4 DEF IndInv, ManagerOK, IsInside
<1>10. FilesOK'
  <2>1. \A u \in Threads : calls[u].pc = "create" => calls'[u] = calls[u]
    BY <1>1, <1>4
  <2>2. \A u \in Threads : calls'[u].pc \in {"create", "open"} => calls'[u] = calls[u]
    BY <1>2, <1>4
  <2>3. DatabasePath' = DatabasePath /\ Existing(DatabasePath)' = Existing(DatabasePath)
        /\ \A path : IsComplete(path)' = IsComplete(path)
    BY <1>1 DEF DatabasePath, Existing, IsComplete, disk
  <2> QED BY <1>1, <2>1, <2>2, <2>3 DEF IndInv, FilesOK, disk
<1> QED BY <1>6, <1>8, <1>9, <1>10 DEF IndInv

-----------------------------------------------------------------------------
(* Steps of the manager's constructor *)

\* While there is no manager one thread at most constructs anything.
LEMMA OnlyBuilder ==
    ASSUME IndInv, manager = None, NEW th \in Threads, IsBuilding(th)
    PROVE  calls[th].controller = 1 /\ \A u \in Threads : IsBuilding(u) => u = th
BY DEF IndInv, ManagerOK, GuardsOK

\* A constructing thread goes on constructing the same controller.
LEMMA BuildStep ==
    ASSUME IndInv, manager = None, NEW th \in Threads, IsBuilding(th),
           NEW call \in Calls, Goto(th, call),
           call.pc \in {"resolve", "create", "open"}, call.controller = calls[th].controller,
           manager' \in Paths \cup {None}, call.pc \in {"create", "open"} => manager' = None,
           files' \in [Paths -> {None} \cup SUBSET AllTables],
           UNCHANGED <<conf, torn, process, settings, statics>>
    PROVE  TypeOK' /\ GuardsOK' /\ ManagerOK' /\ ProcessOK'
<1>1. /\ calls'[th] = call /\ calls' \in [Threads -> Calls]
      /\ \A u \in Threads \ {th} : calls'[u] = calls[u]
  BY GotoOthers
<1>2. \A u \in Threads : IsBuilding(u) => u = th
  BY OnlyBuilder
<1>3. process = "listening" /\ settings \in Settings
  BY Listening DEF IsBuilding
<1>4. TypeOK' /\ ProcessOK'
  BY <1>1, <1>3 DEF IndInv, TypeOK, ProcessOK
<1>5. \A u \in Threads : IsBuilding(u)' <=> u = th
  BY <1>1, <1>2 DEF IsBuilding
<1>6. GuardsOK'
  BY <1>1, <1>5 DEF IndInv, GuardsOK
<1>7. ManagerOK'
  BY <1>1, <1>2, OnlyBuilder DEF IndInv, ManagerOK, IsInside, IsBuilding
<1> QED BY <1>4, <1>6, <1>7

LEMMA ProbeStep ==
    ASSUME IndInv, NEW th \in Threads, Probe(th)
    PROVE  IndInv'
<1> DEFINE isMissing == files[DatabasePath] = None
           point == IF isMissing THEN "create" ELSE "open"
           call == [calls[th] EXCEPT !.pc = point, !.table = 1]
<1>1. /\ calls[th].pc = "resolve" /\ manager = None /\ IsBuilding(th)
      /\ UNCHANGED <<conf, torn, process, settings, statics, manager>>
  BY DEF Probe, IsBuilding
<1>2. /\ call \in Calls /\ call.controller = calls[th].controller /\ call.table = 1
      /\ call.pc = IF isMissing THEN "create" ELSE "open"
  <2>1. point \in {"create", "open"}
    OBVIOUS
  <2> HIDE DEF point
  <2>2. call \in Calls /\ call.controller = calls[th].controller /\ call.table = 1 /\ call.pc = point
    <3>1. calls[th] \in Calls
      BY CallFacts
    <3>2. 1 \in DOMAIN Tables
      BY Tuples
    <3> QED BY <2>1, <3>1, <3>2 DEF Calls
  <2> QED BY <2>2 DEF point
<1>3. Goto(th, call)
  BY DEF Probe
<1> HIDE DEF call
<1>4. calls'[th] = call /\ \A u \in Threads \ {th} : calls'[u] = calls[u]
  BY <1>2, <1>3, GotoOthers
<1>5. DatabasePath \in Paths /\ DatabasePath' = DatabasePath
  BY <1>1, Listening DEF DatabasePath
<1>6. UNCHANGED files \/ (isMissing /\ files' = [files EXCEPT ![DatabasePath] = {}])
  BY DEF Probe
<1>7. files \in [Paths -> {None} \cup SUBSET AllTables]
  BY DEF IndInv, TypeOK
<1>8. files' \in [Paths -> {None} \cup SUBSET AllTables]
  BY <1>5, <1>6, <1>7
<1>9. TypeOK' /\ GuardsOK' /\ ManagerOK' /\ ProcessOK'
  BY <1>1, <1>2, <1>3, <1>8, BuildStep, NonePathAssumption DEF IndInv, TypeOK
<1>10. \A u \in Threads : calls[u].pc # "create" /\ calls[u].pc # "open"
  BY <1>1, OnlyBuilder DEF IsBuilding
<1>11. \A path \in Paths : files[path] # None => IsComplete(path)
  BY <1>10 DEF IndInv, FilesOK
<1>12. FilesOK'
  <2>1. \A path \in Paths : files'[path] = files[path]
                            \/ (isMissing /\ path = DatabasePath /\ files'[path] = {})
    BY <1>5, <1>6, <1>7
  <2>2. \A path \in Paths : files'[path] = files[path] /\ IsComplete(path) => IsComplete(path)'
    BY <1>1 DEF IsComplete
  <2>3. ASSUME NEW path \in Paths, files'[path] # None, ~IsComplete(path)'
        PROVE  calls'[th].pc = "create" /\ DatabasePath' = path
    BY <1>2, <1>4, <1>5, <1>11, <2>1, <2>2, <2>3
  <2>4. \A u \in Threads : calls'[u].pc \in {"create", "open"} => u = th
    BY <1>4, <1>10
  <2>5. isMissing => Existing(DatabasePath)' = {Tables[i] : i \in 1 .. call.table - 1}
    BY <1>2, <1>5, <2>1 DEF Existing
  <2>6. ~isMissing => IsComplete(DatabasePath)'
    BY <1>5, <1>11, <2>1, <2>2 DEF IsComplete
  <2> QED BY <1>1, <1>2, <1>4, <2>3, <2>4, <2>5, <2>6 DEF FilesOK
<1> QED BY <1>9, <1>12 DEF IndInv

LEMMA CreateStep ==
    ASSUME IndInv, NEW th \in Threads, CreateTable(th)
    PROVE  IndInv'
<1> DEFINE n == calls[th].table
           call == IF n = 6 THEN [calls[th] EXCEPT !.pc = "open"]
                   ELSE [calls[th] EXCEPT !.table = @ + 1]
<1>1. /\ calls[th].pc = "create" /\ IsBuilding(th) /\ IsInside(th) /\ n \in 1 .. 6
      /\ UNCHANGED <<conf, torn, process, settings, statics, manager>>
  BY CallFacts DEF CreateTable, IsBuilding, IsInside
<1>2. manager = None /\ Existing(DatabasePath) = {Tables[i] : i \in 1 .. n - 1}
  BY <1>1 DEF IndInv, ManagerOK, FilesOK
<1>3. DatabasePath \in Paths /\ DatabasePath' = DatabasePath
  BY <1>1, Listening DEF DatabasePath
<1>4. files' = [files EXCEPT ![DatabasePath] = Existing(DatabasePath) \cup {Tables[n]}]
  BY DEF CreateTable
<1>5. Goto(th, call)
  BY Tuples DEF CreateTable
<1>6. /\ call \in Calls /\ call.controller = calls[th].controller
      /\ IF n = 6 THEN call.pc = "open" ELSE call.pc = "create" /\ call.table = n + 1
  BY <1>1, CallFacts, Tuples DEF Calls
<1> HIDE DEF call
<1>7. calls'[th] = call /\ \A u \in Threads \ {th} : calls'[u] = calls[u]
  BY <1>5, <1>6, GotoOthers
<1>8. Existing(DatabasePath) \cup {Tables[n]} = {Tables[i] : i \in 1 .. n}
  BY <1>1, <1>2
<1>9. files \in [Paths -> {None} \cup SUBSET AllTables]
  BY DEF IndInv, TypeOK
<1>10. /\ files' \in [Paths -> {None} \cup SUBSET AllTables]
       /\ files'[DatabasePath] = {Tables[i] : i \in 1 .. n}
       /\ files'[DatabasePath] \in SUBSET AllTables
       /\ \A path \in Paths \ {DatabasePath} : files'[path] = files[path]
  BY <1>1, <1>3, <1>4, <1>8, <1>9, Tuples
<1>11. TypeOK' /\ GuardsOK' /\ ManagerOK' /\ ProcessOK'
  BY <1>1, <1>2, <1>5, <1>6, <1>10, BuildStep DEF IndInv, TypeOK
<1>12. \A u \in Threads : calls[u].pc \in {"create", "open"} => u = th
  BY <1>1, <1>2, OnlyBuilder DEF IsBuilding
<1>13. FilesOK'
  <2>1. n = 6 => IsComplete(DatabasePath)'
    BY <1>3, <1>10, Tuples DEF IsComplete
  <2>2. n # 6 => Existing(DatabasePath)' = {Tables[i] : i \in 1 .. call.table - 1}
    <3>1. files'[DatabasePath] # None => Existing(DatabasePath)' = files'[DatabasePath]
      BY <1>3 DEF Existing
    <3>2. files'[DatabasePath] # None
      BY <1>10, NoneTablesAssumption
    <3> QED BY <1>1, <1>6, <1>10, <3>1, <3>2
  <2>3. ASSUME NEW path \in Paths, files'[path] # None, ~IsComplete(path)'
        PROVE  calls'[th].pc = "create" /\ DatabasePath' = path
    <3>1. path = DatabasePath
      <4>1. CASE path # DatabasePath
        <5>1. files[path] # None /\ ~IsComplete(path)
          BY <1>1, <1>10, <2>3, <4>1 DEF IsComplete
        <5> QED BY <4>1, <5>1 DEF IndInv, FilesOK
      <4> QED BY <4>1
    <3> QED BY <1>3, <1>6, <1>7, <2>1, <2>3, <3>1
  <2>4. \A u \in Threads : calls'[u].pc \in {"create", "open"} => u = th
    BY <1>7, <1>12
  <2> QED BY <1>1, <1>2, <1>6, <1>7, <2>1, <2>2, <2>3, <2>4 DEF FilesOK
<1> QED BY <1>11, <1>13 DEF IndInv

LEMMA OpenStep ==
    ASSUME IndInv, NEW th \in Threads, OpenSession(th)
    PROVE  IndInv'
<1> DEFINE call == [calls[th] EXCEPT !.pc = "resolve"]
<1>1. /\ calls[th].pc = "open" /\ IsBuilding(th) /\ IsInside(th) /\ manager' = DatabasePath
      /\ UNCHANGED <<conf, files, torn, process, settings, statics>>
  BY DEF OpenSession, IsBuilding, IsInside, disk
<1>2. manager = None /\ IsComplete(DatabasePath)
  BY <1>1 DEF IndInv, ManagerOK, FilesOK
<1>3. DatabasePath \in Paths /\ DatabasePath' = DatabasePath
  BY <1>1, Listening DEF DatabasePath
<1>4. call \in Calls /\ call.pc = "resolve" /\ call.controller = calls[th].controller
  BY CallFacts DEF Calls
<1>5. Goto(th, call)
  BY DEF OpenSession
<1> HIDE DEF call
<1>6. calls'[th] = call /\ \A u \in Threads \ {th} : calls'[u] = calls[u]
  BY <1>4, <1>5, GotoOthers
<1>7. TypeOK' /\ GuardsOK' /\ ManagerOK' /\ ProcessOK'
  BY <1>1, <1>2, <1>3, <1>4, <1>5, BuildStep DEF IndInv, TypeOK
<1>8. \A u \in Threads : calls[u].pc \in {"create", "open"} => u = th
  BY <1>1, <1>2, OnlyBuilder DEF IsBuilding
<1>9. FilesOK'
  <2>1. \A u \in Threads : calls'[u].pc \notin {"create", "open"} /\ calls[u].pc # "create"
    BY <1>1, <1>4, <1>6, <1>8
  <2>2. \A path : IsComplete(path)' = IsComplete(path)
    BY <1>1 DEF IsComplete
  <2>3. \A path \in Paths : files[path] # None => IsComplete(path)
    BY <2>1 DEF IndInv, FilesOK
  <2> QED BY <1>1, <1>2, <1>3, <2>1, <2>2, <2>3 DEF FilesOK, IsComplete
<1> QED BY <1>7, <1>9 DEF IndInv

LEMMA ThrowStep ==
    ASSUME IndInv, NEW th \in Threads, Throw(th)
    PROVE  IndInv'
<1> DEFINE c == calls[th].controller
<1>1. /\ IsBuilding(th) /\ IsInside(th) /\ calls[th].pc # "idle" /\ c \in 1 .. 3
      /\ statics' = [statics EXCEPT ![c] = "none"] /\ Goto(th, Idle)
      /\ torn' = torn \cup LeftIncomplete(th)
      /\ UNCHANGED <<conf, files, process, settings, manager>>
  BY CallFacts DEF Throw, ReleaseGuard, IsBuilding, IsInside
<1>2. manager = None /\ \A u \in Threads : IsBuilding(u) => u = th
  BY <1>1, OnlyBuilder DEF IndInv, ManagerOK
<1>3. /\ calls'[th] = Idle /\ calls' \in [Threads -> Calls]
      /\ \A u \in Threads \ {th} : calls'[u] = calls[u]
  BY <1>1, GotoOthers, IdleIsSound
<1>4. DatabasePath \in Paths /\ DatabasePath' = DatabasePath
      /\ process = "listening" /\ settings \in Settings
  BY <1>1, Listening DEF DatabasePath
<1>5. \A u \in Threads : ~IsBuilding(u)'
  BY <1>2, <1>3, IdleIsSound DEF IsBuilding
<1>6. TypeOK' /\ ProcessOK'
  BY <1>1, <1>3, <1>4, Tuples DEF IndInv, TypeOK, ProcessOK, LeftIncomplete
<1>7. GuardsOK'
  BY <1>1, <1>5, Tuples DEF IndInv, TypeOK, GuardsOK
<1>8. ManagerOK'
  BY <1>1, <1>2, <1>3, IdleIsSound DEF IndInv, ManagerOK, IsInside
<1>9. FilesOK'
  <2>1. \A path \in Paths : files[path] # None => IsComplete(path)'
    <3> SUFFICES ASSUME NEW path \in Paths, files[path] # None, ~IsComplete(path)
                 PROVE  path \in torn'
      BY <1>1 DEF IsComplete
    <3>1. PICK u \in Threads : calls[u].pc = "create" /\ DatabasePath = path
      BY DEF IndInv, FilesOK
    <3>2. u = th
      BY <1>2, <3>1 DEF IsBuilding
    <3> QED BY <1>1, <3>1, <3>2 DEF LeftIncomplete
  <2> QED BY <1>1, <1>2, <1>5, <2>1 DEF FilesOK, IsBuilding
<1> QED BY <1>6, <1>7, <1>8, <1>9 DEF IndInv

-----------------------------------------------------------------------------
(* The guards *)

\* Behind the guard of a static under construction there is a thread.
GuardsHeld ==
    \A c \in DOMAIN Controllers :
        statics[c] = "building" => \E th \in Threads : IsBuilding(th) /\ calls[th].controller = c

\* Whoever leaves a construction resets its guard, and nobody else sets one.
LEMMA GuardsHeldNext == IndInv /\ GuardsHeld /\ [Next]_vars => GuardsHeld'
<1> SUFFICES ASSUME IndInv, GuardsHeld, [Next]_vars PROVE GuardsHeld'
  OBVIOUS
<1>1. statics \in [DOMAIN Controllers -> {"none", "building", "done"}]
  BY DEF IndInv, TypeOK
<1>2. CASE UNCHANGED <<statics, calls>>
  BY <1>2 DEF GuardsHeld, IsBuilding
<1>3. CASE Exit
  BY <1>3 DEF Exit, GuardsHeld, NoStatics
<1>4. ASSUME NEW th \in Threads, NEW call \in Calls, Goto(th, call), ~IsBuilding(th),
             UNCHANGED statics
      PROVE  GuardsHeld'
  BY <1>4, GotoOthers DEF GuardsHeld, IsBuilding
<1>5. ASSUME NEW th \in Threads, Receive(th) \/ PassStatic(th) \/ Serve(th)
      PROVE  GuardsHeld'
  <2>1. CASE Receive(th)
    <3>1. [Idle EXCEPT !.pc = "static"] \in Calls
      BY IdleIsSound DEF Calls
    <3> QED BY <1>4, <2>1, <3>1, IdleIsSound DEF Receive, IsBuilding
  <2>2. CASE PassStatic(th)
    <3>1. ASSUME AtLast(th) PROVE [calls[th] EXCEPT !.pc = "serving"] \in Calls
      BY CallFacts DEF Calls
    <3>2. ASSUME ~AtLast(th) PROVE [calls[th] EXCEPT !.controller = @ + 1] \in Calls
      BY <3>2, CallFacts, Tuples DEF Calls, AtLast
    <3> QED BY <1>4, <2>2, <3>1, <3>2 DEF PassStatic, IsBuilding
  <2>3. CASE Serve(th)
    BY <1>4, <2>3, IdleIsSound DEF Serve, IsBuilding
  <2> QED BY <1>5, <2>1, <2>2, <2>3
<1>6. ASSUME NEW th \in Threads, Construct(th)
      PROVE  GuardsHeld'
  <2> DEFINE call == [calls[th] EXCEPT !.pc = "resolve"]
  <2>1. call \in Calls /\ call.pc = "resolve" /\ call.controller = calls[th].controller
    BY CallFacts DEF Calls
  <2>2. Goto(th, call) /\ statics' = [statics EXCEPT ![calls[th].controller] = "building"]
        /\ calls[th].pc = "static"
    BY <1>6 DEF Construct
  <2> HIDE DEF call
  <2> QED BY <1>1, <2>1, <2>2, GotoOthers DEF GuardsHeld, IsBuilding
<1>7. ASSUME NEW th \in Threads, NEW call \in Calls, Goto(th, call), IsBuilding(th),
             \/ UNCHANGED statics /\ call.pc \in {"resolve", "create", "open"}
                /\ call.controller = calls[th].controller
             \/ \E guard \in {"none", "done"} :
                  statics' = [statics EXCEPT ![calls[th].controller] = guard]
      PROVE  GuardsHeld'
  BY <1>1, <1>7, GotoOthers DEF GuardsHeld, IsBuilding
<1>8. ASSUME NEW th \in Threads, Resolved(th) \/ Throw(th)
      PROVE  GuardsHeld'
  <2>1. [calls[th] EXCEPT !.pc = "static"] \in Calls
    BY CallFacts DEF Calls
  <2> QED BY <1>7, <1>8, <2>1, IdleIsSound DEF Resolved, Throw, ReleaseGuard, IsBuilding
<1>9. ASSUME NEW th \in Threads, Probe(th) \/ CreateTable(th) \/ OpenSession(th)
      PROVE  GuardsHeld'
  <2>1. UNCHANGED statics /\ IsBuilding(th)
    BY <1>9 DEF Probe, CreateTable, OpenSession, IsBuilding
  <2>2. \E call \in Calls : Goto(th, call) /\ call.pc \in {"resolve", "create", "open"}
                            /\ call.controller = calls[th].controller
    <3>1. calls[th] \in Calls /\ 1 \in DOMAIN Tables
      BY CallFacts, Tuples
    <3>2. CASE Probe(th)
      <4>1. \A pc \in {"create", "open"} :
              LET call == [calls[th] EXCEPT !.pc = pc, !.table = 1] IN
              call \in Calls /\ call.pc = pc /\ call.controller = calls[th].controller
        BY <3>1 DEF Calls
      <4>2. PICK pc \in {"create", "open"} : Goto(th, [calls[th] EXCEPT !.pc = pc, !.table = 1])
        BY <3>2 DEF Probe
      <4> QED BY <4>1, <4>2
    <3>3. CASE CreateTable(th)
      <4>1. calls[th].table # 6 => [calls[th] EXCEPT !.table = @ + 1] \in Calls
        BY <3>1, Tuples DEF Calls
      <4>2. [calls[th] EXCEPT !.pc = "open"] \in Calls
        BY <3>1 DEF Calls
      <4> QED BY <3>1, <3>3, <4>1, <4>2, Tuples DEF CreateTable, Calls
    <3>4. CASE OpenSession(th)
      BY <3>1, <3>4 DEF OpenSession, Calls
    <3> QED BY <1>9, <3>2, <3>3, <3>4
  <2> QED BY <1>7, <2>1, <2>2
<1> QED BY <1>2, <1>3, <1>5, <1>6, <1>8, <1>9
    DEF Next, Handle, EditConf, Main, ConfigureLogger, LoadConfig, Listen, vars

-----------------------------------------------------------------------------
(* The theorems *)

LEMMA IndInvNext == IndInv /\ [Next]_vars => IndInv'
<1> SUFFICES ASSUME IndInv, [Next]_vars PROVE IndInv'
  OBVIOUS
<1>1. CASE UNCHANGED vars
  BY <1>1 DEF vars, disk, IndInv, TypeOK, GuardsOK, ManagerOK, ProcessOK, FilesOK,
              IsBuilding, IsInside, IsComplete, Existing, DatabasePath
<1>2. ASSUME NEW th \in Threads, Receive(th) \/ Handle(th)
      PROVE  IndInv'
  BY <1>2, StaticStep, ConstructStep, ResolvedStep, ProbeStep, CreateStep, OpenStep, ThrowStep
     DEF Handle
<1> QED BY <1>1, <1>2, ProcessStep DEF Next

\* The inductive invariant holds in every reachable state.
THEOREM Invariance == Spec => []IndInv
BY IndInvInit, IndInvNext, PTL DEF Spec

\* The process, its files and its threads keep their types.
THEOREM TypeCorrect == Spec => []TypeOK
<1>1. IndInv => TypeOK
  BY DEF IndInv
<1> QED BY <1>1, Invariance, PTL

\* Every handler finds the six tables, but in a file whose creation was cut short.
THEOREM StoreIsComplete == Spec => []ServesCompleteStore
<1>1. IndInv => ServesCompleteStore
  BY DEF IndInv, ManagerOK, FilesOK, IsComplete, ServesCompleteStore
<1> QED BY <1>1, Invariance, PTL

\* A static is under construction just when one thread constructs it: the
\* compiler's guards let one in and are never left set by nobody, whatever the
\* constructor throws, for any number of first requests.
THEOREM GuardsHaveOneBuilder == Spec => []OneBuilder
<1>1. Init => GuardsHeld
  BY DEF Init, GuardsHeld, NoStatics
<1>2. IndInv /\ GuardsHeld => OneBuilder
  <2> SUFFICES ASSUME IndInv, GuardsHeld, NEW c \in DOMAIN Controllers
               PROVE  IF statics[c] = "building" THEN \E th \in Threads : Builders(c) = {th}
                      ELSE Builders(c) = {}
    BY DEF OneBuilder
  <2>1. \A th, u \in Builders(c) : th = u
    BY DEF Builders, IndInv, GuardsOK
  <2>2. statics[c] = "building" => \E th \in Threads : th \in Builders(c)
    BY DEF GuardsHeld, Builders
  <2>3. statics[c] # "building" => Builders(c) = {}
    BY DEF Builders, IndInv, GuardsOK
  <2> QED BY <2>1, <2>2, <2>3
<1> QED BY <1>1, <1>2, Invariance, GuardsHeldNext, PTL DEF Spec
=============================================================================
