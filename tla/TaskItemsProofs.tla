--------------------------- MODULE TaskItemsProofs ---------------------------
(***************************************************************************)
(* Proofs about TaskItems, for any tasks, times, threads and size of a     *)
(* status request, with statements that throw and a process that aborts.   *)
(*                                                                         *)
(* A handler keeps what it read of a row and what it has stored so far     *)
(* while other threads edit, remove and clear.  Both only ever get weaker: *)
(* a type once had stays in everTyped, and an item that goes missing goes  *)
(* with its task in discarded (Grows).                                     *)
(***************************************************************************)
EXTENDS TaskItems, SequenceTheorems, TLAPS

\* AcknowledgedIsKept for one report, which a handler owes from the moment it
\* has stored it, or skipped it.
KeptOK(report) ==
    report.isError \/ (/\ report.item.task \notin discarded
                       /\ everTyped[report.item.task] \subseteq ValueTypes) => IsKept(report)

CallOK(call) ==
    /\ call.pc \in {"saving", "insert"} =>
         \A i \in DOMAIN call.batch :
            /\ everTyped[call.batch[i].item.task] # {}
            /\ i < call.next => KeptOK(call.batch[i])
    /\ call.pc = "insert" =>
         /\ IsLeft(call)
         /\ ~Current(call).isError
         /\ call.type # None
         /\ call.type \in everTyped[Current(call).item.task]
    /\ call.pc = "clear" => call.task \in discarded /\ call.left # <<>>
    /\ call.pc = "list" => call.type # None /\ call.task \in TaskIds

RowsOK ==
    /\ \A k \in TaskIds : valueType[k] # None => valueType[k] \in everTyped[k]
    /\ \A k \in TaskIds : everTyped[k] # {} /\ k \notin discarded => valueType[k] # None

IndInv ==
    /\ TypeOK
    /\ ResultsTyped
    /\ RowsOK
    /\ \A th \in Threads : CallOK(calls[th])
    /\ \A report \in acknowledged : KeptOK(report)

-----------------------------------------------------------------------------
(* Batches *)

LEMMA BatchIsSeq ==
    ASSUME NEW b \in Batches
    PROVE  /\ Len(b) \in Nat /\ Len(b) <= MaxItems /\ DOMAIN b = 1 .. Len(b)
           /\ \A i \in DOMAIN b : /\ b[i] \in Reports /\ b[i].item \in Items
                                  /\ b[i].isError \in BOOLEAN /\ b[i].item.task \in TaskIds
<1>1. PICK n \in 0 .. MaxItems : b \in [1 .. n -> Reports]
  BY DEF Batches
<1>2. n \in Nat
  BY <1>1, MaxItemsAssumption
<1>3. b \in Seq(Reports)
  BY <1>1, <1>2, SeqDef
<1>4. Len(b) \in Nat /\ DOMAIN b = 1 .. Len(b) /\ DOMAIN b = 1 .. n
  BY <1>1, <1>3, LenProperties
<1>5. Len(b) = n
  <2>1. CASE Len(b) < n
    <3>1. n \in 1 .. n /\ n \notin 1 .. Len(b)
      BY <1>2, <1>4, <2>1
    <3> QED BY <1>4, <3>1
  <2>2. CASE n < Len(b)
    <3>1. Len(b) \in 1 .. Len(b) /\ Len(b) \notin 1 .. n
      BY <1>2, <1>4, <2>2
    <3> QED BY <1>4, <3>1
  <2>3. Len(b) \in Nat
    BY <1>4
  <2> QED BY <1>2, <2>1, <2>2, <2>3, SMT
<1> QED BY <1>1, <1>4, <1>5, MaxItemsAssumption DEF Reports, Items

LEMMA EmptyBatch == <<>> \in Batches /\ DOMAIN <<>> = {}
<1>1. <<>> \in Seq(Reports) /\ Len(<<>>) = 0
  BY EmptySeq
<1>2. DOMAIN <<>> = {}
  BY <1>1, LenProperties
<1>3. <<>> \in [1 .. 0 -> Reports]
  BY <1>1, LenProperties
<1>4. 0 \in 0 .. MaxItems
  BY MaxItemsAssumption
<1> QED BY <1>2, <1>3, <1>4 DEF Batches

LEMMA IdleIsSound == Idle \in Calls /\ CallOK(Idle) /\ CallOK(Idle)' /\ Idle.pc = "idle"
<1>1. 1 \in 1 .. MaxItems + 1
  BY MaxItemsAssumption
<1> QED BY <1>1, EmptyBatch DEF Idle, Calls, CallOK

-----------------------------------------------------------------------------
(* What no step takes back *)

Grows ==
    /\ errors \subseteq errors'
    /\ discarded \subseteq discarded'
    /\ \A k \in TaskIds : everTyped[k] \subseteq everTyped'[k]
    /\ \A type \in ValueTypes : \A i \in results[type] :
         i \in results'[type] \/ i.task \in discarded'

LEMMA KeptStays ==
    ASSUME Grows, NEW report \in Reports, KeptOK(report)
    PROVE  KeptOK(report)'
<1>1. report.item.task \in TaskIds
  BY DEF Reports, Items
<1> QED BY <1>1 DEF Grows, KeptOK, IsKept

LEMMA CallStays ==
    ASSUME Grows, NEW call \in Calls, CallOK(call)
    PROVE  CallOK(call)'
<1>1. call.batch \in Batches
  BY DEF Calls
<1>2. \A i \in DOMAIN call.batch :
        /\ call.batch[i] \in Reports /\ call.batch[i].item.task \in TaskIds
  BY <1>1, BatchIsSeq
<1>3. call.pc = "insert" => Current(call).item.task \in TaskIds
  <2>1. ASSUME call.pc = "insert" PROVE call.next \in DOMAIN call.batch
    BY <1>1, <2>1, BatchIsSeq, MaxItemsAssumption DEF CallOK, IsLeft, Calls
  <2> QED BY <1>2, <2>1 DEF Current
<1>4. \A i \in DOMAIN call.batch : KeptOK(call.batch[i]) => KeptOK(call.batch[i])'
  BY <1>2, KeptStays
<1>5. call.pc \in {"saving", "insert"} =>
        \A i \in DOMAIN call.batch :
            /\ everTyped'[call.batch[i].item.task] # {}
            /\ i < call.next => KeptOK(call.batch[i])'
  BY <1>2, <1>4 DEF CallOK, Grows
<1>6. call.pc = "insert" => call.type \in everTyped'[Current(call).item.task]
  BY <1>3 DEF CallOK, Grows
<1>7. call.pc = "clear" => call.task \in discarded'
  BY DEF CallOK, Grows
<1> QED BY <1>5, <1>6, <1>7 DEF CallOK, IsLeft, Current

\* The invariant after a step that is right about the calls it changes.
TablesTyped ==
    /\ valueType \in [TaskIds -> StoredTypes \cup {None}]
    /\ results \in [ValueTypes -> SUBSET Items]
    /\ errors \subseteq Items
    /\ everTyped \in [TaskIds -> SUBSET StoredTypes]
    /\ disturbed \subseteq TaskIds
    /\ discarded \subseteq TaskIds
    /\ acknowledged \subseteq Reports

LEMMA StepKeeps ==
    ASSUME IndInv, Grows, TablesTyped', ResultsTyped', RowsOK',
           calls' \in [Threads -> Calls],
           \A u \in Threads : calls'[u] = calls[u] \/ CallOK(calls[u])',
           \A report \in acknowledged' : report \in acknowledged \/ KeptOK(report)'
    PROVE  IndInv'
<1>1. \A u \in Threads : calls[u] \in Calls /\ CallOK(calls[u])
  BY DEF IndInv, TypeOK
<1>2. \A u \in Threads : \A c \in Calls : c = calls[u] => CallOK(c)'
  BY <1>1, CallStays
<1>3. ASSUME NEW u \in Threads PROVE CallOK(calls[u])'
  <2>1. CASE calls'[u] = calls[u]
    <3>1. PICK c \in Calls : c = calls[u]
      BY <1>1
    <3>2. CallOK(c)' /\ calls'[u] = c
      BY <1>2, <2>1, <3>1
    <3> QED BY <3>2 DEF CallOK, KeptOK, IsKept
  <2> QED BY <2>1
<1>4. \A u \in Threads : calls'[u].pc \in {"insert", "list"} => calls'[u].type # None
  BY <1>3 DEF CallOK
<1>5. \A report \in acknowledged : KeptOK(report)'
  BY KeptStays DEF IndInv, TypeOK
<1> QED BY <1>3, <1>4, <1>5 DEF IndInv, TypeOK, TablesTyped

LEMMA GotoKeeps ==
    ASSUME IndInv, NEW th \in Threads, NEW call \in Calls, CallOK(call)', Goto(th, call)
    PROVE  /\ calls' \in [Threads -> Calls]
           /\ \A u \in Threads : calls'[u] = calls[u] \/ CallOK(calls[u])'
<1>1. /\ calls'[th] = call /\ calls' \in [Threads -> Calls]
      /\ \A u \in Threads \ {th} : calls'[u] = calls[u]
  BY DEF Goto, IndInv, TypeOK
<1>2. CallOK(calls[th])'
  BY <1>1 DEF CallOK, KeptOK, IsKept
<1> QED BY <1>1, <1>2

\* A step of one thread that neither writes nor acknowledges.
LEMMA QuietKeeps ==
    ASSUME IndInv, NEW th \in Threads, NEW call \in Calls, Goto(th, call), CallOK(call)',
           UNCHANGED <<tables, history>>
    PROVE  IndInv'
<1>1. /\ UNCHANGED <<valueType, results, errors>>
      /\ UNCHANGED <<everTyped, disturbed, discarded, acknowledged>>
  BY DEF tables, history
<1>2. Grows /\ TablesTyped' /\ ResultsTyped' /\ RowsOK'
  BY <1>1 DEF Grows, TablesTyped, ResultsTyped, RowsOK, IndInv, TypeOK
<1> QED BY <1>1, <1>2, GotoKeeps, StepKeeps

-----------------------------------------------------------------------------
(* saveTask and editTask *)

LEMMA SetTypeKeeps ==
    ASSUME IndInv, NEW k \in TaskIds, NEW type \in StoredTypes, SetType(k, type)
    PROVE  IndInv'
<1>1. /\ valueType' = [valueType EXCEPT ![k] = type]
      /\ everTyped' = [everTyped EXCEPT ![k] = @ \cup {type}]
      /\ UNCHANGED <<results, errors, calls, disturbed, discarded, acknowledged>>
  BY DEF SetType
<1>2. Grows /\ TablesTyped'
  BY <1>1 DEF Grows, TablesTyped, IndInv, TypeOK
<1>3. ResultsTyped'
  BY <1>1 DEF ResultsTyped, IndInv, TypeOK, Items
<1>4. RowsOK'
  BY <1>1, NoneTypeAssumption DEF RowsOK, IndInv, TypeOK
<1>5. calls' \in [Threads -> Calls] /\ \A u \in Threads : calls'[u] = calls[u]
  BY <1>1 DEF IndInv, TypeOK
<1> QED BY <1>1, <1>2, <1>3, <1>4, <1>5, StepKeeps

-----------------------------------------------------------------------------
(* saveTaskItems *)

LEMMA CurrentIsReport ==
    ASSUME NEW call \in Calls, IsLeft(call)
    PROVE  /\ call.next \in DOMAIN call.batch
           /\ Current(call) \in Reports /\ Current(call).item \in Items
           /\ Current(call).item.task \in TaskIds /\ Current(call).isError \in BOOLEAN
           /\ GoOn(call) \in Calls
<1>1. call.batch \in Batches /\ call.next \in 1 .. MaxItems + 1
  BY DEF Calls
<1>2. call.next \in DOMAIN call.batch /\ call.next + 1 \in 1 .. MaxItems + 1
  BY <1>1, BatchIsSeq, MaxItemsAssumption DEF IsLeft
<1>3. GoOn(call) \in Calls
  BY <1>2 DEF GoOn, Calls
<1> QED BY <1>1, <1>2, <1>3, BatchIsSeq DEF Current

\* The loop may go on once the report it leaves behind is settled.
LEMMA GoOnIsSound ==
    ASSUME NEW call \in Calls, call.pc \in {"saving", "insert"}, IsLeft(call),
           CallOK(call)', KeptOK(Current(call))'
    PROVE  CallOK(GoOn(call))'
<1>1. /\ GoOn(call).pc = "saving" /\ GoOn(call).batch = call.batch
      /\ GoOn(call).next = call.next + 1
  BY DEF GoOn, Calls
<1>2. /\ DOMAIN call.batch \subseteq Nat /\ call.next \in Nat
  <2>1. call.batch \in Batches /\ call.next \in 1 .. MaxItems + 1
    BY DEF Calls
  <2> QED BY <2>1, BatchIsSeq, MaxItemsAssumption
<1>3. ASSUME NEW i \in DOMAIN call.batch, i < call.next + 1
      PROVE  KeptOK(call.batch[i])'
  <2>1. i < call.next \/ i = call.next
    BY <1>2, <1>3
  <2> QED BY <2>1 DEF CallOK, Current
<1> QED BY <1>1, <1>3 DEF CallOK

LEMMA SaveBeginKeeps ==
    ASSUME IndInv, NEW th \in Threads, NEW batch \in Batches, SaveBegin(th, batch)
    PROVE  IndInv'
<1> DEFINE call == [Idle EXCEPT !.pc = "saving", !.batch = batch]
<1>1. call \in Calls
  BY IdleIsSound DEF Calls, Idle
<1>2. call.pc = "saving" /\ call.batch = batch /\ call.next = 1
  BY DEF Idle
<1>3. \A i \in DOMAIN batch : i \in Nat /\ i >= 1
  BY BatchIsSeq
<1>4. \A i \in DOMAIN batch : everTyped'[batch[i].item.task] # {}
  BY DEF SaveBegin, history
<1>5. CallOK(call)'
  BY <1>2, <1>3, <1>4 DEF CallOK
<1>6. Goto(th, call) /\ UNCHANGED <<tables, history>>
  BY DEF SaveBegin
<1> HIDE DEF call
<1> QED BY <1>1, <1>5, <1>6, QuietKeeps

\* What a handler that is saving knows of the report it has come to.
LEMMA SavingThread ==
    ASSUME IndInv, NEW th \in Threads, calls[th].pc \in {"saving", "insert"}, IsLeft(calls[th])
    PROVE  \E call \in Calls :
              /\ call = calls[th] /\ CallOK(call) /\ IsLeft(call)
              /\ GoOn(call) \in Calls
              /\ Current(call) \in Reports /\ Current(call).item \in Items
              /\ Current(call).item.task \in TaskIds /\ Current(call).isError \in BOOLEAN
              /\ everTyped[Current(call).item.task] # {}
<1>1. PICK call \in Calls : call = calls[th] /\ CallOK(call) /\ IsLeft(call)
  BY DEF IndInv, TypeOK
<1>2. everTyped[Current(call).item.task] # {}
  BY <1>1, CurrentIsReport DEF CallOK, Current
<1> QED BY <1>1, <1>2, CurrentIsReport

LEMMA SaveErrorKeeps ==
    ASSUME IndInv, NEW th \in Threads, SaveError(th)
    PROVE  IndInv'
<1>1. calls[th].pc = "saving" /\ IsLeft(calls[th])
  BY DEF SaveError
<1>2. PICK call \in Calls :
        /\ call = calls[th] /\ CallOK(call) /\ IsLeft(call) /\ GoOn(call) \in Calls
        /\ Current(call) \in Reports /\ Current(call).item \in Items
  BY <1>1, SavingThread
<1>3. /\ Current(call).isError /\ errors' = errors \cup {Current(call).item}
      /\ Goto(th, GoOn(call))
      /\ UNCHANGED <<valueType, results, everTyped, disturbed, discarded, acknowledged>>
  BY <1>2 DEF SaveError, history
<1>4. Grows /\ TablesTyped' /\ ResultsTyped' /\ RowsOK'
  BY <1>2, <1>3 DEF Grows, TablesTyped, ResultsTyped, RowsOK, IndInv, TypeOK
<1>5. KeptOK(Current(call))'
  BY <1>3 DEF KeptOK, IsKept, Current
<1>6. CallOK(GoOn(call))'
  BY <1>1, <1>2, <1>4, <1>5, CallStays, GoOnIsSound
<1> QED BY <1>2, <1>3, <1>4, <1>6, GotoKeeps, StepKeeps

LEMMA LookupTaskKeeps ==
    ASSUME IndInv, NEW th \in Threads, LookupTask(th)
    PROVE  IndInv'
<1>1. calls[th].pc = "saving" /\ IsLeft(calls[th])
  BY DEF LookupTask
<1>2. PICK call \in Calls :
        /\ call = calls[th] /\ CallOK(call) /\ IsLeft(call) /\ GoOn(call) \in Calls
        /\ Current(call) \in Reports /\ Current(call).item.task \in TaskIds
        /\ everTyped[Current(call).item.task] # {}
  BY <1>1, SavingThread
<1> DEFINE task == Current(call).item.task
           type == valueType[task]
<1>3. /\ ~Current(call).isError /\ Goto(th, LookedUp(call, type))
      /\ UNCHANGED <<tables, history>>
  BY <1>2 DEF LookupTask
<1>4. /\ Grows
      /\ UNCHANGED <<valueType, results, errors, everTyped, disturbed, discarded, acknowledged>>
  BY <1>3 DEF Grows, tables, history
<1>5. CallOK(call)'
  BY <1>2, <1>4, CallStays
<1>6. CASE type = None
  <2>1. task \in discarded'
    BY <1>2, <1>4, <1>6 DEF IndInv, RowsOK
  <2>2. KeptOK(Current(call))'
    BY <1>3, <2>1 DEF KeptOK, Current
  <2>3. CallOK(GoOn(call))'
    BY <1>1, <1>2, <1>5, <2>2, GoOnIsSound
  <2>4. Goto(th, GoOn(call))
    BY <1>3, <1>6 DEF LookedUp
  <2> QED BY <1>2, <1>3, <2>3, <2>4, QuietKeeps
<1>7. CASE type # None
  <2>1. PICK found \in StoredTypes : found = type
    BY <1>2, <1>7 DEF IndInv, TypeOK
  <2> DEFINE next == [call EXCEPT !.pc = "insert", !.type = found]
  <2>2. next \in Calls
    BY DEF Calls
  <2>3. /\ next.pc = "insert" /\ next.type = found
        /\ next.batch = call.batch /\ next.next = call.next
    BY DEF Calls
  <2>4. found \in everTyped'[task]
    BY <1>2, <1>4, <1>7, <2>1 DEF IndInv, RowsOK
  <2>5. IsLeft(next) /\ Current(next) = Current(call)
    BY <1>2, <2>3 DEF IsLeft, Current
  <2>6. CallOK(next)'
    <3>1. \A i \in DOMAIN next.batch :
             /\ everTyped'[next.batch[i].item.task] # {}
             /\ i < next.next => KeptOK(next.batch[i])'
      BY <1>1, <1>2, <1>5, <2>3 DEF CallOK
    <3>2. found # None
      BY <1>7, <2>1
    <3>3. ~Current(next).isError /\ found \in everTyped'[Current(next).item.task]
      BY <1>3, <2>4, <2>5
    <3> HIDE DEF next
    <3> QED BY <2>3, <2>5, <3>1, <3>2, <3>3 DEF CallOK, IsLeft, Current
  <2>7. Goto(th, next)
    BY <1>3, <1>7, <2>1 DEF LookedUp
  <2> HIDE DEF next
  <2> QED BY <1>3, <2>2, <2>6, <2>7, QuietKeeps
<1> QED BY <1>6, <1>7

LEMMA InsertResultKeeps ==
    ASSUME IndInv, NEW th \in Threads, InsertResult(th)
    PROVE  IndInv'
<1>1. calls[th].pc = "insert" /\ calls[th].type \in ValueTypes /\ IsLeft(calls[th])
  BY DEF InsertResult, IndInv, CallOK
<1>2. PICK call \in Calls :
        /\ call = calls[th] /\ CallOK(call) /\ IsLeft(call) /\ GoOn(call) \in Calls
        /\ Current(call) \in Reports /\ Current(call).item \in Items
        /\ Current(call).item.task \in TaskIds
  BY <1>1, SavingThread
<1> DEFINE item == Current(call).item
<1>3. /\ results' = [results EXCEPT ![call.type] = @ \cup {item}]
      /\ Goto(th, GoOn(call))
      /\ UNCHANGED <<valueType, errors, everTyped, disturbed, discarded, acknowledged>>
  BY <1>2 DEF InsertResult, TableFor, history
<1>4. item \in results'[call.type]
  BY <1>1, <1>2, <1>3 DEF IndInv, TypeOK
<1>5. Grows /\ TablesTyped' /\ RowsOK'
  BY <1>2, <1>3 DEF Grows, TablesTyped, RowsOK, IndInv, TypeOK
<1>6. ResultsTyped'
  <2>1. call.type \in everTyped[item.task]
    BY <1>1, <1>2 DEF CallOK
  <2> QED BY <1>3, <2>1 DEF ResultsTyped, IndInv, TypeOK
<1>7. KeptOK(Current(call))'
  <2>1. ~Current(call).isError
    BY <1>1, <1>2 DEF CallOK
  <2> QED BY <1>1, <1>2, <1>4, <2>1 DEF KeptOK, IsKept, Current
<1>8. CallOK(GoOn(call))'
  BY <1>1, <1>2, <1>5, <1>7, CallStays, GoOnIsSound
<1> QED BY <1>2, <1>3, <1>5, <1>6, <1>8, GotoKeeps, StepKeeps

LEMMA UnsupportedSkipKeeps ==
    ASSUME IndInv, NEW th \in Threads, UnsupportedSkip(th)
    PROVE  IndInv'
<1>1. calls[th].pc = "insert" /\ calls[th].type \notin ValueTypes /\ IsLeft(calls[th])
  BY DEF UnsupportedSkip, IndInv, CallOK
<1>2. PICK call \in Calls :
        /\ call = calls[th] /\ CallOK(call) /\ IsLeft(call) /\ GoOn(call) \in Calls
        /\ Current(call).item.task \in TaskIds
  BY <1>1, SavingThread
<1>3. Goto(th, GoOn(call)) /\ UNCHANGED <<tables, history>>
  BY <1>2 DEF UnsupportedSkip
<1>4. /\ Grows
      /\ UNCHANGED <<valueType, results, errors, everTyped, disturbed, discarded, acknowledged>>
  BY <1>3 DEF Grows, tables, history
<1>5. KeptOK(Current(call))'
  <2>1. call.type \in everTyped'[Current(call).item.task] \ ValueTypes
    BY <1>1, <1>2, <1>4 DEF CallOK
  <2>2. ~(everTyped'[Current(call).item.task] \subseteq ValueTypes)
    BY <2>1
  <2>3. ~Current(call).isError
    BY <1>1, <1>2 DEF CallOK
  <2> QED BY <2>2, <2>3 DEF KeptOK, Current
<1>6. CallOK(GoOn(call))'
  BY <1>1, <1>2, <1>4, <1>5, CallStays, GoOnIsSound
<1> QED BY <1>2, <1>3, <1>6, QuietKeeps

LEMMA UnsupportedAbortKeeps ==
    ASSUME IndInv, NEW th \in Threads, UnsupportedAbort(th)
    PROVE  IndInv'
<1>1. /\ calls' = [u \in Threads |-> Idle]
      /\ disturbed' = disturbed \cup {k \in TaskIds : IsClearing(k)}
      /\ UNCHANGED <<valueType, results, errors, everTyped, discarded, acknowledged>>
  BY DEF UnsupportedAbort, tables
<1>2. Grows /\ TablesTyped' /\ ResultsTyped' /\ RowsOK'
  BY <1>1 DEF Grows, TablesTyped, ResultsTyped, RowsOK, IndInv, TypeOK
<1>3. /\ calls' \in [Threads -> Calls]
      /\ \A u \in Threads : calls'[u].pc = "idle"
  BY <1>1, IdleIsSound
<1>4. \A u \in Threads : CallOK(calls[u])'
  BY <1>3 DEF CallOK
<1> QED BY <1>1, <1>2, <1>3, <1>4, StepKeeps

LEMMA SaveEndKeeps ==
    ASSUME IndInv, NEW th \in Threads, SaveEnd(th)
    PROVE  IndInv'
<1>1. PICK call \in Calls : call = calls[th] /\ CallOK(call)
  BY DEF IndInv, TypeOK
<1>2. /\ call.pc = "saving" /\ ~IsLeft(call)
      /\ acknowledged' = acknowledged \cup {call.batch[i] : i \in DOMAIN call.batch}
      /\ Goto(th, Idle)
      /\ UNCHANGED <<valueType, results, errors, everTyped, disturbed, discarded>>
  BY <1>1 DEF SaveEnd, tables
<1>3. call.batch \in Batches /\ call.next \in 1 .. MaxItems + 1
  BY DEF Calls
<1>4. \A i \in DOMAIN call.batch : i < call.next /\ call.batch[i] \in Reports
  BY <1>2, <1>3, BatchIsSeq, MaxItemsAssumption DEF IsLeft
<1>5. Grows /\ TablesTyped' /\ ResultsTyped' /\ RowsOK'
  BY <1>2, <1>4 DEF Grows, TablesTyped, ResultsTyped, RowsOK, IndInv, TypeOK
<1>6. \A i \in DOMAIN call.batch : KeptOK(call.batch[i])
  BY <1>1, <1>2, <1>4 DEF CallOK
<1>7. \A i \in DOMAIN call.batch : KeptOK(call.batch[i])'
  BY <1>4, <1>5, <1>6, KeptStays
<1>8. \A report \in acknowledged' : report \in acknowledged \/ KeptOK(report)'
  BY <1>2, <1>7 DEF KeptOK, IsKept
<1> QED BY <1>2, <1>5, <1>8, IdleIsSound, GotoKeeps, StepKeeps

LEMMA SaveFailsKeeps ==
    ASSUME IndInv, NEW th \in Threads, SaveFails(th)
    PROVE  IndInv'
BY IdleIsSound, QuietKeeps DEF SaveFails

-----------------------------------------------------------------------------
(* removeTask and removeTaskResults *)

Lefts == {ResultTables, <<"float", "text">>, <<"text">>, <<>>}

LEMMA LeftShrinks ==
    ASSUME NEW left \in Lefts, left # <<>>
    PROVE  Head(left) \in ValueTypes /\ Tail(left) \in Lefts
<1>1. CASE left = ResultTables
  <2>1. Head(left) = "longlong" /\ Tail(left) = <<"float", "text">>
    BY <1>1 DEF ResultTables
  <2> QED BY <2>1 DEF Lefts, ValueTypes
<1>2. CASE left = <<"float", "text">>
  <2>1. Head(left) = "float" /\ Tail(left) = <<"text">>
    BY <1>2
  <2> QED BY <2>1 DEF Lefts, ValueTypes
<1>3. CASE left = <<"text">>
  <2>1. Head(left) = "text" /\ Tail(left) = <<>>
    BY <1>3
  <2> QED BY <2>1 DEF Lefts, ValueTypes
<1> QED BY <1>1, <1>2, <1>3 DEF Lefts

LEMMA ClearAllIsSound ==
    ASSUME NEW k \in TaskIds, k \in discarded'
    PROVE  ClearAll(k) \in Calls /\ CallOK(ClearAll(k))'
<1>1. ClearAll(k) \in Calls
  BY IdleIsSound DEF ClearAll, Idle, Calls
<1>2. ClearAll(k).pc = "clear" /\ ClearAll(k).task = k /\ ClearAll(k).left = ResultTables
  BY DEF ClearAll, Idle
<1>3. ResultTables # <<>>
  BY DEF ResultTables
<1> QED BY <1>1, <1>2, <1>3 DEF CallOK

LEMMA RemoveKeeps ==
    ASSUME IndInv, NEW th \in Threads, NEW k \in TaskIds,
           RemoveRow(th, k) \/ RemoveResults(th, k)
    PROVE  IndInv'
<1>1. /\ valueType' \in {valueType, [valueType EXCEPT ![k] = None]}
      /\ discarded' = discarded \cup {k}
      /\ disturbed' \in {disturbed, disturbed \cup {k}}
      /\ Goto(th, ClearAll(k))
      /\ UNCHANGED <<results, errors, everTyped, acknowledged>>
  BY DEF RemoveRow, RemoveResults, tables
<1>2. Grows /\ TablesTyped' /\ ResultsTyped' /\ RowsOK'
  BY <1>1 DEF Grows, TablesTyped, ResultsTyped, RowsOK, IndInv, TypeOK
<1> QED BY <1>1, <1>2, ClearAllIsSound, GotoKeeps, StepKeeps

LEMMA ClearTableKeeps ==
    ASSUME IndInv, NEW th \in Threads, ClearTable(th)
    PROVE  IndInv'
<1>1. PICK call \in Calls : call = calls[th] /\ CallOK(call)
  BY DEF IndInv, TypeOK
<1> DEFINE after == IF Tail(call.left) = <<>> THEN Idle ELSE [call EXCEPT !.left = Tail(@)]
<1>2. /\ call.pc = "clear"
      /\ results' = [results EXCEPT ![Head(call.left)] = {i \in @ : i.task # call.task}]
      /\ Goto(th, after)
      /\ UNCHANGED <<valueType, errors, everTyped, disturbed, discarded, acknowledged>>
  BY <1>1 DEF ClearTable, history
<1>3. call.task \in discarded /\ call.left \in Lefts /\ call.left # <<>>
  BY <1>1, <1>2 DEF CallOK, Calls, Lefts
<1>4. Head(call.left) \in ValueTypes /\ Tail(call.left) \in Lefts
  BY <1>3, LeftShrinks
<1>5. Grows /\ TablesTyped' /\ ResultsTyped' /\ RowsOK'
  BY <1>2, <1>3, <1>4 DEF Grows, TablesTyped, ResultsTyped, RowsOK, IndInv, TypeOK
<1>6. after \in Calls /\ CallOK(after)'
  <2>1. CASE Tail(call.left) = <<>>
    BY <2>1, IdleIsSound
  <2>2. CASE Tail(call.left) # <<>>
    <3>1. after = [call EXCEPT !.left = Tail(call.left)]
      BY <2>2 DEF Calls
    <3>2. after \in Calls
      BY <1>4, <3>1 DEF Calls, Lefts
    <3>3. after.pc = "clear" /\ after.task = call.task /\ after.left = Tail(call.left)
      BY <1>2, <3>1 DEF Calls
    <3>4. call.task \in discarded'
      BY <1>2, <1>3
    <3> HIDE DEF after
    <3> QED BY <2>2, <3>2, <3>3, <3>4 DEF CallOK
  <2> QED BY <2>1, <2>2
<1> HIDE DEF after
<1> QED BY <1>2, <1>5, <1>6, GotoKeeps, StepKeeps

LEMMA InterruptKeeps ==
    ASSUME IndInv, NEW th \in Threads, Interrupt(th)
    PROVE  IndInv'
<1>1. /\ disturbed' = disturbed \cup {calls[th].task} /\ Goto(th, Idle)
      /\ UNCHANGED <<valueType, results, errors, everTyped, discarded, acknowledged>>
  BY DEF Interrupt, tables
<1>2. calls[th].task \in TaskIds
  BY DEF Interrupt, IndInv, CallOK, TypeOK
<1>3. Grows /\ TablesTyped' /\ ResultsTyped' /\ RowsOK'
  BY <1>1, <1>2 DEF Grows, TablesTyped, ResultsTyped, RowsOK, IndInv, TypeOK
<1> QED BY <1>1, <1>3, IdleIsSound, GotoKeeps, StepKeeps

-----------------------------------------------------------------------------
(* getResults *)

LEMMA QueryKeeps ==
    ASSUME IndInv, NEW th \in Threads, Query(th)
    PROVE  IndInv'
<1>1. ASSUME NEW k \in TaskIds, NEW from \in Times, NEW to \in Times, QueryBegin(th, k, from, to)
      PROVE  IndInv'
  <2>1. PICK type \in StoredTypes : type = valueType[k] /\ type # None
    BY <1>1 DEF QueryBegin, IndInv, TypeOK
  <2> DEFINE call == [Idle EXCEPT !.pc = "list", !.task = k, !.type = type,
                                  !.from = from, !.to = to]
  <2>2. call \in Calls
    BY IdleIsSound DEF Idle, Calls
  <2>3. call.pc = "list" /\ call.type = type /\ call.task = k
    BY DEF Idle
  <2>4. CallOK(call)'
    BY <2>1, <2>3 DEF CallOK
  <2>5. Goto(th, call) /\ UNCHANGED <<tables, history>>
    BY <1>1, <2>1 DEF QueryBegin
  <2> HIDE DEF call
  <2> QED BY <2>2, <2>4, <2>5, QuietKeeps
<1>2. CASE QueryList(th)
  <2>1. PICK call \in Calls : call = calls[th]
    BY DEF IndInv, TypeOK
  <2>2. Selected(calls[th]) \in SUBSET Items
    BY DEF Selected, IndInv, TypeOK
  <2>3. PICK found \in SUBSET Items : found = Selected(calls[th])
    BY <2>2
  <2> DEFINE after == [call EXCEPT !.pc = "answered", !.answer = found]
  <2>4. after \in Calls /\ after.pc = "answered"
    BY DEF Calls
  <2>5. CallOK(after)'
    BY <2>4 DEF CallOK
  <2>6. Goto(th, after) /\ UNCHANGED <<tables, history>>
    BY <1>2, <2>1, <2>3 DEF QueryList
  <2> HIDE DEF after
  <2> QED BY <2>4, <2>5, <2>6, QuietKeeps
<1>3. CASE QueryEnd(th)
  BY <1>3, IdleIsSound, QuietKeeps DEF QueryEnd
<1> QED BY <1>1, <1>2, <1>3 DEF Query

-----------------------------------------------------------------------------
(* The invariant is inductive *)

LEMMA IndInvInit == Init => IndInv
<1> SUFFICES ASSUME Init PROVE IndInv
  OBVIOUS
<1>1. TypeOK
  BY IdleIsSound DEF Init, TypeOK
<1>2. ResultsTyped /\ RowsOK /\ \A report \in acknowledged : KeptOK(report)
  BY DEF Init, ResultsTyped, RowsOK
<1>3. \A th \in Threads : CallOK(calls[th])
  BY IdleIsSound DEF Init
<1> QED BY <1>1, <1>2, <1>3 DEF IndInv

LEMMA IndInvNext == IndInv /\ [Next]_vars => IndInv'
<1> SUFFICES ASSUME IndInv, [Next]_vars PROVE IndInv'
  OBVIOUS
<1>1. ASSUME NEW th \in Threads, Write(th) PROVE IndInv'
  <2>1. ASSUME NEW k \in TaskIds, NEW type \in StoredTypes,
               SaveTask(th, k, type) \/ EditTask(th, k, type)
        PROVE  IndInv'
    BY <2>1, SetTypeKeeps DEF SaveTask, EditTask
  <2> QED BY <1>1, <2>1, RemoveKeeps, ClearTableKeeps, InterruptKeeps DEF Write
<1>2. ASSUME NEW th \in Threads, Save(th) PROVE IndInv'
  BY <1>2, SaveBeginKeeps, SaveErrorKeeps, LookupTaskKeeps, InsertResultKeeps,
     UnsupportedAbortKeeps, UnsupportedSkipKeeps, SaveEndKeeps, SaveFailsKeeps DEF Save
<1>3. CASE UNCHANGED vars
  BY <1>3 DEF vars, tables, history, IndInv, TypeOK, ResultsTyped, RowsOK, CallOK, KeptOK, IsKept,
     IsLeft, Current
<1> QED BY <1>1, <1>2, <1>3, QueryKeeps DEF Next

\* Every row, item and call has its type throughout, in a batch of any length.
THEOREM TypeCorrect == Spec => []TypeOK
<1>1. IndInv => TypeOK
  BY DEF IndInv
<1> QED BY IndInvInit, IndInvNext, <1>1, PTL DEF Spec

\* A result is never in the table of a type its task did not have
\* (saveTaskItems), whatever edits come between the look-up and the insert.
THEOREM ResultsFollowTheType == Spec => []ResultsTyped
<1>1. IndInv => ResultsTyped
  BY DEF IndInv
<1> QED BY IndInvInit, IndInvNext, <1>1, PTL DEF Spec

\* What a status request was answered for stays in the tables until a request
\* clears the task's results (saveTaskItems, removeTaskResults), with any
\* number of threads that save, edit and remove meanwhile.
THEOREM AnsweredReportsStay == Spec => []AcknowledgedIsKept
<1>1. IndInv => AcknowledgedIsKept
  BY DEF IndInv, AcknowledgedIsKept, KeptOK
<1> QED BY IndInvInit, IndInvNext, <1>1, PTL DEF Spec

-----------------------------------------------------------------------------
(* A query's answer *)

\* Another thread's step leaves a query where it is, or ends the process.
LEMMA OnlyListAnswers ==
    ASSUME IndInv, [Next]_vars, NEW th \in Threads,
           calls[th].pc = "list", calls'[th].pc = "answered"
    PROVE  QueryList(th)
<1>1. calls \in [Threads -> Calls] /\ Idle.pc = "idle" /\ calls' # calls
  BY DEF IndInv, TypeOK, Idle
<1>2. PICK u \in Threads : Write(u) \/ Save(u) \/ Query(u)
  BY <1>1 DEF Next, vars
<1>3. ~(calls' = [v \in Threads |-> Idle])
  BY <1>1
<1>4. \/ \E call : Goto(u, call) /\ (calls[u].pc \in {"idle", "saving", "insert", "clear", "answered"})
      \/ QueryList(u)
  BY <1>1, <1>2, <1>3 DEF Write, Save, Query, SaveTask, EditTask, SetType, RemoveRow, RemoveResults,
     ClearTable, Interrupt, SaveBegin, SaveError, LookupTask, InsertResult, UnsupportedAbort,
     UnsupportedSkip, SaveEnd, SaveFails, QueryBegin, QueryEnd, Receives
<1>5. u = th
  BY <1>1, <1>4 DEF Goto, QueryList
<1> QED BY <1>4, <1>5

LEMMA AnswerStep ==
    ASSUME IndInv, [Next]_vars, NEW th \in Threads, NEW report \in acknowledged,
           calls[th].pc = "list", calls'[th].pc = "answered",
           ~report.isError, report.item.task = calls'[th].task,
           report.item.task \notin discarded,
           everTyped[calls'[th].task] = {calls'[th].type}, calls'[th].type \in ValueTypes,
           calls'[th].from <= report.item.time, report.item.time <= calls'[th].to
    PROVE  report.item \in calls'[th].answer
<1>1. QueryList(th)
  BY OnlyListAnswers
<1>2. PICK call \in Calls : call = calls[th]
  BY DEF IndInv, TypeOK
<1>3. /\ calls'[th].task = call.task /\ calls'[th].type = call.type
      /\ calls'[th].from = call.from /\ calls'[th].to = call.to
      /\ calls'[th].answer = Selected(call)
  BY <1>1, <1>2 DEF QueryList, Goto, IndInv, TypeOK, Calls
<1>4. IsKept(report)
  BY <1>3 DEF IndInv, KeptOK
<1>5. PICK type \in ValueTypes : report.item \in results[type]
  BY <1>4 DEF IsKept
<1>6. type = call.type
  BY <1>3, <1>5 DEF IndInv, ResultsTyped
<1> QED BY <1>3, <1>5, <1>6 DEF Selected, InRange

\* A query answers every result in its range that the agent was acknowledged
\* for (getResults), while no edit changed the type of the task.
THEOREM AnswersAreComplete == Spec => AnswerIsComplete
<1>1. IndInv /\ [Next]_vars =>
        [\A th \in Threads, report \in acknowledged :
           LET call == calls'[th] IN
           /\ calls[th].pc = "list" /\ call.pc = "answered"
           /\ ~report.isError /\ report.item.task = call.task
           /\ report.item.task \notin discarded
           /\ everTyped[call.task] = {call.type} /\ call.type \in ValueTypes
           /\ call.from <= report.item.time /\ report.item.time <= call.to
           => report.item \in call.answer]_vars
  BY AnswerStep
<1> QED BY IndInvInit, IndInvNext, <1>1, PTL DEF Spec, AnswerIsComplete

-----------------------------------------------------------------------------
(* Results without a task *)

\* Once the row of a task is gone undisturbed, no item of it is on its way, and
\* what is left of its results lies in tables a thread has still to clear.
Ahead(left) == {left[i] : i \in DOMAIN left}

ClearingIsAhead ==
    \A k \in TaskIds :
        everTyped[k] # {} /\ valueType[k] = None /\ k \notin disturbed =>
          /\ ~InFlight(k)
          /\ \A type \in ValueTypes : \A i \in results[type] :
               i.task = k => \E th \in Threads : /\ calls[th].pc = "clear" /\ calls[th].task = k
                                                 /\ type \in Ahead(calls[th].left)

LEMMA AheadShrinks ==
    /\ Ahead(ResultTables) = ValueTypes
    /\ Ahead(<<>>) = {}
    /\ \A left \in Lefts : left # <<>> => Ahead(left) = {Head(left)} \cup Ahead(Tail(left))
<1>1. Ahead(ResultTables) = {"longlong", "float", "text"}
  BY DEF Ahead, ResultTables
<1>2. Ahead(<<"float", "text">>) = {"float", "text"}
  BY DEF Ahead
<1>3. Ahead(<<"text">>) = {"text"}
  BY DEF Ahead
<1>4. Ahead(<<>>) = {}
  BY EmptyBatch DEF Ahead
<1>5. /\ Head(ResultTables) = "longlong" /\ Tail(ResultTables) = <<"float", "text">>
      /\ Head(<<"float", "text">>) = "float" /\ Tail(<<"float", "text">>) = <<"text">>
      /\ Head(<<"text">>) = "text" /\ Tail(<<"text">>) = <<>>
  BY DEF ResultTables
<1>6. ASSUME NEW left \in Lefts, left # <<>>
      PROVE  Ahead(left) = {Head(left)} \cup Ahead(Tail(left))
  <2>1. CASE left = ResultTables
    BY <1>1, <1>2, <1>5, <2>1
  <2>2. CASE left = <<"float", "text">>
    BY <1>2, <1>3, <1>5, <2>2
  <2>3. CASE left = <<"text">>
    BY <1>3, <1>4, <1>5, <2>3
  <2> QED BY <1>6, <2>1, <2>2, <2>3 DEF Lefts
<1> QED BY <1>1, <1>4, <1>6 DEF ValueTypes

\* A step that adds no result and gets no item on its way keeps the invariant,
\* if no thread gives up what it has to clear.
LEMMA AheadStays ==
    ASSUME IndInv, ClearingIsAhead, NEW th \in Threads, NEW call, Goto(th, call),
           calls[th].pc # "clear", call.pc # "insert",
           UNCHANGED <<valueType, results, everTyped>>, disturbed \subseteq disturbed'
    PROVE  ClearingIsAhead'
<1>1. /\ calls'[th] = call /\ \A u \in Threads \ {th} : calls'[u] = calls[u]
  BY DEF Goto, IndInv, TypeOK
<1>2. \A k \in TaskIds : InFlight(k)' => InFlight(k)
  BY <1>1 DEF InFlight, Current
<1>3. \A u \in Threads : calls[u].pc = "clear" => calls'[u] = calls[u]
  BY <1>1
<1> QED BY <1>2, <1>3 DEF ClearingIsAhead

LEMMA AheadLookupTask ==
    ASSUME IndInv, ClearingIsAhead, NEW th \in Threads, LookupTask(th)
    PROVE  ClearingIsAhead'
<1>1. calls[th].pc = "saving" /\ IsLeft(calls[th])
  BY DEF LookupTask
<1>2. PICK call \in Calls : call = calls[th] /\ Current(call).item.task \in TaskIds
  BY <1>1, SavingThread
<1> DEFINE task == Current(call).item.task
<1>3. /\ Goto(th, LookedUp(call, valueType[task]))
      /\ UNCHANGED <<valueType, results, everTyped, disturbed>>
  BY <1>2 DEF LookupTask, tables, history
<1>4. CASE valueType[task] = None
  <2>1. Goto(th, GoOn(call)) /\ GoOn(call).pc = "saving"
    BY <1>3, <1>4 DEF LookedUp, GoOn, Calls
  <2> QED BY <1>1, <1>3, <2>1, AheadStays
<1>5. CASE valueType[task] # None
  <2>1. /\ \A u \in Threads \ {th} : calls'[u] = calls[u]
        /\ calls'[th].batch = call.batch /\ calls'[th].next = call.next
    BY <1>2, <1>3, <1>5 DEF Goto, LookedUp, IndInv, TypeOK, Calls
  <2>2. \A k \in TaskIds : InFlight(k)' => InFlight(k) \/ k = task
    BY <2>1 DEF InFlight, Current
  <2>3. \A u \in Threads : calls[u].pc = "clear" => calls'[u] = calls[u]
    BY <1>1, <2>1
  <2> QED BY <1>3, <1>5, <2>2, <2>3 DEF ClearingIsAhead
<1> QED BY <1>4, <1>5

\* While a result is on its way to the table its task has a row, or its removal
\* is disturbed.
LEMMA AheadInsertResult ==
    ASSUME IndInv, ClearingIsAhead, NEW th \in Threads, InsertResult(th)
    PROVE  ClearingIsAhead'
<1>1. calls[th].pc = "insert" /\ IsLeft(calls[th]) /\ calls[th].type \in ValueTypes
  BY DEF InsertResult, IndInv, CallOK
<1>2. PICK call \in Calls : call = calls[th] /\ Current(call).item.task \in TaskIds
  BY <1>1, SavingThread
<1> DEFINE task == Current(call).item.task
<1>3. /\ results' = [results EXCEPT ![call.type] = @ \cup {Current(call).item}]
      /\ Goto(th, GoOn(call)) /\ GoOn(call).pc = "saving"
      /\ UNCHANGED <<valueType, everTyped, disturbed>>
  BY <1>2 DEF InsertResult, TableFor, history, GoOn, Calls
<1>4. InFlight(task)
  BY <1>1, <1>2 DEF InFlight
<1>5. /\ calls'[th] = GoOn(call) /\ \A u \in Threads \ {th} : calls'[u] = calls[u]
  BY <1>3 DEF Goto, IndInv, TypeOK
<1>6. \A k \in TaskIds : InFlight(k)' => InFlight(k)
  BY <1>3, <1>5 DEF InFlight, Current
<1>7. \A u \in Threads : calls[u].pc = "clear" => calls'[u] = calls[u]
  BY <1>1, <1>5
<1>8. \A type \in ValueTypes : \A i \in results'[type] : i \in results[type] \/ i.task = task
  BY <1>1, <1>2, <1>3 DEF IndInv, TypeOK
<1> QED BY <1>3, <1>4, <1>6, <1>7, <1>8 DEF ClearingIsAhead

LEMMA AheadRemoveRow ==
    ASSUME IndInv, ClearingIsAhead, NEW th \in Threads, NEW k \in TaskIds, RemoveRow(th, k)
    PROVE  ClearingIsAhead'
<1>1. /\ valueType' = [valueType EXCEPT ![k] = None]
      /\ disturbed' = IF InFlight(k) THEN disturbed \cup {k} ELSE disturbed
      /\ Goto(th, ClearAll(k)) /\ calls[th] = Idle
      /\ UNCHANGED <<results, everTyped>>
  BY DEF RemoveRow, Receives
<1>2. /\ calls'[th] = ClearAll(k) /\ \A u \in Threads \ {th} : calls'[u] = calls[u]
  BY <1>1 DEF Goto, IndInv, TypeOK
<1>3. /\ Idle.pc = "idle" /\ ClearAll(k).pc = "clear" /\ ClearAll(k).task = k
      /\ ClearAll(k).left = ResultTables
  BY DEF ClearAll, Idle
<1>4. \A j \in TaskIds : InFlight(j)' => InFlight(j)
  BY <1>2, <1>3 DEF InFlight, Current
<1>5. \A u \in Threads : calls[u].pc = "clear" => calls'[u] = calls[u]
  BY <1>1, <1>2, <1>3
<1>6. \A j \in TaskIds : j \notin disturbed' => j \notin disturbed
  BY <1>1
<1>7. \A j \in TaskIds \ {k} : valueType'[j] = valueType[j]
  BY <1>1 DEF IndInv, TypeOK
<1>8. k \notin disturbed' => ~InFlight(k)
  BY <1>1
<1>9. \A type \in ValueTypes : type \in Ahead(calls'[th].left)
  BY <1>2, <1>3, AheadShrinks
<1>10. ASSUME NEW j \in TaskIds, j # k, everTyped'[j] # {}, valueType'[j] = None, j \notin disturbed'
       PROVE  /\ ~InFlight(j)'
              /\ \A type \in ValueTypes : \A i \in results'[type] :
                   i.task = j => \E u \in Threads : /\ calls'[u].pc = "clear" /\ calls'[u].task = j
                                                    /\ type \in Ahead(calls'[u].left)
  BY <1>1, <1>4, <1>5, <1>6, <1>7, <1>10 DEF ClearingIsAhead
<1>11. ASSUME k \notin disturbed'
       PROVE  /\ ~InFlight(k)'
              /\ \A type \in ValueTypes :
                   \E u \in Threads : /\ calls'[u].pc = "clear" /\ calls'[u].task = k
                                      /\ type \in Ahead(calls'[u].left)
  BY <1>2, <1>3, <1>4, <1>8, <1>9, <1>11
<1> QED BY <1>10, <1>11 DEF ClearingIsAhead

LEMMA AheadClearTable ==
    ASSUME IndInv, ClearingIsAhead, NEW th \in Threads, ClearTable(th)
    PROVE  ClearingIsAhead'
<1>1. PICK call \in Calls : call = calls[th] /\ CallOK(call)
  BY DEF IndInv, TypeOK
<1>2. call.pc = "clear" /\ call.left \in Lefts /\ call.left # <<>>
  BY <1>1 DEF ClearTable, CallOK, Calls, Lefts
<1> DEFINE first == Head(call.left)
           rest == Tail(call.left)
<1>3. /\ results' = [results EXCEPT ![first] = {i \in @ : i.task # call.task}]
      /\ Goto(th, IF rest = <<>> THEN Idle ELSE [call EXCEPT !.left = rest])
      /\ UNCHANGED <<valueType, everTyped, disturbed>>
  BY <1>1 DEF ClearTable, history, Calls
<1>4. first \in ValueTypes /\ rest \in Lefts /\ Ahead(call.left) = {first} \cup Ahead(rest)
  BY <1>2, LeftShrinks, AheadShrinks
<1>5. /\ \A type \in ValueTypes : results'[type] \subseteq results[type]
      /\ \A i \in results'[first] : i.task # call.task
  BY <1>3, <1>4 DEF IndInv, TypeOK
<1>6. \A u \in Threads \ {th} : calls'[u] = calls[u]
  BY <1>3 DEF Goto, IndInv, TypeOK
<1>7. calls'[th] = IF rest = <<>> THEN Idle ELSE [call EXCEPT !.left = rest]
  BY <1>3 DEF Goto, IndInv, TypeOK
<1>8. /\ calls'[th].pc # "insert"
      /\ rest # <<>> => calls'[th].pc = "clear" /\ calls'[th].task = call.task
                        /\ calls'[th].left = rest
  BY <1>2, <1>7 DEF Idle, Calls
<1>9. \A k \in TaskIds : InFlight(k)' => InFlight(k)
  BY <1>6, <1>8 DEF InFlight, Current
<1>10. ASSUME NEW k \in TaskIds, NEW type \in ValueTypes, NEW i \in results'[type], i.task = k,
              NEW u \in Threads, calls[u].pc = "clear", calls[u].task = k,
              type \in Ahead(calls[u].left)
       PROVE  calls'[u].pc = "clear" /\ calls'[u].task = k /\ type \in Ahead(calls'[u].left)
  <2>1. CASE u # th
    BY <1>6, <1>10, <2>1
  <2>2. CASE u = th
    <3>1. type # first /\ type \in Ahead(rest)
      BY <1>1, <1>4, <1>5, <1>10, <2>2
    <3>2. rest # <<>>
      BY <3>1, AheadShrinks
    <3> QED BY <1>1, <1>8, <1>10, <2>2, <3>1, <3>2
  <2> QED BY <2>1, <2>2
<1>11. ASSUME NEW k \in TaskIds, everTyped'[k] # {}, valueType'[k] = None, k \notin disturbed',
              NEW type \in ValueTypes, NEW i \in results'[type], i.task = k
       PROVE  \E u \in Threads : calls'[u].pc = "clear" /\ calls'[u].task = k
                                 /\ type \in Ahead(calls'[u].left)
  <2>1. i \in results[type]
    BY <1>5, <1>11
  <2>2. PICK u \in Threads : calls[u].pc = "clear" /\ calls[u].task = k
                             /\ type \in Ahead(calls[u].left)
    BY <1>3, <1>11, <2>1 DEF ClearingIsAhead
  <2> QED BY <1>10, <1>11, <2>2
<1> QED BY <1>3, <1>9, <1>11 DEF ClearingIsAhead

LEMMA AheadInterrupt ==
    ASSUME IndInv, ClearingIsAhead, NEW th \in Threads, Interrupt(th)
    PROVE  ClearingIsAhead'
<1>1. /\ disturbed' = disturbed \cup {calls[th].task} /\ Goto(th, Idle)
      /\ UNCHANGED <<valueType, results, everTyped>>
  BY DEF Interrupt, tables
<1>2. calls'[th].pc = "idle" /\ \A u \in Threads \ {th} : calls'[u] = calls[u]
  BY <1>1 DEF Goto, IndInv, TypeOK, Idle
<1>3. \A k \in TaskIds : InFlight(k)' => InFlight(k)
  BY <1>2 DEF InFlight, Current
<1>4. \A u \in Threads : calls[u].task \notin disturbed' => calls'[u] = calls[u]
  BY <1>1, <1>2
<1> QED BY <1>1, <1>3, <1>4 DEF ClearingIsAhead

LEMMA AheadUnsupportedAbort ==
    ASSUME IndInv, ClearingIsAhead, NEW th \in Threads, UnsupportedAbort(th)
    PROVE  ClearingIsAhead'
<1>1. /\ calls' = [u \in Threads |-> Idle]
      /\ disturbed' = disturbed \cup {k \in TaskIds : IsClearing(k)}
      /\ UNCHANGED <<valueType, results, everTyped>>
  BY DEF UnsupportedAbort, tables
<1>2. \A k \in TaskIds : ~InFlight(k)'
  BY <1>1 DEF InFlight, Idle
<1> QED BY <1>1, <1>2 DEF ClearingIsAhead, IsClearing

LEMMA AheadSetType ==
    ASSUME IndInv, ClearingIsAhead, NEW k \in TaskIds, NEW type \in StoredTypes, SetType(k, type)
    PROVE  ClearingIsAhead'
<1>1. /\ valueType' = [valueType EXCEPT ![k] = type]
      /\ everTyped' = [everTyped EXCEPT ![k] = @ \cup {type}]
      /\ UNCHANGED <<results, calls, disturbed>>
  BY DEF SetType
<1>2. /\ valueType'[k] # None
      /\ \A j \in TaskIds \ {k} : valueType'[j] = valueType[j] /\ everTyped'[j] = everTyped[j]
  BY <1>1, NoneTypeAssumption DEF IndInv, TypeOK
<1>3. \A j \in TaskIds : InFlight(j)' => InFlight(j)
  BY <1>1 DEF InFlight, Current
<1> QED BY <1>1, <1>2, <1>3 DEF ClearingIsAhead

LEMMA AheadNext == IndInv /\ ClearingIsAhead /\ [Next]_vars => ClearingIsAhead'
<1> SUFFICES ASSUME IndInv, ClearingIsAhead, [Next]_vars PROVE ClearingIsAhead'
  OBVIOUS
<1>1. Idle.pc = "idle" /\ \A k \in TaskIds : ClearAll(k).pc = "clear"
  BY DEF Idle, ClearAll
<1>2. ASSUME NEW th \in Threads, Write(th) PROVE ClearingIsAhead'
  <2>1. ASSUME NEW k \in TaskIds, NEW type \in StoredTypes,
               SaveTask(th, k, type) \/ EditTask(th, k, type)
        PROVE  ClearingIsAhead'
    BY <2>1, AheadSetType DEF SaveTask, EditTask
  <2>2. ASSUME NEW k \in TaskIds, RemoveResults(th, k) PROVE ClearingIsAhead'
    BY <1>1, <2>2, AheadStays DEF RemoveResults, Receives, tables
  <2> QED BY <1>2, <2>1, <2>2, AheadRemoveRow, AheadClearTable, AheadInterrupt DEF Write
<1>3. ASSUME NEW th \in Threads, Save(th) PROVE ClearingIsAhead'
  <2>1. ASSUME NEW batch \in Batches, SaveBegin(th, batch) PROVE ClearingIsAhead'
    <3>1. [Idle EXCEPT !.pc = "saving", !.batch = batch].pc = "saving"
      BY DEF Idle
    <3> QED BY <1>1, <2>1, <3>1, AheadStays DEF SaveBegin, Receives, tables, history
  <2>2. CASE SaveError(th) \/ UnsupportedSkip(th)
    <3>1. GoOn(calls[th]).pc = "saving"
      BY DEF GoOn, IndInv, TypeOK, Calls
    <3>2. /\ Goto(th, GoOn(calls[th])) /\ calls[th].pc # "clear"
          /\ UNCHANGED <<valueType, results, everTyped, disturbed>>
      BY <2>2 DEF SaveError, UnsupportedSkip, tables, history
    <3> QED BY <3>1, <3>2, AheadStays
  <2>3. CASE SaveEnd(th) \/ SaveFails(th)
    BY <1>1, <2>3, AheadStays DEF SaveEnd, SaveFails, tables, history
  <2> QED BY <1>3, <2>1, <2>2, <2>3, AheadLookupTask, AheadInsertResult, AheadUnsupportedAbort
          DEF Save
<1>4. ASSUME NEW th \in Threads, Query(th) PROVE ClearingIsAhead'
  <2>1. PICK call \in Calls : call = calls[th]
    BY DEF IndInv, TypeOK
  <2>2. /\ calls[th].pc # "clear" /\ UNCHANGED <<valueType, results, everTyped, disturbed>>
        /\ \E after : Goto(th, after) /\ after.pc # "insert"
    <3>1. ASSUME NEW k \in TaskIds, NEW from \in Times, NEW to \in Times, QueryBegin(th, k, from, to)
          PROVE  /\ calls[th].pc # "clear" /\ UNCHANGED <<tables, history>>
                 /\ \E after : Goto(th, after) /\ after.pc # "insert"
      <4> DEFINE after == [Idle EXCEPT !.pc = "list", !.task = k, !.type = valueType[k],
                                       !.from = from, !.to = to]
      <4>1. after.pc = "list"
        BY DEF Idle
      <4>2. Goto(th, after) /\ calls[th].pc = "idle" /\ UNCHANGED <<tables, history>>
        BY <1>1, <3>1 DEF QueryBegin, Receives
      <4> HIDE DEF after
      <4> QED BY <4>1, <4>2
    <3>2. CASE QueryList(th)
      <4> DEFINE after == [calls[th] EXCEPT !.pc = "answered", !.answer = Selected(calls[th])]
      <4>1. after.pc = "answered"
        BY <2>1 DEF Calls
      <4>2. Goto(th, after) /\ calls[th].pc = "list" /\ UNCHANGED <<tables, history>>
        BY <3>2 DEF QueryList
      <4> HIDE DEF after
      <4> QED BY <4>1, <4>2 DEF tables, history
    <3>3. CASE QueryEnd(th)
      BY <1>1, <3>3 DEF QueryEnd, tables, history
    <3> QED BY <1>4, <3>1, <3>2, <3>3 DEF Query, tables, history
  <2> QED BY <2>2, AheadStays
<1>5. CASE UNCHANGED vars
  BY <1>5 DEF vars, tables, history, ClearingIsAhead, InFlight, Current
<1> QED BY <1>2, <1>3, <1>4, <1>5 DEF Next

\* Results outlive their task only when its removal ran into a save or was cut
\* short (removeTask, removeTaskResults), for any number of threads.
THEOREM OrphansNeedARace == Spec => []OrphansOnlyFromRace
<1>1. Init => ClearingIsAhead
  BY DEF Init, ClearingIsAhead
<1>2. IndInv /\ ClearingIsAhead => OrphansOnlyFromRace
  BY DEF ClearingIsAhead, OrphansOnlyFromRace, IsClearing, HasResults
<1> QED BY IndInvInit, IndInvNext, AheadNext, <1>1, <1>2, PTL DEF Spec
=============================================================================
