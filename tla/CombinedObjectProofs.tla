------------------------ MODULE CombinedObjectProofs ------------------------
(***************************************************************************)
(* A structure behind the combiner is linearizable, for every number of    *)
(* threads, keys and values and any length of the array: CombinedObject    *)
(* implements GlobalLockStorage and AtomicArray.                           *)
(***************************************************************************)
EXTENDS CombinedObject, TLAPS

MapContents == [Key -> Value \union {Absent}]
ArrContents == [0 .. SIZE - 1 -> Value]

TypeInv ==
  /\ object \in {"Storage", "MultiThreadArray"}
  /\ contents \in IF object = "Storage" THEN MapContents ELSE ArrContents
  /\ phase \in [Thread -> {"none", "published", "done"}]
  /\ op_code \in [Thread -> Int] /\ key \in [Thread -> Int]
  /\ value \in [Thread -> Value]
  /\ error_code \in [Thread -> {"OK", "NOT_FOUND", "BAD_INDEX", "UNSUPPORTED_OPERATION"}]

\* The owners of a shot's tasks wait, so that nobody else changes their slots.
ShotWaits ==
  /\ tasks \subseteq shot /\ shot \subseteq Thread
  /\ \A t \in shot : phase[t] = "published"

\* A waiting thread has prepared its slot.
Prepared == object = "Storage" =>
  \A t \in Thread : phase[t] = "published" => key[t] \in Key

Inv == TypeInv /\ ShotWaits /\ Prepared

-----------------------------------------------------------------------------
(* The invariant.                                                          *)

\* The initial state satisfies the invariant.
LEMMA InitInv == ASSUME Init PROVE Inv
<1>1. contents \in IF object = "Storage" THEN MapContents ELSE ArrContents
  BY ObjectAssumption
  DEF Init, MapContents, ArrContents, Map!EmptyStorage, Arr!EmptyArray
<1>2. TypeInv BY <1>1 DEF Init, TypeInv, Apply!Init
<1>3. ShotWaits /\ Prepared BY DEF Init, ShotWaits, Prepared, Apply!Init
<1> QED BY <1>2, <1>3 DEF Inv

\* What prepare_data leaves in a slot.
LEMMA PrepareEffect ==
  ASSUME Inv, NEW t \in Thread, Prepare(t)
  PROVE  /\ \E k \in Int : /\ key' = [key EXCEPT ![t] = k]
                           /\ object = "Storage" => k \in Key
         /\ \E v \in Value : value' = [value EXCEPT ![t] = v]
<1>1. CASE object = "Storage"
  BY <1>1, ObjectAssumption DEF Prepare, Map!PrepareKey, Map!PrepareBoth
<1>2. CASE object = "MultiThreadArray"
  <2>1. PICK j \in Index : Arr!PrepareIndex(t, j) \/ \E v \in Value : Arr!PrepareBoth(t, j, v)
    BY <1>2 DEF Prepare
  <2>2. key' = [key EXCEPT ![t] = j] BY <2>1 DEF Arr!PrepareIndex, Arr!PrepareBoth
  <2>3. value[t] \in Value /\ value = [value EXCEPT ![t] = value[t]]
    BY DEF Inv, TypeInv
  <2>4. \E v \in Value : value' = [value EXCEPT ![t] = v]
    BY <2>1, <2>3 DEF Arr!PrepareIndex, Arr!PrepareBoth
  <2> QED BY <1>2, <2>2, <2>4, ObjectAssumption
<1> QED BY <1>1, <1>2 DEF Inv, TypeInv

\* What one call of prepare_data and apply_slot sets, and what it leaves alone.
LEMMA PublishEffect ==
  ASSUME Inv, NEW t \in Thread, Publish(t)
  PROVE  /\ t \notin shot /\ phase[t] = "none"
         /\ phase' = [phase EXCEPT ![t] = "published"]
         /\ \E k \in Int : /\ key' = [key EXCEPT ![t] = k]
                           /\ object = "Storage" => k \in Key
         /\ \E v \in Value : value' = [value EXCEPT ![t] = v]
         /\ \E op \in Op \intersect Int : op_code' = [op_code EXCEPT ![t] = op]
         /\ UNCHANGED <<object, contents, error_code, shot, tasks>>
<1>1. phase[t] = "none" /\ phase' = [phase EXCEPT ![t] = "published"]
  BY DEF Publish, Apply!Publish
<1>2. t \notin shot BY <1>1 DEF Inv, ShotWaits
<1>3. \E op \in Op \intersect Int : op_code' = [op_code EXCEPT ![t] = op]
  BY ObjectAssumption DEF Publish
<1> QED BY <1>1, <1>2, <1>3, PrepareEffect DEF Publish

\* A client that calls apply_slot.
LEMMA PublishInv == ASSUME Inv, NEW t \in Thread, Publish(t) PROVE Inv'
<1>1. PICK k \in Int : key' = [key EXCEPT ![t] = k] /\ (object = "Storage" => k \in Key)
  BY PublishEffect
<1>2. PICK v \in Value : value' = [value EXCEPT ![t] = v] BY PublishEffect
<1>3. PICK op \in Int : op_code' = [op_code EXCEPT ![t] = op] BY PublishEffect
<1>4. /\ phase' = [phase EXCEPT ![t] = "published"] /\ t \notin shot
      /\ UNCHANGED <<object, contents, error_code, shot, tasks>>
  BY PublishEffect
<1>5. TypeInv' BY <1>1, <1>2, <1>3, <1>4 DEF Inv, TypeInv
<1>6. ShotWaits' BY <1>4 DEF Inv, TypeInv, ShotWaits
<1>7. Prepared' BY <1>1, <1>4 DEF Inv, TypeInv, Prepared
<1> QED BY <1>5, <1>6, <1>7 DEF Inv

\* What an iteration of Storage's loop leaves of the right type.
LEMMA MapExecuteType ==
  ASSUME Inv, NEW t \in Thread, phase[t] = "published", object = "Storage",
         NEW code, Map!Execute(t, code)
  PROVE  /\ contents' \in MapContents /\ value' \in [Thread -> Value]
         /\ error_code' \in [Thread -> {"OK", "NOT_FOUND", "UNSUPPORTED_OPERATION",
                                        "BAD_INDEX"}]
         /\ key' = key
<1>1. contents \in MapContents /\ value[t] \in Value /\ key[t] \in Key
  BY DEF Inv, TypeInv, Prepared
<1>2. contents' \in MapContents
  BY <1>1 DEF Map!Execute, Map!Put, Map!GetFound, Map!DeleteFound, Map!NotFound,
     Map!Unsupported, MapContents
<1>3. contents[key[t]] # Absent => contents[key[t]] \in Value
  BY <1>1 DEF MapContents
<1>4. value' \in [Thread -> Value]
  BY <1>3 DEF Inv, TypeInv, Map!Execute, Map!Put, Map!GetFound, Map!DeleteFound,
     Map!NotFound, Map!Unsupported
<1>5. error_code' \in [Thread -> {"OK", "NOT_FOUND", "UNSUPPORTED_OPERATION", "BAD_INDEX"}]
  BY DEF Inv, TypeInv, Map!Execute, Map!Put, Map!GetFound, Map!DeleteFound,
     Map!NotFound, Map!Unsupported, Map!Reply
<1> QED BY <1>2, <1>4, <1>5 DEF Map!Execute

\* The same for MultiThreadArray's loop.
LEMMA ArrExecuteType ==
  ASSUME Inv, NEW t \in Thread, object = "MultiThreadArray",
         NEW code, Arr!Execute(t, code)
  PROVE  /\ contents' \in ArrContents /\ value' \in [Thread -> Value]
         /\ error_code' \in [Thread -> {"OK", "NOT_FOUND", "UNSUPPORTED_OPERATION",
                                        "BAD_INDEX"}]
         /\ key' = key
<1>1. contents \in ArrContents /\ value[t] \in Value /\ key[t] \in Int
  BY DEF Inv, TypeInv
<1>2. contents' \in ArrContents
  BY <1>1, ObjectAssumption DEF Arr!Execute, Arr!BadIndex, Arr!Set, Arr!Get,
     Arr!SetToZero, Arr!Unsupported, ArrContents
<1>3. Arr!InBounds(key[t]) => contents[key[t]] \in Value
  BY <1>1, ObjectAssumption DEF Arr!InBounds, ArrContents
<1>4. value' \in [Thread -> Value]
  BY <1>3 DEF Inv, TypeInv, Arr!Execute, Arr!BadIndex, Arr!Set, Arr!Get,
     Arr!SetToZero, Arr!Unsupported
<1>5. error_code' \in [Thread -> {"OK", "NOT_FOUND", "UNSUPPORTED_OPERATION", "BAD_INDEX"}]
  BY DEF Inv, TypeInv, Arr!Execute, Arr!BadIndex, Arr!Set, Arr!Get,
     Arr!SetToZero, Arr!Unsupported, Arr!Reply
<1> QED BY <1>2, <1>4, <1>5 DEF Arr!Execute

\* An iteration of either structure's loop.
LEMMA RunTaskInv == ASSUME Inv, NEW t \in Thread, RunTask(t) PROVE Inv'
<1>1. /\ t \in tasks /\ tasks' = tasks \ {t}
      /\ UNCHANGED <<object, phase, op_code, shot>>
  BY DEF RunTask, IsNext
<1>2. phase[t] = "published" BY <1>1 DEF Inv, ShotWaits
<1>3. /\ contents' \in IF object = "Storage" THEN MapContents ELSE ArrContents
      /\ value' \in [Thread -> Value] /\ key' = key
      /\ error_code' \in [Thread -> {"OK", "NOT_FOUND", "UNSUPPORTED_OPERATION",
                                     "BAD_INDEX"}]
  BY <1>2, MapExecuteType, ArrExecuteType DEF RunTask
<1>4. TypeInv' BY <1>1, <1>3 DEF Inv, TypeInv
<1>5. ShotWaits' /\ Prepared' BY <1>1, <1>3 DEF Inv, ShotWaits, Prepared
<1> QED BY <1>4, <1>5 DEF Inv

\* The executor hands its tasks over.
LEMMA StartShotInv == ASSUME Inv, NEW S \in SUBSET Thread, StartShot(S) PROVE Inv'
BY DEF StartShot, slotVars, Inv, TypeInv, ShotWaits, Prepared

\* The owners are released.
LEMMA EndShotInv == ASSUME Inv, EndShot PROVE Inv'
<1>1. /\ phase' = [t \in Thread |-> IF t \in shot THEN "done" ELSE phase[t]]
      /\ shot' = {} /\ tasks = {}
      /\ UNCHANGED <<object, contents, op_code, key, value, error_code, tasks>>
  BY DEF EndShot, Released, Apply!RunShot, slotVars
<1>2. TypeInv' BY <1>1 DEF Inv, TypeInv
<1>3. ShotWaits' /\ Prepared' BY <1>1 DEF Inv, ShotWaits, Prepared
<1> QED BY <1>2, <1>3 DEF Inv

\* What a return of apply_slot changes.
LEMMA CompleteEffect ==
  ASSUME Inv, NEW t \in Thread, Complete(t)
  PROVE  /\ t \notin shot /\ phase[t] = "done"
         /\ phase' = [phase EXCEPT ![t] = "none"]
         /\ \E v \in Value : value' = [value EXCEPT ![t] = v]
         /\ object = "MultiThreadArray" => value' = value
         /\ UNCHANGED <<object, contents, op_code, key, error_code, shot, tasks>>
<1>1. phase[t] = "done" /\ phase' = [phase EXCEPT ![t] = "none"]
  BY DEF Complete, Apply!Complete
<1>2. value[t] \in Value /\ value = [value EXCEPT ![t] = value[t]] BY DEF Inv, TypeInv
<1>3. \E v \in Value : value' = [value EXCEPT ![t] = v]
  BY <1>2, ObjectAssumption DEF Complete, Map!GetData
<1>4. t \notin shot BY <1>1 DEF Inv, ShotWaits
<1> QED BY <1>1, <1>3, <1>4 DEF Complete

\* A client's call returns.
LEMMA CompleteInv == ASSUME Inv, NEW t \in Thread, Complete(t) PROVE Inv'
<1>1. PICK v \in Value : value' = [value EXCEPT ![t] = v] BY CompleteEffect
<1>2. /\ phase' = [phase EXCEPT ![t] = "none"] /\ t \notin shot
      /\ UNCHANGED <<object, contents, op_code, key, error_code, shot, tasks>>
  BY CompleteEffect
<1>3. TypeInv' BY <1>1, <1>2 DEF Inv, TypeInv
<1>4. ShotWaits' /\ Prepared' BY <1>2 DEF Inv, TypeInv, ShotWaits, Prepared
<1> QED BY <1>3, <1>4 DEF Inv

\* Every step keeps the invariant.
LEMMA NextInv == ASSUME Inv, [Next]_vars PROVE Inv'
<1>1. ASSUME NEW t \in Thread, Publish(t) PROVE Inv' BY <1>1, PublishInv
<1>2. ASSUME NEW t \in Thread, RunTask(t) PROVE Inv' BY <1>2, RunTaskInv
<1>3. ASSUME NEW t \in Thread, Complete(t) PROVE Inv' BY <1>3, CompleteInv
<1>4. ASSUME NEW S \in SUBSET Thread, StartShot(S) PROVE Inv' BY <1>4, StartShotInv
<1>5. CASE EndShot BY <1>5, EndShotInv
<1>6. CASE UNCHANGED vars
  BY <1>6 DEF vars, slotVars, Inv, TypeInv, ShotWaits, Prepared
<1> QED BY <1>1, <1>2, <1>3, <1>4, <1>5, <1>6 DEF Next

\* The invariant holds throughout.
LEMMA Invariance == Spec => []Inv
<1>1. Init => Inv BY InitInv
<1>2. Inv /\ [Next]_vars => Inv' BY NextInv
<1> QED BY <1>1, <1>2, PTL DEF Spec

-----------------------------------------------------------------------------
(* How far the calls are, as the abstract specifications see it.           *)

\* The structure of a behaviour never changes.
LEMMA ObjectConstant == ASSUME [Next]_vars PROVE object' = object
BY DEF Next, Publish, StartShot, RunTask, EndShot, Complete, vars

\* A task counts as done when the loop has come to it, ...
LEMMA RunTaskProgress ==
  ASSUME Inv, NEW CONSTANT obj, object = obj, NEW t \in Thread, RunTask(t)
  PROVE  /\ progress(obj)[t] = "published"
         /\ progress(obj)' = [progress(obj) EXCEPT ![t] = "done"]
<1>1. t \in tasks /\ tasks' = tasks \ {t} /\ UNCHANGED <<object, phase, shot>>
  BY DEF RunTask, IsNext
<1>2. t \in shot /\ phase[t] = "published" BY <1>1 DEF Inv, ShotWaits
<1>3. ~Effective(t) /\ Effective(t)' BY <1>1, <1>2 DEF Effective
<1>4. \A u \in Thread \ {t} : Effective(u)' = Effective(u) BY <1>1 DEF Effective
<1> QED BY <1>1, <1>2, <1>3, <1>4 DEF progress

\* ... a call when it is made, and until it returns; ...
LEMMA PublishProgress ==
  ASSUME Inv, NEW CONSTANT obj, object = obj, NEW t \in Thread, Publish(t)
  PROVE  /\ progress(obj)[t] = "none"
         /\ progress(obj)' = [progress(obj) EXCEPT ![t] = "published"]
<1>1. /\ t \notin shot /\ phase[t] = "none" /\ phase' = [phase EXCEPT ![t] = "published"]
      /\ UNCHANGED <<object, shot, tasks>>
  BY PublishEffect
<1>2. phase'[t] = "published" /\ \A u \in Thread \ {t} : phase'[u] = phase[u]
  BY <1>1 DEF Inv, TypeInv
<1>3. ~Effective(t) /\ ~Effective(t)' BY <1>1, <1>2 DEF Effective
<1>4. \A u \in Thread \ {t} : Effective(u)' = Effective(u) BY <1>1, <1>2 DEF Effective
<1> QED BY <1>1, <1>2, <1>3, <1>4 DEF progress

\* The return of apply_slot.
LEMMA CompleteProgress ==
  ASSUME Inv, NEW CONSTANT obj, object = obj, NEW t \in Thread, Complete(t)
  PROVE  /\ progress(obj)[t] = "done"
         /\ progress(obj)' = [progress(obj) EXCEPT ![t] = "none"]
<1>1. /\ t \notin shot /\ phase[t] = "done" /\ phase' = [phase EXCEPT ![t] = "none"]
      /\ UNCHANGED <<object, shot, tasks>>
  BY CompleteEffect
<1>2. phase'[t] = "none" /\ \A u \in Thread \ {t} : phase'[u] = phase[u]
  BY <1>1 DEF Inv, TypeInv
<1>3. Effective(t) /\ ~Effective(t)' BY <1>1, <1>2 DEF Effective
<1>4. \A u \in Thread \ {t} : Effective(u)' = Effective(u) BY <1>1, <1>2 DEF Effective
<1> QED BY <1>1, <1>2, <1>3, <1>4 DEF progress

\* ... and the first and the last step of a shot are seen by nobody.
LEMMA ShotProgress ==
  ASSUME Inv, NEW CONSTANT obj, object = obj,
         (\E S \in SUBSET Thread : StartShot(S)) \/ EndShot
  PROVE  /\ progress(obj)' = progress(obj)
         /\ UNCHANGED <<object, contents, op_code, key, value, error_code>>
<1>1. ASSUME NEW S \in SUBSET Thread, StartShot(S)
      PROVE  /\ progress(obj)' = progress(obj)
             /\ UNCHANGED <<object, contents, op_code, key, value, error_code>>
  <2>1. shot = {} /\ shot' = S /\ tasks' = S /\ UNCHANGED <<object, phase, contents, slotVars>>
    BY <1>1 DEF StartShot
  <2>2. \A t \in Thread : Effective(t)' = Effective(t) BY <2>1 DEF Effective
  <2> QED BY <2>1, <2>2 DEF progress, slotVars
<1>2. CASE EndShot
  <2>1. /\ phase' = [t \in Thread |-> IF t \in shot THEN "done" ELSE phase[t]]
        /\ shot' = {} /\ tasks = {}
        /\ UNCHANGED <<object, contents, slotVars, tasks>>
    BY <1>2 DEF EndShot, Released, Apply!RunShot
  <2>2. \A t \in Thread : Effective(t)' = Effective(t) BY <2>1 DEF Effective
  <2>3. \A t \in Thread : ~Effective(t) => phase'[t] = phase[t]
    BY <2>1 DEF Effective
  <2> QED BY <2>1, <2>2, <2>3 DEF progress, slotVars
<1> QED BY <1>1, <1>2

-----------------------------------------------------------------------------
(* Storage implements GlobalLockStorage.                                   *)

\* The map is empty in both, and nobody has called.
LEMMA MapInit == ASSUME Init PROVE Baseline!Init
<1>1. (IF object = "Storage" THEN contents ELSE Map!EmptyStorage) = Map!EmptyStorage
  BY DEF Init
<1>2. progress("Storage") = [t \in Thread |-> "none"]
  BY DEF Init, Apply!Init, progress, Effective
<1> QED BY <1>1, <1>2 DEF Baseline!Init, Map!EmptyStorage

\* With an array behind the combiner, nothing happens to the storage.
LEMMA MapIdle ==
  ASSUME object # "Storage", object' = object PROVE UNCHANGED Baseline!vars
BY DEF Baseline!vars, Baseline!args, progress, View

\* A task that Storage's loop runs is a call of GlobalLockStorage's Execute.
LEMMA MapRunTask ==
  ASSUME Inv, object = "Storage", NEW t \in Thread, RunTask(t)
  PROVE  Baseline!Next
<1>1. Map!Execute(t, op_code[t]) /\ UNCHANGED <<object, op_code>> /\ key' = key
  BY DEF RunTask, CodeOf, Map!Execute
<1>2. /\ progress("Storage")[t] = "published"
      /\ progress("Storage")' = [progress("Storage") EXCEPT ![t] = "done"]
  BY RunTaskProgress
<1>3. contents \in MapContents BY DEF Inv, TypeInv
<1>4. ASSUME NEW r, Map!Reply(t, r) PROVE Baseline!Locked(t, r)
  BY <1>1, <1>2, <1>4 DEF Map!Reply, Baseline!Locked, Baseline!args, View
<1>5. CASE Map!Put(t, op_code[t])
  <2>1. Baseline!Put(t)
    BY <1>1, <1>4, <1>5 DEF Map!Put, Baseline!Put, Map!PUT, Baseline!PUT, View
  <2> QED BY <2>1 DEF Baseline!Next
<1>6. CASE Map!GetFound(t, op_code[t])
  <2>1. Baseline!Get(t)
    BY <1>1, <1>4, <1>6 DEF Map!GetFound, Baseline!Get, Map!GET, Baseline!GET, View
  <2> QED BY <2>1 DEF Baseline!Next
<1>7. CASE Map!DeleteFound(t, op_code[t])
  <2>1. Baseline!Delete(t)
    BY <1>1, <1>4, <1>7
    DEF Map!DeleteFound, Baseline!Delete, Map!DELETE, Baseline!DELETE, View
  <2> QED BY <2>1 DEF Baseline!Next
<1>8. CASE Map!NotFound(t, op_code[t]) /\ op_code[t] = Map!GET
  <2>1. Baseline!Get(t)
    BY <1>1, <1>4, <1>8 DEF Map!NotFound, Baseline!Get, Map!GET, Baseline!GET, View
  <2> QED BY <2>1 DEF Baseline!Next
<1>9. CASE Map!NotFound(t, op_code[t]) /\ op_code[t] = Map!DELETE
  <2>1. contents[key[t]] = Absent /\ contents' = contents BY <1>9 DEF Map!NotFound
  <2>2. contents' = [contents EXCEPT ![key[t]] = Absent]
    BY <1>3, <2>1 DEF MapContents
  <2>3. Baseline!Delete(t)
    BY <1>1, <1>4, <1>9, <2>1, <2>2
    DEF Map!NotFound, Baseline!Delete, Map!DELETE, Baseline!DELETE, View
  <2> QED BY <2>3 DEF Baseline!Next
<1>10. CASE Map!Unsupported(t, op_code[t])
  <2>1. Baseline!Unsupported(t)
    BY <1>1, <1>4, <1>10 DEF Map!Unsupported, Baseline!Unsupported, View,
       Map!PUT, Map!GET, Map!DELETE, Baseline!PUT, Baseline!GET, Baseline!DELETE
  <2> QED BY <2>1 DEF Baseline!Next
<1> QED BY <1>1, <1>5, <1>6, <1>7, <1>8, <1>9, <1>10 DEF Map!Execute, Map!NotFound

\* A client's call is a call, and its return a return.
LEMMA MapClient ==
  ASSUME Inv, object = "Storage", NEW t \in Thread, Publish(t) \/ Complete(t)
  PROVE  Baseline!Next
<1>1. CASE Publish(t)
  <2>1. PICK k \in Key : key' = [key EXCEPT ![t] = k] BY <1>1, PublishEffect
  <2>2. PICK v \in Value : value' = [value EXCEPT ![t] = v] BY <1>1, PublishEffect
  <2>3. PICK op \in Op : op_code' = [op_code EXCEPT ![t] = op] BY <1>1, PublishEffect
  <2>4. UNCHANGED <<object, contents, error_code>> BY <1>1, PublishEffect
  <2>5. Baseline!Call(t)
    BY <1>1, <2>1, <2>2, <2>3, <2>4, PublishProgress DEF Baseline!Call, View
  <2> QED BY <2>5 DEF Baseline!Next
<1>2. CASE Complete(t)
  <2>1. PICK v \in Value : value' = [value EXCEPT ![t] = v] BY <1>2, CompleteEffect
  <2>2. UNCHANGED <<object, contents, op_code, key, error_code>> BY <1>2, CompleteEffect
  <2>3. Baseline!Return(t)
    BY <1>2, <2>1, <2>2, CompleteProgress DEF Baseline!Return, Baseline!args, View
  <2> QED BY <2>3 DEF Baseline!Next
<1> QED BY <1>1, <1>2

\* Every step with a Storage behind the combiner is one of GlobalLockStorage.
LEMMA MapStep ==
  ASSUME Inv, [Next]_vars PROVE [Baseline!Next]_(Baseline!vars)
<1>1. CASE object # "Storage" BY <1>1, ObjectConstant, MapIdle
<1>2. CASE object = "Storage"
  <2>1. ASSUME NEW t \in Thread, RunTask(t) PROVE Baseline!Next
    BY <1>2, <2>1, MapRunTask
  <2>2. ASSUME NEW t \in Thread, Publish(t) \/ Complete(t) PROVE Baseline!Next
    BY <1>2, <2>2, MapClient
  <2>3. CASE (\E S \in SUBSET Thread : StartShot(S)) \/ EndShot
    BY <1>2, <2>3, ShotProgress DEF Baseline!vars, Baseline!args, View
  <2>4. CASE UNCHANGED vars
    BY <2>4 DEF vars, slotVars, Baseline!vars, Baseline!args, View, progress, Effective
  <2> QED BY <2>1, <2>2, <2>3, <2>4 DEF Next
<1> QED BY <1>1, <1>2

\* A Storage behind the combiner, sorting its shots, is linearizable: it implements
\* the storage whose calls hold one mutex, for any threads, keys and values.
THEOREM StorageImplementsBaseline == Spec => StorageLinearizable
<1>1. Init => Baseline!Init BY MapInit
<1>2. Inv /\ [Next]_vars => [Baseline!Next]_(Baseline!vars) BY MapStep
<1> QED BY <1>1, <1>2, Invariance, PTL DEF Spec, StorageLinearizable, Baseline!Spec

-----------------------------------------------------------------------------
(* MultiThreadArray implements AtomicArray.                                *)

\* The cells are zero in both, and nobody has called.
LEMMA ArrInit == ASSUME Init PROVE Cells!Init
<1>1. (IF object = "MultiThreadArray" THEN contents ELSE Arr!EmptyArray) = Arr!EmptyArray
  BY DEF Init
<1>2. progress("MultiThreadArray") = [t \in Thread |-> "none"]
  BY DEF Init, Apply!Init, progress, Effective
<1> QED BY <1>1, <1>2 DEF Cells!Init, Cells!Cell, Arr!EmptyArray

\* With a storage behind the combiner, nothing happens to the cells.
LEMMA ArrIdle ==
  ASSUME object # "MultiThreadArray", object' = object PROVE UNCHANGED Cells!vars
BY DEF Cells!vars, progress, View

\* A task that MultiThreadArray's loop runs is one effect on one cell, or none.
LEMMA ArrRunTask ==
  ASSUME Inv, object = "MultiThreadArray", NEW t \in Thread, RunTask(t)
  PROVE  Cells!Effect(t)
<1>1. Arr!Execute(t, op_code[t]) /\ UNCHANGED <<object, op_code>> /\ key' = key
  BY DEF RunTask, CodeOf, Arr!Execute
<1>2. /\ progress("MultiThreadArray")[t] = "published"
      /\ progress("MultiThreadArray")' = [progress("MultiThreadArray") EXCEPT ![t] = "done"]
  BY RunTaskProgress
<1>3. /\ contents \in [Cells!Cell -> Value] /\ key[t] \in Int
      /\ value \in [Thread -> Value] /\ SIZE \in Int
  BY ObjectAssumption DEF Inv, TypeInv, ArrContents, Cells!Cell
<1>4. Arr!InBounds(key[t]) <=> key[t] \in Cells!Cell
  BY <1>3 DEF Arr!InBounds, Cells!Cell
<1>5. value = [value EXCEPT ![t] = value[t]] BY <1>3
<1> DEFINE Wrote(S, v) == contents' = [j \in Cells!Cell |-> IF j \notin S THEN contents[j] ELSE v]
<1>6. ASSUME NEW r, Arr!Reply(t, r), Cells!Report(t) = r,
             NEW v, Wrote(Cells!Writes(t), v),
             Cells!Writes(t) # {} => v = (IF op_code[t] = Cells!SET THEN value[t] ELSE Empty),
             value' = [value EXCEPT ![t] = IF Cells!Reads(t) = {} THEN value[t]
                                           ELSE contents[key[t]]]
      PROVE  Cells!Effect(t)
  BY <1>1, <1>2, <1>6 DEF Arr!Reply, Cells!Effect, View
<1>7. CASE Arr!BadIndex(t)
  <2>1. Cells!Writes(t) = {} /\ Cells!Reads(t) = {} /\ Cells!Report(t) = "BAD_INDEX"
    BY <1>4, <1>7 DEF Arr!BadIndex, Cells!Writes, Cells!Reads, Cells!Report, View
  <2> QED BY <1>3, <1>5, <1>6, <1>7, <2>1 DEF Arr!BadIndex
<1>8. CASE Arr!Unsupported(t, op_code[t])
  <2>1. Cells!Writes(t) = {} /\ Cells!Reads(t) = {}
        /\ Cells!Report(t) = "UNSUPPORTED_OPERATION"
    BY <1>4, <1>8 DEF Arr!Unsupported, Arr!SET, Arr!GET, Arr!SET_TO_ZERO, Cells!SET, Cells!GET,
       Cells!SET_TO_ZERO, Cells!Writes, Cells!Reads, Cells!Report, View
  <2> QED BY <1>3, <1>5, <1>6, <1>8, <2>1 DEF Arr!Unsupported
<1>9. CASE Arr!Set(t, op_code[t])
  <2>1. /\ Cells!Writes(t) = {key[t]} /\ Cells!Reads(t) = {} /\ Cells!Report(t) = "OK"
        /\ op_code[t] = Cells!SET
    BY <1>4, <1>9 DEF Arr!Set, Arr!SET, Cells!SET, Cells!GET, Cells!SET_TO_ZERO,
       Cells!Writes, Cells!Reads, Cells!Report, View
  <2>2. Wrote(Cells!Writes(t), value[t]) BY <1>3, <1>9, <2>1 DEF Arr!Set
  <2> QED BY <1>5, <1>6, <1>9, <2>1, <2>2 DEF Arr!Set
<1>10. CASE Arr!SetToZero(t, op_code[t])
  <2>1. /\ Cells!Writes(t) = {key[t]} /\ Cells!Reads(t) = {} /\ Cells!Report(t) = "OK"
        /\ op_code[t] # Cells!SET
    BY <1>4, <1>10 DEF Arr!SetToZero, Arr!SET_TO_ZERO, Cells!SET, Cells!GET,
       Cells!SET_TO_ZERO, Cells!Writes, Cells!Reads, Cells!Report, View
  <2>2. Wrote(Cells!Writes(t), Empty) BY <1>3, <1>10, <2>1 DEF Arr!SetToZero
  <2> QED BY <1>5, <1>6, <1>10, <2>1, <2>2 DEF Arr!SetToZero
<1>11. CASE Arr!Get(t, op_code[t])
  <2>1. Cells!Writes(t) = {} /\ Cells!Reads(t) # {} /\ Cells!Report(t) = "OK"
    BY <1>4, <1>11 DEF Arr!Get, Arr!GET, Cells!SET, Cells!GET, Cells!SET_TO_ZERO,
       Cells!Writes, Cells!Reads, Cells!Report, View
  <2>2. Wrote(Cells!Writes(t), Empty) BY <1>3, <1>11, <2>1 DEF Arr!Get
  <2> QED BY <1>6, <1>11, <2>1, <2>2 DEF Arr!Get
<1> QED BY <1>1, <1>7, <1>8, <1>9, <1>10, <1>11 DEF Arr!Execute

\* A client changes nothing but its own slot, and that only when it calls.
LEMMA ArrClient ==
  ASSUME Inv, object = "MultiThreadArray", NEW t \in Thread, Publish(t) \/ Complete(t)
  PROVE  Cells!Call(t) \/ Cells!Return(t)
<1>1. CASE Publish(t)
  <2>1. PICK k \in Int : key' = [key EXCEPT ![t] = k] BY <1>1, PublishEffect
  <2>2. PICK v \in Value : value' = [value EXCEPT ![t] = v] BY <1>1, PublishEffect
  <2>3. PICK op \in Op : op_code' = [op_code EXCEPT ![t] = op] BY <1>1, PublishEffect
  <2>4. UNCHANGED <<object, contents, error_code>> BY <1>1, PublishEffect
  <2>5. \A u \in Thread \ {t} :
          key'[u] = key[u] /\ value'[u] = value[u] /\ op_code'[u] = op_code[u]
    BY <2>1, <2>2, <2>3 DEF Inv, TypeInv
  <2>6. /\ progress("MultiThreadArray")[t] = "none"
        /\ progress("MultiThreadArray")' =
             [progress("MultiThreadArray") EXCEPT ![t] = "published"]
    BY <1>1, PublishProgress
  <2>7. Cells!Call(t) BY <2>4, <2>5, <2>6 DEF Cells!Call, Cells!Others, View
  <2> QED BY <2>7
<1>2. CASE Complete(t)
  <2>1. UNCHANGED <<object, contents, op_code, key, value, error_code>>
    BY <1>2, CompleteEffect
  <2>2. Cells!Return(t) BY <1>2, <2>1, CompleteProgress DEF Cells!Return, View
  <2> QED BY <2>2
<1> QED BY <1>1, <1>2

\* Every step with an array behind the combiner is one of AtomicArray.
LEMMA ArrStep ==
  ASSUME Inv, [Next]_vars PROVE [Cells!Next]_(Cells!vars)
<1>1. CASE object # "MultiThreadArray" BY <1>1, ObjectConstant, ArrIdle
<1>2. CASE object = "MultiThreadArray"
  <2>1. ASSUME NEW t \in Thread, RunTask(t) PROVE Cells!Next
    BY <1>2, <2>1, ArrRunTask DEF Cells!Next
  <2>2. ASSUME NEW t \in Thread, Publish(t) \/ Complete(t) PROVE Cells!Next
    BY <1>2, <2>2, ArrClient DEF Cells!Next
  <2>3. CASE (\E S \in SUBSET Thread : StartShot(S)) \/ EndShot
    BY <1>2, <2>3, ShotProgress DEF Cells!vars, View
  <2>4. CASE UNCHANGED vars
    BY <2>4 DEF vars, slotVars, Cells!vars, View, progress, Effective
  <2> QED BY <2>1, <2>2, <2>3, <2>4 DEF Next
<1> QED BY <1>1, <1>2

\* A MultiThreadArray behind the combiner is linearizable, for any threads, length
\* and indices: every call reads or writes the one cell it names, or none.
THEOREM ArrayImplementsCells == Spec => ArrayLinearizable
<1>1. Init => Cells!Init BY ArrInit
<1>2. Inv /\ [Next]_vars => [Cells!Next]_(Cells!vars) BY ArrStep
<1> QED BY <1>1, <1>2, Invariance, PTL DEF Spec, ArrayLinearizable, Cells!Spec

=============================================================================
