----------------------- MODULE FlatCombinerCallProofs -----------------------
(***************************************************************************)
(* Theorems about the calls of apply_slot, for any number of threads and   *)
(* slots: the tasks of a shot belong to waiting threads, no operation runs *)
(* twice, and while no call overlaps with the removal of its own expired   *)
(* slot every call runs its operation exactly once before it returns.      *)
(***************************************************************************)
EXTENDS FlatCombinerListProofs

-----------------------------------------------------------------------------
(* What a step does to the calls.                                          *)

\* Who enters apply_slot, who leaves it and who writes an operation's code.
LEMMA CallEffects ==
  ASSUME TypeOK, [Next]_vars
  PROVE  /\ \A s \in Node : \/ op_code'[s] \in {op_code[s], NOT_SET}
                            \/ \E t \in Thread : ApplySlot(t) /\ tls[t] = s
         /\ \A u \in Thread : Applying(u) =>
              \/ Applying(u)' /\ slot'[u] = slot[u]
              \/ FindDone(u) \/ Unlock(u) \/ ExecuteEscapes(u)
         /\ \A u \in Thread : Applying(u)' => Applying(u) \/ ApplySlot(u)
<1> USE DEF vars, shared, objVars, heapVars, locals, scanVars, deqVars, auxVars,
            Goto, Return
<1> DEFINE Codes == \A s \in Node :
             \/ op_code'[s] \in {op_code[s], NOT_SET}
             \/ \E t \in Thread : ApplySlot(t) /\ tls[t] = s
           Calls(u) == /\ Applying(u) => \/ Applying(u)' /\ slot'[u] = slot[u]
                                         \/ FindDone(u) \/ Unlock(u) \/ ExecuteEscapes(u)
                       /\ Applying(u)' => Applying(u) \/ ApplySlot(u)
<1>1. ASSUME NEW t \in Thread, Call(t) \/ Step(t), Calls(t)
      PROVE  \A u \in Thread : Calls(u)
  <2>1. \A u \in Thread \ {t} : Same(u)
    BY <1>1, OthersSame
  <2>2. QED
    BY <1>1, <2>1 DEF Same, Applying
<1>2. op_code' = op_code => Codes
  OBVIOUS
<1>3. ASSUME NEW t \in Thread, Call(t) PROVE Codes /\ Calls(t)
  <2>1. CASE GetSlot(t)
    BY <2>1 DEF GetSlot, SetTls, Applying, TypeOK, Node
  <2>2. CASE ApplySlot(t)
    BY <2>2 DEF ApplySlot, At, Applying, ApplyPC, ExecutorPC, DequeuePC, TypeOK
  <2>3. CASE Detach(t)
    BY <2>3 DEF Detach, SetTls, At, Applying, ApplyPC, ExecutorPC, DequeuePC, TypeOK
  <2>4. QED
    BY <1>3, <2>1, <2>2, <2>3 DEF Call
<1>4. ASSUME NEW t \in Thread, ApplyStep(t) PROVE Codes /\ Calls(t)
  <2> USE Labels DEF At, Applying, ApplyPC, ExecutorPC, TypeOK
  <2>1. CASE FindDone(t)
    BY <2>1 DEF FindDone
  <2>2. CASE FindPending(t)
    BY <2>2 DEF FindPending
  <2>3. CASE CheckQueue(t)
    BY <2>3 DEF CheckQueue
  <2>4. CASE PushLoad(t)
    BY <2>4 DEF PushLoad
  <2>5. CASE PushSet(t)
    BY <2>5 DEF PushSet
  <2>6. CASE PushCas(t)
    BY <2>6 DEF PushCas
  <2>7. CASE PushRetry(t)
    BY <2>7 DEF PushRetry
  <2>8. CASE TryLock(t)
    BY <2>8 DEF TryLock
  <2>9. CASE LockCas(t)
    BY <2>9 DEF LockCas
  <2>10. CASE LockFail(t)
    BY <2>10 DEF LockFail
  <2>11. QED
    BY <1>4, <2>1, <2>2, <2>3, <2>4, <2>5, <2>6, <2>7, <2>8, <2>9, <2>10 DEF ApplyStep
<1>5. ASSUME NEW t \in Thread, ScanStep(t) PROVE Codes /\ Calls(t)
  <2> USE Labels DEF At, Applying, ExecutorPC, DequeuePC, TypeOK
  <2>1. CASE RunFirst(t)
    BY <2>1 DEF RunFirst
  <2>2. CASE RunAlive(t)
    BY <2>2 DEF RunAlive
  <2>3. CASE RunTake(t)
    BY <2>3 DEF RunTake
  <2>4. CASE RunExpire(t)
    BY <2>4 DEF RunExpire
  <2>5. CASE RunSkip(t)
    BY <2>5 DEF RunSkip
  <2>6. CASE RunNext(t)
    BY <2>6 DEF RunNext
  <2>7. QED
    BY <1>5, <2>1, <2>2, <2>3, <2>4, <2>5, <2>6 DEF ScanStep
<1>6. ASSUME NEW t \in Thread, DequeueAction(t) PROVE Codes /\ Calls(t)
  <2> USE DEF At, Applying, ExecutorPC, DequeuePC, TypeOK
  <2>1. CASE DequeueNext(t)
    BY <2>1 DEF DequeueNext
  <2>2. CASE DequeueFlag(t)
    BY <2>2 DEF DequeueFlag
  <2>3. CASE DequeueCas(t)
    BY <2>3 DEF DequeueCas
  <2>4. CASE DequeueStep(t)
    BY <2>4 DEF DequeueStep
  <2>5. CASE DequeueNull(t)
    BY <2>5 DEF DequeueNull
  <2>6. QED
    BY <1>6, <2>1, <2>2, <2>3, <2>4, <2>5 DEF DequeueAction
<1>7. ASSUME NEW t \in Thread, ShotStep(t) PROVE Codes /\ Calls(t)
  <2> USE DEF At, Applying, ExecutorPC, TypeOK
  <2>1. CASE Execute(t)
    BY <2>1 DEF Execute
  <2>2. CASE ExecuteThrows(t)
    BY <2>2 DEF ExecuteThrows
  <2>3. CASE ClearTask(t)
    BY <2>3 DEF ClearTask, Cleared
  <2>4. CASE ShotDone(t)
    BY <2>4 DEF ShotDone
  <2>5. CASE Unlock(t)
    BY <2>5 DEF Unlock, EndExecutor
  <2>6. CASE ExecuteEscapes(t)
    BY <2>6 DEF ExecuteEscapes, EndExecutor
  <2>7. QED
    BY <1>7, <2>1, <2>2, <2>3, <2>4, <2>5, <2>6 DEF ShotStep
<1>8. ASSUME NEW t \in Thread, OrphanStep(t) PROVE Codes /\ Calls(t)
  <2>1. op_code' = op_code
    BY <1>8 DEF OrphanStep, OrphanDelete, OrphanQueued, OrphanLoad, OrphanStore
  <2>2. pc[t] \in OrphanPC
    BY <1>8 DEF OrphanStep, OrphanDelete, OrphanQueued, OrphanLoad, OrphanStore, At, OrphanPC
  <2>3. pc'[t] \in OrphanPC \union {"idle"}
    BY <1>8 DEF OrphanStep, OrphanDelete, OrphanQueued, OrphanLoad, OrphanStore, OrphanPC,
                TypeOK
  <2>4. \A l \in OrphanPC \union {"idle"} : l \notin ApplyPC \union ExecutorPC
    BY DEF OrphanPC, ApplyPC, ExecutorPC, DequeuePC
  <2>5. QED
    BY <2>1, <2>2, <2>3, <2>4 DEF Applying
<1>9. CASE UNCHANGED <<shared, pc, locals>> \/ Destroy
  BY <1>9 DEF Destroy, Applying
<1>10. UNCHANGED vars \/ Finished \/ (\E t \in Thread : Crash(t))
         => UNCHANGED <<shared, pc, locals>>
  BY DEF Finished, Crash
<1> HIDE DEF Codes, Calls
<1>11. Codes /\ \A u \in Thread : Calls(u)
  <2>1. ASSUME NEW t \in Thread, Call(t) \/ Step(t) PROVE Codes /\ \A u \in Thread : Calls(u)
    BY <1>1, <1>3, <1>4, <1>5, <1>6, <1>7, <1>8, <2>1 DEF Step
  <2>2. CASE UNCHANGED <<shared, pc, locals>> \/ Destroy
    BY <1>9, <2>2 DEF Codes, Calls
  <2>3. QED
    BY <1>10, <2>1, <2>2 DEF Next
<1>12. QED
  BY <1>11 DEF Codes, Calls

-----------------------------------------------------------------------------
(* Who waits for an operation.                                             *)

LEMMA CallerInit == Init => \A A : CallerInv(A)
  BY DEF Init, CallerInv, HasData, NOT_SET, Node

\* A thread leaves apply_slot only without an operation in its slot, or with its
\* slot off the list.
LEMMA CallerStep ==
  ASSUME OwnInv, MayThrow = {}, NEW A, ListInv(A), CallerInv(A), NEW B, ListInv(B)',
         Moves(A, B), [Next]_vars
  PROVE  CallerInv(B)'
<1> SUFFICES ASSUME NEW s \in Members(B) \intersect Slot, HasData(s)'
             PROVE  \E u \in Thread : slot'[u] = s /\ Applying(u)'
  BY DEF CallerInv
<1>1. TypeOK /\ s \in Node
  BY DEF OwnInv, LockInv, Node
<1>2. CASE \E t \in Thread : ApplySlot(t) /\ tls[t] = s
  <2>1. PICK t \in Thread : ApplySlot(t) /\ tls[t] = s
    BY <1>2
  <2>2. slot'[t] = s /\ pc'[t] = "has_data"
    BY <1>1, <2>1 DEF ApplySlot, Goto, TypeOK
  <2>3. QED
    BY <2>2 DEF Applying, ApplyPC
<1>3. CASE \E t \in Thread : PushCas(t) /\ slot[t] = s
  <2>1. PICK t \in Thread : PushCas(t) /\ slot[t] = s
    BY <1>3
  <2>2. slot'[t] = s /\ pc'[t] = "try_lock"
    BY <1>1, <2>1 DEF PushCas, Goto, TypeOK
  <2>3. QED
    BY <2>2 DEF Applying, ApplyPC
<1>4. ASSUME ~ \E t \in Thread : ApplySlot(t) /\ tls[t] = s,
             ~ \E t \in Thread : PushCas(t) /\ slot[t] = s
      PROVE  \E u \in Thread : slot'[u] = s /\ Applying(u)'
  <2>1. op_code[s] # NOT_SET
    BY <1>1, <1>4, CallEffects DEF HasData
  <2>2. s \in Members(A)
    BY <1>4 DEF Moves
  <2>3. PICK u \in Thread : slot[u] = s /\ Applying(u)
    BY <2>1, <2>2 DEF CallerInv, HasData
  <2>4. ~FindDone(u)
    BY <2>1, <2>3 DEF FindDone, HasData
  <2>5. ~Unlock(u)
    <3>1. pc[u] = "unlock" => ~Executing(u)
      BY <2>1, <2>2, <2>3 DEF ListInv, ThreadInv, OwnTaskInv, HasData
    <3>2. QED
      BY <3>1 DEF Unlock, At, Executing, ExecutorPC
  <2>6. ~ExecuteEscapes(u)
    BY DEF ExecuteEscapes
  <2>7. QED
    BY <1>1, <2>3, <2>4, <2>5, <2>6, CallEffects
<1>5. QED
  BY <1>2, <1>3, <1>4

-----------------------------------------------------------------------------
(* How often an operation has run.                                         *)

\* The step runs, publishes and clears no operation.
Unrun ==
  /\ execs' = execs /\ op_code' = op_code
  /\ \A v \in Thread : pc'[v] = "shot_clear" => pc[v] = "shot_clear" /\ Left(v)' = Left(v)
  /\ \A v \in Thread : pc[v] = "shot_clear" => pc'[v] = "shot_clear" \/ Left(v) = {}
  /\ \A u \in Thread : Applying(u)' => Applying(u) /\ slot'[u] = slot[u]

\* Only an executor writes the shot.
LEMMA UnrunThread ==
  ASSUME OwnInv, NEW t \in Thread, Call(t) \/ Step(t), execs' = execs, op_code' = op_code,
         combine_shot' = combine_shot \/ pc[t] \in ExecutorPC,
         pc[t] = "shot_clear" => i[t] = n[t],
         pc'[t] # "shot_clear", Applying(t)' => Applying(t) /\ slot'[t] = slot[t]
  PROVE  Unrun
<1>1. TypeOK /\ MutualExclusion
  BY DEF OwnInv, LockInv
<1>2. \A u \in Thread \ {t} : Same(u)
  BY <1>1, OthersSame
<1>3. \A u \in Thread : pc[u] = "shot_clear" => Executing(u)
  BY DEF Executing, ExecutorPC
<1>4. \A u \in Thread \ {t} : pc[u] = "shot_clear" => combine_shot' = combine_shot
  BY <1>1, <1>3 DEF MutualExclusion, Executing
<1>5. \A u \in Thread \ {t} : pc[u] = "shot_clear" => Left(u)' = Left(u)
  BY <1>2, <1>4 DEF Same, Left
<1>6. pc[t] = "shot_clear" => Left(t) = {}
  <2>1. n[t] \in Int
    BY <1>1 DEF TypeOK
  <2>2. i[t] = n[t] => i[t] .. n[t] - 1 = {}
    BY <2>1
  <2>3. QED
    BY <2>2 DEF Left
<1>7. QED
  BY <1>2, <1>5, <1>6 DEF Unrun, Same, Applying

LEMMA UnrunEffects ==
  ASSUME OwnInv, MayThrow = {}, [Next]_vars
  PROVE  Unrun \/ \E t \in Thread : GetSlot(t) \/ ApplySlot(t) \/ Execute(t) \/ ClearTask(t)
<1> USE DEF vars, shared, objVars, heapVars, locals, scanVars, deqVars, auxVars,
            Goto, Return
<1>1. TypeOK
  BY DEF OwnInv, LockInv
<1> DEFINE Fine(t) ==
      /\ execs' = execs /\ op_code' = op_code
      /\ combine_shot' = combine_shot \/ pc[t] \in ExecutorPC
      /\ pc[t] = "shot_clear" => i[t] = n[t]
      /\ pc'[t] # "shot_clear"
      /\ Applying(t)' => Applying(t) /\ slot'[t] = slot[t]
<1>2. ASSUME NEW t \in Thread, ApplyStep(t) PROVE Fine(t)
  <2> USE <1>1, Labels DEF At, Applying, ApplyPC, ExecutorPC, TypeOK
  <2>1. CASE FindDone(t)
    BY <2>1 DEF FindDone, DequeuePC
  <2>2. CASE FindPending(t)
    BY <2>2 DEF FindPending
  <2>3. CASE CheckQueue(t)
    BY <2>3 DEF CheckQueue
  <2>4. CASE PushLoad(t)
    BY <2>4 DEF PushLoad
  <2>5. CASE PushSet(t)
    BY <2>5 DEF PushSet
  <2>6. CASE PushCas(t)
    BY <2>6 DEF PushCas
  <2>7. CASE PushRetry(t)
    BY <2>7 DEF PushRetry
  <2>8. CASE TryLock(t)
    BY <2>8 DEF TryLock
  <2>9. CASE LockCas(t)
    BY <2>9 DEF LockCas
  <2>10. CASE LockFail(t)
    BY <2>10 DEF LockFail
  <2>11. QED
    BY <1>2, <2>1, <2>2, <2>3, <2>4, <2>5, <2>6, <2>7, <2>8, <2>9, <2>10 DEF ApplyStep
<1>3. ASSUME NEW t \in Thread, ScanStep(t) PROVE Fine(t)
  <2> USE <1>1, Labels DEF At, Applying, ExecutorPC, DequeuePC, TypeOK
  <2>1. CASE RunFirst(t)
    BY <2>1 DEF RunFirst
  <2>2. CASE RunAlive(t)
    BY <2>2 DEF RunAlive
  <2>3. CASE RunTake(t)
    BY <2>3 DEF RunTake
  <2>4. CASE RunExpire(t)
    BY <2>4 DEF RunExpire
  <2>5. CASE RunSkip(t)
    BY <2>5 DEF RunSkip
  <2>6. CASE RunNext(t)
    BY <2>6 DEF RunNext
  <2>7. QED
    BY <1>3, <2>1, <2>2, <2>3, <2>4, <2>5, <2>6 DEF ScanStep
<1>4. ASSUME NEW t \in Thread, DequeueAction(t) PROVE Fine(t)
  <2> USE <1>1 DEF At, Applying, ExecutorPC, DequeuePC, TypeOK
  <2>1. CASE DequeueNext(t)
    BY <2>1 DEF DequeueNext
  <2>2. CASE DequeueFlag(t)
    BY <2>2 DEF DequeueFlag
  <2>3. CASE DequeueCas(t)
    BY <2>3 DEF DequeueCas
  <2>4. CASE DequeueStep(t)
    BY <2>4 DEF DequeueStep
  <2>5. CASE DequeueNull(t)
    BY <2>5 DEF DequeueNull
  <2>6. QED
    BY <1>4, <2>1, <2>2, <2>3, <2>4, <2>5 DEF DequeueAction
<1>5. ASSUME NEW t \in Thread, ShotDone(t) \/ Unlock(t) PROVE Fine(t)
  <2> USE <1>1 DEF At, Applying, ExecutorPC, ApplyPC, DequeuePC, TypeOK
  <2>1. CASE ShotDone(t)
    BY <2>1 DEF ShotDone
  <2>2. CASE Unlock(t)
    BY <2>2 DEF Unlock, EndExecutor
  <2>3. QED
    BY <1>5, <2>1, <2>2
<1>6. ASSUME NEW t \in Thread, Detach(t) \/ OrphanStep(t) PROVE Fine(t)
  <2>1. op_code' = op_code /\ execs' = execs /\ combine_shot' = combine_shot
    BY <1>6 DEF OrphanStep, OrphanDelete, OrphanQueued, OrphanLoad, OrphanStore, Detach
  <2>2. pc[t] \in OrphanPC \union {"idle"}
    BY <1>6 DEF OrphanStep, OrphanDelete, OrphanQueued, OrphanLoad, OrphanStore, Detach,
                At, OrphanPC
  <2>3. pc'[t] \in OrphanPC \union {"idle"}
    BY <1>1, <1>6 DEF OrphanStep, OrphanDelete, OrphanQueued, OrphanLoad, OrphanStore,
                      Detach, OrphanPC, TypeOK
  <2>4. \A l \in OrphanPC \union {"idle"} :
          l # "shot_clear" /\ l \notin ApplyPC \union ExecutorPC
    BY DEF OrphanPC, ApplyPC, ExecutorPC, DequeuePC
  <2>5. QED
    BY <2>1, <2>2, <2>3, <2>4 DEF Applying
<1>7. ASSUME UNCHANGED <<shared, pc, locals, execs>> \/ Destroy PROVE Unrun
  BY <1>7 DEF Destroy, Unrun, Left, Applying
<1>8. UNCHANGED vars \/ Finished \/ (\E t \in Thread : Crash(t))
         => UNCHANGED <<shared, pc, locals, execs>>
  BY DEF Finished, Crash
<1>9. \A t \in Thread : (Call(t) \/ Step(t)) /\ Fine(t) => Unrun
  BY UnrunThread
<1>10. \A t \in Thread : ~ExecuteThrows(t) /\ ~ExecuteEscapes(t)
  BY DEF ExecuteThrows, ExecuteEscapes
<1> HIDE DEF Fine
<1>11. QED
  BY <1>2, <1>3, <1>4, <1>5, <1>6, <1>7, <1>8, <1>9, <1>10
     DEF Next, Call, Step, ShotStep

LEMMA OnceInit == Init => OnceInv
<1> SUFFICES ASSUME Init PROVE OnceInv
  OBVIOUS
<1>1. /\ \A s \in Node : execs[s] = 0
      /\ \A t \in Thread : pc[t] = "idle"
  BY DEF Init
<1>2. \A t \in Thread : ~Applying(t)
  BY <1>1 DEF Applying, ApplyPC, ExecutorPC, DequeuePC
<1>3. QED
  BY <1>1, <1>2 DEF OnceInv, Node

LEMMA OnceUnrun ==
  ASSUME OnceInv, Unrun
  PROVE  OnceInv'
<1>1. \A s : HasData(s)' <=> HasData(s)
  BY DEF Unrun, HasData
<1>2. ASSUME NEW s \in Slot, HasData(s), execs[s] # 0
      PROVE  \E t \in Thread : pc'[t] = "shot_clear" /\ s \in Left(t)'
  <2>1. PICK t \in Thread : pc[t] = "shot_clear" /\ s \in Left(t)
    BY <1>2 DEF OnceInv
  <2>2. pc'[t] = "shot_clear" /\ Left(t)' = Left(t)
    BY <2>1 DEF Unrun
  <2>3. QED
    BY <2>1, <2>2
<1>3. ASSUME NEW u \in Thread, Applying(u)', ~HasData(slot'[u])
      PROVE  execs[slot'[u]] = 1
  <2>1. Applying(u) /\ slot'[u] = slot[u]
    BY <1>3 DEF Unrun
  <2>2. QED
    BY <1>3, <2>1 DEF OnceInv
<1>4. \A u \in Thread : Applying(u)' /\ ~HasData(slot[u])' => execs'[slot'[u]] = 1
  BY <1>3 DEF Unrun, HasData
<1>5. \A t \in Thread : pc'[t] = "shot_clear" => \A s \in Left(t)' : execs'[s] = 1
  BY DEF Unrun, OnceInv
<1>6. \A s \in Slot : execs'[s] <= 1
  BY DEF Unrun, OnceInv
<1>7. QED
  BY <1>1, <1>2, <1>4, <1>5, <1>6 DEF OnceInv, Unrun

\* The tasks of a shot are different slots with an operation each.
LEMMA TaskFacts ==
  ASSUME OwnInv, NEW A, ListInv(A), NEW t \in Thread, pc[t] \in ShotPC
  PROVE  /\ i[t] \in Nat /\ n[t] \in Nat /\ Head \in live
         /\ \A k \in i[t] .. n[t] - 1 : k \in 0 .. n[t] - 1 /\ HasData(combine_shot[k])
         /\ \A k \in 0 .. n[t] - 1 : combine_shot[k] \in Members(A) \intersect Slot
         /\ \A j, k \in 0 .. n[t] - 1 : combine_shot[j] = combine_shot[k] => j = k
         /\ Left(t) \subseteq Members(A) \intersect Slot
         /\ \A s \in Left(t) : HasData(s)
         /\ pc[t] = "shot_exec" => i[t] = 0
         /\ \A v \in Thread : Executing(v) => v = t
<1>1. i[t] \in Nat /\ n[t] \in Nat
  BY DEF OwnInv, LockInv, TypeOK
<1>2. ShotInv(t, A)
  BY DEF ListInv, ThreadInv
<1>3. \A k \in i[t] .. n[t] - 1 : k \in 0 .. n[t] - 1
  BY <1>1
<1>4. pc[t] # "idle" /\ Executing(t)
  BY DEF ShotPC, Executing, ExecutorPC
<1>5. Head \in live
  BY <1>4, InsideFacts
<1>6. \A v \in Thread : Executing(v) => v = t
  BY <1>4 DEF OwnInv, LockInv, MutualExclusion
<1>7. /\ \A k \in i[t] .. n[t] - 1 : HasData(combine_shot[k])
      /\ \A k \in 0 .. n[t] - 1 : combine_shot[k] \in Members(A) \intersect Slot
      /\ \A j, k \in 0 .. n[t] - 1 : combine_shot[j] = combine_shot[k] => j = k
      /\ pc[t] = "shot_exec" => i[t] = 0
  BY <1>2 DEF ShotInv, ShotPC
<1>8. QED
  BY <1>1, <1>3, <1>5, <1>6, <1>7 DEF Left

\* execute() runs each of its tasks once, for the first time.
LEMMA ExecuteRuns ==
  ASSUME OwnInv, NEW A, ListInv(A), OnceInv, NEW t \in Thread, Execute(t)
  PROVE  /\ \A s \in Node : execs'[s] = IF s \in Left(t) THEN 1 ELSE execs[s]
         /\ \A s \in Left(t) : execs[s] = 0
         /\ op_code' = op_code /\ slot' = slot /\ Left(t)' = Left(t)
         /\ pc'[t] = "shot_clear" /\ \A u \in Thread \ {t} : pc'[u] = pc[u]
         /\ \A u \in Thread : pc[u] # "shot_clear"
<1>1. pc[t] = "shot_exec" /\ TypeOK
  BY DEF Execute, At, OwnInv, LockInv
<1>2. pc[t] \in ShotPC
  BY <1>1 DEF ShotPC
<1>3. UNCHANGED <<op_code, slot, combine_shot, i, n>>
  BY DEF Execute, shared, objVars, heapVars, locals, scanVars
<1>4. pc'[t] = "shot_clear" /\ \A u \in Thread \ {t} : pc'[u] = pc[u]
  BY <1>1 DEF Execute, Goto, TypeOK
<1>5. \A u \in Thread : pc[u] # "shot_clear"
  <2>1. \A u \in Thread : pc[u] = "shot_clear" => Executing(u)
    BY DEF Executing, ExecutorPC
  <2>2. QED
    BY <1>1, <1>2, <2>1, TaskFacts
<1>6. \A s \in Left(t) : s \in Slot /\ HasData(s)
  BY <1>2, TaskFacts
<1>7. \A s \in Left(t) : execs[s] = 0
  BY <1>5, <1>6 DEF OnceInv
<1> DEFINE Runs(s) == {j \in 0 .. n[t] - 1 : combine_shot[j] = s}
<1>8. \A s \in Node : execs'[s] = execs[s] + Cardinality(Runs(s))
  BY DEF Execute, Executed
<1>9. \A j \in 0 .. n[t] - 1 : combine_shot[j] \in Left(t)
  <2>1. i[t] = 0
    BY <1>1, <1>2, TaskFacts
  <2>2. QED
    BY <2>1 DEF Left
<1>10. ASSUME NEW s \in Node, s \notin Left(t) PROVE Cardinality(Runs(s)) = 0
  <2>1. Runs(s) = {}
    BY <1>9, <1>10
  <2>2. QED
    BY <2>1, FS_EmptySet
<1>11. ASSUME NEW s \in Left(t) PROVE Cardinality(Runs(s)) = 1
  <2>1. PICK k \in i[t] .. n[t] - 1 : combine_shot[k] = s
    BY <1>11 DEF Left
  <2>2. k \in 0 .. n[t] - 1
    BY <1>2, <2>1, TaskFacts
  <2>3. Runs(s) = {k}
    BY <1>2, <2>1, <2>2, TaskFacts
  <2>4. QED
    BY <2>3, FS_Singleton
<1> HIDE DEF Runs
<1>12. \A s \in Node : execs'[s] = IF s \in Left(t) THEN 1 ELSE execs[s]
  <2>1. \A s \in Node : execs[s] \in Nat
    BY <1>1 DEF TypeOK
  <2>2. QED
    BY <1>7, <1>8, <1>10, <1>11, <2>1
<1>13. Left(t)' = Left(t)
  BY <1>3 DEF Left
<1>14. QED
  BY <1>3, <1>4, <1>5, <1>7, <1>12, <1>13

LEMMA OnceExecute ==
  ASSUME OwnInv, NEW A, ListInv(A), OnceInv, NEW t \in Thread, Execute(t)
  PROVE  OnceInv'
<1>1. /\ \A s \in Node : execs'[s] = IF s \in Left(t) THEN 1 ELSE execs[s]
      /\ op_code' = op_code /\ slot' = slot /\ Left(t)' = Left(t)
      /\ pc'[t] = "shot_clear" /\ \A u \in Thread \ {t} : pc'[u] = pc[u]
      /\ \A u \in Thread : pc[u] # "shot_clear"
  BY ExecuteRuns
<1>2. pc[t] = "shot_exec" /\ pc[t] \in ShotPC
  BY DEF Execute, At, ShotPC
<1>3. Left(t) \subseteq Slot /\ \A s \in Left(t) : HasData(s)
  BY <1>2, TaskFacts
<1>4. \A s : HasData(s)' <=> HasData(s)
  BY <1>1 DEF HasData
<1>5. \A s \in Slot : execs'[s] <= 1
  BY <1>1 DEF OnceInv, Node
<1>6. \A s \in Slot : HasData(s) /\ execs'[s] # 0 => s \in Left(t)
  BY <1>1 DEF OnceInv, Node
<1>7. \A v \in Thread : pc'[v] = "shot_clear" => v = t
  BY <1>1
<1>8. \A s \in Left(t) : execs'[s] = 1
  BY <1>1, <1>3 DEF Node
<1>9. ASSUME NEW u \in Thread, Applying(u)', ~HasData(slot[u])
      PROVE  execs'[slot[u]] = 1
  <2>1. Applying(u) /\ pc[u] # "idle"
    BY <1>1, <1>2, <1>9 DEF Applying, ApplyPC, ExecutorPC, DequeuePC
  <2>2. slot[u] \in Node
    BY <2>1, InsideFacts
  <2>3. QED
    BY <1>1, <1>3, <1>9, <2>1, <2>2 DEF OnceInv
<1>10. \A u \in Thread : Applying(u)' /\ ~HasData(slot[u])' => execs'[slot'[u]] = 1
  BY <1>1, <1>9 DEF HasData
<1>11. QED
  BY <1>1, <1>4, <1>5, <1>6, <1>7, <1>8, <1>10 DEF OnceInv

LEMMA OnceGetSlot ==
  ASSUME OwnInv, NEW A, ListInv(A), OnceInv, NEW t \in Thread, GetSlot(t)
  PROVE  OnceInv'
<1>1. TypeOK /\ pc[t] = "idle" /\ Head \in live
  BY DEF GetSlot, At, OwnInv, LockInv
<1>2. PICK s \in Slot \ live :
        op_code' = [op_code EXCEPT ![s] = NOT_SET] /\ execs' = [execs EXCEPT ![s] = 0]
  BY DEF GetSlot
<1>3. UNCHANGED <<pc, slot, combine_shot, i, n>>
  BY DEF GetSlot, objVars, locals, scanVars
<1>4. \A u \in Thread : pc[u] = "shot_clear" => s \notin Left(u)
  <2>1. \A u \in Thread : pc[u] = "shot_clear" => Left(u) \subseteq Members(A)
    BY TaskFacts DEF ShotPC
  <2>2. Members(A) \subseteq live
    BY <1>1, MemberFacts
  <2>3. QED
    BY <1>2, <2>1, <2>2
<1>5. \A u \in Thread : Applying(u) => slot[u] \in Slot /\ slot[u] # s
  <2>1. \A u \in Thread : Applying(u) => pc[u] # "idle"
    BY DEF Applying, ApplyPC, ExecutorPC, DequeuePC
  <2>2. QED
    BY <1>2, <2>1, InsideFacts
<1>6. \A u \in Thread : Left(u)' = Left(u) /\ (Applying(u)' <=> Applying(u))
  BY <1>3 DEF Left, Applying
<1>7. /\ ~HasData(s)' /\ execs'[s] = 0
      /\ \A a \in Slot \ {s} : (HasData(a)' <=> HasData(a)) /\ execs'[a] = execs[a]
  BY <1>1, <1>2 DEF HasData, TypeOK, Node
<1>8. \A u \in Thread : pc[u] = "shot_clear" => Left(u) \subseteq Slot
  BY TaskFacts DEF ShotPC
<1>9. \A a \in Slot : execs'[a] <= 1
  BY <1>7 DEF OnceInv
<1>10. \A a \in Slot : HasData(a)' /\ execs'[a] # 0 => a # s /\ HasData(a) /\ execs[a] # 0
  BY <1>7
<1>11. \A a \in Slot : HasData(a)' /\ execs'[a] # 0 =>
         \E u \in Thread : pc'[u] = "shot_clear" /\ a \in Left(u)'
  BY <1>3, <1>6, <1>10 DEF OnceInv
<1>12. \A u \in Thread : pc'[u] = "shot_clear" => \A a \in Left(u)' : execs'[a] = 1
  <2>1. ASSUME NEW u \in Thread, pc[u] = "shot_clear", NEW a \in Left(u)
        PROVE  execs'[a] = 1
    BY <1>4, <1>7, <1>8, <2>1 DEF OnceInv
  <2>2. QED
    BY <1>3, <1>6, <2>1
<1>13. ASSUME NEW u \in Thread, Applying(u)', ~HasData(slot[u])' PROVE execs'[slot'[u]] = 1
  <2>1. Applying(u) /\ slot'[u] = slot[u] /\ slot[u] \in Slot \ {s}
    BY <1>3, <1>5, <1>6, <1>13
  <2>2. ~HasData(slot[u])
    BY <1>7, <1>13, <2>1 DEF HasData
  <2>3. QED
    BY <1>7, <2>1, <2>2 DEF OnceInv
<1>14. QED
  BY <1>9, <1>11, <1>12, <1>13 DEF OnceInv

LEMMA OnceApplySlot ==
  ASSUME OwnInv, NEW A, ListInv(A), CallerInv(A), OnceInv, NEW t \in Thread, ApplySlot(t),
         NEW s, s = tls[t]
  PROVE  OnceInv'
<1>1. TypeOK /\ pc[t] = "idle" /\ s # Null
  BY DEF ApplySlot, At, OwnInv, LockInv
<1>2. PICK op \in Op : op_code' = [op_code EXCEPT ![s] = op] /\ execs' = [execs EXCEPT ![s] = 0]
  BY DEF ApplySlot
<1>3. /\ UNCHANGED <<combine_shot, i, n>> /\ slot' = [slot EXCEPT ![t] = s]
      /\ pc' = [pc EXCEPT ![t] = "has_data"]
  BY DEF ApplySlot, objVars, scanVars, Goto
<1>4. s \in Slot /\ s \in Holds(t) /\ op # NOT_SET
  BY <1>1, OpAssumption DEF TypeOK, Holds
<1>5. \A u \in Thread \ {t} : s \notin Holds(u)
  BY <1>4 DEF OwnInv, OwnedSlotLive
<1>6. \A u \in Thread : Applying(u) => u # t /\ slot[u] \in Slot \ {s}
  <2>1. \A u \in Thread : Applying(u) => pc[u] # "idle"
    BY DEF Applying, ApplyPC, ExecutorPC, DequeuePC
  <2>2. \A u \in Thread : Applying(u) => slot[u] \in Slot /\ slot[u] \in Holds(u)
    BY <2>1, InsideFacts
  <2>3. QED
    BY <1>1, <1>5, <2>1, <2>2
<1>7. \A u \in Thread : pc[u] = "shot_clear" =>
        Left(u) \subseteq Members(A) \intersect Slot /\ s \notin Left(u)
  <2>1. \A u \in Thread : pc[u] = "shot_clear" =>
          Left(u) \subseteq Members(A) \intersect Slot /\ \A a \in Left(u) : HasData(a)
    BY TaskFacts DEF ShotPC
  <2>2. s \in Members(A) => ~HasData(s)
    BY <1>4, <1>6 DEF CallerInv
  <2>3. QED
    BY <2>1, <2>2
<1>8. \A u \in Thread : /\ pc'[u] = "shot_clear" <=> pc[u] = "shot_clear"
                        /\ Left(u)' = Left(u)
  BY <1>1, <1>3 DEF Left, TypeOK
<1>9. /\ HasData(s)' /\ execs'[s] = 0
      /\ \A a \in Slot \ {s} : (HasData(a)' <=> HasData(a)) /\ execs'[a] = execs[a]
  BY <1>1, <1>2, <1>4 DEF HasData, TypeOK, Node
<1>10. \A a \in Slot : execs'[a] <= 1
  BY <1>9 DEF OnceInv
<1>11. \A a \in Slot : HasData(a)' /\ execs'[a] # 0 => a # s /\ HasData(a) /\ execs[a] # 0
  BY <1>9
<1>12. \A a \in Slot : HasData(a)' /\ execs'[a] # 0 =>
         \E u \in Thread : pc'[u] = "shot_clear" /\ a \in Left(u)'
  BY <1>8, <1>11 DEF OnceInv
<1>13. \A u \in Thread : pc'[u] = "shot_clear" => \A a \in Left(u)' : execs'[a] = 1
  <2>1. ASSUME NEW u \in Thread, pc[u] = "shot_clear", NEW a \in Left(u)
        PROVE  execs'[a] = 1
    BY <1>7, <1>9, <2>1 DEF OnceInv
  <2>2. QED
    BY <1>8, <2>1
<1>14. ASSUME NEW u \in Thread, Applying(u)', ~HasData(slot[u])' PROVE execs'[slot'[u]] = 1
  <2>1. u # t
    BY <1>1, <1>3, <1>9, <1>14 DEF HasData, TypeOK
  <2>2. Applying(u) /\ slot'[u] = slot[u]
    BY <1>1, <1>3, <1>14, <2>1 DEF Applying, TypeOK
  <2>3. slot[u] \in Slot \ {s} /\ ~HasData(slot[u])
    BY <1>6, <1>9, <1>14, <2>2 DEF HasData
  <2>4. QED
    BY <1>9, <2>2, <2>3 DEF OnceInv
<1>15. QED
  BY <1>10, <1>12, <1>13, <1>14 DEF OnceInv

LEMMA OnceClearTask ==
  ASSUME OwnInv, NEW A, ListInv(A), OnceInv, NEW t \in Thread, ClearTask(t),
         NEW c, c = combine_shot[i[t]]
  PROVE  OnceInv'
<1>1. TypeOK /\ pc[t] = "shot_clear" /\ i[t] < n[t]
  BY DEF ClearTask, At, OwnInv, LockInv
<1>2. /\ UNCHANGED <<combine_shot, n, pc, slot, execs>> /\ i' = [i EXCEPT ![t] = @ + 1]
      /\ op_code' = [op_code EXCEPT ![c] = NOT_SET]
  BY DEF ClearTask, Cleared, objVars, auxVars
<1>3. /\ Left(t) \subseteq Members(A) \intersect Slot /\ i[t] \in Nat /\ n[t] \in Nat
      /\ \A k \in i[t] .. n[t] - 1 : k \in 0 .. n[t] - 1
      /\ \A j, k \in 0 .. n[t] - 1 : combine_shot[j] = combine_shot[k] => j = k
      /\ \A v \in Thread : Executing(v) => v = t
  BY <1>1, TaskFacts DEF ShotPC
<1>4. i[t] \in i[t] .. n[t] - 1
  BY <1>1, <1>3
<1>5. c \in Left(t) /\ c \in Slot
  BY <1>3, <1>4 DEF Left
<1>6. Left(t)' = Left(t) \ {c}
  <2>1. i'[t] = i[t] + 1
    BY <1>1, <1>2 DEF TypeOK
  <2>2. i[t] + 1 .. n[t] - 1 = (i[t] .. n[t] - 1) \ {i[t]}
    BY <1>3
  <2>3. Left(t)' = {combine_shot[k] : k \in i[t] + 1 .. n[t] - 1}
    BY <1>2, <2>1 DEF Left
  <2>4. \A k \in i[t] .. n[t] - 1 : combine_shot[k] = c <=> k = i[t]
    BY <1>3, <1>4
  <2> DEFINE K == i[t] .. n[t] - 1
  <2>5. Left(t)' = {combine_shot[k] : k \in K \ {i[t]}}
    BY <2>2, <2>3
  <2>6. Left(t) = {combine_shot[k] : k \in K}
    BY DEF Left
  <2>7. \A k \in K : combine_shot[k] = c <=> k = i[t]
    BY <2>4
  <2> HIDE DEF K
  <2>8. QED
    BY <2>5, <2>6, <2>7
<1>7. \A u \in Thread : pc[u] = "shot_clear" => u = t
  BY <1>3 DEF Executing, ExecutorPC
<1>8. ~HasData(c)' /\ \A a \in Slot \ {c} : HasData(a)' <=> HasData(a)
  BY <1>1, <1>2, <1>5 DEF HasData, TypeOK, Node
<1>9. \A a \in Slot : HasData(a)' /\ execs[a] # 0 => a \in Left(t)'
  BY <1>6, <1>7, <1>8 DEF OnceInv
<1>10. \A a \in Left(t) : execs[a] = 1
  BY <1>1 DEF OnceInv
<1>11. ASSUME NEW u \in Thread, Applying(u)', ~HasData(slot[u])' PROVE execs'[slot'[u]] = 1
  <2>1. Applying(u) /\ slot'[u] = slot[u] /\ execs' = execs
    BY <1>2, <1>11 DEF Applying
  <2>2. slot[u] \in Slot
    BY <2>1, InsideFacts DEF Applying, ApplyPC, ExecutorPC, DequeuePC
  <2>3. slot[u] = c \/ ~HasData(slot[u])
    BY <1>8, <1>11, <2>1, <2>2 DEF HasData
  <2>4. QED
    BY <1>5, <1>10, <2>1, <2>3 DEF OnceInv
<1>12. \A a \in Slot : execs'[a] <= 1
  BY <1>2 DEF OnceInv
<1>13. \A a \in Slot : HasData(a)' /\ execs'[a] # 0 =>
         \E u \in Thread : pc'[u] = "shot_clear" /\ a \in Left(u)'
  BY <1>1, <1>2, <1>9
<1>14. \A u \in Thread : pc'[u] = "shot_clear" => \A a \in Left(u)' : execs'[a] = 1
  BY <1>2, <1>6, <1>7, <1>10
<1>15. QED
  BY <1>11, <1>12, <1>13, <1>14 DEF OnceInv

LEMMA OnceStep ==
  ASSUME OwnInv, MayThrow = {}, NEW A, ListInv(A), CallInv(A), [Next]_vars
  PROVE  OnceInv'
<1>1. CallerInv(A) /\ OnceInv
  BY DEF CallInv
<1>2. CASE Unrun
  BY <1>1, <1>2, OnceUnrun
<1>3. ASSUME NEW t \in Thread, ApplySlot(t) PROVE OnceInv'
  <2>1. \A s : s = tls[t] => OnceInv'
    BY <1>1, <1>3, OnceApplySlot
  <2>2. QED
    BY <2>1
<1>4. ASSUME NEW t \in Thread, ClearTask(t) PROVE OnceInv'
  <2>1. \A c : c = combine_shot[i[t]] => OnceInv'
    BY <1>1, <1>4, OnceClearTask
  <2>2. QED
    BY <2>1
<1>5. QED
  BY <1>1, <1>2, <1>3, <1>4, OnceGetSlot, OnceExecute, UnrunEffects

-----------------------------------------------------------------------------
(* Without exceptions.                                                     *)

\* What holds of the list and the calls, the list carried along.
CallSound == OwnInv /\ \E behind : ListInv(behind) /\ CallInv(behind)

\* The list and the calls keep their invariant.
THEOREM CallSoundCorrect ==
  ASSUME DetachMode # "any", MayThrow = {}
  PROVE  Spec => []CallSound
<1>1. Init => CallSound
  <2>1. Init => OwnInv /\ OnceInv /\ \A A : CallerInv(A)
    BY OwnInit, OnceInit, CallerInit
  <2>2. QED
    BY <2>1, ListInit DEF CallSound, CallInv
<1>2. CallSound /\ [Next]_vars => CallSound'
  <2> SUFFICES ASSUME CallSound, [Next]_vars PROVE CallSound'
    OBVIOUS
  <2>1. PICK A : ListInv(A) /\ CallInv(A)
    BY DEF CallSound
  <2>2. OwnInv /\ OwnInv'
    BY OwnStep DEF CallSound
  <2>3. PICK B : ListInv(B)' /\ Moves(A, B)
    BY <2>1, <2>2, ListStep
  <2>4. CallerInv(B)'
    BY <2>1, <2>2, <2>3, CallerStep DEF CallInv
  <2>5. OnceInv'
    BY <2>1, <2>2, OnceStep
  <2>6. QED
    BY <2>2, <2>3, <2>4, <2>5 DEF CallSound, CallInv
<1>3. QED
  BY <1>1, <1>2, PTL DEF Spec

\* No client touches the data of a slot while execute() runs it: its thread is
\* waiting in apply_slot until the slot is cleared.
THEOREM TasksWait ==
  ASSUME DetachMode # "any", MayThrow = {}
  PROVE  Spec => []TasksAreWaiting
<1>1. CallSound => TasksAreWaiting
  <2> SUFFICES ASSUME CallSound, NEW t \in Thread, pc[t] \in {"shot_exec", "shot_clear"},
                      NEW k \in i[t] .. n[t] - 1
               PROVE  /\ HasData(combine_shot[k])
                      /\ \E u \in Thread : slot[u] = combine_shot[k] /\ Applying(u)
    BY DEF TasksAreWaiting
  <2>1. PICK A : ListInv(A) /\ CallInv(A)
    BY DEF CallSound
  <2>2. HasData(combine_shot[k]) /\ combine_shot[k] \in Members(A) \intersect Slot
    BY <2>1, TaskFacts DEF CallSound, ShotPC
  <2>3. QED
    BY <2>1, <2>2 DEF CallInv, CallerInv
<1>2. QED
  BY <1>1, CallSoundCorrect, PTL

\* No operation is passed to execute() twice, although the executor clears the
\* slots of a shot one by one, while their threads publish again.
THEOREM RunsAtMostOnce ==
  ASSUME DetachMode # "any", MayThrow = {}
  PROVE  Spec => []AtMostOnce
<1>1. CallSound => AtMostOnce
  BY DEF CallSound, CallInv, OnceInv, AtMostOnce
<1>2. QED
  BY <1>1, CallSoundCorrect, PTL

\* Every pending operation on the list has a caller waiting for it, and has run
\* exactly if its executor is about to clear it.
THEOREM CallsAlwaysConsistent ==
  ASSUME DetachMode # "any", MayThrow = {}
  PROVE  Spec => []CallsConsistent
<1>1. CallSound => CallsConsistent
  <2> SUFFICES ASSUME CallSound PROVE CallsConsistent
    OBVIOUS
  <2>1. PICK A : ListInv(A) /\ CallInv(A)
    BY DEF CallSound
  <2>2. Members(Behind) = Members(A)
    BY <2>1, BehindFacts
  <2>3. QED
    BY <2>1, <2>2 DEF CallsConsistent, CallInv, CallerInv
<1>2. QED
  BY <1>1, CallSoundCorrect, PTL

-----------------------------------------------------------------------------
(* While calls are undisturbed.                                            *)

\* Where a call has pushed its slot or found it on the list.
QueuedPC == {"try_lock", "lock_cas"} \union ExecutorPC

LEMMA QueuedInit == Init => \A A : QueuedInv(A)
  BY DEF Init, QueuedInv, ExecutorPC, DequeuePC

\* A call reaches those places by pushing its slot, or finding a successor in it.
LEMMA QueuedEffects ==
  ASSUME TypeOK, [Next]_vars, NEW u \in Thread, pc'[u] \in QueuedPC
  PROVE  /\ Applying(u)' /\ slot'[u] = slot[u]
         /\ pc[u] \in QueuedPC \/ PushCas(u) \/ (CheckQueue(u) /\ InQueue(slot[u]))
<1> USE DEF vars, shared, objVars, heapVars, locals, scanVars, deqVars, auxVars, Goto, Return
<1>1. Applying(u)'
  BY DEF Applying, QueuedPC, ApplyPC
<1>2. ASSUME NEW t \in Thread, Call(t) \/ Step(t), t # u
      PROVE  slot'[u] = slot[u] /\ pc[u] \in QueuedPC
  <2>1. Same(u)
    BY <1>2, OthersSame
  <2>2. QED
    BY <2>1 DEF Same
<1>3. ASSUME UNCHANGED <<shared, pc, locals>> \/ Destroy
      PROVE  slot'[u] = slot[u] /\ pc[u] \in QueuedPC
  BY <1>3 DEF Destroy
<1>4. UNCHANGED vars \/ Finished \/ (\E t \in Thread : Crash(t))
         => UNCHANGED <<shared, pc, locals>>
  BY DEF Finished, Crash
<1>5. \A l \in {"has_data", "in_queue", "push_load", "push_set", "push_cas", "idle"}
          \union OrphanPC : l \notin QueuedPC
  BY DEF QueuedPC, ExecutorPC, DequeuePC, OrphanPC
<1>6. CASE Call(u)
  <2>1. pc'[u] \in {"idle", "has_data", "orphan_check"}
    BY <1>6 DEF Call, GetSlot, ApplySlot, Detach, At, TypeOK
  <2>2. QED
    BY <1>5, <2>1 DEF OrphanPC
<1>7. CASE OrphanStep(u)
  <2>1. pc'[u] \in OrphanPC \union {"idle"}
    BY <1>7 DEF OrphanStep, OrphanDelete, OrphanQueued, OrphanLoad, OrphanStore, OrphanPC,
                TypeOK
  <2>2. QED
    BY <1>5, <2>1
<1>8. CASE ApplyStep(u)
  <2> USE Labels DEF At, TypeOK
  <2>1. CASE FindDone(u) \/ FindPending(u) \/ PushLoad(u) \/ PushSet(u) \/ PushRetry(u)
    <3>1. pc'[u] \in {"idle", "in_queue", "push_set", "push_cas"}
      BY <2>1 DEF FindDone, FindPending, PushLoad, PushSet, PushRetry
    <3>2. QED
      BY <1>5, <3>1
  <2>2. CASE CheckQueue(u)
    <3>1. slot' = slot /\ (InQueue(slot[u]) \/ pc'[u] = "push_load")
      BY <2>2 DEF CheckQueue
    <3>2. QED
      BY <1>1, <1>5, <2>2, <3>1
  <2>3. CASE PushCas(u)
    BY <1>1, <2>3 DEF PushCas
  <2>4. CASE TryLock(u)
    BY <1>1, <2>4 DEF TryLock, QueuedPC
  <2>5. CASE LockCas(u)
    BY <1>1, <2>5 DEF LockCas, QueuedPC
  <2>6. CASE LockFail(u)
    BY <1>1, <2>6 DEF LockFail, QueuedPC
  <2>7. QED
    BY <1>8, <2>1, <2>2, <2>3, <2>4, <2>5, <2>6 DEF ApplyStep
<1>9. ASSUME ScanStep(u) \/ DequeueAction(u) \/ ShotStep(u)
      PROVE  slot'[u] = slot[u] /\ pc[u] \in QueuedPC
  <2>1. pc[u] \in ExecutorPC
    BY <1>9 DEF ScanStep, DequeueAction, ShotStep, RunFirst, RunAlive, RunTake, RunExpire,
         RunSkip, RunNext, DequeueNext, DequeueFlag, DequeueCas, DequeueStep, DequeueNull,
         Execute, ExecuteThrows, ExecuteEscapes, ClearTask, ShotDone, Unlock, At, ExecutorPC, DequeuePC
  <2>2. ~FindDone(u) /\ ~ApplySlot(u) /\ Applying(u)
    BY <2>1 DEF FindDone, ApplySlot, At, Applying, ExecutorPC, DequeuePC
  <2>3. Unlock(u) \/ ExecuteEscapes(u) => ~Applying(u)'
    BY DEF Unlock, ExecuteEscapes, EndExecutor, Applying, ApplyPC, ExecutorPC, DequeuePC,
           TypeOK
  <2>4. slot'[u] = slot[u]
    BY <1>1, <2>2, <2>3, CallEffects
  <2>5. QED
    BY <2>1, <2>4 DEF QueuedPC
<1>10. QED
  BY <1>1, <1>2, <1>3, <1>4, <1>6, <1>7, <1>8, <1>9 DEF Next, Step

\* What an executor unlinks is dead, or the expired slot of a thread that is not
\* in a call.
LEMMA QueuedStep ==
  ASSUME OwnInv, Undisturbed, NEW A, ListInv(A), QueuedInv(A), NEW B, ListInv(B)',
         Moves(A, B), [Next]_vars
  PROVE  QueuedInv(B)'
<1> SUFFICES ASSUME NEW u \in Thread, pc'[u] \in QueuedPC PROVE slot'[u] \in Members(B)
  BY DEF QueuedInv, QueuedPC
<1>1. TypeOK
  BY DEF OwnInv, LockInv
<1>2. /\ Applying(u)' /\ slot'[u] = slot[u]
      /\ pc[u] \in QueuedPC \/ PushCas(u) \/ (CheckQueue(u) /\ InQueue(slot[u]))
  BY <1>1, QueuedEffects
<1>3. CASE PushCas(u)
  <2>1. link'[Head].ptr = slot[u]
    BY <1>1, <1>3 DEF PushCas, SetPtr, TypeOK, TaggedPointer, Node
  <2>2. Chain(link', B)
    BY DEF ListInv
  <2>3. link'[Head].ptr \in Members(B)
    BY <2>2, NodesAssumption, ChainFacts
  <2>4. QED
    BY <1>2, <2>1, <2>3
<1>4. ASSUME pc[u] \in QueuedPC \/ (CheckQueue(u) /\ InQueue(slot[u]))
      PROVE  slot[u] \in Members(B)
  <2>1. Applying(u) /\ pc[u] # "idle"
    BY <1>4 DEF QueuedPC, CheckQueue, At, Applying, ApplyPC, ExecutorPC, DequeuePC
  <2>2. slot[u] \in Slot /\ IsAlive(slot[u]) /\ slot[u] \in Holds(u)
        /\ \A v \in Thread \ {u} : slot[v] # slot[u]
    BY <2>1, InsideFacts
  <2>3. \A t \in Thread : pc[t] \in DequeuePC => current_node[t] # slot[u]
    BY <2>1, <2>2 DEF Undisturbed, OwnInv, DeadStaysDead
  <2>4. slot[u] \in Members(A)
    <3>1. CASE pc[u] \in QueuedPC
      BY <3>1 DEF QueuedInv, QueuedPC
    <3>2. CASE CheckQueue(u) /\ InQueue(slot[u])
      <4>1. slot[u] \in Members(A) \/ Unlinked(slot[u]) \/ Pushing(slot[u])
        BY <2>2, <3>2 DEF ListInv, LinkedInv
      <4>2. ~Unlinked(slot[u])
        BY <2>3 DEF Unlinked, DequeuePC
      <4>3. ~Pushing(slot[u])
        BY <2>2, <3>2 DEF Pushing, CheckQueue, At
      <4>4. QED
        BY <4>1, <4>2, <4>3
    <3>3. QED
      BY <1>4, <3>1, <3>2
  <2>5. \A t \in Thread : DequeueCas(t) => pc[t] \in DequeuePC
    BY DEF DequeueCas, At, DequeuePC
  <2>6. QED
    BY <2>3, <2>4, <2>5 DEF Moves
<1>5. QED
  BY <1>2, <1>3, <1>4

\* What holds of the list and the threads that wait for the lock.
QueuedSound == OwnInv /\ \E behind : ListInv(behind) /\ QueuedInv(behind)

\* Undisturbed calls keep their slots on the list.
THEOREM QueuedSoundCorrect ==
  ASSUME DetachMode # "any"
  PROVE  Spec /\ []Undisturbed => []QueuedSound
<1>1. Init => QueuedSound
  BY OwnInit, ListInit, QueuedInit DEF QueuedSound
<1>2. QueuedSound /\ Undisturbed /\ [Next]_vars => QueuedSound'
  <2> SUFFICES ASSUME QueuedSound, Undisturbed, [Next]_vars PROVE QueuedSound'
    OBVIOUS
  <2>1. PICK A : ListInv(A) /\ QueuedInv(A)
    BY DEF QueuedSound
  <2>2. OwnInv /\ OwnInv'
    BY OwnStep DEF QueuedSound
  <2>3. PICK B : ListInv(B)' /\ Moves(A, B)
    BY <2>1, <2>2, ListStep
  <2>4. QueuedInv(B)'
    BY <2>1, <2>2, <2>3, QueuedStep
  <2>5. QED
    BY <2>2, <2>3, <2>4 DEF QueuedSound
<1>3. QED
  BY <1>1, <1>2, PTL DEF Spec

\* A thread that goes for the lock with its operation pending is on the list,
\* whether it pushed its slot or only saw that it has a successor.
THEOREM WaitersQueued ==
  ASSUME DetachMode # "any"
  PROVE  Spec /\ []Undisturbed => []WaitingIsQueued
<1>1. QueuedSound => WaitingIsQueued
  BY SoundQueue DEF QueuedSound, QueuedInv, WaitingIsQueued
<1>2. QED
  BY <1>1, QueuedSoundCorrect, PTL

\* From the check of the operation a thread goes on to dequeue_slot by expiry only.
LEMMA Expiring ==
  ASSUME TypeOK, [Next]_vars, NEW u \in Thread, pc[u] = "run_data", pc'[u] \in DequeuePC
  PROVE  RunExpire(u)
<1> USE DEF At
<1>1. pc'[u] # pc[u] /\ pc'[u] # "run_next"
  BY DEF DequeuePC
<1>2. ASSUME NEW t \in Thread, Call(t) \/ Step(t), t # u PROVE FALSE
  BY <1>1, <1>2, OthersSame DEF Same
<1>3. ~Call(u) /\ ~ApplyStep(u) /\ ~OrphanStep(u)
  BY DEF Call, GetSlot, ApplySlot, Detach, ApplyStep, FindDone, FindPending, CheckQueue,
         PushLoad, PushSet, PushCas, PushRetry, TryLock, LockCas, LockFail,
         OrphanStep, OrphanDelete, OrphanQueued, OrphanLoad, OrphanStore
<1>4. ~DequeueAction(u) /\ ~ShotStep(u)
  BY DEF DequeueAction, DequeueNext, DequeueFlag, DequeueCas, DequeueStep, DequeueNull,
         ShotStep, Execute, ExecuteThrows, ExecuteEscapes, ClearTask, ShotDone, Unlock
<1>5. ~RunFirst(u) /\ ~RunAlive(u) /\ ~RunNext(u)
  BY DEF RunFirst, RunAlive, RunNext
<1>6. ~RunTake(u) /\ ~RunSkip(u)
  BY <1>1 DEF RunTake, RunSkip, Goto, TypeOK
<1>7. ~Destroy /\ ~Finished /\ ~(UNCHANGED vars) /\ \A t \in Thread : ~Crash(t)
  BY <1>1 DEF Destroy, Finished, Crash, vars
<1>8. QED
  BY <1>2, <1>3, <1>4, <1>5, <1>6, <1>7 DEF Next, Step, ScanStep

\* Calls are undisturbed as long as no slot expires: an executor then removes the
\* slots of threads that have left, and nobody calls apply_slot with those.
THEOREM UndisturbedUnlessExpired ==
  Spec /\ [][\A t \in Thread : ~RunExpire(t)]_vars => []Undisturbed
<1> DEFINE DeadOnly == \A t \in Thread : pc[t] \in DequeuePC => ~is_alive[t]
<1>1. Init => DeadOnly
  BY DEF Init, DequeuePC
<1>2. TypeOK /\ DeadOnly /\ [Next]_vars /\ [\A t \in Thread : ~RunExpire(t)]_vars => DeadOnly'
  <2> SUFFICES ASSUME TypeOK, DeadOnly, [Next]_vars, [\A t \in Thread : ~RunExpire(t)]_vars,
                      NEW u \in Thread, pc'[u] \in DequeuePC
               PROVE  ~is_alive'[u]
    OBVIOUS
  <2>1. CASE RunAlive(u)
    BY <2>1 DEF RunAlive, Goto, DequeuePC, TypeOK, deqVars
  <2>2. CASE pc[u] = "run_data"
    <3>1. RunExpire(u) /\ ~ UNCHANGED vars
      BY <2>2, Expiring DEF vars, DequeuePC
    <3>2. QED
      BY <3>1
  <2>3. CASE pc[u] # "run_data" /\ KeepsTarget(u)
    BY <2>3 DEF KeepsTarget
  <2>4. QED
    BY <2>1, <2>2, <2>3, TargetEffects
<1>3. DeadOnly => Undisturbed
  BY DEF Undisturbed
<1> HIDE DEF DeadOnly
<1>4. QED
  BY <1>1, <1>2, <1>3, TypeCorrect, PTL DEF Spec

-----------------------------------------------------------------------------
(* Exactly once.                                                           *)

\* A call that returns has had its operation run and cleared.
LEMMA ReturnsDone ==
  ASSUME CallSound, QueuedSound, MayThrow = {}, [Next]_vars, NEW t \in Thread,
         Applying(t), ~Applying(t)'
  PROVE  /\ FindDone(t) \/ Unlock(t)
         /\ op_code'[slot[t]] = NOT_SET /\ execs[slot[t]] = 1
<1>1. TypeOK
  BY DEF CallSound, OwnInv, LockInv
<1>2. FindDone(t) \/ Unlock(t)
  <2>1. ~ExecuteEscapes(t)
    BY DEF ExecuteEscapes
  <2>2. QED
    BY <1>1, <2>1, CallEffects
<1>3. op_code' = op_code
  BY <1>2 DEF FindDone, Unlock, shared, heapVars
<1>4. ~HasData(slot[t])
  <2>1. CASE FindDone(t)
    BY <2>1 DEF FindDone
  <2>2. CASE Unlock(t)
    <3>1. PICK A : ListInv(A) /\ QueuedInv(A)
      BY DEF QueuedSound
    <3>2. pc[t] = "unlock" /\ Executing(t)
      BY <2>2 DEF Unlock, At, Executing, ExecutorPC
    <3>3. slot[t] \in Members(A)
      BY <3>1, <3>2 DEF QueuedInv, Executing
    <3>4. OwnTaskInv(t, A)
      BY <3>1 DEF ListInv, ThreadInv
    <3>5. QED
      BY <3>2, <3>3, <3>4 DEF OwnTaskInv
  <2>3. QED
    BY <1>2, <2>1, <2>2
<1>5. execs[slot[t]] = 1
  BY <1>4 DEF CallSound, CallInv, OnceInv
<1>6. QED
  BY <1>2, <1>3, <1>4, <1>5 DEF HasData

\* apply_slot blocks "until slot gets complete".
THEOREM CompletesOnReturn ==
  ASSUME DetachMode # "any", MayThrow = {}
  PROVE  Spec /\ []Undisturbed => CompleteOnReturn
<1>1. CallSound /\ QueuedSound /\ [Next]_vars =>
        [\A t \in Thread : Applying(t) /\ pc'[t] = "idle" => Completed(t)]_vars
  <2>1. \A t \in Thread : pc'[t] = "idle" => ~Applying(t)'
    BY DEF Applying, ApplyPC, ExecutorPC, DequeuePC
  <2>2. QED
    BY <2>1, ReturnsDone DEF Completed
<1>2. QED
  BY <1>1, CallSoundCorrect, QueuedSoundCorrect, PTL DEF Spec, CompleteOnReturn

\* The phase of a call, before and after a step.
LEMMA PhaseOf ==
  ASSUME NEW u \in Thread
  PROVE  /\ ~Applying(u) => phase[u] = "none"
         /\ Applying(u) /\ execs[slot[u]] = 0 => phase[u] = "published"
         /\ Applying(u) /\ execs[slot[u]] = 1 => phase[u] = "done"
  BY DEF phase

LEMMA NextPhaseOf ==
  ASSUME NEW u \in Thread
  PROVE  /\ ~Applying(u)' => phase'[u] = "none"
         /\ Applying(u)' /\ execs'[slot'[u]] = 0 => phase'[u] = "published"
         /\ Applying(u)' /\ execs'[slot'[u]] = 1 => phase'[u] = "done"
  BY DEF phase

LEMMA PhaseFunction ==
  /\ DOMAIN phase = Thread /\ DOMAIN phase' = Thread
  /\ phase = [u \in Thread |-> phase[u]] /\ phase' = [u \in Thread |-> phase'[u]]
<1>1. DOMAIN phase = Thread /\ phase = [u \in Thread |-> phase[u]]
  BY DEF phase
<1>2. DOMAIN phase' = Thread /\ phase' = [u \in Thread |-> phase'[u]]
  BY DEF phase
<1>3. QED
  BY <1>1, <1>2

\* A call keeps its phase unless its slot's count changes.
LEMMA PhaseFrame ==
  ASSUME NEW u \in Thread, Applying(u)' <=> Applying(u),
         Applying(u) => execs'[slot'[u]] = execs[slot[u]]
  PROVE  phase'[u] = phase[u]
<1>1. CASE ~Applying(u)
  BY <1>1, PhaseOf, NextPhaseOf
<1>2. CASE Applying(u)
  <2>1. phase[u] = CASE execs[slot[u]] = 0 -> "published"
                     [] execs[slot[u]] = 1 -> "done"
                     [] OTHER              -> "rerun"
    BY <1>2 DEF phase
  <2>2. phase'[u] = CASE execs'[slot'[u]] = 0 -> "published"
                      [] execs'[slot'[u]] = 1 -> "done"
                      [] OTHER                -> "rerun"
    BY <1>2 DEF phase
  <2>3. QED
    BY <1>2, <2>1, <2>2
<1>3. QED
  BY <1>1, <1>2

LEMMA ApplyInitMap == Init => Abstract!Init
<1> SUFFICES ASSUME Init PROVE Abstract!Init
  OBVIOUS
<1>1. \A u \in Thread : ~Applying(u)
  BY DEF Init, Applying, ApplyPC, ExecutorPC, DequeuePC
<1>2. QED
  BY <1>1, PhaseOf, PhaseFunction DEF Abstract!Init

\* Publish maps to the step that enters the call, RunShot to execute(), Complete to
\* the two ways out, and every other step to a stutter.
LEMMA ApplyStepMap ==
  ASSUME CallSound, QueuedSound, MayThrow = {}, [Next]_vars
  PROVE  [Abstract!Next]_phase
<1>1. TypeOK /\ OwnInv /\ OnceInv
  BY DEF CallSound, CallInv, OwnInv, LockInv
<1>2. PICK A : ListInv(A) /\ CallerInv(A)
  BY DEF CallSound, CallInv
<1>3. \A u \in Thread : Applying(u) =>
        slot[u] \in Slot /\ slot[u] \in live /\ slot[u] \in Holds(u) /\ Head \in live
  BY <1>1, <1>2, InsideFacts DEF Applying, ApplyPC, ExecutorPC, DequeuePC
<1>4. (\A u \in Thread : phase'[u] = phase[u]) => phase' = phase
  BY PhaseFunction
<1>5. ASSUME Unrun PROVE [Abstract!Next]_phase
  <2>1. execs' = execs /\ \A u \in Thread : Applying(u)' => Applying(u) /\ slot'[u] = slot[u]
    BY <1>5 DEF Unrun
  <2>2. \A u \in Thread : (Applying(u) <=> Applying(u)') => phase'[u] = phase[u]
    BY <2>1, PhaseFrame
  <2>3. CASE \E t \in Thread : Applying(t) /\ ~Applying(t)'
    <3>1. PICK t \in Thread : Applying(t) /\ ~Applying(t)'
      BY <2>3
    <3>2. (FindDone(t) \/ Unlock(t)) /\ execs[slot[t]] = 1
      BY <3>1, ReturnsDone
    <3>3. phase[t] = "done" /\ phase'[t] = "none"
      BY <3>1, <3>2, PhaseOf, NextPhaseOf
    <3>4. ASSUME NEW u \in Thread \ {t} PROVE phase'[u] = phase[u]
      <4>1. Same(u)
        BY <1>1, <3>2, OthersSame DEF Step, ApplyStep, ShotStep
      <4>2. QED
        BY <2>2, <4>1 DEF Same, Applying
    <3>5. phase' = [phase EXCEPT ![t] = "none"]
      BY <3>3, <3>4, PhaseFunction
    <3>6. QED
      BY <3>3, <3>5 DEF Abstract!Next, Abstract!Complete
  <2>4. CASE ~ \E t \in Thread : Applying(t) /\ ~Applying(t)'
    BY <1>4, <2>1, <2>2, <2>4
  <2>5. QED
    BY <2>3, <2>4
<1>6. ASSUME NEW t \in Thread, GetSlot(t) PROVE phase' = phase
  <2>1. PICK s \in Slot \ live : execs' = [execs EXCEPT ![s] = 0]
    BY <1>6 DEF GetSlot
  <2>2. pc' = pc /\ slot' = slot
    BY <1>6 DEF GetSlot, locals
  <2>3. \A u \in Thread : Applying(u) => execs'[slot[u]] = execs[slot[u]]
    BY <1>1, <1>3, <2>1 DEF TypeOK, Node
  <2>4. \A u \in Thread : phase'[u] = phase[u]
    BY <2>2, <2>3, PhaseFrame DEF Applying
  <2>5. QED
    BY <1>4, <2>4
<1>7. ASSUME NEW t \in Thread, ApplySlot(t), NEW s, s = tls[t] PROVE Abstract!Publish(t)
  <2>1. pc[t] = "idle" /\ s \in Slot /\ s \in Holds(t)
    BY <1>1, <1>7 DEF ApplySlot, At, TypeOK, Holds
  <2>2. execs' = [execs EXCEPT ![s] = 0] /\ slot' = [slot EXCEPT ![t] = s]
        /\ pc' = [pc EXCEPT ![t] = "has_data"]
    BY <1>7 DEF ApplySlot, Goto
  <2>3. ~Applying(t) /\ Applying(t)' /\ slot'[t] = s /\ execs'[s] = 0
    BY <1>1, <2>1, <2>2 DEF Applying, ApplyPC, ExecutorPC, DequeuePC, TypeOK, Node
  <2>4. phase[t] = "none" /\ phase'[t] = "published"
    BY <2>3, PhaseOf, NextPhaseOf
  <2>5. ASSUME NEW u \in Thread \ {t} PROVE phase'[u] = phase[u]
    <3>1. pc'[u] = pc[u] /\ slot'[u] = slot[u]
      BY <1>1, <2>2 DEF TypeOK
    <3>2. Applying(u) => slot[u] # s
      BY <1>1, <1>3, <2>1, <2>5 DEF OwnInv, OwnedSlotLive
    <3>3. Applying(u) => execs'[slot[u]] = execs[slot[u]]
      BY <1>1, <1>3, <2>2, <3>2 DEF TypeOK, Node
    <3>4. QED
      BY <3>1, <3>3, PhaseFrame DEF Applying
  <2>6. phase' = [phase EXCEPT ![t] = "published"]
    BY <2>4, <2>5, PhaseFunction
  <2>7. QED
    BY <2>4, <2>6 DEF Abstract!Publish
<1>8. ASSUME NEW t \in Thread, Execute(t) PROVE \E S \in SUBSET Thread : Abstract!RunShot(S)
  <2> DEFINE S == {u \in Thread : Applying(u) /\ slot[u] \in Left(t)}
  <2>1. /\ \A s \in Node : execs'[s] = IF s \in Left(t) THEN 1 ELSE execs[s]
        /\ \A s \in Left(t) : execs[s] = 0
        /\ slot' = slot
        /\ pc'[t] = "shot_clear" /\ \A u \in Thread \ {t} : pc'[u] = pc[u]
    BY <1>1, <1>2, <1>8, ExecuteRuns
  <2>2. \A u \in Thread : Applying(u)' <=> Applying(u)
    <3>1. Applying(t) /\ Applying(t)'
      BY <1>8, <2>1 DEF Execute, At, Applying, ExecutorPC
    <3>2. QED
      BY <2>1, <3>1 DEF Applying
  <2>3. \A u \in S : phase[u] = "published" /\ phase'[u] = "done"
    BY <1>3, <2>1, <2>2, PhaseOf, NextPhaseOf DEF Node
  <2>4. \A u \in Thread \ S : phase'[u] = phase[u]
    BY <1>3, <2>1, <2>2, PhaseFrame DEF Node
  <2>5. S \in SUBSET Thread
    OBVIOUS
  <2> HIDE DEF S
  <2>6. phase' = [u \in Thread |-> IF u \in S THEN "done" ELSE phase[u]]
    BY <2>3, <2>4, <2>5, PhaseFunction
  <2>7. QED
    BY <2>3, <2>5, <2>6 DEF Abstract!RunShot
<1>9. ASSUME NEW t \in Thread, ClearTask(t) PROVE phase' = phase
  <2>1. pc' = pc /\ slot' = slot /\ execs' = execs
    BY <1>9 DEF ClearTask, auxVars
  <2>2. \A u \in Thread : phase'[u] = phase[u]
    BY <2>1, PhaseFrame DEF Applying
  <2>3. QED
    BY <1>4, <2>2
<1>10. \A t \in Thread : ApplySlot(t) => Abstract!Publish(t)
  BY <1>7
<1>11. QED
  BY <1>1, <1>5, <1>6, <1>8, <1>9, <1>10, UnrunEffects DEF Abstract!Next

\* While calls are undisturbed, apply_slot runs the operation exactly once, at one
\* instant between the call and the return.
THEOREM ImplementsApply ==
  ASSUME DetachMode # "any", MayThrow = {}
  PROVE  Spec /\ []Undisturbed => ApplySpec
<1>1. CallSound /\ QueuedSound /\ [Next]_vars => [Abstract!Next]_phase
  BY ApplyStepMap
<1>2. QED
  BY <1>1, CallSoundCorrect, QueuedSoundCorrect, ApplyInitMap, PTL
     DEF Spec, ApplySpec, Abstract!Spec

=============================================================================
