------------------------- MODULE FlatCombinerProofs -------------------------
(***************************************************************************)
(* Theorems about FlatCombiner, for any number of threads, slots, calls    *)
(* and any SHOT_N.                                                         *)
(***************************************************************************)
EXTENDS FlatCombinerCorrectness, FiniteSetTheorems, TLAPS

\* What a step dereferences exists: the guard At says so.
LEMMA Touched ==
  ASSUME NEW t \in Thread, NEW label, At(t, label), TypeOK
  PROVE  /\ label \in {"has_data", "in_queue", "push_set", "orphan_check",
                       "orphan_load", "orphan_store"} => slot[t] \in live
         /\ label \in {"run_alive", "run_data", "run_next", "deq_next",
                       "deq_null"} => current_node[t] \in live
         /\ label \in {"deq_flag", "deq_cas", "deq_step"} => pred[t] \in live
         /\ label = "run_data" /\ HasData(current_node[t]) => n[t] < SHOT_N
<1>1. pc[t] = label /\ Touches(t) \subseteq live /\ ~Overflows(t)
  BY DEF At, Undefined
<1>2. label \in {"has_data", "in_queue", "push_set", "orphan_check",
                 "orphan_load", "orphan_store"} => slot[t] \in live
  BY <1>1 DEF Touches, OrphanPC
<1>3. label \in {"run_alive", "run_data", "run_next", "deq_next", "deq_null"}
        => current_node[t] \in live
  BY <1>1 DEF Touches, OrphanPC
<1>4. label \in {"deq_flag", "deq_cas", "deq_step"} => pred[t] \in live
  BY <1>1 DEF Touches, OrphanPC
<1>5. label = "run_data" /\ HasData(current_node[t]) => n[t] < SHOT_N
  BY <1>1, SizesAssumption DEF Overflows, TypeOK
<1>6. QED
  BY <1>2, <1>3, <1>4, <1>5

\* Running any of the first k tasks keeps the history a count.
LEMMA ExecutedType ==
  ASSUME TypeOK, NEW k \in Int, NEW S \in SUBSET (0 .. k - 1), Executed(S)
  PROVE  execs' \in [Node -> Nat]
<1> DEFINE Runs(s) == Cardinality({j \in S : combine_shot[j] = s})
<1>1. ASSUME NEW s \in Node
      PROVE  Runs(s) \in Nat
  <2>1. IsFiniteSet(0 .. k - 1)
    BY FS_Interval
  <2>2. IsFiniteSet({j \in S : combine_shot[j] = s})
    BY <2>1, FS_Subset
  <2>3. QED
    BY <2>2, FS_CardinalityType
<1>2. execs' = [s \in Node |-> execs[s] + Runs(s)]
  BY DEF Executed
<1>3. \A s \in Node : execs[s] + Runs(s) \in Nat
  <2> HIDE DEF Runs
  <2>1. QED
    BY <1>1 DEF TypeOK
<1> HIDE DEF Runs
<1>4. QED
  BY <1>2, <1>3

-----------------------------------------------------------------------------
(* Types.                                                                  *)

\* Where the control operators send a thread.
LEMMA Labels ==
  /\ \A c : ScanFrom(c) \in {"shot_exec", "run_alive"}
  /\ RetryFrom = "push_set" /\ LoserGoesTo = "has_data"
  BY DEF ScanFrom, RetryFrom, LoserGoesTo

\* Writing a pointer keeps the words typed, and every alive bit.
LEMMA SetPtrType ==
  ASSUME NEW f \in [Node -> TaggedPointer], NEW a, NEW p \in Pointer
  PROVE  /\ SetPtr(f, a, p) \in [Node -> TaggedPointer]
         /\ \A x \in Node : SetPtr(f, a, p)[x].alive = f[x].alive
  BY DEF SetPtr, TaggedPointer

\* The constructor leaves every variable typed.
LEMMA TypeInit == Init => TypeOK
<1> SUFFICES ASSUME Init PROVE TypeOK
  OBVIOUS
<1>1. lock \in [held : BOOLEAN, gen : Nat] /\ sum \in Nat /\ sum_n \in Nat
  BY SizesAssumption DEF Init
<1>2. combine_shot \in [0 .. SHOT_N - 1 -> Pointer]
  BY DEF Init, Pointer
<1>3. tls \in [Thread -> Slot \union {Null}] /\ tls \in [Thread -> Pointer]
  BY DEF Init, Pointer, Node
<1>4. live \in SUBSET Node /\ link \in [Node -> TaggedPointer]
  BY DEF Init, NewPointer, TaggedPointer, Pointer, Node
<1>5. /\ op_code \in [Node -> Op \union {NOT_SET}]
      /\ generation \in [Node -> Nat] /\ execs \in [Node -> Nat]
  BY DEF Init
<1>6. /\ gen \in [Thread -> Nat] /\ calls \in [Thread -> 0 .. MaxCalls]
      /\ n \in [Thread -> 0 .. SHOT_N] /\ i \in [Thread -> 0 .. SHOT_N]
  BY SizesAssumption DEF Init
<1>7. /\ pc \in [Thread -> PC]
      /\ flag \in [Thread -> BOOLEAN] /\ is_alive \in [Thread -> BOOLEAN]
  BY DEF Init, PC
<1>8. /\ slot = tls /\ loaded = tls /\ parent = tls /\ current_node = tls
      /\ pred = tls /\ new_next = tls /\ crashed = FALSE
  BY DEF Init
<1>9. QED
  BY <1>1, <1>2, <1>3, <1>4, <1>5, <1>6, <1>7, <1>8 DEF TypeOK

\* Every action keeps every variable typed.
LEMMA TypeStep == TypeOK /\ [Next]_vars => TypeOK'
<1> SUFFICES ASSUME TypeOK, [Next]_vars PROVE TypeOK'
  OBVIOUS
<1> USE DEF vars, shared, objVars, heapVars, locals, scanVars, deqVars, auxVars,
            At, Goto, Return, PC, ApplyPC, ExecutorPC, DequeuePC, OrphanPC
<1>1. ASSUME NEW t \in Thread, Call(t) PROVE TypeOK'
  <2>1. CASE GetSlot(t)
    BY <2>1 DEF GetSlot, SetTls, TypeOK, FreshLink, NewPointer, TaggedPointer, Pointer, Node
  <2>2. CASE ApplySlot(t)
    <3>1. calls' \in [Thread -> 0 .. MaxCalls]
      BY <2>2, SizesAssumption DEF ApplySlot, TypeOK
    <3>2. op_code' \in [Node -> Op \union {NOT_SET}] /\ execs' \in [Node -> Nat]
      BY <2>2 DEF ApplySlot, TypeOK
    <3>3. pc' \in [Thread -> PC] /\ slot' \in [Thread -> Slot \union {Null}]
      BY <2>2 DEF ApplySlot, TypeOK, PC, ApplyPC
    <3>4. QED
      BY <2>2, <3>1, <3>2, <3>3 DEF ApplySlot, TypeOK
  <2>3. CASE Detach(t)
    BY <2>3 DEF Detach, SetTls, TypeOK
  <2>4. QED
    BY <1>1, <2>1, <2>2, <2>3 DEF Call
<1>2. ASSUME NEW t \in Thread, ApplyStep(t) PROVE TypeOK'
  <2>1. CASE FindDone(t)
    BY <2>1 DEF FindDone, TypeOK
  <2>2. CASE FindPending(t)
    BY <2>2 DEF FindPending, TypeOK
  <2>3. CASE CheckQueue(t)
    BY <2>3 DEF CheckQueue, TypeOK
  <2>4. CASE PushLoad(t)
    BY <2>4 DEF PushLoad, TypeOK, TaggedPointer, Node
  <2>5. CASE PushSet(t)
    <3>1. link' \in [Node -> TaggedPointer]
      BY <2>5, SetPtrType DEF PushSet, TypeOK
    <3>2. pc' \in [Thread -> PC]
      BY <2>5 DEF PushSet, TypeOK
    <3>3. QED
      BY <2>5, <3>1, <3>2 DEF PushSet, TypeOK
  <2>6. CASE PushCas(t)
    <3>1. slot[t] \in Pointer
      BY DEF TypeOK, Pointer, Node
    <3>2. link' \in [Node -> TaggedPointer]
      BY <2>6, <3>1, SetPtrType DEF PushCas, TypeOK
    <3>3. pc' \in [Thread -> PC] /\ loaded' \in [Thread -> Pointer]
      BY <2>6 DEF PushCas, TypeOK, PC, ApplyPC, Pointer
    <3>4. QED
      BY <2>6, <3>2, <3>3 DEF PushCas, TypeOK
  <2>7. CASE PushRetry(t)
    BY <2>7, Labels DEF PushRetry, TypeOK, TaggedPointer, Node
  <2>8. CASE TryLock(t)
    BY <2>8, Labels DEF TryLock, TypeOK
  <2>9. CASE LockCas(t)
    BY <2>9 DEF LockCas, TypeOK, NextGeneration
  <2>10. CASE LockFail(t)
    BY <2>10, Labels DEF LockFail, TypeOK
  <2>11. QED
    BY <1>2, <2>1, <2>2, <2>3, <2>4, <2>5, <2>6, <2>7, <2>8, <2>9, <2>10 DEF ApplyStep
<1>3. ASSUME NEW t \in Thread, ScanStep(t) PROVE TypeOK'
  <2>1. CASE RunFirst(t)
    BY <2>1, Labels, SizesAssumption DEF RunFirst, TypeOK, TaggedPointer, Pointer, Node
  <2>2. CASE RunAlive(t)
    BY <2>2, Touched DEF RunAlive, TypeOK, IsAlive, TaggedPointer
  <2>3. CASE RunTake(t)
    <3>1. current_node[t] \in Pointer /\ current_node[t] \in Node /\ n[t] < SHOT_N
      BY <2>3, Touched DEF RunTake, TypeOK
    <3>2. n' \in [Thread -> 0 .. SHOT_N]
      BY <2>3, <3>1, SizesAssumption DEF RunTake, TypeOK
    <3>3. /\ combine_shot' \in [0 .. SHOT_N - 1 -> Pointer]
          /\ generation' \in [Node -> Nat] /\ parent' \in [Thread -> Pointer]
      BY <2>3, <3>1 DEF RunTake, TypeOK
    <3>4. pc' \in [Thread -> PC]
      BY <2>3 DEF RunTake, TypeOK, PC, ExecutorPC
    <3>5. QED
      BY <2>3, <3>2, <3>3, <3>4 DEF RunTake, TypeOK
  <2>4. CASE RunExpire(t)
    BY <2>4 DEF RunExpire, TypeOK
  <2>5. CASE RunSkip(t)
    BY <2>5, Touched DEF RunSkip, TypeOK, Pointer
  <2>6. CASE RunNext(t)
    BY <2>6, Touched, Labels DEF RunNext, TypeOK, TaggedPointer
  <2>7. QED
    BY <1>3, <2>1, <2>2, <2>3, <2>4, <2>5, <2>6 DEF ScanStep
<1>4. ASSUME NEW t \in Thread, DequeueAction(t) PROVE TypeOK'
  <2>1. CASE DequeueNext(t)
    BY <2>1, Touched DEF DequeueNext, TypeOK, TaggedPointer
  <2>2. CASE DequeueFlag(t)
    BY <2>2, Touched DEF DequeueFlag, TypeOK, IsAlive, TaggedPointer
  <2>3. CASE DequeueCas(t)
    <3>1. link' \in [Node -> TaggedPointer]
      <4>1. new_next[t] \in Pointer
        BY DEF TypeOK
      <4>2. link' = link \/ link' = SetPtr(link, pred[t], new_next[t])
        BY <2>3 DEF DequeueCas
      <4>3. link \in [Node -> TaggedPointer]
        BY DEF TypeOK
      <4>4. SetPtr(link, pred[t], new_next[t]) \in [Node -> TaggedPointer]
        BY <4>1, <4>3, SetPtrType
      <4>5. QED
        BY <4>2, <4>3, <4>4
    <3>2. pc' \in [Thread -> PC]
      <4>1. \E l \in {"deq_null", "deq_step"} : pc' = [pc EXCEPT ![t] = l]
        BY <2>3 DEF DequeueCas
      <4>2. QED
        BY <4>1 DEF TypeOK, PC, ExecutorPC, DequeuePC
    <3>3. QED
      BY <2>3, <3>1, <3>2 DEF DequeueCas, TypeOK
  <2>4. CASE DequeueStep(t)
    BY <2>4, Touched DEF DequeueStep, TypeOK, TaggedPointer
  <2>5. CASE DequeueNull(t)
    <3>1. link' \in [Node -> TaggedPointer]
      <4>1. link' = SetPtr(link, current_node[t], Null) /\ Null \in Pointer
        BY <2>5 DEF DequeueNull, ClearPtr, Pointer
      <4>2. link \in [Node -> TaggedPointer]
        BY DEF TypeOK
      <4>3. QED
        BY <4>1, <4>2, SetPtrType
    <3>2. live' \in SUBSET Node
      BY <2>5 DEF DequeueNull, TypeOK
    <3>3. pc' \in [Thread -> PC]
      BY <2>5 DEF DequeueNull, TypeOK
    <3>4. QED
      BY <2>5, <3>1, <3>2, <3>3 DEF DequeueNull, TypeOK, Pointer
  <2>6. QED
    BY <1>4, <2>1, <2>2, <2>3, <2>4, <2>5 DEF DequeueAction
<1>5. ASSUME NEW t \in Thread, ShotStep(t) PROVE TypeOK'
  <2>1. CASE Execute(t)
    <3>1. Executed(0 .. n[t] - 1) /\ n[t] \in Int
      BY <2>1 DEF Execute, TypeOK
    <3>2. execs' \in [Node -> Nat]
      BY <3>1, ExecutedType
    <3>3. pc' \in [Thread -> PC]
      BY <2>1 DEF Execute, TypeOK
    <3>4. QED
      BY <2>1, <3>2, <3>3 DEF Execute, TypeOK
  <2>2. CASE ExecuteThrows(t)
    <3>1. PICK S \in SUBSET (0 .. n[t] - 1) : Executed(S)
      BY <2>2 DEF ExecuteThrows
    <3>2. n[t] \in Int
      BY DEF TypeOK
    <3>3. execs' \in [Node -> Nat]
      BY <3>1, <3>2, ExecutedType
    <3>4. pc' \in [Thread -> PC]
      BY <2>2 DEF ExecuteThrows, TypeOK
    <3>5. QED
      BY <2>2, <3>3, <3>4 DEF ExecuteThrows, TypeOK
  <2>3. CASE ClearTask(t)
    <3>1. i' \in [Thread -> 0 .. SHOT_N]
      BY <2>3, SizesAssumption DEF ClearTask, TypeOK
    <3>2. op_code' \in [Node -> Op \union {NOT_SET}]
      BY <2>3 DEF ClearTask, TypeOK, Cleared
    <3>3. QED
      BY <2>3, <3>1, <3>2 DEF ClearTask, TypeOK
  <2>4. CASE ShotDone(t)
    BY <2>4 DEF ShotDone, TypeOK
  <2>5. CASE Unlock(t)
    <3>1. n' \in [Thread -> 0 .. SHOT_N] /\ i' \in [Thread -> 0 .. SHOT_N]
      BY <2>5, SizesAssumption DEF Unlock, EndExecutor, TypeOK
    <3>2. lock' \in [held : BOOLEAN, gen : Nat]
      BY <2>5 DEF Unlock, EndExecutor, TypeOK, Unlocked
    <3>3. QED
      BY <2>5, <3>1, <3>2 DEF Unlock, EndExecutor, TypeOK, PC, Pointer
  <2>6. CASE ExecuteEscapes(t)
    <3>1. PICK S \in SUBSET (0 .. n[t] - 1) : Executed(S)
      BY <2>6 DEF ExecuteEscapes
    <3>2. n[t] \in Int
      BY DEF TypeOK
    <3>3. execs' \in [Node -> Nat]
      BY <3>1, <3>2, ExecutedType
    <3>4. n' \in [Thread -> 0 .. SHOT_N] /\ i' \in [Thread -> 0 .. SHOT_N]
      BY <2>6, SizesAssumption DEF ExecuteEscapes, EndExecutor, TypeOK
    <3>5. QED
      BY <2>6, <3>3, <3>4 DEF ExecuteEscapes, EndExecutor, TypeOK, PC, Pointer
  <2>7. QED
    BY <1>5, <2>1, <2>2, <2>3, <2>4, <2>5, <2>6 DEF ShotStep
<1>6. ASSUME NEW t \in Thread, OrphanStep(t) PROVE TypeOK'
  <2>1. CASE OrphanDelete(t)
    BY <2>1 DEF OrphanDelete, TypeOK
  <2>2. CASE OrphanQueued(t)
    BY <2>2 DEF OrphanQueued, TypeOK
  <2>3. CASE OrphanLoad(t)
    BY <2>3, Touched DEF OrphanLoad, TypeOK, TaggedPointer
  <2>4. CASE OrphanStore(t)
    BY <2>4, Touched DEF OrphanStore, TypeOK, ClearFlag, TaggedPointer, Pointer
  <2>5. QED
    BY <1>6, <2>1, <2>2, <2>3, <2>4 DEF OrphanStep
<1>7. ASSUME NEW t \in Thread, Crash(t) PROVE TypeOK'
  BY <1>7 DEF Crash, TypeOK
<1>8. CASE Destroy
  BY <1>8 DEF Destroy, TypeOK
<1>9. CASE UNCHANGED vars
  BY <1>9 DEF TypeOK
<1>10. QED
  BY <1>1, <1>2, <1>3, <1>4, <1>5, <1>6, <1>7, <1>8, <1>9 DEF Next, Step, Finished

\* TypeOK is inductive as it stands: the bounds on n and i need the guard that
\* stops a run at the first store beyond _combine_shot.
THEOREM TypeCorrect == Spec => []TypeOK
<1>1. QED
  BY TypeInit, TypeStep, PTL DEF Spec

-----------------------------------------------------------------------------
(* The lock.                                                               *)

\* The step is nobody's acquisition, release or escape.
KeepsLock ==
  /\ lock' = lock
  /\ \A u \in Thread : /\ Executing(u)' <=> Executing(u)
                       /\ Executing(u) => gen'[u] = gen[u]

\* What each action does to the lock word and to who runs run_executor.
LEMMA LockEffects ==
  ASSUME TypeOK, [Next]_vars
  PROVE  KeepsLock \/ \E t \in Thread : LockCas(t) \/ Unlock(t) \/ ExecuteEscapes(t)
<1> USE DEF vars, shared, objVars, heapVars, locals, scanVars, deqVars, auxVars,
            At, Goto, Return
<1>1. ASSUME NEW t \in Thread, Call(t) PROVE KeepsLock
  <2>1. CASE GetSlot(t)
    BY <2>1 DEF GetSlot, KeepsLock, Executing, ExecutorPC, DequeuePC, TypeOK
  <2>2. CASE ApplySlot(t)
    BY <2>2 DEF ApplySlot, KeepsLock, Executing, ExecutorPC, DequeuePC, TypeOK
  <2>3. CASE Detach(t)
    BY <2>3 DEF Detach, KeepsLock, Executing, ExecutorPC, DequeuePC, TypeOK
  <2>4. QED
    BY <1>1, <2>1, <2>2, <2>3 DEF Call
<1>2. ASSUME NEW t \in Thread, ApplyStep(t), ~LockCas(t) PROVE KeepsLock
  <2>1. CASE FindDone(t)
    BY <2>1 DEF FindDone, KeepsLock, Executing, ExecutorPC, DequeuePC, TypeOK
  <2>2. CASE FindPending(t)
    BY <2>2 DEF FindPending, KeepsLock, Executing, ExecutorPC, DequeuePC, TypeOK
  <2>3. CASE CheckQueue(t)
    BY <2>3 DEF CheckQueue, KeepsLock, Executing, ExecutorPC, DequeuePC, TypeOK
  <2>4. CASE PushLoad(t)
    BY <2>4 DEF PushLoad, KeepsLock, Executing, ExecutorPC, DequeuePC, TypeOK
  <2>5. CASE PushSet(t)
    BY <2>5 DEF PushSet, KeepsLock, Executing, ExecutorPC, DequeuePC, TypeOK
  <2>6. CASE PushCas(t)
    BY <2>6 DEF PushCas, KeepsLock, Executing, ExecutorPC, DequeuePC, TypeOK
  <2>7. CASE PushRetry(t)
    BY <2>7, Labels DEF PushRetry, KeepsLock, Executing, ExecutorPC, DequeuePC, TypeOK
  <2>8. CASE TryLock(t)
    BY <2>8, Labels DEF TryLock, KeepsLock, Executing, ExecutorPC, DequeuePC, TypeOK
  <2>9. CASE LockFail(t)
    BY <2>9, Labels DEF LockFail, KeepsLock, Executing, ExecutorPC, DequeuePC, TypeOK
  <2>10. QED
    BY <1>2, <2>1, <2>2, <2>3, <2>4, <2>5, <2>6, <2>7, <2>8, <2>9 DEF ApplyStep
<1>3. ASSUME NEW t \in Thread, ScanStep(t) PROVE KeepsLock
  <2>1. CASE RunFirst(t)
    BY <2>1, Labels DEF RunFirst, KeepsLock, Executing, ExecutorPC, DequeuePC, TypeOK
  <2>2. CASE RunAlive(t)
    BY <2>2 DEF RunAlive, KeepsLock, Executing, ExecutorPC, DequeuePC, TypeOK
  <2>3. CASE RunTake(t)
    BY <2>3 DEF RunTake, KeepsLock, Executing, ExecutorPC, DequeuePC, TypeOK
  <2>4. CASE RunExpire(t)
    BY <2>4 DEF RunExpire, KeepsLock, Executing, ExecutorPC, DequeuePC, TypeOK
  <2>5. CASE RunSkip(t)
    BY <2>5 DEF RunSkip, KeepsLock, Executing, ExecutorPC, DequeuePC, TypeOK
  <2>6. CASE RunNext(t)
    BY <2>6, Labels DEF RunNext, KeepsLock, Executing, ExecutorPC, DequeuePC, TypeOK
  <2>7. QED
    BY <1>3, <2>1, <2>2, <2>3, <2>4, <2>5, <2>6 DEF ScanStep
<1>4. ASSUME NEW t \in Thread, DequeueAction(t) PROVE KeepsLock
  <2>1. CASE DequeueNext(t)
    BY <2>1 DEF DequeueNext, KeepsLock, Executing, ExecutorPC, DequeuePC, TypeOK
  <2>2. CASE DequeueFlag(t)
    BY <2>2 DEF DequeueFlag, KeepsLock, Executing, ExecutorPC, DequeuePC, TypeOK
  <2>3. CASE DequeueCas(t)
    BY <2>3 DEF DequeueCas, KeepsLock, Executing, ExecutorPC, DequeuePC, TypeOK
  <2>4. CASE DequeueStep(t)
    BY <2>4 DEF DequeueStep, KeepsLock, Executing, ExecutorPC, DequeuePC, TypeOK
  <2>5. CASE DequeueNull(t)
    BY <2>5 DEF DequeueNull, KeepsLock, Executing, ExecutorPC, DequeuePC, TypeOK
  <2>6. QED
    BY <1>4, <2>1, <2>2, <2>3, <2>4, <2>5 DEF DequeueAction
<1>5. ASSUME NEW t \in Thread, ShotStep(t), ~Unlock(t), ~ExecuteEscapes(t)
      PROVE  KeepsLock
  <2>1. CASE Execute(t)
    BY <2>1 DEF Execute, KeepsLock, Executing, ExecutorPC, DequeuePC, TypeOK
  <2>2. CASE ExecuteThrows(t)
    BY <2>2 DEF ExecuteThrows, KeepsLock, Executing, ExecutorPC, DequeuePC, TypeOK
  <2>3. CASE ClearTask(t)
    BY <2>3 DEF ClearTask, KeepsLock, Executing, ExecutorPC, DequeuePC, TypeOK
  <2>4. CASE ShotDone(t)
    BY <2>4 DEF ShotDone, KeepsLock, Executing, ExecutorPC, DequeuePC, TypeOK
  <2>5. QED
    BY <1>5, <2>1, <2>2, <2>3, <2>4 DEF ShotStep
<1>6. ASSUME NEW t \in Thread, OrphanStep(t) PROVE KeepsLock
  <2>1. CASE OrphanDelete(t)
    BY <2>1 DEF OrphanDelete, KeepsLock, Executing, ExecutorPC, DequeuePC, TypeOK
  <2>2. CASE OrphanQueued(t)
    BY <2>2 DEF OrphanQueued, KeepsLock, Executing, ExecutorPC, DequeuePC, TypeOK
  <2>3. CASE OrphanLoad(t)
    BY <2>3 DEF OrphanLoad, KeepsLock, Executing, ExecutorPC, DequeuePC, TypeOK
  <2>4. CASE OrphanStore(t)
    BY <2>4 DEF OrphanStore, KeepsLock, Executing, ExecutorPC, DequeuePC, TypeOK
  <2>5. QED
    BY <1>6, <2>1, <2>2, <2>3, <2>4 DEF OrphanStep
<1>7. ASSUME NEW t \in Thread, Crash(t) PROVE KeepsLock
  BY <1>7 DEF Crash, KeepsLock, Executing
<1>8. CASE Destroy
  BY <1>8 DEF Destroy, KeepsLock, Executing
<1>9. CASE UNCHANGED vars
  BY <1>9 DEF KeepsLock, Executing
<1>10. QED
  BY <1>1, <1>2, <1>3, <1>4, <1>5, <1>6, <1>7, <1>8, <1>9 DEF Next, Step, Finished

\* Only get_slot and run_executor write a slot's generation.
LEMMA GenerationEffects ==
  ASSUME TypeOK, [Next]_vars
  PROVE  \/ \A s \in Node : generation'[s] \in {generation[s], 0}
         \/ \E t \in Thread : RunTake(t)
<1> USE DEF vars, shared, objVars, heapVars, locals, scanVars, deqVars, auxVars
<1>1. ASSUME NEW t \in Thread, Call(t)
      PROVE  \A s \in Node : generation'[s] \in {generation[s], 0}
  BY <1>1 DEF Call, GetSlot, ApplySlot, Detach, TypeOK
<1>2. ASSUME NEW t \in Thread, Step(t), ~RunTake(t)
      PROVE  generation' = generation
  <2>1. CASE ApplyStep(t)
    BY <2>1 DEF ApplyStep, FindDone, FindPending, CheckQueue, PushLoad, PushSet,
                PushCas, PushRetry, TryLock, LockCas, LockFail
  <2>2. CASE ScanStep(t)
    BY <1>2, <2>2 DEF ScanStep, RunFirst, RunAlive, RunExpire, RunSkip, RunNext
  <2>3. CASE DequeueAction(t)
    BY <2>3 DEF DequeueAction, DequeueNext, DequeueFlag, DequeueCas, DequeueStep,
                DequeueNull
  <2>4. CASE ShotStep(t)
    BY <2>4 DEF ShotStep, Execute, ExecuteThrows, ExecuteEscapes, ClearTask, ShotDone,
                Unlock
  <2>5. CASE OrphanStep(t)
    BY <2>5 DEF OrphanStep, OrphanDelete, OrphanQueued, OrphanLoad, OrphanStore
  <2>6. QED
    BY <1>2, <2>1, <2>2, <2>3, <2>4, <2>5 DEF Step
<1>3. QED
  BY <1>1, <1>2 DEF Next, Crash, Destroy, Finished

LockInv == TypeOK /\ MutualExclusion /\ GenerationBound

\* Nobody holds the lock of a new object, and no slot has a stamp.
LEMMA LockInit == Init => LockInv
<1> SUFFICES ASSUME Init PROVE MutualExclusion /\ GenerationBound
  BY TypeInit DEF LockInv
<1>1. \A t \in Thread : ~Executing(t)
  BY DEF Init, Executing, ExecutorPC, DequeuePC
<1>2. \A s \in Node : generation[s] <= lock.gen
  BY DEF Init
<1>3. QED
  BY <1>1, <1>2 DEF MutualExclusion, GenerationBound, Init

\* try_lock and unlock keep one executor, which alone stamps slots.
LEMMA LockStep == LockInv /\ [Next]_vars => LockInv'
<1> SUFFICES ASSUME LockInv, [Next]_vars PROVE MutualExclusion' /\ GenerationBound'
  BY TypeStep DEF LockInv
<1> USE DEF LockInv
<1>1. ASSUME NEW t \in Thread, LockCas(t)
      PROVE  /\ MutualExclusion' /\ lock'.gen = lock.gen + 1
             /\ \A u \in Thread : Executing(u)' => gen'[u] = lock'.gen
  <2>1. ~lock.held /\ gen[t] = lock.gen
    BY <1>1 DEF LockCas, LockCasMatches, TypeOK
  <2>2. \A u \in Thread : ~Executing(u)
    BY <2>1 DEF MutualExclusion
  <2>3. pc' = [pc EXCEPT ![t] = "run_first"]
    BY <1>1 DEF LockCas, Goto
  <2>4. \A u \in Thread : Executing(u)' <=> u = t
    BY <2>2, <2>3 DEF Executing, ExecutorPC, DequeuePC, TypeOK
  <2>5. lock' = [held |-> TRUE, gen |-> lock.gen + 1] /\ gen'[t] = lock.gen + 1
    BY <1>1, <2>1 DEF LockCas, NextGeneration, TypeOK
  <2>6. QED
    BY <2>4, <2>5 DEF MutualExclusion
<1>2. ASSUME NEW t \in Thread, Unlock(t)
      PROVE  /\ MutualExclusion' /\ lock'.gen = lock.gen
             /\ \A u \in Thread : ~Executing(u)'
  <2>1. Executing(t) /\ pc' = [pc EXCEPT ![t] = "idle"]
    BY <1>2 DEF Unlock, EndExecutor, Executing, ExecutorPC, At, Goto, Return
  <2>2. \A u \in Thread : ~Executing(u)'
    BY <2>1 DEF MutualExclusion, Executing, ExecutorPC, DequeuePC, TypeOK
  <2>3. ~lock'.held /\ lock'.gen = lock.gen
    BY <1>2 DEF Unlock, EndExecutor, Unlocked, TypeOK
  <2>4. QED
    BY <2>2, <2>3 DEF MutualExclusion
<1>3. ASSUME NEW t \in Thread, ExecuteEscapes(t)
      PROVE  /\ MutualExclusion' /\ lock'.gen = lock.gen
             /\ \A u \in Thread : ~Executing(u)'
  <2>1. /\ Executing(t) /\ pc' = [pc EXCEPT ![t] = "idle"]
        /\ lock' = lock
    BY <1>3 DEF ExecuteEscapes, EndExecutor, Executing, ExecutorPC, At, Goto, Return,
                 shared, objVars
  <2>2. \A u \in Thread : ~Executing(u)'
    BY <2>1 DEF MutualExclusion, Executing, ExecutorPC, DequeuePC, TypeOK
  <2>3. QED
    BY <2>1, <2>2 DEF MutualExclusion
<1>4. MutualExclusion'
  <2>1. CASE KeepsLock
    BY <2>1 DEF KeepsLock, MutualExclusion
  <2>2. QED
    BY <1>1, <1>2, <1>3, <2>1, LockEffects
<1>5. \A t \in Thread : Executing(t)' => gen'[t] = lock'.gen
  <2>1. CASE KeepsLock
    BY <2>1 DEF KeepsLock, GenerationBound
  <2>2. QED
    BY <1>1, <1>2, <1>3, <2>1, LockEffects
<1>6. lock.gen \in Nat /\ lock'.gen \in Nat /\ lock.gen <= lock'.gen
  <2>1. lock.gen \in Nat
    BY DEF TypeOK
  <2>2. CASE KeepsLock
    BY <2>1, <2>2 DEF KeepsLock
  <2>3. QED
    BY <1>1, <1>2, <1>3, <2>1, <2>2, LockEffects
<1>7. \A s \in Node : generation'[s] <= lock'.gen
  <2>0. ASSUME NEW s \in Node, generation'[s] \in {generation[s], 0, lock.gen}
        PROVE  generation'[s] <= lock'.gen
    <3>1. generation[s] \in Nat
      BY DEF TypeOK
    <3>2. generation[s] <= lock.gen
      BY DEF GenerationBound
    <3>3. QED
      BY <1>6, <2>0, <3>1, <3>2
  <2>1. CASE \A s \in Node : generation'[s] \in {generation[s], 0}
    BY <2>0, <2>1
  <2>2. ASSUME NEW t \in Thread, RunTake(t)
        PROVE  \A s \in Node : generation'[s] <= lock'.gen
    <3>1. Executing(t)
      BY <2>2 DEF RunTake, At, Executing, ExecutorPC
    <3>2. \A s \in Node : generation'[s] \in {generation[s], lock.gen}
      BY <2>2, <3>1 DEF RunTake, GenerationBound, TypeOK
    <3>3. QED
      BY <2>0, <3>2
  <2>3. QED
    BY <2>1, <2>2, GenerationEffects
<1>8. QED
  BY <1>4, <1>5, <1>7 DEF GenerationBound

\* run_executor is entered by one thread at a time, however many threads spin on
\* the lock word, detach or throw.
THEOREM Exclusion == Spec => []MutualExclusion
<1>1. LockInv => MutualExclusion
  BY DEF LockInv
<1>2. QED
  BY <1>1, LockInit, LockStep, PTL DEF Spec

\* No slot carries a generation from the future: expiry never underflows.
THEOREM Generations == Spec => []GenerationBound
<1>1. LockInv => GenerationBound
  BY DEF LockInv
<1>2. QED
  BY <1>1, LockInit, LockStep, PTL DEF Spec

\* As long as execute() throws nothing but std::exceptions, the lock is never left
\* behind: whenever its bit is set, somebody is in run_executor.
THEOREM NeverAbandoned ==
  ASSUME "other" \notin MayThrow
  PROVE  Spec => []HeldByExecutor
<1>1. Init => HeldByExecutor
  BY DEF Init, HeldByExecutor
<1>2. ASSUME LockInv, HeldByExecutor, [Next]_vars PROVE HeldByExecutor'
  <2>1. TypeOK
    BY <1>2 DEF LockInv
  <2>2. CASE KeepsLock
    BY <1>2, <2>2 DEF KeepsLock, HeldByExecutor
  <2>3. ASSUME NEW t \in Thread, LockCas(t) PROVE Executing(t)'
    BY <2>1, <2>3 DEF LockCas, Goto, Executing, ExecutorPC, TypeOK
  <2>4. ASSUME NEW t \in Thread, Unlock(t) PROVE ~lock'.held
    BY <2>1, <2>4 DEF Unlock, Unlocked, TypeOK
  <2>5. \A t \in Thread : ~ExecuteEscapes(t)
    BY DEF ExecuteEscapes
  <2>6. QED
    BY <1>2, <2>1, <2>2, <2>3, <2>4, <2>5, LockEffects DEF HeldByExecutor
<1>3. QED
  BY <1>1, <1>2, LockInit, LockStep, PTL DEF Spec

-----------------------------------------------------------------------------
(* Memory.                                                                 *)

\* Where the thread's slot is named, between its calls and inside them.
SlotProtocol ==
  \A t \in Thread :
    /\ pc[t] = "idle" => slot[t] = Null
    /\ pc[t] \in ApplyPC \union ExecutorPC => slot[t] = tls[t]
    /\ pc[t] \in OrphanPC => tls[t] = Null

\* What the executor believes about the slot it is removing.
DeadStaysDead ==
  \A t \in Thread :
    /\ pc[t] = "run_data" => is_alive[t]
    /\ pc[t] \in DequeuePC /\ ~is_alive[t] =>
         current_node[t] \in live /\ ~IsAlive(current_node[t])

OwnInv == LockInv /\ OwnedSlotLive /\ SlotProtocol /\ DeadStaysDead

\* The step allocates, deletes, hands over and marks nothing.
KeepsOwnership ==
  /\ live' = live
  /\ \A u \in Thread : Holds(u)' \subseteq Holds(u)
  /\ \A a \in Node : link'[a].alive = link[a].alive

\* What each action does to the slots threads hold and to the alive bits.
LEMMA OwnershipEffects ==
  ASSUME TypeOK, [Next]_vars
  PROVE  \/ KeepsOwnership
         \/ Destroy
         \/ \E t \in Thread :
              GetSlot(t) \/ DequeueNull(t) \/ OrphanDelete(t) \/ OrphanStore(t)
<1> USE DEF vars, shared, objVars, heapVars, locals, scanVars, deqVars, auxVars,
            Goto, Return
<1>0. /\ \A t \in Thread :
           slot[t] \in Pointer /\ loaded[t] \in Pointer /\ new_next[t] \in Pointer
      /\ link \in [Node -> TaggedPointer]
  BY DEF TypeOK, Pointer, Node
<1>1. ASSUME NEW t \in Thread, Call(t), ~GetSlot(t) PROVE KeepsOwnership
  <2>1. CASE ApplySlot(t)
    BY <2>1 DEF ApplySlot, KeepsOwnership, Holds, TypeOK
  <2>2. CASE Detach(t)
    BY <2>2 DEF Detach, SetTls, KeepsOwnership, Holds, TypeOK
  <2>3. QED
    BY <1>1, <2>1, <2>2 DEF Call
<1>2. ASSUME NEW t \in Thread, ApplyStep(t) PROVE KeepsOwnership
  <2>1. CASE FindDone(t)
    BY <2>1 DEF FindDone, KeepsOwnership, Holds, TypeOK
  <2>2. CASE FindPending(t)
    BY <2>2 DEF FindPending, KeepsOwnership, Holds
  <2>3. CASE CheckQueue(t)
    BY <2>3 DEF CheckQueue, KeepsOwnership, Holds
  <2>4. CASE PushLoad(t)
    BY <2>4 DEF PushLoad, KeepsOwnership, Holds
  <2>5. CASE PushSet(t)
    <3>1. link' = link \/ link' = SetPtr(link, slot[t], loaded[t])
      BY <2>5 DEF PushSet
    <3>2. \A a \in Node : link'[a].alive = link[a].alive
      BY <1>0, <3>1, SetPtrType
    <3>3. QED
      BY <2>5, <3>2 DEF PushSet, KeepsOwnership, Holds
  <2>6. CASE PushCas(t)
    <3>1. link' = link \/ link' = SetPtr(link, Head, slot[t])
      BY <2>6 DEF PushCas
    <3>2. \A a \in Node : link'[a].alive = link[a].alive
      BY <1>0, <3>1, SetPtrType
    <3>3. QED
      BY <2>6, <3>2 DEF PushCas, KeepsOwnership, Holds
  <2>7. CASE PushRetry(t)
    BY <2>7 DEF PushRetry, KeepsOwnership, Holds
  <2>8. CASE TryLock(t)
    BY <2>8 DEF TryLock, KeepsOwnership, Holds
  <2>9. CASE LockCas(t)
    BY <2>9 DEF LockCas, KeepsOwnership, Holds
  <2>10. CASE LockFail(t)
    BY <2>10 DEF LockFail, KeepsOwnership, Holds
  <2>11. QED
    BY <1>2, <2>1, <2>2, <2>3, <2>4, <2>5, <2>6, <2>7, <2>8, <2>9, <2>10 DEF ApplyStep
<1>3. ASSUME NEW t \in Thread, ScanStep(t) PROVE KeepsOwnership
  <2>1. CASE RunFirst(t)
    BY <2>1 DEF RunFirst, KeepsOwnership, Holds
  <2>2. CASE RunAlive(t)
    BY <2>2 DEF RunAlive, KeepsOwnership, Holds
  <2>3. CASE RunTake(t)
    BY <2>3 DEF RunTake, KeepsOwnership, Holds
  <2>4. CASE RunExpire(t)
    BY <2>4 DEF RunExpire, KeepsOwnership, Holds
  <2>5. CASE RunSkip(t)
    BY <2>5 DEF RunSkip, KeepsOwnership, Holds
  <2>6. CASE RunNext(t)
    BY <2>6 DEF RunNext, KeepsOwnership, Holds
  <2>7. QED
    BY <1>3, <2>1, <2>2, <2>3, <2>4, <2>5, <2>6 DEF ScanStep
<1>4. ASSUME NEW t \in Thread, DequeueAction(t), ~DequeueNull(t) PROVE KeepsOwnership
  <2>1. CASE DequeueNext(t)
    BY <2>1 DEF DequeueNext, KeepsOwnership, Holds
  <2>2. CASE DequeueFlag(t)
    BY <2>2 DEF DequeueFlag, KeepsOwnership, Holds
  <2>3. CASE DequeueCas(t)
    <3>1. link' = link \/ link' = SetPtr(link, pred[t], new_next[t])
      BY <2>3 DEF DequeueCas
    <3>2. \A a \in Node : link'[a].alive = link[a].alive
      BY <1>0, <3>1, SetPtrType
    <3>3. QED
      BY <2>3, <3>2 DEF DequeueCas, KeepsOwnership, Holds
  <2>4. CASE DequeueStep(t)
    BY <2>4 DEF DequeueStep, KeepsOwnership, Holds
  <2>5. QED
    BY <1>4, <2>1, <2>2, <2>3, <2>4 DEF DequeueAction
<1>5. ASSUME NEW t \in Thread, ShotStep(t) PROVE KeepsOwnership
  <2>1. CASE Execute(t)
    BY <2>1 DEF Execute, KeepsOwnership, Holds
  <2>2. CASE ExecuteThrows(t)
    BY <2>2 DEF ExecuteThrows, KeepsOwnership, Holds
  <2>3. CASE ClearTask(t)
    BY <2>3 DEF ClearTask, KeepsOwnership, Holds
  <2>4. CASE ShotDone(t)
    BY <2>4 DEF ShotDone, KeepsOwnership, Holds
  <2>5. CASE Unlock(t)
    BY <2>5 DEF Unlock, EndExecutor, KeepsOwnership, Holds, TypeOK
  <2>6. CASE ExecuteEscapes(t)
    BY <2>6 DEF ExecuteEscapes, EndExecutor, KeepsOwnership, Holds, TypeOK
  <2>7. QED
    BY <1>5, <2>1, <2>2, <2>3, <2>4, <2>5, <2>6 DEF ShotStep
<1>6. ASSUME NEW t \in Thread, OrphanStep(t), ~OrphanDelete(t), ~OrphanStore(t)
      PROVE  KeepsOwnership
  <2>1. CASE OrphanQueued(t)
    BY <2>1 DEF OrphanQueued, KeepsOwnership, Holds
  <2>2. CASE OrphanLoad(t)
    BY <2>2 DEF OrphanLoad, KeepsOwnership, Holds
  <2>3. QED
    BY <1>6, <2>1, <2>2 DEF OrphanStep
<1>7. ASSUME NEW t \in Thread, Crash(t) PROVE KeepsOwnership
  BY <1>7 DEF Crash, KeepsOwnership, Holds
<1>8. CASE UNCHANGED vars
  BY <1>8 DEF KeepsOwnership, Holds
<1>9. QED
  BY <1>1, <1>2, <1>3, <1>4, <1>5, <1>6, <1>7, <1>8 DEF Next, Step, Finished

\* Every action keeps slot[t] and tls[t] in step with where t is.
LEMMA ProtocolStep == TypeOK /\ SlotProtocol /\ [Next]_vars => SlotProtocol'
<1> SUFFICES ASSUME TypeOK, SlotProtocol, [Next]_vars PROVE SlotProtocol'
  OBVIOUS
<1> USE DEF vars, shared, objVars, heapVars, locals, scanVars, deqVars, auxVars,
            At, Goto, Return, SlotProtocol, ApplyPC, ExecutorPC, DequeuePC, OrphanPC
<1>1. ASSUME NEW t \in Thread, Call(t) PROVE SlotProtocol'
  <2>1. CASE GetSlot(t)
    BY <2>1 DEF GetSlot, SetTls, TypeOK
  <2>2. CASE ApplySlot(t)
    BY <2>2 DEF ApplySlot, TypeOK
  <2>3. CASE Detach(t)
    BY <2>3 DEF Detach, SetTls, TypeOK
  <2>4. QED
    BY <1>1, <2>1, <2>2, <2>3 DEF Call
<1>2. ASSUME NEW t \in Thread, ApplyStep(t) PROVE SlotProtocol'
  <2>1. CASE FindDone(t)
    BY <2>1 DEF FindDone, TypeOK
  <2>2. CASE FindPending(t)
    BY <2>2 DEF FindPending, TypeOK
  <2>3. CASE CheckQueue(t)
    BY <2>3 DEF CheckQueue, TypeOK
  <2>4. CASE PushLoad(t)
    BY <2>4 DEF PushLoad, TypeOK
  <2>5. CASE PushSet(t)
    BY <2>5 DEF PushSet, TypeOK
  <2>6. CASE PushCas(t)
    BY <2>6 DEF PushCas, TypeOK
  <2>7. CASE PushRetry(t)
    BY <2>7, Labels DEF PushRetry, TypeOK
  <2>8. CASE TryLock(t)
    BY <2>8, Labels DEF TryLock, TypeOK
  <2>9. CASE LockCas(t)
    BY <2>9 DEF LockCas, TypeOK
  <2>10. CASE LockFail(t)
    BY <2>10, Labels DEF LockFail, TypeOK
  <2>11. QED
    BY <1>2, <2>1, <2>2, <2>3, <2>4, <2>5, <2>6, <2>7, <2>8, <2>9, <2>10 DEF ApplyStep
<1>3. ASSUME NEW t \in Thread, ScanStep(t) PROVE SlotProtocol'
  <2>1. CASE RunFirst(t)
    BY <2>1, Labels DEF RunFirst, TypeOK
  <2>2. CASE RunAlive(t)
    BY <2>2 DEF RunAlive, TypeOK
  <2>3. CASE RunTake(t)
    BY <2>3 DEF RunTake, TypeOK
  <2>4. CASE RunExpire(t)
    BY <2>4 DEF RunExpire, TypeOK
  <2>5. CASE RunSkip(t)
    BY <2>5 DEF RunSkip, TypeOK
  <2>6. CASE RunNext(t)
    BY <2>6, Labels DEF RunNext, TypeOK
  <2>7. QED
    BY <1>3, <2>1, <2>2, <2>3, <2>4, <2>5, <2>6 DEF ScanStep
<1>4. ASSUME NEW t \in Thread, DequeueAction(t) PROVE SlotProtocol'
  <2>1. CASE DequeueNext(t)
    BY <2>1 DEF DequeueNext, TypeOK
  <2>2. CASE DequeueFlag(t)
    BY <2>2 DEF DequeueFlag, TypeOK
  <2>3. CASE DequeueCas(t)
    BY <2>3 DEF DequeueCas, TypeOK
  <2>4. CASE DequeueStep(t)
    BY <2>4 DEF DequeueStep, TypeOK
  <2>5. CASE DequeueNull(t)
    BY <2>5 DEF DequeueNull, TypeOK
  <2>6. QED
    BY <1>4, <2>1, <2>2, <2>3, <2>4, <2>5 DEF DequeueAction
<1>5. ASSUME NEW t \in Thread, ShotStep(t) PROVE SlotProtocol'
  <2>1. CASE Execute(t)
    BY <2>1 DEF Execute, TypeOK
  <2>2. CASE ExecuteThrows(t)
    BY <2>2 DEF ExecuteThrows, TypeOK
  <2>3. CASE ClearTask(t)
    BY <2>3 DEF ClearTask, TypeOK
  <2>4. CASE ShotDone(t)
    BY <2>4 DEF ShotDone, TypeOK
  <2>5. CASE Unlock(t)
    BY <2>5 DEF Unlock, EndExecutor, TypeOK
  <2>6. CASE ExecuteEscapes(t)
    BY <2>6 DEF ExecuteEscapes, EndExecutor, TypeOK
  <2>7. QED
    BY <1>5, <2>1, <2>2, <2>3, <2>4, <2>5, <2>6 DEF ShotStep
<1>6. ASSUME NEW t \in Thread, OrphanStep(t) PROVE SlotProtocol'
  <2>1. CASE OrphanDelete(t)
    BY <2>1 DEF OrphanDelete, TypeOK
  <2>2. CASE OrphanQueued(t)
    BY <2>2 DEF OrphanQueued, TypeOK
  <2>3. CASE OrphanLoad(t)
    BY <2>3 DEF OrphanLoad, TypeOK
  <2>4. CASE OrphanStore(t)
    BY <2>4 DEF OrphanStore, TypeOK
  <2>5. QED
    BY <1>6, <2>1, <2>2, <2>3, <2>4 DEF OrphanStep
<1>7. ASSUME NEW t \in Thread, Crash(t) PROVE SlotProtocol'
  BY <1>7 DEF Crash
<1>8. CASE Destroy
  BY <1>8 DEF Destroy
<1>9. CASE UNCHANGED vars
  BY <1>9
<1>10. QED
  BY <1>1, <1>2, <1>3, <1>4, <1>5, <1>6, <1>7, <1>8, <1>9 DEF Next, Step, Finished

\* A thread that is removing a slot after the step was removing it before.
KeepsTarget(u) ==
  pc'[u] \in DequeuePC \union {"run_data"} =>
    /\ pc[u] \in DequeuePC \union {"run_data"}
    /\ pc'[u] = "run_data" => pc[u] = "run_data"
    /\ is_alive'[u] = is_alive[u] /\ current_node'[u] = current_node[u]

\* What each action does to the slot an executor is dequeuing.
LEMMA TargetEffects ==
  ASSUME TypeOK, [Next]_vars, NEW u \in Thread
  PROVE  KeepsTarget(u) \/ RunAlive(u)
<1> USE DEF vars, shared, objVars, heapVars, locals, scanVars, deqVars, auxVars,
            At, Goto, Return, KeepsTarget, DequeuePC
<1>1. ASSUME NEW t \in Thread, Call(t) PROVE KeepsTarget(u)
  <2>1. CASE GetSlot(t)
    BY <2>1 DEF GetSlot, TypeOK
  <2>2. CASE ApplySlot(t)
    BY <2>2 DEF ApplySlot, TypeOK
  <2>3. CASE Detach(t)
    BY <2>3 DEF Detach, TypeOK
  <2>4. QED
    BY <1>1, <2>1, <2>2, <2>3 DEF Call
<1>2. ASSUME NEW t \in Thread, ApplyStep(t) PROVE KeepsTarget(u)
  <2>1. CASE FindDone(t)
    BY <2>1 DEF FindDone, TypeOK
  <2>2. CASE FindPending(t)
    BY <2>2 DEF FindPending, TypeOK
  <2>3. CASE CheckQueue(t)
    BY <2>3 DEF CheckQueue, TypeOK
  <2>4. CASE PushLoad(t)
    BY <2>4 DEF PushLoad, TypeOK
  <2>5. CASE PushSet(t)
    BY <2>5 DEF PushSet, TypeOK
  <2>6. CASE PushCas(t)
    BY <2>6 DEF PushCas, TypeOK
  <2>7. CASE PushRetry(t)
    BY <2>7, Labels DEF PushRetry, TypeOK
  <2>8. CASE TryLock(t)
    BY <2>8, Labels DEF TryLock, TypeOK
  <2>9. CASE LockCas(t)
    BY <2>9 DEF LockCas, TypeOK
  <2>10. CASE LockFail(t)
    BY <2>10, Labels DEF LockFail, TypeOK
  <2>11. QED
    BY <1>2, <2>1, <2>2, <2>3, <2>4, <2>5, <2>6, <2>7, <2>8, <2>9, <2>10 DEF ApplyStep
<1>3. ASSUME NEW t \in Thread, ScanStep(t), ~RunAlive(u) PROVE KeepsTarget(u)
  <2>1. CASE RunFirst(t)
    BY <2>1, Labels DEF RunFirst, TypeOK
  <2>2. CASE RunTake(t)
    BY <2>2 DEF RunTake, TypeOK
  <2>3. CASE RunExpire(t)
    BY <2>3 DEF RunExpire, TypeOK
  <2>4. CASE RunSkip(t)
    BY <2>4 DEF RunSkip, TypeOK
  <2>5. CASE RunNext(t)
    BY <2>5, Labels DEF RunNext, TypeOK
  <2>6. CASE RunAlive(t)
    BY <1>3, <2>6 DEF RunAlive, TypeOK
  <2>7. QED
    BY <1>3, <2>1, <2>2, <2>3, <2>4, <2>5, <2>6 DEF ScanStep
<1>4. ASSUME NEW t \in Thread, DequeueAction(t) PROVE KeepsTarget(u)
  <2>1. CASE DequeueNext(t)
    BY <2>1 DEF DequeueNext, TypeOK
  <2>2. CASE DequeueFlag(t)
    BY <2>2 DEF DequeueFlag, TypeOK
  <2>3. CASE DequeueCas(t)
    BY <2>3 DEF DequeueCas, TypeOK
  <2>4. CASE DequeueStep(t)
    BY <2>4 DEF DequeueStep, TypeOK
  <2>5. CASE DequeueNull(t)
    BY <2>5 DEF DequeueNull, TypeOK
  <2>6. QED
    BY <1>4, <2>1, <2>2, <2>3, <2>4, <2>5 DEF DequeueAction
<1>5. ASSUME NEW t \in Thread, ShotStep(t) PROVE KeepsTarget(u)
  <2>1. CASE Execute(t)
    BY <2>1 DEF Execute, TypeOK
  <2>2. CASE ExecuteThrows(t)
    BY <2>2 DEF ExecuteThrows, TypeOK
  <2>3. CASE ClearTask(t)
    BY <2>3 DEF ClearTask, TypeOK
  <2>4. CASE ShotDone(t)
    BY <2>4 DEF ShotDone, TypeOK
  <2>5. CASE Unlock(t)
    BY <2>5 DEF Unlock, EndExecutor, TypeOK
  <2>6. CASE ExecuteEscapes(t)
    BY <2>6 DEF ExecuteEscapes, EndExecutor, TypeOK
  <2>7. QED
    BY <1>5, <2>1, <2>2, <2>3, <2>4, <2>5, <2>6 DEF ShotStep
<1>6. ASSUME NEW t \in Thread, OrphanStep(t) PROVE KeepsTarget(u)
  <2>1. CASE OrphanDelete(t)
    BY <2>1 DEF OrphanDelete, TypeOK
  <2>2. CASE OrphanQueued(t)
    BY <2>2 DEF OrphanQueued, TypeOK
  <2>3. CASE OrphanLoad(t)
    BY <2>3 DEF OrphanLoad, TypeOK
  <2>4. CASE OrphanStore(t)
    BY <2>4 DEF OrphanStore, TypeOK
  <2>5. QED
    BY <1>6, <2>1, <2>2, <2>3, <2>4 DEF OrphanStep
<1>7. ASSUME NEW t \in Thread, Crash(t) PROVE KeepsTarget(u)
  BY <1>7 DEF Crash
<1>8. CASE Destroy
  BY <1>8 DEF Destroy
<1>9. CASE UNCHANGED vars
  BY <1>9
<1>10. QED
  BY <1>1, <1>2, <1>3, <1>4, <1>5, <1>6, <1>7, <1>8, <1>9 DEF Next, Step, Finished

\* No thread holds a slot of a new object.
LEMMA OwnInit == Init => OwnInv
<1> SUFFICES ASSUME Init PROVE OwnedSlotLive /\ SlotProtocol /\ DeadStaysDead
  BY LockInit DEF OwnInv
<1>1. \A t \in Thread : pc[t] = "idle" /\ tls[t] = Null /\ slot[t] = Null
  BY DEF Init
<1>2. OwnedSlotLive
  BY <1>1 DEF OwnedSlotLive, Holds
<1>3. SlotProtocol
  BY <1>1 DEF SlotProtocol, ApplyPC, ExecutorPC, DequeuePC, OrphanPC
<1>4. DeadStaysDead
  BY <1>1 DEF DeadStaysDead, DequeuePC
<1>5. QED
  BY <1>2, <1>3, <1>4

\* Nobody's slot is deleted, marked dead or given away under him.
LEMMA OwnedStep == OwnInv /\ [Next]_vars => OwnedSlotLive'
<1> SUFFICES ASSUME OwnInv, [Next]_vars PROVE OwnedSlotLive'
  OBVIOUS
<1>1. /\ TypeOK /\ MutualExclusion /\ SlotProtocol
      /\ \A u \in Thread : Holds(u) \subseteq live /\ Holds(u) \subseteq Slot
      /\ \A u \in Thread : \A a \in Holds(u) : link[a].alive
      /\ \A u, v \in Thread : u # v => Holds(u) \intersect Holds(v) = {}
      /\ live \subseteq Node /\ Slot \subseteq Node
  <2>1. TypeOK /\ MutualExclusion /\ SlotProtocol /\ OwnedSlotLive
    BY DEF OwnInv, LockInv
  <2>2. \A u \in Thread : Holds(u) \subseteq Slot
    BY <2>1 DEF Holds, TypeOK
  <2>3. live \subseteq Node /\ Slot \subseteq Node
    BY <2>1 DEF TypeOK, Node
  <2>4. QED
    BY <2>1, <2>2, <2>3 DEF OwnedSlotLive, IsAlive
<1>2. ASSUME \A u \in Thread : Holds(u)' \subseteq live',
             \A u \in Thread : \A a \in Holds(u)' : link'[a].alive,
             \A u, v \in Thread : u # v => Holds(u)' \intersect Holds(v)' = {}
      PROVE  OwnedSlotLive'
  BY <1>2 DEF OwnedSlotLive, IsAlive
<1>3. ASSUME KeepsOwnership PROVE OwnedSlotLive'
  <2>1. /\ \A u \in Thread : Holds(u)' \subseteq live'
        /\ \A u \in Thread : \A a \in Holds(u)' : link'[a].alive
        /\ \A u, v \in Thread : u # v => Holds(u)' \intersect Holds(v)' = {}
    BY <1>1, <1>3 DEF KeepsOwnership
  <2>2. QED
    BY <1>2, <2>1
<1>4. ASSUME Destroy PROVE OwnedSlotLive'
  <2>1. \A u \in Thread : Holds(u)' = Holds(u)
    BY <1>4 DEF Destroy, locals, Holds
  <2>2. live' = live \ {Head, Tail} /\ link' = link
    BY <1>4 DEF Destroy
  <2>3. /\ \A u \in Thread : Holds(u)' \subseteq live'
        /\ \A u \in Thread : \A a \in Holds(u)' : link'[a].alive
        /\ \A u, v \in Thread : u # v => Holds(u)' \intersect Holds(v)' = {}
    BY <1>1, <2>1, <2>2, NodesAssumption
  <2>4. QED
    BY <1>2, <2>3
<1>5. ASSUME NEW t \in Thread, GetSlot(t) PROVE OwnedSlotLive'
  <2>1. PICK s \in Slot \ live : /\ tls' = [tls EXCEPT ![t] = s]
                                 /\ live' = live \union {s}
                                 /\ link' = FreshLink(link, s)
    BY <1>5 DEF GetSlot, SetTls
  <2>2. slot' = slot /\ slot[t] = Null
    BY <1>1, <1>5 DEF GetSlot, locals, At, SlotProtocol
  <2>3. /\ Holds(t)' \subseteq {s}
        /\ \A u \in Thread \ {t} : Holds(u)' = Holds(u)
    BY <1>1, <2>1, <2>2 DEF Holds, TypeOK
  <2>4. /\ link'[s].alive
        /\ \A a \in Node \ {s} : link'[a] = link[a]
    BY <1>1, <2>1 DEF FreshLink, NewPointer, TypeOK
  <2>5. \A u \in Thread : s \notin Holds(u)
    BY <1>1, <2>1
  <2>6. /\ \A u \in Thread : Holds(u)' \subseteq live'
        /\ \A u, v \in Thread : u # v => Holds(u)' \intersect Holds(v)' = {}
    BY <1>1, <2>1, <2>3, <2>5
  <2>7. \A u \in Thread : \A a \in Holds(u)' : link'[a].alive
    BY <1>1, <2>3, <2>4, <2>5
  <2>8. QED
    BY <1>2, <2>6, <2>7
<1>6. ASSUME NEW t \in Thread, DequeueNull(t) PROVE OwnedSlotLive'
  <2> DEFINE c == current_node[t]
  <2>1. \A u \in Thread : Holds(u)' = Holds(u)
    BY <1>6 DEF DequeueNull, Holds
  <2>2. live' = live \/ (~link[c].alive /\ live' = live \ {c})
    BY <1>6 DEF DequeueNull, LastReference, IsAlive
  <2>3. \A a \in Node : link'[a].alive = link[a].alive
    <3>1. link \in [Node -> TaggedPointer] /\ Null \in Pointer
      BY <1>1 DEF TypeOK, Pointer
    <3>2. link' = SetPtr(link, c, Null)
      BY <1>6 DEF DequeueNull, ClearPtr
    <3>3. QED
      BY <3>1, <3>2, SetPtrType
  <2> HIDE DEF c
  <2>4. \A u \in Thread : Holds(u) \subseteq live'
    BY <1>1, <2>2
  <2>5. \A u \in Thread : \A a \in Holds(u) : link'[a].alive
    BY <1>1, <2>3
  <2>6. QED
    BY <1>1, <1>2, <2>1, <2>4, <2>5
<1>7. ASSUME NEW t \in Thread, OrphanDelete(t) \/ OrphanStore(t)
      PROVE  OwnedSlotLive'
  <2>1. tls[t] = Null /\ tls' = tls /\ slot' = [slot EXCEPT ![t] = Null]
    BY <1>1, <1>7 DEF OrphanDelete, OrphanStore, At, Return, SlotProtocol, OrphanPC
  <2>2. /\ Holds(t)' = {} /\ slot[t] \notin UNION {Holds(u) : u \in Thread \ {t}}
        /\ \A u \in Thread \ {t} : Holds(u)' = Holds(u)
    <3>1. Holds(t)' = {} /\ \A u \in Thread \ {t} : Holds(u)' = Holds(u)
      BY <1>1, <2>1 DEF Holds, TypeOK
    <3>2. slot[t] = Null \/ slot[t] \in Holds(t)
      BY DEF Holds
    <3>3. \A u \in Thread : Null \notin Holds(u)
      BY DEF Holds
    <3>4. QED
      BY <1>1, <3>1, <3>2, <3>3
  <2>3. /\ live \ {slot[t]} \subseteq live'
        /\ \A a \in Node \ {slot[t]} : link'[a] = link[a]
    BY <1>1, <1>7 DEF OrphanDelete, OrphanStore, ClearFlag, TypeOK
  <2>4. \A u \in Thread : Holds(u)' \subseteq live'
    BY <1>1, <2>2, <2>3
  <2>5. \A u \in Thread : \A a \in Holds(u)' : link'[a].alive
    BY <1>1, <2>2, <2>3
  <2>6. \A u, v \in Thread : u # v => Holds(u)' \intersect Holds(v)' = {}
    BY <1>1, <2>2
  <2>7. QED
    BY <1>2, <2>4, <2>5, <2>6
<1>8. QED
  BY <1>1, <1>3, <1>4, <1>5, <1>6, <1>7, OwnershipEffects

\* A slot found dead stays allocated and dead until its executor deletes it.
LEMMA DeadStep == OwnInv /\ [Next]_vars => DeadStaysDead'
<1> SUFFICES ASSUME OwnInv, [Next]_vars, NEW u \in Thread
             PROVE  /\ pc'[u] = "run_data" => is_alive'[u]
                    /\ pc'[u] \in DequeuePC /\ ~is_alive'[u] =>
                         current_node'[u] \in live' /\ ~link'[current_node'[u]].alive
  BY DEF DeadStaysDead, IsAlive
<1>1. TypeOK /\ MutualExclusion /\ OwnedSlotLive /\ SlotProtocol /\ DeadStaysDead
  BY DEF OwnInv, LockInv
<1>2. CASE RunAlive(u)
  <2>1. /\ current_node[u] \in live /\ current_node' = current_node
        /\ live' = live /\ link' = link
    BY <1>1, <1>2, Touched DEF RunAlive, shared, heapVars, scanVars
  <2>2. /\ pc' = [pc EXCEPT ![u] =
                   IF link[current_node[u]].alive THEN "run_data" ELSE "deq_next"]
        /\ is_alive' = [is_alive EXCEPT ![u] = link[current_node[u]].alive]
    BY <1>2 DEF RunAlive, Goto, IsAlive
  <2>3. pc'[u] = (IF link[current_node[u]].alive THEN "run_data" ELSE "deq_next")
        /\ is_alive'[u] = link[current_node[u]].alive
    BY <1>1, <2>2 DEF TypeOK
  <2>4. QED
    BY <2>1, <2>3 DEF DequeuePC
<1>3. CASE KeepsTarget(u)
  <2>1. pc'[u] = "run_data" => is_alive'[u]
    BY <1>1, <1>3 DEF KeepsTarget, DeadStaysDead
  <2>2. SUFFICES ASSUME pc'[u] \in DequeuePC, ~is_alive'[u]
                 PROVE  current_node[u] \in live' /\ ~link'[current_node[u]].alive
    BY <1>3, <2>1 DEF KeepsTarget
  <2> DEFINE c == current_node[u]
  <2>3. c \in live /\ c \in Node /\ ~link[c].alive /\ pc[u] \in DequeuePC
    BY <1>1, <1>3, <2>2 DEF KeepsTarget, DeadStaysDead, IsAlive, TypeOK
  <2>4. Executing(u) /\ pc[u] # "idle"
    BY <2>3 DEF Executing, ExecutorPC, DequeuePC
  <2> HIDE DEF c
  <2>5. CASE KeepsOwnership
    BY <2>3, <2>5 DEF KeepsOwnership, c
  <2>6. CASE Destroy
    BY <2>4, <2>6 DEF Destroy
  <2>7. ASSUME NEW t \in Thread, GetSlot(t)
        PROVE  c \in live' /\ ~link'[c].alive
    <3>1. PICK s \in Slot \ live : live' = live \union {s} /\ link' = FreshLink(link, s)
      BY <2>7 DEF GetSlot
    <3>2. QED
      BY <1>1, <2>3, <3>1 DEF FreshLink, TypeOK
  <2>8. ASSUME NEW t \in Thread, DequeueNull(t)
        PROVE  c \in live' /\ ~link'[c].alive
    <3>1. Executing(t)
      BY <2>8 DEF DequeueNull, At, Executing, ExecutorPC, DequeuePC
    <3>2. t = u
      BY <1>1, <2>4, <3>1 DEF MutualExclusion
    <3>3. pc'[u] = "run_next"
      BY <1>1, <2>8, <3>2 DEF DequeueNull, Goto, TypeOK
    <3>4. QED
      BY <2>2, <3>3 DEF DequeuePC
  <2>9. ASSUME NEW t \in Thread, OrphanDelete(t)
        PROVE  c \in live' /\ ~link'[c].alive
    <3>1. slot[t] \in live /\ link' = link /\ live' = live \ {slot[t]}
      BY <1>1, <2>9, Touched DEF OrphanDelete
    <3>2. slot[t] # Null
      BY <1>1, <3>1, NodesAssumption DEF TypeOK
    <3>3. link[slot[t]].alive
      BY <1>1, <3>2 DEF OwnedSlotLive, Holds, IsAlive
    <3>4. QED
      BY <2>3, <3>1, <3>3
  <2>10. ASSUME NEW t \in Thread, OrphanStore(t)
         PROVE  c \in live' /\ ~link'[c].alive
    BY <1>1, <2>3, <2>10 DEF OrphanStore, ClearFlag, TypeOK
  <2>11. QED
    BY <1>1, <2>5, <2>6, <2>7, <2>8, <2>9, <2>10, OwnershipEffects DEF c
<1>4. QED
  BY <1>1, <1>2, <1>3, TargetEffects

\* Every action keeps ownership, the slot protocol and dead slots dead.
LEMMA OwnStep == OwnInv /\ [Next]_vars => OwnInv'
  BY LockStep, OwnedStep, ProtocolStep, DeadStep DEF OwnInv, LockInv

\* No thread ever works on a slot that was deleted, or given to another thread,
\* behind its back.
THEOREM Ownership == Spec => []OwnedSlotLive
<1>1. OwnInv => OwnedSlotLive
  BY DEF OwnInv
<1>2. QED
  BY <1>1, OwnInit, OwnStep, PTL DEF Spec

\* assert(was_dead) in run_executor never fails.
THEOREM NoAssertFailure == Spec => []AssertHolds
<1>1. OwnInv => AssertHolds
  BY DEF OwnInv, DeadStaysDead, AssertHolds, AssertFails, DequeuePC
<1>2. QED
  BY <1>1, OwnInit, OwnStep, PTL DEF Spec

-----------------------------------------------------------------------------
(* Refinement of the lock.                                                 *)

\* The executor is the thread that runs run_executor.
LEMMA ExecutorUnique ==
  ASSUME MutualExclusion, NEW t \in Thread, Executing(t)
  PROVE  executor = t
<1>1. (\E u \in Thread : Executing(u)) /\ \A u \in Thread : Executing(u) <=> u = t
  BY DEF MutualExclusion
<1>2. (CHOOSE u \in Thread : Executing(u)) = t
  BY <1>1
<1>3. QED
  BY <1>1, <1>2 DEF executor

\* The same of the next state.
LEMMA NextExecutorUnique ==
  ASSUME MutualExclusion', NEW t \in Thread, Executing(t)'
  PROVE  executor' = t
<1>1. (\E u \in Thread : Executing(u)') /\ \A u \in Thread : Executing(u)' <=> u = t
  BY DEF MutualExclusion
<1>2. (CHOOSE u \in Thread : Executing(u)') = t
  BY <1>1
<1>3. QED
  BY <1>1, <1>2 DEF executor

\* The constructor maps to an unlocked lock in generation 0.
LEMMA LockInitMap == Init => Lock!Init
<1> SUFFICES ASSUME Init PROVE Lock!Init
  OBVIOUS
<1>1. \A t \in Thread : ~Executing(t)
  BY DEF Init, Executing, ExecutorPC, DequeuePC
<1>2. QED
  BY <1>1 DEF Init, Lock!Init, executor

\* lock_cas maps to Acquire, unlock to Release, an exception that escapes to
\* Abandon, every other step to a stutter.
LEMMA LockStepMap ==
  ASSUME LockInv, LockInv', [Next]_vars
  PROVE  [Lock!Next]_(Lock!vars)
<1>1. MutualExclusion /\ MutualExclusion' /\ TypeOK
  BY DEF LockInv
<1>2. ASSUME KeepsLock PROVE UNCHANGED <<lock.held, executor, lock.gen>>
  <2>1. CASE \A t \in Thread : ~Executing(t)
    BY <1>2, <2>1 DEF KeepsLock, executor
  <2>2. ASSUME NEW t \in Thread, Executing(t) PROVE executor' = executor
    <3>1. Executing(t)'
      BY <1>2, <2>2 DEF KeepsLock
    <3>2. executor = t
      BY <1>1, <2>2, ExecutorUnique
    <3>3. executor' = t
      BY <1>1, <3>1, NextExecutorUnique
    <3>4. QED
      BY <3>2, <3>3
  <2>3. QED
    BY <1>2, <2>1, <2>2 DEF KeepsLock
<1>3. ASSUME NEW t \in Thread, LockCas(t) PROVE Lock!Acquire(t)
  <2>1. lock = [held |-> FALSE, gen |-> gen[t]]
    BY <1>3 DEF LockCas, LockCasMatches
  <2>2. lock' = [held |-> TRUE, gen |-> lock.gen + 1]
    BY <1>3, <2>1 DEF LockCas, NextGeneration
  <2>3. Executing(t)'
    BY <1>1, <1>3 DEF LockCas, Goto, Executing, ExecutorPC, TypeOK
  <2>4. executor' = t
    BY <1>1, <2>3, NextExecutorUnique
  <2>5. QED
    BY <2>1, <2>2, <2>4 DEF Lock!Acquire
<1>4. ASSUME NEW t \in Thread, Unlock(t) \/ ExecuteEscapes(t)
      PROVE  executor = t /\ executor' = Null
  <2>1. Executing(t) /\ pc' = [pc EXCEPT ![t] = "idle"]
    BY <1>4 DEF Unlock, ExecuteEscapes, EndExecutor, Return, Goto, At, Executing,
                ExecutorPC
  <2>2. executor = t
    BY <1>1, <2>1, ExecutorUnique
  <2>3. \A u \in Thread : ~Executing(u)'
    BY <1>1, <2>1 DEF MutualExclusion, Executing, ExecutorPC, DequeuePC, TypeOK
  <2>4. QED
    BY <2>2, <2>3 DEF executor
<1>5. ASSUME NEW t \in Thread, Unlock(t) PROVE Lock!Release(t)
  <2>1. ~lock'.held /\ lock'.gen = lock.gen /\ lock'.held \in BOOLEAN
    BY <1>1, <1>5 DEF Unlock, Unlocked, TypeOK
  <2>2. QED
    BY <1>4, <1>5, <2>1 DEF Lock!Release
<1>6. ASSUME NEW t \in Thread, ExecuteEscapes(t) PROVE Lock!Abandon(t)
  <2>1. lock' = lock
    BY <1>6 DEF ExecuteEscapes, shared, objVars
  <2>2. QED
    BY <1>4, <1>6, <2>1 DEF Lock!Abandon
<1>7. QED
  BY <1>1, <1>2, <1>3, <1>5, <1>6, LockEffects DEF Lock!Next, Lock!vars

\* try_lock and unlock implement the abstract lock of ExecutorLock.
THEOREM ImplementsLock == Spec => LockSpec
<1>1. LockInv /\ LockInv' /\ [Next]_vars => [Lock!Next]_(Lock!vars)
  BY LockStepMap
<1>2. QED
  BY <1>1, LockInit, LockStep, LockInitMap, PTL DEF Spec, LockSpec, Lock!Spec

=============================================================================
