----------------------- MODULE FlatCombinerListProofs -----------------------
(***************************************************************************)
(* Theorems about the list of FlatCombiner, for any number of threads and  *)
(* slots: it keeps its shape and loses no slot, and no thread does         *)
(* anything undefined, as long as threads detach only while nobody else is *)
(* inside the object.                                                      *)
(***************************************************************************)
EXTENDS FlatCombinerChainProofs, FlatCombinerProofs

-----------------------------------------------------------------------------
(* What a step leaves alone.                                               *)

\* The local variables of u stay as they are.
Same(u) ==
  /\ pc'[u] = pc[u] /\ slot'[u] = slot[u] /\ tls'[u] = tls[u]
  /\ loaded'[u] = loaded[u] /\ gen'[u] = gen[u] /\ n'[u] = n[u] /\ i'[u] = i[u]
  /\ parent'[u] = parent[u] /\ current_node'[u] = current_node[u]
  /\ pred'[u] = pred[u] /\ new_next'[u] = new_next[u]
  /\ flag'[u] = flag[u] /\ is_alive'[u] = is_alive[u]

\* A thread writes its own local variables only.
LEMMA OthersSame ==
  ASSUME TypeOK, NEW t \in Thread, Call(t) \/ Step(t), NEW u \in Thread \ {t}
  PROVE  Same(u)
<1> USE DEF vars, shared, objVars, heapVars, locals, scanVars, deqVars, auxVars,
            Goto, Return, SetTls
<1>1. CASE Call(t)
  <2>1. CASE GetSlot(t)
    BY <2>1 DEF GetSlot, TypeOK, Same
  <2>2. CASE ApplySlot(t)
    BY <2>2 DEF ApplySlot, TypeOK, Same
  <2>3. CASE Detach(t)
    BY <2>3 DEF Detach, TypeOK, Same
  <2>4. QED
    BY <1>1, <2>1, <2>2, <2>3 DEF Call
<1>2. CASE ApplyStep(t)
  <2>1. CASE FindDone(t)
    BY <2>1 DEF FindDone, TypeOK, Same
  <2>2. CASE FindPending(t)
    BY <2>2 DEF FindPending, TypeOK, Same
  <2>3. CASE CheckQueue(t)
    BY <2>3 DEF CheckQueue, TypeOK, Same
  <2>4. CASE PushLoad(t)
    BY <2>4 DEF PushLoad, TypeOK, Same
  <2>5. CASE PushSet(t)
    BY <2>5 DEF PushSet, TypeOK, Same
  <2>6. CASE PushCas(t)
    BY <2>6 DEF PushCas, TypeOK, Same
  <2>7. CASE PushRetry(t)
    BY <2>7 DEF PushRetry, TypeOK, Same
  <2>8. CASE TryLock(t)
    BY <2>8 DEF TryLock, TypeOK, Same
  <2>9. CASE LockCas(t)
    BY <2>9 DEF LockCas, TypeOK, Same
  <2>10. CASE LockFail(t)
    BY <2>10 DEF LockFail, TypeOK, Same
  <2>11. QED
    BY <1>2, <2>1, <2>2, <2>3, <2>4, <2>5, <2>6, <2>7, <2>8, <2>9, <2>10 DEF ApplyStep
<1>3. CASE ScanStep(t)
  <2>1. CASE RunFirst(t)
    BY <2>1 DEF RunFirst, TypeOK, Same
  <2>2. CASE RunAlive(t)
    BY <2>2 DEF RunAlive, TypeOK, Same
  <2>3. CASE RunTake(t)
    BY <2>3 DEF RunTake, TypeOK, Same
  <2>4. CASE RunExpire(t)
    BY <2>4 DEF RunExpire, TypeOK, Same
  <2>5. CASE RunSkip(t)
    BY <2>5 DEF RunSkip, TypeOK, Same
  <2>6. CASE RunNext(t)
    BY <2>6 DEF RunNext, TypeOK, Same
  <2>7. QED
    BY <1>3, <2>1, <2>2, <2>3, <2>4, <2>5, <2>6 DEF ScanStep
<1>4. CASE DequeueAction(t)
  <2>1. CASE DequeueNext(t)
    BY <2>1 DEF DequeueNext, TypeOK, Same
  <2>2. CASE DequeueFlag(t)
    BY <2>2 DEF DequeueFlag, TypeOK, Same
  <2>3. CASE DequeueCas(t)
    BY <2>3 DEF DequeueCas, TypeOK, Same
  <2>4. CASE DequeueStep(t)
    BY <2>4 DEF DequeueStep, TypeOK, Same
  <2>5. CASE DequeueNull(t)
    BY <2>5 DEF DequeueNull, TypeOK, Same
  <2>6. QED
    BY <1>4, <2>1, <2>2, <2>3, <2>4, <2>5 DEF DequeueAction
<1>5. CASE ShotStep(t)
  <2>1. CASE Execute(t)
    BY <2>1 DEF Execute, TypeOK, Same
  <2>2. CASE ExecuteThrows(t)
    BY <2>2 DEF ExecuteThrows, TypeOK, Same
  <2>3. CASE ClearTask(t)
    BY <2>3 DEF ClearTask, TypeOK, Same
  <2>4. CASE ShotDone(t)
    BY <2>4 DEF ShotDone, TypeOK, Same
  <2>5. CASE Unlock(t)
    BY <2>5 DEF Unlock, EndExecutor, TypeOK, Same
  <2>6. CASE ExecuteEscapes(t)
    BY <2>6 DEF ExecuteEscapes, EndExecutor, TypeOK, Same
  <2>7. QED
    BY <1>5, <2>1, <2>2, <2>3, <2>4, <2>5, <2>6 DEF ShotStep
<1>6. CASE OrphanStep(t)
  <2>1. CASE OrphanDelete(t)
    BY <2>1 DEF OrphanDelete, TypeOK, Same
  <2>2. CASE OrphanQueued(t)
    BY <2>2 DEF OrphanQueued, TypeOK, Same
  <2>3. CASE OrphanLoad(t)
    BY <2>3 DEF OrphanLoad, TypeOK, Same
  <2>4. CASE OrphanStore(t)
    BY <2>4 DEF OrphanStore, TypeOK, Same
  <2>5. QED
    BY <1>6, <2>1, <2>2, <2>3, <2>4 DEF OrphanStep
<1>7. QED
  BY <1>1, <1>2, <1>3, <1>4, <1>5, <1>6 DEF Step

\* The list, the slots and the shot stay as they are.
KeepsMemory ==
  link' = link /\ live' = live /\ op_code' = op_code /\ combine_shot' = combine_shot

\* What is said of a thread holds as long as nothing it is about changes.
LEMMA ThreadFrame ==
  ASSUME TypeOK, NEW A, NEW u \in Thread, ThreadInv(u, A), Same(u), KeepsMemory,
         \A s : Unlinked(s)' => Unlinked(s)
  PROVE  ThreadInv(u, A)'
<1> USE DEF Same, KeepsMemory, HasData, InQueue, IsAlive, Executing
<1>1. PusherInv(u, A)'
  BY DEF ThreadInv, PusherInv
<1>2. LeaverInv(u, A)'
  BY DEF ThreadInv, LeaverInv
<1>3. ScannerInv(u, A)'
  BY DEF ThreadInv, ScannerInv
<1>4. ShotInv(u, A)'
  BY DEF ThreadInv, ShotInv
<1>5. OwnTaskInv(u, A)'
  BY DEF ThreadInv, OwnTaskInv, Left
<1>6. QED
  BY <1>1, <1>2, <1>3, <1>4, <1>5 DEF ThreadInv

\* A thread that moves inside a call and changes no slot leaves the list as it
\* is: what remains to be shown is what its next step relies on.
LEMMA ListFrame ==
  ASSUME TypeOK, NEW A, ListInv(A), NEW t \in Thread,
         \A u \in Thread \ {t} : Same(u), KeepsMemory, tls' = tls,
         Holds(t)' = Holds(t), pc[t] \notin {"idle", "deq_null"}, pc'[t] # "deq_null",
         pc'[t] \in OrphanPC => pc[t] \in OrphanPC,
         pc[t] \in {"push_set", "push_cas"} =>
           pc'[t] \in {"push_set", "push_cas"} /\ slot'[t] = slot[t],
         ThreadInv(t, A)', FirstTaskInv(A)'
  PROVE  ListInv(A)'
<1>1. \A s : Unlinked(s)' <=> Unlinked(s)
  BY DEF Unlinked, Same
<1>2. \A s : Pushing(s) => Pushing(s)'
  BY DEF Pushing, Same
<1>3. \A u \in Thread : Holds(u)' = Holds(u)
  BY DEF Holds, Same
<1>4. Chain(link', A)
  BY DEF ListInv, KeepsMemory
<1>5. Quiet'
  BY DEF ListInv, Quiet, Same
<1>6. MemoryInv(A)'
  BY DEF ListInv, MemoryInv, KeepsMemory
<1>7. LinkedInv(A)'
  BY <1>1, <1>2 DEF ListInv, LinkedInv, KeepsMemory, InQueue
<1>8. OrphanInv(A)'
  BY <1>1, <1>3 DEF ListInv, OrphanInv, KeepsMemory, IsAlive
<1>9. \A u \in Thread : ThreadInv(u, A)'
  BY <1>1, ThreadFrame DEF ListInv
<1>10. QED
  BY <1>4, <1>5, <1>6, <1>7, <1>8, <1>9 DEF ListInv

-----------------------------------------------------------------------------
(* What the invariant gives a thread inside a call.                        *)

\* A thread inside a call has a slot of its own, allocated and alive, and the
\* object exists.
LEMMA InsideFacts ==
  ASSUME OwnInv, NEW A, ListInv(A), NEW t \in Thread, pc[t] # "idle"
  PROVE  /\ slot[t] \in Slot /\ slot[t] \in live /\ slot[t] \in Node /\ IsAlive(slot[t])
         /\ slot[t] \notin {Head, Tail, Null} /\ slot[t] \in Holds(t)
         /\ \A u \in Thread \ {t} : slot[u] # slot[t] /\ tls[u] # slot[t]
         /\ Head \in live /\ Tail \in live
         /\ pc[t] \notin OrphanPC => \A u \in Thread : pc[u] \notin OrphanPC
<1>1. TypeOK /\ OwnedSlotLive
  BY DEF OwnInv, LockInv
<1>2. slot[t] # Null
  BY DEF ListInv, ThreadInv, PusherInv
<1>3. slot[t] \in Slot /\ slot[t] \in Holds(t) /\ slot[t] \in Node
  BY <1>1, <1>2 DEF TypeOK, Holds, Node
<1>4. slot[t] \in live /\ IsAlive(slot[t]) /\ slot[t] \notin {Head, Tail, Null}
  BY <1>1, <1>3, NodesAssumption DEF OwnedSlotLive
<1>5. \A u \in Thread \ {t} : slot[u] # slot[t] /\ tls[u] # slot[t]
  BY <1>1, <1>2 DEF OwnedSlotLive, Holds
<1>6. Head \in live /\ Tail \in live
  BY DEF ListInv, MemoryInv
<1>7. pc[t] \notin OrphanPC => \A u \in Thread : pc[u] \notin OrphanPC
  BY DEF ListInv, Quiet
<1>8. QED
  BY <1>3, <1>4, <1>5, <1>6, <1>7

\* The nodes on the list are allocated, and those a thread has not pushed yet or
\* has removed are not on it.
LEMMA MemberFacts ==
  ASSUME OwnInv, NEW A, ListInv(A), Head \in live
  PROVE  /\ Chain(link, A) /\ Members(A) \subseteq Node /\ Members(A) \subseteq live
         /\ Head \in Members(A) /\ Tail \in Members(A)
         /\ \A a \in Members(A) : A[a] \subseteq Members(A) /\ Head \notin A[a]
         /\ \A a \in Members(A) : \A b \in A[a] :
              a # Tail /\ a # b /\ (b = link[a].ptr \/ b \in A[link[a].ptr])
         /\ \A a \in Members(A) \ {Tail} :
              link[a].ptr \in A[a] /\ link[a].ptr \in Members(A)
         /\ \A a \in Members(A) : \A b \in A[a] : A[b] \subseteq A[a]
         /\ A[Tail] = {}
<1>1. Chain(link, A) /\ MemoryInv(A)
  BY DEF ListInv
<1>2. Members(A) \subseteq Node /\ Head \in Members(A) /\ Tail \in Members(A)
  BY <1>1, ChainFacts
<1>3. Members(A) \subseteq live
  BY <1>1, <1>2 DEF MemoryInv, Node
<1>4. /\ \A a \in Members(A) : A[a] \subseteq Members(A) /\ Head \notin A[a]
      /\ \A a \in Members(A) \ {Tail} :
           link[a].ptr \in A[a] /\ link[a].ptr \in Members(A)
  BY <1>1, ChainFacts
<1>5. \A a \in Members(A) : \A b \in A[a] :
         a # Tail /\ a # b /\ (b = link[a].ptr \/ b \in A[link[a].ptr])
  BY <1>1, ChainFacts
<1>6. A[Tail] = {} /\ \A a \in Members(A) : \A b \in A[a] : A[b] \subseteq A[a]
  BY <1>1 DEF Chain
<1>7. QED
  BY <1>1, <1>2, <1>3, <1>4, <1>5, <1>6

-----------------------------------------------------------------------------
(* apply_slot's loop.                                                      *)

\* A thread that does not run run_executor is bound by PusherInv only.
LEMMA WaiterThread ==
  ASSUME NEW A, NEW t \in Thread, pc'[t] \in ApplyPC \union {"idle"}, i'[t] = 0,
         PusherInv(t, A)'
  PROVE  ThreadInv(t, A)'
<1> USE DEF ApplyPC
<1>1. LeaverInv(t, A)'
  BY DEF LeaverInv
<1>2. ScannerInv(t, A)'
  BY DEF ScannerInv, ScanPC, TargetPC, SearchPC
<1>3. ShotInv(t, A)'
  BY DEF ShotInv, ScanPC, TargetPC, SearchPC, ShotPC
<1>4. OwnTaskInv(t, A)'
  BY DEF OwnTaskInv, Executing, ExecutorPC, DequeuePC
<1>5. QED
  BY <1>1, <1>2, <1>3, <1>4 DEF ThreadInv

\* Element 0 of _combine_shot stays as good as it was while a thread goes round
\* apply_slot's loop.
LEMMA WaiterFirstTask ==
  ASSUME NEW A, NEW t \in Thread, FirstTaskInv(A), \A u \in Thread \ {t} : Same(u),
         KeepsMemory, pc[t] \in ApplyPC, pc'[t] \in ApplyPC \union {"idle"},
         pc'[t] \in ApplyPC =>
           slot'[t] = slot[t] /\ (pc[t] # "has_data" \/ HasData(slot[t])),
         pc'[t] \in {"try_lock", "lock_cas"} =>
           \/ pc[t] \in {"try_lock", "lock_cas"} \/ slot[t] \in Members(A)
           \/ \E u \in Thread : Executing(u)
  PROVE  FirstTaskInv(A)'
<1>1. CASE combine_shot[0] \in live /\ IsAlive(combine_shot[0])
  BY <1>1 DEF FirstTaskInv, KeepsMemory, IsAlive
<1>2. CASE \E u \in Thread : /\ pc[u] \in ScanPC \union {"run_first"}
                             /\ HasData(slot[u]) /\ slot[u] \in Members(A)
  <2>1. PICK u \in Thread : /\ pc[u] \in ScanPC \union {"run_first"}
                            /\ HasData(slot[u]) /\ slot[u] \in Members(A)
    BY <1>2
  <2>2. u # t
    BY <2>1 DEF ApplyPC, ScanPC, TargetPC, SearchPC
  <2>3. pc'[u] = pc[u] /\ slot'[u] = slot[u] /\ op_code' = op_code
    BY <2>2 DEF Same, KeepsMemory
  <2>4. QED
    BY <2>1, <2>3 DEF FirstTaskInv, HasData
<1>3. CASE \A u \in Thread :
             /\ ~Executing(u)
             /\ pc[u] \in ApplyPC => HasData(slot[u])
             /\ pc[u] \in {"try_lock", "lock_cas"} => slot[u] \in Members(A)
  <2>1. ~Executing(t)'
    BY DEF Executing, ApplyPC, ExecutorPC, DequeuePC
  <2>2. pc'[t] \in ApplyPC => (HasData(slot[t]))'
    BY <1>3 DEF HasData, KeepsMemory
  <2>3. pc'[t] \in {"try_lock", "lock_cas"} => slot'[t] \in Members(A)
    BY <1>3 DEF ApplyPC
  <2>4. \A u \in Thread \ {t} :
          /\ ~Executing(u)'
          /\ pc'[u] \in ApplyPC => (HasData(slot[u]))'
          /\ pc'[u] \in {"try_lock", "lock_cas"} => slot'[u] \in Members(A)
    BY <1>3 DEF Same, Executing, HasData, KeepsMemory
  <2>5. QED
    BY <2>1, <2>2, <2>3, <2>4 DEF FirstTaskInv
<1>4. QED
  BY <1>1, <1>2, <1>3 DEF FirstTaskInv

\* The loads, retries and lost races of apply_slot.
LEMMA WaiterStep ==
  ASSUME OwnInv, NEW A, ListInv(A), NEW t \in Thread,
         \/ FindDone(t) \/ FindPending(t) \/ CheckQueue(t) \/ PushLoad(t)
         \/ PushRetry(t) \/ TryLock(t) \/ LockFail(t)
  PROVE  ListInv(A)'
<1>1. TypeOK /\ SlotProtocol /\ PusherInv(t, A) /\ LinkedInv(A) /\ FirstTaskInv(A)
  BY DEF OwnInv, LockInv, ListInv, ThreadInv
<1>2. pc[t] \in ApplyPC /\ pc[t] # "idle" /\ pc[t] \notin OrphanPC
  BY DEF FindDone, FindPending, CheckQueue, PushLoad, PushRetry, TryLock, LockFail,
         At, ApplyPC, OrphanPC
<1>3. KeepsMemory /\ tls' = tls /\ \A u \in Thread \ {t} : Same(u)
  <2>1. KeepsMemory /\ tls' = tls
    BY DEF FindDone, FindPending, CheckQueue, PushLoad, PushRetry, TryLock, LockFail,
           KeepsMemory, shared, objVars, heapVars
  <2>2. QED
    BY <1>1, <2>1, OthersSame DEF Step, ApplyStep
<1>4. i'[t] = 0
  <2>1. i' = i
    BY DEF FindDone, FindPending, CheckQueue, PushLoad, PushRetry, TryLock, LockFail,
           locals, scanVars
  <2>2. QED
    BY <1>2, <2>1 DEF ListInv, ThreadInv, ShotInv, ApplyPC
<1>5. slot[t] \in live /\ slot[t] # Head /\ slot[t] # Tail /\ slot[t] \in Slot
  BY <1>2, InsideFacts
<1>6. link[Head].ptr # Null /\ Head \in live
  BY <1>2, InsideFacts, ChainFacts, NodesAssumption DEF ListInv
<1>7. /\ pc'[t] \in {"idle"} \union ApplyPC
      /\ pc'[t] \in ApplyPC =>
           slot'[t] = slot[t] /\ (pc[t] # "has_data" \/ HasData(slot[t]))
      /\ Holds(t)' = Holds(t)
  <2>1. CASE FindDone(t)
    <3>1. slot'[t] = Null /\ tls' = tls /\ pc'[t] = "idle" /\ slot[t] = tls[t]
      BY <1>1, <1>2, <2>1 DEF FindDone, Return, Goto, shared, SlotProtocol, TypeOK
    <3>2. QED
      BY <3>1 DEF Holds, ApplyPC
  <2>2. CASE FindPending(t)
    <3>1. slot' = slot /\ tls' = tls /\ HasData(slot[t]) /\ pc'[t] = "in_queue"
      BY <1>1, <2>2 DEF FindPending, Goto, shared, locals, TypeOK
    <3>2. QED
      BY <3>1 DEF Holds, ApplyPC
  <2>3. CASE CheckQueue(t)
    BY <1>1, <2>3 DEF CheckQueue, At, Goto, shared, locals, Holds, ApplyPC, TypeOK
  <2>4. CASE PushLoad(t) \/ PushRetry(t)
    BY <1>1, <2>4, Labels DEF PushLoad, PushRetry, At, Goto, shared, Holds, ApplyPC, TypeOK
  <2>5. CASE TryLock(t) \/ LockFail(t)
    BY <1>1, <2>5, Labels DEF TryLock, LockFail, At, Goto, shared, Holds, ApplyPC, TypeOK
  <2>6. QED
    BY <2>1, <2>2, <2>3, <2>4, <2>5
<1>8. pc'[t] = "try_lock" =>
        slot[t] \in Members(A) \/ \E u \in Thread : Executing(u)
  <2>1. CASE CheckQueue(t)
    <3>1. SUFFICES ASSUME InQueue(slot[t])
                   PROVE  slot[t] \in Members(A) \/ \E u \in Thread : Executing(u)
      BY <1>1, <2>1 DEF CheckQueue, Goto, TypeOK
    <3>2. ~Pushing(slot[t])
      BY <1>2, <2>1, InsideFacts DEF Pushing, CheckQueue, At
    <3>3. slot[t] \in Members(A) \/ Unlinked(slot[t])
      BY <1>1, <1>5, <3>1, <3>2 DEF LinkedInv
    <3>4. QED
      BY <3>3 DEF Unlinked, Executing, ExecutorPC, DequeuePC
  <2>2. CASE ~CheckQueue(t)
    BY <1>1, <2>2, Labels DEF FindDone, FindPending, PushLoad, PushRetry, TryLock, LockFail,
           Goto, Return, TypeOK
  <2>3. QED
    BY <2>1, <2>2
<1>9. pc'[t] = "lock_cas" => pc[t] = "try_lock"
  BY <1>1, Labels DEF FindDone, FindPending, CheckQueue, PushLoad, PushRetry, TryLock,
         LockFail, At, Goto, Return, TypeOK
<1>10. FirstTaskInv(A)'
  BY <1>1, <1>2, <1>3, <1>7, <1>8, <1>9, WaiterFirstTask
<1>11. \A s : Unlinked(s)' => Unlinked(s)
  BY <1>3, <1>7 DEF Unlinked, Same, ApplyPC
<1>12. PusherInv(t, A)'
  <2>1. CASE FindDone(t)
    BY <1>1, <2>1 DEF FindDone, Return, Goto, PusherInv, PushPC, TypeOK
  <2>2. CASE FindPending(t) \/ TryLock(t) \/ LockFail(t)
    <3>1. pc'[t] \in {"in_queue", "has_data", "lock_cas"} /\ slot' = slot
      BY <1>1, <2>2, Labels DEF FindPending, TryLock, LockFail, Goto, locals, TypeOK
    <3>2. QED
      BY <1>1, <1>2, <3>1 DEF PusherInv, PushPC
  <2>3. CASE CheckQueue(t)
    <3>1. slot' = slot
      BY <2>3 DEF CheckQueue, locals
    <3>2. CASE InQueue(slot[t])
      <4>1. pc'[t] = "try_lock"
        BY <1>1, <2>3, <3>2 DEF CheckQueue, Goto, TypeOK
      <4>2. QED
        BY <1>1, <1>2, <3>1, <4>1 DEF PusherInv, PushPC
    <3>3. CASE ~InQueue(slot[t])
      <4>1. pc'[t] = "push_load"
        BY <1>1, <2>3, <3>3 DEF CheckQueue, Goto, TypeOK
      <4>2. slot[t] \notin Members(A)
        BY <1>5, <3>3, ChainFacts DEF ListInv, InQueue
      <4>3. ~Unlinked(slot[t])
        BY <3>3 DEF Unlinked, ListInv, ThreadInv, ScannerInv
      <4>4. QED
        BY <1>1, <1>2, <1>11, <3>1, <4>1, <4>2, <4>3 DEF PusherInv
    <3>4. QED
      BY <3>2, <3>3
  <2>4. CASE PushLoad(t) \/ PushRetry(t)
    <3>1. pc'[t] = "push_set" /\ loaded'[t] = link[Head].ptr /\ slot' = slot
      BY <1>1, <2>4, Labels DEF PushLoad, PushRetry, Goto, TypeOK
    <3>2. slot[t] \notin Members(A) /\ ~Unlinked(slot[t]) /\ slot[t] # Null
      BY <1>1, <2>4 DEF PushLoad, PushRetry, At, PusherInv, PushPC
    <3>3. QED
      BY <1>6, <1>11, <3>1, <3>2 DEF PusherInv
  <2>5. QED
    BY <2>1, <2>2, <2>3, <2>4
<1>13. ThreadInv(t, A)'
  BY <1>4, <1>7, <1>12, WaiterThread
<1>14. pc[t] \in {"push_set", "push_cas"} => pc'[t] \in {"push_set", "push_cas"}
  <2>1. pc[t] \in {"push_set", "push_cas"} => PushRetry(t)
    BY DEF FindDone, FindPending, CheckQueue, PushLoad, TryLock, LockFail, At
  <2>2. PushRetry(t) => pc'[t] = "push_set"
    BY <1>1, Labels DEF PushRetry, Goto, TypeOK
  <2>3. QED
    BY <2>1, <2>2
<1>15. /\ pc[t] # "deq_null" /\ pc'[t] # "deq_null" /\ pc'[t] \notin OrphanPC
       /\ pc'[t] \in {"push_set", "push_cas"} => pc'[t] \in ApplyPC
  BY <1>2, <1>7 DEF ApplyPC, OrphanPC
<1>16. QED
  BY <1>1, <1>2, <1>3, <1>7, <1>10, <1>13, <1>14, <1>15, ListFrame

-----------------------------------------------------------------------------
(* The executor: steps that write its local variables only.                *)

\* Labels that stand for one another.
LEMMA Places ==
  /\ ScanPC \subseteq ExecutorPC /\ ShotPC \subseteq ExecutorPC
  /\ ExecutorPC = ScanPC \union ShotPC \union {"run_first", "unlock"}
  /\ ScanPC \intersect ShotPC = {} /\ DequeuePC \subseteq ScanPC /\ TargetPC \subseteq ScanPC
  /\ \A l \in ExecutorPC : l \notin {"idle"} \union ApplyPC \union PushPC \union OrphanPC
  BY DEF ExecutorPC, ScanPC, ShotPC, DequeuePC, TargetPC, SearchPC, ApplyPC, PushPC, OrphanPC

\* A scan that comes to its end with an operation of the executor's own has taken
\* a task, so that element 0 of _combine_shot is good.
LEMMA ExecutorFirstTask ==
  ASSUME OwnInv, TypeOK', NEW A, ListInv(A), NEW t \in Thread, Executing(t),
         KeepsMemory, slot'[t] = slot[t],
         pc[t] \in ScanPC \union {"run_first"} => pc'[t] \in ScanPC \union ShotPC,
         ShotInv(t, A)', OwnTaskInv(t, A)'
  PROVE  FirstTaskInv(A)'
<1>1. MutualExclusion /\ FirstTaskInv(A) /\ MemoryInv(A)
  BY DEF OwnInv, LockInv, ListInv
<1>2. CASE combine_shot[0] \in live /\ IsAlive(combine_shot[0])
  BY <1>2 DEF FirstTaskInv, KeepsMemory, IsAlive
<1>3. CASE \E u \in Thread : /\ pc[u] \in ScanPC \union {"run_first"}
                             /\ HasData(slot[u]) /\ slot[u] \in Members(A)
  <2>1. pc[t] \in ScanPC \union {"run_first"} /\ HasData(slot[t]) /\ slot[t] \in Members(A)
    BY <1>1, <1>3, Places DEF MutualExclusion, Executing
  <2>2. CASE pc'[t] \in ScanPC
    BY <2>1, <2>2 DEF FirstTaskInv, HasData, KeepsMemory
  <2>3. CASE pc'[t] \in ShotPC
    <3>1. slot[t] \in Left(t)'
      BY <2>1, <2>3, Places DEF OwnTaskInv, Executing, HasData, KeepsMemory
    <3>2. PICK k \in i'[t] .. n'[t] - 1 : TRUE
      BY <3>1 DEF Left
    <3>3. i'[t] \in Nat /\ n'[t] \in Nat
      BY SizesAssumption DEF TypeOK
    <3>4. 0 \in 0 .. n'[t] - 1
      BY <3>2, <3>3
    <3>5. combine_shot[0] \in Members(A) \intersect Slot /\ IsAlive(combine_shot[0])
      BY <2>3, <3>4 DEF ShotInv, KeepsMemory, IsAlive
    <3>6. QED
      BY <1>1, <3>5 DEF FirstTaskInv, MemoryInv, KeepsMemory, IsAlive
  <2>4. QED
    BY <2>1, <2>2, <2>3
<1>4. QED
  BY <1>1, <1>2, <1>3 DEF FirstTaskInv

\* What remains to be shown of a step the executor takes by itself.
LEMMA ExecutorFrame ==
  ASSUME OwnInv, OwnInv', NEW A, ListInv(A), NEW t \in Thread,
         pc[t] \in ExecutorPC \ {"deq_null"}, pc'[t] \in ExecutorPC \ {"deq_null"},
         \A u \in Thread \ {t} : Same(u), KeepsMemory, tls' = tls, slot' = slot,
         pc[t] \in ScanPC \union {"run_first"} => pc'[t] \in ScanPC \union ShotPC,
         ScannerInv(t, A)', ShotInv(t, A)', OwnTaskInv(t, A)'
  PROVE  ListInv(A)'
<1>1. TypeOK /\ TypeOK'
  BY DEF OwnInv, LockInv
<1>2. FirstTaskInv(A)'
  BY <1>1, ExecutorFirstTask DEF Executing
<1>3. /\ pc[t] \notin {"idle", "push_set", "push_cas"}
      /\ pc'[t] \notin {"idle", "push_set", "push_cas"} \union PushPC \union OrphanPC
  BY Places DEF PushPC
<1>4. PusherInv(t, A)'
  BY <1>3 DEF PusherInv, PushPC, ListInv, ThreadInv
<1>5. LeaverInv(t, A)'
  BY <1>3 DEF LeaverInv, OrphanPC
<1>6. ThreadInv(t, A)'
  BY <1>4, <1>5 DEF ThreadInv
<1>7. Holds(t)' = Holds(t)
  BY DEF Holds
<1>8. QED
  BY <1>1, <1>2, <1>3, <1>6, <1>7, ListFrame

\* try_lock succeeds: before it scans, the executor knows nothing.
LEMMA LockCasStep ==
  ASSUME OwnInv, NEW A, ListInv(A), NEW t \in Thread, LockCas(t)
  PROVE  ListInv(A)'
<1>1. TypeOK /\ FirstTaskInv(A)
  BY DEF OwnInv, LockInv, ListInv
<1>2. /\ KeepsMemory /\ tls' = tls /\ slot' = slot /\ i' = i
      /\ pc[t] = "lock_cas" /\ pc'[t] = "run_first"
  BY <1>1 DEF LockCas, At, Goto, KeepsMemory, heapVars, scanVars, TypeOK
<1>3. \A u \in Thread \ {t} : Same(u)
  BY <1>1, OthersSame DEF Step, ApplyStep
<1>4. FirstTaskInv(A)'
  <2>1. CASE combine_shot[0] \in live /\ IsAlive(combine_shot[0])
    BY <1>2, <2>1 DEF FirstTaskInv, KeepsMemory, IsAlive
  <2>2. CASE \E u \in Thread : /\ pc[u] \in ScanPC \union {"run_first"}
                               /\ HasData(slot[u]) /\ slot[u] \in Members(A)
    <3>1. PICK u \in Thread : /\ pc[u] \in ScanPC \union {"run_first"}
                              /\ HasData(slot[u]) /\ slot[u] \in Members(A)
      BY <2>2
    <3>2. u # t
      BY <1>2, <3>1 DEF ScanPC, TargetPC, SearchPC
    <3>3. pc'[u] = pc[u]
      BY <1>3, <3>2 DEF Same
    <3>4. QED
      BY <1>2, <3>1, <3>3 DEF FirstTaskInv, HasData, KeepsMemory
  <2>3. CASE \A u \in Thread :
               /\ ~Executing(u)
               /\ pc[u] \in ApplyPC => HasData(slot[u])
               /\ pc[u] \in {"try_lock", "lock_cas"} => slot[u] \in Members(A)
    <3>1. HasData(slot[t]) /\ slot[t] \in Members(A)
      BY <1>2, <2>3 DEF ApplyPC
    <3>2. QED
      BY <1>2, <3>1 DEF FirstTaskInv, HasData, KeepsMemory
  <2>4. QED
    BY <1>1, <2>1, <2>2, <2>3 DEF FirstTaskInv
<1>5. PusherInv(t, A)' /\ LeaverInv(t, A)'
  BY <1>2 DEF PusherInv, PushPC, LeaverInv, ListInv, ThreadInv
<1>6. ScannerInv(t, A)' /\ ShotInv(t, A)' /\ OwnTaskInv(t, A)'
  <2>1. ScannerInv(t, A)'
    BY <1>2 DEF ScannerInv, ScanPC, TargetPC, SearchPC
  <2>2. i'[t] = 0
    BY <1>2 DEF ListInv, ThreadInv, ShotInv
  <2>3. ShotInv(t, A)'
    BY <1>2, <2>2 DEF ShotInv, ScanPC, TargetPC, SearchPC, ShotPC
  <2>4. OwnTaskInv(t, A)'
    BY <1>2 DEF OwnTaskInv, DequeuePC, ShotPC
  <2>5. QED
    BY <2>1, <2>3, <2>4
<1>7. ThreadInv(t, A)'
  BY <1>5, <1>6 DEF ThreadInv
<1>8. Holds(t)' = Holds(t)
  BY <1>2 DEF Holds
<1>9. pc'[t] \notin OrphanPC
  BY <1>2 DEF OrphanPC
<1>10. QED
  BY <1>1, <1>2, <1>3, <1>4, <1>7, <1>8, <1>9, ListFrame

\* An executor's own slot is alive and behind the head, if it is on the list.
LEMMA ExecutorFacts ==
  ASSUME OwnInv, NEW A, ListInv(A), NEW t \in Thread, pc[t] \in ExecutorPC
  PROVE  /\ TypeOK /\ Head \in live /\ slot[t] \in Slot /\ IsAlive(slot[t])
         /\ Members(A) \subseteq Node /\ Members(A) \subseteq live
         /\ Head \in Members(A) \ {Tail} /\ slot[t] \notin {Head, Tail}
         /\ Members(A) \ {Head, Tail} \subseteq Slot
         /\ slot[t] \in Members(A) => slot[t] \in A[Head]
         /\ ScannerInv(t, A) /\ ShotInv(t, A) /\ OwnTaskInv(t, A)
<1>1. TypeOK
  BY DEF OwnInv, LockInv
<1>2. pc[t] # "idle"
  BY Places
<1>3. /\ Head \in live /\ slot[t] \in Slot /\ IsAlive(slot[t])
      /\ slot[t] \notin {Head, Tail}
  BY <1>2, InsideFacts
<1>4. /\ Members(A) \subseteq Node /\ Members(A) \subseteq live
      /\ Head \in Members(A) \ {Tail}
  BY <1>3, MemberFacts, NodesAssumption
<1>5. Members(A) \ {Head, Tail} \subseteq Slot
  BY <1>4 DEF Node
<1>6. slot[t] \in Members(A) => slot[t] \in A[Head]
  BY <1>3 DEF Members
<1>7. ScannerInv(t, A) /\ ShotInv(t, A) /\ OwnTaskInv(t, A)
  BY DEF ListInv, ThreadInv
<1>8. QED
  BY <1>1, <1>3, <1>4, <1>5, <1>6, <1>7

\* The scan starts at the head, with everything on the list before it.
LEMMA RunFirstStep ==
  ASSUME OwnInv, OwnInv', NEW A, ListInv(A), NEW t \in Thread, RunFirst(t)
  PROVE  ListInv(A)'
<1> DEFINE c == link[Head].ptr
<1>1. TypeOK
  BY DEF OwnInv, LockInv
<1>2. /\ KeepsMemory /\ tls' = tls /\ slot' = slot /\ i' = i
      /\ pc[t] = "run_first" /\ pc'[t] = ScanFrom(c)
      /\ parent'[t] = Head /\ current_node'[t] = c /\ n'[t] = 0
  BY <1>1 DEF RunFirst, At, Goto, KeepsMemory, shared, objVars, heapVars, TypeOK
<1>3. \A u \in Thread \ {t} : Same(u)
  BY <1>1, OthersSame DEF Step, ScanStep
<1>4. pc[t] \in ExecutorPC \ {"deq_null"}
  BY <1>2 DEF ExecutorPC
<1>5. /\ Head \in Members(A) \ {Tail} /\ slot[t] \notin {Head, Tail}
      /\ slot[t] \in Members(A) => slot[t] \in A[Head]
      /\ ShotInv(t, A) /\ Head \in live
  BY <1>4, ExecutorFacts
<1>6. /\ c \in A[Head] /\ \A b \in A[Head] : b = c \/ b \in A[c]
      /\ A[Tail] = {}
  BY <1>5, MemberFacts
<1>7. \/ c = Tail /\ pc'[t] = "shot_exec"
      \/ c # Tail /\ pc'[t] = "run_alive"
  BY <1>2 DEF ScanFrom
<1> HIDE DEF c
<1>8. ScannerInv(t, A)'
  BY <1>2, <1>5, <1>6, <1>7 DEF ScannerInv, ScanPC, TargetPC, SearchPC
<1>9. ShotInv(t, A)'
  <2>1. i'[t] = 0
    BY <1>2, <1>5 DEF ShotInv
  <2>2. 0 .. n'[t] - 1 = {} /\ i'[t] .. n'[t] - 1 = {}
    BY <1>2, <2>1
  <2>3. QED
    BY <2>1, <2>2 DEF ShotInv
<1>10. OwnTaskInv(t, A)'
  BY <1>2, <1>5, <1>6, <1>7 DEF OwnTaskInv, DequeuePC, ShotPC
<1>11. pc'[t] \in ScanPC \union ShotPC /\ pc'[t] \in ExecutorPC \ {"deq_null"}
  BY <1>7 DEF ScanPC, TargetPC, ShotPC, ExecutorPC
<1>12. QED
  BY <1>2, <1>3, <1>4, <1>8, <1>9, <1>10, <1>11, ExecutorFrame

\* The scan asks whether the slot is alive.
LEMMA RunAliveStep ==
  ASSUME OwnInv, OwnInv', NEW A, ListInv(A), NEW t \in Thread, RunAlive(t)
  PROVE  ListInv(A)'
<1> DEFINE c == current_node[t]
<1>1. TypeOK
  BY DEF OwnInv, LockInv
<1>2. /\ KeepsMemory /\ tls' = tls /\ slot' = slot /\ i' = i /\ n' = n
      /\ parent' = parent /\ current_node' = current_node /\ pc[t] = "run_alive"
      /\ \/ IsAlive(c) /\ pc'[t] = "run_data"
         \/ ~IsAlive(c) /\ pc'[t] = "deq_next"
  BY <1>1 DEF RunAlive, At, Goto, KeepsMemory, shared, objVars, heapVars, scanVars, TypeOK
<1>3. \A u \in Thread \ {t} : Same(u)
  BY <1>1, OthersSame DEF Step, ScanStep
<1>4. pc[t] \in ExecutorPC \ {"deq_null"}
  BY <1>2 DEF ExecutorPC
<1>5. /\ IsAlive(slot[t]) /\ Head \in live
      /\ ScannerInv(t, A) /\ ShotInv(t, A) /\ OwnTaskInv(t, A)
  BY <1>4, ExecutorFacts
<1>6. parent[t] \in Members(A) /\ c \in A[parent[t]] \ {Tail} /\ parent[t] # Tail
  BY <1>2, <1>5 DEF ScannerInv, ScanPC, TargetPC
<1>7. A[c] \subseteq A[parent[t]]
  BY <1>5, <1>6, MemberFacts
<1>8. ScannerInv(t, A)'
  BY <1>2, <1>6 DEF ScannerInv, ScanPC, TargetPC, SearchPC, IsAlive, KeepsMemory
<1>9. ShotInv(t, A)'
  BY <1>2, <1>5 DEF ShotInv, ScanPC, TargetPC, ShotPC, IsAlive, HasData, KeepsMemory
<1>10. OwnTaskInv(t, A)'
  BY <1>2, <1>4, <1>5, <1>6, <1>7
     DEF OwnTaskInv, Executing, DequeuePC, ShotPC, Left, IsAlive, HasData, KeepsMemory
<1>11. pc'[t] \in ScanPC \union ShotPC /\ pc'[t] \in ExecutorPC \ {"deq_null"}
  BY <1>2 DEF ScanPC, TargetPC, ShotPC, ExecutorPC, DequeuePC
<1>12. QED
  BY <1>2, <1>3, <1>4, <1>8, <1>9, <1>10, <1>11, ExecutorFrame

\* An idle slot expires or stays; it is not the executor's own with an operation.
LEMMA RunIdleStep ==
  ASSUME OwnInv, OwnInv', NEW A, ListInv(A), NEW t \in Thread,
         RunExpire(t) \/ RunSkip(t)
  PROVE  ListInv(A)'
<1> DEFINE c == current_node[t]
<1>1. TypeOK
  BY DEF OwnInv, LockInv
<1>2. /\ KeepsMemory /\ tls' = tls /\ slot' = slot /\ i' = i /\ n' = n
      /\ current_node' = current_node /\ pc[t] = "run_data" /\ ~HasData(c)
      /\ \/ pc'[t] = "deq_next" /\ parent'[t] = parent[t]
         \/ pc'[t] = "run_next" /\ parent'[t] = c
  <2>1. CASE RunExpire(t)
    BY <1>1, <2>1 DEF RunExpire, At, Goto, KeepsMemory, shared, objVars, heapVars,
                      locals, scanVars, TypeOK
  <2>2. CASE RunSkip(t)
    BY <1>1, <2>2 DEF RunSkip, At, Goto, KeepsMemory, shared, objVars, heapVars, TypeOK
  <2>3. QED
    BY <2>1, <2>2
<1>3. \A u \in Thread \ {t} : Same(u)
  BY <1>1, OthersSame DEF Step, ScanStep
<1>4. pc[t] \in ExecutorPC \ {"deq_null"}
  BY <1>2 DEF ExecutorPC
<1>5. /\ Head \in live
      /\ ScannerInv(t, A) /\ ShotInv(t, A) /\ OwnTaskInv(t, A)
  BY <1>4, ExecutorFacts
<1>6. parent[t] \in Members(A) /\ c \in A[parent[t]] \ {Tail} /\ parent[t] # Tail
  BY <1>2, <1>5 DEF ScannerInv, ScanPC, TargetPC
<1>7. A[c] \subseteq A[parent[t]] /\ c \in Members(A)
  BY <1>5, <1>6, MemberFacts
<1>8. ScannerInv(t, A)'
  BY <1>2, <1>6, <1>7 DEF ScannerInv, ScanPC, TargetPC, SearchPC
<1>9. ShotInv(t, A)'
  <2>1. /\ i[t] = 0
        /\ \A k \in 0 .. n[t] - 1 :
             /\ combine_shot[k] \in Members(A) \intersect Slot
             /\ IsAlive(combine_shot[k])
             /\ parent[t] = combine_shot[k] \/ parent[t] \in A[combine_shot[k]]
        /\ \A j, k \in 0 .. n[t] - 1 : combine_shot[j] = combine_shot[k] => j = k
        /\ \A k \in i[t] .. n[t] - 1 : HasData(combine_shot[k])
    BY <1>2, <1>5 DEF ShotInv, ScanPC, TargetPC
  <2>2. \A k \in 0 .. n[t] - 1 : c \in A[combine_shot[k]]
    BY <1>5, <1>6, <2>1, MemberFacts
  <2>3. QED
    BY <1>2, <2>1, <2>2 DEF ShotInv, IsAlive, HasData, KeepsMemory
<1>10. OwnTaskInv(t, A)'
  <2>1. HasData(slot[t]) /\ slot[t] \in Members(A) =>
          slot[t] \in Left(t) \union A[c] /\ slot[t] # c
    BY <1>2, <1>4, <1>5 DEF OwnTaskInv, Executing
  <2>2. QED
    BY <1>2, <1>7, <2>1
       DEF OwnTaskInv, Executing, DequeuePC, ShotPC, Left, HasData, KeepsMemory
<1>11. pc'[t] \in ScanPC \union ShotPC /\ pc'[t] \in ExecutorPC \ {"deq_null"}
  BY <1>2 DEF ScanPC, TargetPC, ShotPC, ExecutorPC, DequeuePC
<1>12. QED
  BY <1>2, <1>3, <1>4, <1>8, <1>9, <1>10, <1>11, ExecutorFrame

\* The scan moves on.
LEMMA RunNextStep ==
  ASSUME OwnInv, OwnInv', NEW A, ListInv(A), NEW t \in Thread, RunNext(t)
  PROVE  ListInv(A)'
<1> DEFINE p == parent[t]
           c == link[p].ptr
<1>1. TypeOK
  BY DEF OwnInv, LockInv
<1>2. pc[t] = "run_next"
  BY DEF RunNext, At
<1>3. \A u \in Thread \ {t} : Same(u)
  BY <1>1, OthersSame DEF Step, ScanStep
<1>4. pc[t] \in ExecutorPC \ {"deq_null"}
  BY <1>2 DEF ExecutorPC
<1>5. /\ Head \in live /\ slot[t] # Tail
      /\ ScannerInv(t, A) /\ ShotInv(t, A) /\ OwnTaskInv(t, A)
  BY <1>4, ExecutorFacts
<1>6. p \in Members(A) \ {Tail} /\ current_node[t] = p
  BY <1>2, <1>5 DEF ScannerInv, ScanPC
<1>7. /\ KeepsMemory /\ tls' = tls /\ slot' = slot /\ i' = i /\ n' = n
      /\ parent' = parent /\ current_node'[t] = c /\ pc'[t] = ScanFrom(c)
  BY <1>1, <1>6 DEF RunNext, Goto, KeepsMemory, shared, objVars, heapVars, TypeOK
<1>8. /\ c \in A[p] /\ \A b \in A[p] : b = c \/ b \in A[c]
      /\ A[Tail] = {}
  BY <1>5, <1>6, MemberFacts
<1>9. \/ c = Tail /\ pc'[t] = "shot_exec"
      \/ c # Tail /\ pc'[t] = "run_alive"
  BY <1>7 DEF ScanFrom
<1> HIDE DEF c
<1>10. ScannerInv(t, A)'
  BY <1>6, <1>7, <1>8, <1>9 DEF ScannerInv, ScanPC, TargetPC, SearchPC
<1>11. ShotInv(t, A)'
  BY <1>2, <1>5, <1>7, <1>9
     DEF ShotInv, ScanPC, TargetPC, ShotPC, IsAlive, HasData, KeepsMemory
<1>12. OwnTaskInv(t, A)'
  <2>1. HasData(slot[t]) /\ slot[t] \in Members(A) => slot[t] \in Left(t) \union A[p]
    BY <1>2, <1>4, <1>5 DEF OwnTaskInv, Executing
  <2>2. QED
    BY <1>5, <1>7, <1>8, <1>9, <2>1
       DEF OwnTaskInv, DequeuePC, ShotPC, Left, HasData, KeepsMemory
<1>13. pc'[t] \in ScanPC \union ShotPC /\ pc'[t] \in ExecutorPC \ {"deq_null"}
  BY <1>9 DEF ScanPC, TargetPC, ShotPC, ExecutorPC
<1>14. QED
  BY <1>3, <1>4, <1>7, <1>10, <1>11, <1>12, <1>13, ExecutorFrame

\* dequeue_slot looks for the predecessor: what it has found of it so far.
LEMMA SearchStep ==
  ASSUME OwnInv, OwnInv', NEW A, ListInv(A), NEW t \in Thread,
         DequeueNext(t) \/ DequeueFlag(t) \/ DequeueStep(t) \/ DequeueCas(t),
         link' = link
  PROVE  ListInv(A)'
<1> DEFINE c == current_node[t]
<1>1. TypeOK /\ link \in [Node -> TaggedPointer]
  BY DEF OwnInv, LockInv, TypeOK
<1>2. /\ KeepsMemory /\ tls' = tls /\ slot' = slot /\ i' = i /\ n' = n
      /\ parent' = parent /\ current_node' = current_node
      /\ pc[t] \in DequeuePC \ {"deq_null"}
  <2>1. CASE DequeueNext(t) \/ DequeueFlag(t) \/ DequeueStep(t)
    BY <2>1 DEF DequeueNext, DequeueFlag, DequeueStep, At, KeepsMemory, DequeuePC,
                shared, objVars, heapVars, scanVars
  <2>2. CASE DequeueCas(t)
    BY <2>2 DEF DequeueCas, At, KeepsMemory, DequeuePC, objVars, locals, scanVars
  <2>3. QED
    BY <2>1, <2>2
<1>3. \A u \in Thread \ {t} : Same(u)
  BY <1>1, OthersSame DEF Step, DequeueAction
<1>4. pc[t] \in ExecutorPC \ {"deq_null"} /\ pc[t] \in TargetPC /\ pc[t] \in ScanPC
  BY <1>2 DEF ExecutorPC, DequeuePC, TargetPC, SearchPC, ScanPC
<1>5. /\ Head \in live
      /\ ScannerInv(t, A) /\ ShotInv(t, A) /\ OwnTaskInv(t, A)
  BY <1>4, ExecutorFacts
<1>6. parent[t] \in Members(A) \ {Tail} /\ c \in A[parent[t]] \ {Tail}
  BY <1>4, <1>5 DEF ScannerInv
<1>7. /\ pc'[t] \in SearchPC
      /\ pred'[t] \in Members(A) /\ c \in A[pred'[t]]
      /\ new_next'[t] = link[c].ptr
      /\ pc'[t] = "deq_cas" => flag'[t] = IsAlive(pred'[t])
      /\ pc'[t] = "deq_step" => link[pred'[t]].ptr # c
  <2>0. pc[t] \in SearchPC =>
          /\ pred[t] \in Members(A) /\ c \in A[pred[t]]
          /\ new_next[t] = link[c].ptr
    BY <1>5 DEF ScannerInv
  <2>1. CASE DequeueNext(t)
    <3>1. pred'[t] = parent[t] /\ new_next'[t] = link[c].ptr /\ pc'[t] = "deq_flag"
      BY <1>1, <2>1 DEF DequeueNext, Goto, TypeOK
    <3>2. QED
      BY <1>6, <3>1 DEF SearchPC
  <2>2. CASE DequeueFlag(t)
    <3>1. /\ pred' = pred /\ new_next' = new_next /\ pc'[t] = "deq_cas"
          /\ flag'[t] = IsAlive(pred[t]) /\ pc[t] = "deq_flag"
      BY <1>1, <2>2 DEF DequeueFlag, At, Goto, TypeOK
    <3>2. QED
      BY <2>0, <3>1 DEF SearchPC
  <2>3. CASE DequeueStep(t)
    <3>1. /\ pred'[t] = link[pred[t]].ptr /\ new_next' = new_next
          /\ pc[t] = "deq_step" /\ pc'[t] = "deq_flag"
      BY <1>1, <2>3 DEF DequeueStep, At, Goto, TypeOK
    <3>2. /\ pred[t] \in Members(A) /\ c \in A[pred[t]]
          /\ new_next[t] = link[c].ptr /\ link[pred[t]].ptr # c
      BY <1>5, <2>0, <3>1 DEF ScannerInv, SearchPC
    <3>3. c \in A[link[pred[t]].ptr] /\ link[pred[t]].ptr \in Members(A)
      BY <1>5, <3>2, MemberFacts
    <3>4. QED
      BY <3>1, <3>2, <3>3 DEF SearchPC
  <2>4. CASE DequeueCas(t)
    <3>1. pred' = pred /\ new_next' = new_next /\ flag' = flag /\ pc[t] = "deq_cas"
      BY <2>4 DEF DequeueCas, At, locals, deqVars
    <3>2. /\ pred[t] \in Members(A) /\ c \in A[pred[t]]
          /\ new_next[t] = link[c].ptr /\ flag[t] = link[pred[t]].alive
      BY <1>5, <2>0, <3>1 DEF ScannerInv, SearchPC, IsAlive
    <3>3. pred[t] \in Node /\ pred[t] # Tail /\ Members(A) \subseteq Node
      BY <1>5, <3>2, MemberFacts
    <3>4. CASE link[pred[t]].ptr = c
      <4>1. CasMatches(link[pred[t]], c, flag[t])
        BY <1>1, <3>2, <3>3, <3>4 DEF CasMatches, TaggedPointer
      <4>2. link' = SetPtr(link, pred[t], link[c].ptr)
        BY <2>4, <3>2, <4>1 DEF DequeueCas
      <4>3. link'[pred[t]].ptr = link[c].ptr
        BY <1>1, <3>3, <4>2 DEF SetPtr, TaggedPointer
      <4>4. c \in Members(A) \ {Tail} /\ Chain(link, A)
        BY <1>5, <1>6, MemberFacts
      <4>5. link[c].ptr \in A[c]
        BY <4>4, ChainFacts
      <4>6. link[c].ptr # c
        BY <4>4, <4>5, ChainFacts
      <4>7. QED
        BY <3>4, <4>3, <4>6
    <3>5. CASE link[pred[t]].ptr # c
      <4>1. ~CasMatches(link[pred[t]], c, flag[t])
        BY <3>5 DEF CasMatches
      <4>2. pc'[t] = "deq_step"
        BY <1>1, <2>4, <4>1 DEF DequeueCas, Goto, TypeOK
      <4>3. QED
        BY <3>1, <3>2, <3>5, <4>2 DEF SearchPC
    <3>6. QED
      BY <3>4, <3>5
  <2>5. QED
    BY <2>1, <2>2, <2>3, <2>4
<1>8. /\ pc'[t] \in ScanPC \union ShotPC /\ pc'[t] \in ExecutorPC \ {"deq_null"}
      /\ pc'[t] \in DequeuePC /\ pc'[t] \notin {"run_data", "run_next", "run_alive"} \union ShotPC
      /\ pc'[t] # "unlock"
  BY <1>7 DEF ScanPC, TargetPC, SearchPC, ShotPC, ExecutorPC, DequeuePC
<1>9. ScannerInv(t, A)'
  BY <1>2, <1>6, <1>7, <1>8 DEF ScannerInv, IsAlive, KeepsMemory
<1>10. ShotInv(t, A)'
  <2>1. pc[t] \notin {"shot_clear", "unlock"} /\ pc'[t] \notin {"shot_clear", "unlock"}
    BY <1>4, <1>8 DEF ScanPC, TargetPC, SearchPC, ShotPC
  <2>2. QED
    BY <1>2, <1>4, <1>5, <2>1 DEF ShotInv, IsAlive, HasData, KeepsMemory
<1>11. OwnTaskInv(t, A)'
  BY <1>2, <1>4, <1>5, <1>8 DEF OwnTaskInv, Executing, Left, HasData, KeepsMemory
<1>12. QED
  BY <1>2, <1>3, <1>4, <1>8, <1>9, <1>10, <1>11, ExecutorFrame

\* execute() runs the tasks, and the shot ends when all are cleared.
LEMMA ShotLocalStep ==
  ASSUME OwnInv, OwnInv', NEW A, ListInv(A), NEW t \in Thread,
         Execute(t) \/ ExecuteThrows(t) \/ ShotDone(t)
  PROVE  ListInv(A)'
<1>1. TypeOK
  BY DEF OwnInv, LockInv
<1>2. /\ KeepsMemory /\ tls' = tls /\ slot' = slot /\ i' = i /\ n' = n
      /\ \/ pc[t] = "shot_exec" /\ pc'[t] = "shot_clear"
         \/ pc[t] = "shot_exec" /\ pc'[t] = "unlock" /\ "std" \in MayThrow
         \/ pc[t] = "shot_clear" /\ pc'[t] = "unlock" /\ i[t] = n[t]
  <2>1. CASE Execute(t)
    BY <1>1, <2>1 DEF Execute, At, Goto, KeepsMemory, shared, objVars, heapVars,
                      locals, scanVars, TypeOK
  <2>2. CASE ExecuteThrows(t)
    BY <1>1, <2>2 DEF ExecuteThrows, At, Goto, KeepsMemory, shared, objVars, heapVars,
                      locals, scanVars, TypeOK
  <2>3. CASE ShotDone(t)
    BY <1>1, <2>3 DEF ShotDone, At, Goto, KeepsMemory, heapVars, locals, scanVars, TypeOK
  <2>4. QED
    BY <2>1, <2>2, <2>3
<1>3. \A u \in Thread \ {t} : Same(u)
  BY <1>1, OthersSame DEF Step, ShotStep
<1>4. /\ pc[t] \in ExecutorPC \ {"deq_null"} /\ pc'[t] \in ExecutorPC \ {"deq_null"}
      /\ pc[t] \notin ScanPC \union {"run_first"} /\ pc'[t] \notin ScanPC
      /\ pc[t] \in ShotPC
  BY <1>2 DEF ExecutorPC, ScanPC, TargetPC, SearchPC, ShotPC
<1>5. ShotInv(t, A) /\ OwnTaskInv(t, A)
  BY <1>4, ExecutorFacts
<1>6. ScannerInv(t, A)'
  BY <1>4 DEF ScannerInv, ScanPC, TargetPC, SearchPC
<1>7. ShotInv(t, A)'
  BY <1>2, <1>4, <1>5 DEF ShotInv, ShotPC, IsAlive, HasData, KeepsMemory
<1>8. OwnTaskInv(t, A)'
  <2>1. HasData(slot[t]) /\ slot[t] \in Members(A) => slot[t] \in Left(t)
    BY <1>4, <1>5 DEF OwnTaskInv, Executing
  <2>2. i[t] = n[t] => Left(t) = {}
    <3>1. n[t] \in Nat
      BY <1>1, SizesAssumption DEF TypeOK
    <3>2. QED
      BY <3>1 DEF Left
  <2>3. pc'[t] \notin DequeuePC \union {"run_next", "run_alive", "run_data"}
    BY <1>2 DEF DequeuePC
  <2>4. Left(t)' = Left(t) /\ HasData(slot[t])' = HasData(slot[t])
    BY <1>2 DEF Left, HasData, KeepsMemory
  <2>5. QED
    BY <1>2, <2>1, <2>2, <2>3, <2>4 DEF OwnTaskInv, ShotPC
<1>9. QED
  BY <1>2, <1>3, <1>4, <1>6, <1>7, <1>8, ExecutorFrame

-----------------------------------------------------------------------------
(* The executor: steps that others see.                                    *)

\* While t runs run_executor, what is said of another thread is that it pushes a
\* slot of its own.
LEMMA OtherThread ==
  ASSUME OwnInv, NEW A, ListInv(A), NEW t \in Thread, pc[t] \in ExecutorPC,
         NEW u \in Thread \ {t}, Same(u), NEW B, PusherInv(u, B)'
  PROVE  ThreadInv(u, B)'
<1>1. MutualExclusion /\ Quiet /\ ThreadInv(u, A) /\ TypeOK
  BY DEF OwnInv, LockInv, ListInv
<1>2. pc[u] \notin ExecutorPC /\ pc[u] \notin OrphanPC /\ pc'[u] = pc[u] /\ i'[u] = i[u]
  BY <1>1, Places DEF MutualExclusion, Executing, Quiet, Same
<1>3. pc[u] \in ApplyPC \union {"idle"}
  BY <1>1, <1>2 DEF TypeOK, PC
<1>4. pc[u] \notin {"shot_clear", "unlock"}
  BY <1>2 DEF ExecutorPC
<1>5. i[u] = 0
  BY <1>1, <1>4 DEF ThreadInv, ShotInv
<1>6. QED
  BY <1>2, <1>3, <1>5, WaiterThread

\* What only the executor and the threads about to push take part in.
LEMMA ExecutorGlobals ==
  ASSUME OwnInv, NEW A, ListInv(A), NEW t \in Thread, pc[t] \in ExecutorPC,
         pc'[t] \in ExecutorPC, \A u \in Thread \ {t} : Same(u), tls' = tls, slot' = slot
  PROVE  /\ Quiet' /\ \A u \in Thread : Holds(u)' = Holds(u)
         /\ \A s : Pushing(s)' <=> Pushing(s)
         /\ \A s : Unlinked(s) <=> pc[t] = "deq_null" /\ current_node[t] = s
         /\ \A s : Unlinked(s)' <=> pc'[t] = "deq_null" /\ current_node'[t] = s
         /\ \A u \in Thread : pc'[u] \in OrphanPC => FALSE
<1>1. MutualExclusion /\ Quiet
  BY DEF OwnInv, LockInv, ListInv
<1>2. \A u \in Thread \ {t} : pc[u] \notin ExecutorPC /\ pc[u] \notin OrphanPC
  BY <1>1, Places DEF MutualExclusion, Executing, Quiet
<1>3. pc[t] \notin OrphanPC /\ pc'[t] \notin OrphanPC
  BY Places
<1>4. /\ pc[t] \notin {"push_set", "push_cas"} /\ pc'[t] \notin {"push_set", "push_cas"}
      /\ "deq_null" \in ExecutorPC
  BY Places DEF PushPC, ExecutorPC, DequeuePC
<1>5. \A u \in Thread : pc'[u] \notin OrphanPC
  BY <1>2, <1>3 DEF Same
<1>6. \A s : Pushing(s)' <=> Pushing(s)
  BY <1>4 DEF Pushing, Same
<1>7. /\ \A s : Unlinked(s) <=> pc[t] = "deq_null" /\ current_node[t] = s
      /\ \A s : Unlinked(s)' <=> pc'[t] = "deq_null" /\ current_node'[t] = s
  BY <1>2, <1>4 DEF Unlinked, Same
<1>8. \A u \in Thread : Holds(u)' = Holds(u)
  BY DEF Holds
<1>9. QED
  BY <1>5, <1>6, <1>7, <1>8 DEF Quiet

\* A slot with an operation joins the shot: it was not in it, for the scan had
\* not come by.
LEMMA RunTakeStep ==
  ASSUME OwnInv, NEW A, ListInv(A), NEW t \in Thread, RunTake(t)
  PROVE  ListInv(A)'
<1> DEFINE c == current_node[t]
           m == n[t]
<1>1. TypeOK /\ At(t, "run_data") /\ HasData(c)
  BY DEF OwnInv, LockInv, RunTake
<1>2. m \in Nat /\ m < SHOT_N
  <2>1. m < SHOT_N
    BY <1>1, Touched
  <2>2. m \in 0 .. SHOT_N
    BY <1>1 DEF TypeOK
  <2>3. QED
    BY <2>1, <2>2
<1>3. /\ link' = link /\ live' = live /\ op_code' = op_code
      /\ tls' = tls /\ slot' = slot /\ i' = i /\ current_node' = current_node
      /\ pc[t] = "run_data" /\ pc'[t] = "run_next" /\ parent'[t] = c /\ n'[t] = m + 1
      /\ combine_shot'[m] = c
      /\ \A k \in 0 .. m - 1 : combine_shot'[k] = combine_shot[k]
  <2>1. m \in 0 .. SHOT_N - 1
    BY <1>2, SizesAssumption
  <2>2. /\ combine_shot' = [combine_shot EXCEPT ![m] = c]
        /\ combine_shot \in [0 .. SHOT_N - 1 -> Pointer]
    BY <1>1 DEF RunTake, TypeOK
  <2>3. combine_shot'[m] = c /\ \A k \in 0 .. m - 1 : combine_shot'[k] = combine_shot[k]
    BY <1>2, <2>1, <2>2
  <2>4. QED
    BY <1>1, <2>3 DEF RunTake, At, Goto, TypeOK
<1>4. \A u \in Thread \ {t} : Same(u)
  BY <1>1, OthersSame DEF Step, ScanStep
<1>5. pc[t] \in ExecutorPC /\ pc'[t] \in ExecutorPC
  BY <1>3 DEF ExecutorPC
<1>6. /\ Head \in live /\ Members(A) \subseteq live /\ Members(A) \ {Head, Tail} \subseteq Slot
      /\ ScannerInv(t, A) /\ ShotInv(t, A) /\ OwnTaskInv(t, A)
  BY <1>5, ExecutorFacts
<1>7. /\ parent[t] \in Members(A) /\ c \in A[parent[t]] \ {Tail} /\ IsAlive(c)
  BY <1>3, <1>6 DEF ScannerInv, ScanPC, TargetPC
<1>8. c \in Members(A) \intersect Slot /\ c # Tail
  BY <1>6, <1>7, MemberFacts
<1>9. /\ i[t] = 0
      /\ \A k \in 0 .. m - 1 :
           /\ combine_shot[k] \in Members(A) \intersect Slot /\ IsAlive(combine_shot[k])
           /\ HasData(combine_shot[k])
           /\ parent[t] = combine_shot[k] \/ parent[t] \in A[combine_shot[k]]
      /\ \A j, k \in 0 .. m - 1 : combine_shot[j] = combine_shot[k] => j = k
  BY <1>3, <1>6 DEF ShotInv, ScanPC, TargetPC
<1>10. \A k \in 0 .. m - 1 : c \in A[combine_shot[k]] /\ combine_shot[k] # c
  <2>1. TAKE k \in 0 .. m - 1
  <2>2. c \in A[combine_shot[k]]
    BY <1>6, <1>7, <1>9, MemberFacts
  <2>3. QED
    BY <1>6, <1>9, <2>2, MemberFacts
<1> DEFINE new == combine_shot'
<1>11. /\ \A k \in 0 .. m : /\ new[k] \in Members(A) \intersect Slot
                            /\ IsAlive(new[k]) /\ HasData(new[k])
                            /\ c = new[k] \/ c \in A[new[k]]
       /\ \A j, k \in 0 .. m : new[j] = new[k] => j = k
  <2>1. \A k \in 0 .. m : k = m \/ k \in 0 .. m - 1
    BY <1>2
  <2> HIDE DEF m, c
  <2>2. \A k \in 0 .. m : /\ new[k] \in Members(A) \intersect Slot
                          /\ IsAlive(new[k]) /\ HasData(new[k])
                          /\ c = new[k] \/ c \in A[new[k]]
    BY <1>1, <1>3, <1>7, <1>8, <1>9, <1>10, <2>1 DEF c
  <2>3. \A j, k \in 0 .. m : new[j] = new[k] => j = k
    BY <1>3, <1>9, <1>10, <2>1
  <2>4. QED
    BY <2>2, <2>3
<1>12. 0 .. n'[t] - 1 = 0 .. m /\ i'[t] .. n'[t] - 1 = 0 .. m /\ i'[t] = 0
  BY <1>2, <1>3, <1>9
<1> HIDE DEF c, m, new
<1>13. ScannerInv(t, A)'
  BY <1>3, <1>8 DEF ScannerInv, ScanPC, TargetPC, SearchPC, c
<1>14. ShotInv(t, A)'
  <2>1. \A k \in 0 .. m : link'[new[k]].alive /\ op_code'[new[k]] # NOT_SET
    BY <1>3, <1>11 DEF IsAlive, HasData, new
  <2>2. combine_shot' = new /\ parent'[t] = c /\ pc'[t] = "run_next"
    BY <1>3 DEF new
  <2>3. QED
    BY <1>11, <1>12, <2>1, <2>2 DEF ShotInv, IsAlive, HasData
<1>15. OwnTaskInv(t, A)'
  <2>1. HasData(slot[t]) /\ slot[t] \in Members(A) =>
          slot[t] \in Left(t) \union {c} \union A[c]
    BY <1>3, <1>5, <1>6 DEF OwnTaskInv, Executing, c
  <2>2. Left(t) \union {c} \subseteq Left(t)'
    <3>1. Left(t)' = {new[k] : k \in 0 .. m}
      BY <1>12 DEF Left, new
    <3>2. Left(t) = {combine_shot[k] : k \in 0 .. m - 1}
      BY <1>9 DEF Left, m
    <3>3. m \in 0 .. m /\ 0 .. m - 1 \subseteq 0 .. m
      BY <1>2
    <3>4. QED
      BY <1>3, <3>1, <3>2, <3>3 DEF new
  <2>3. QED
    BY <1>3, <2>1, <2>2 DEF OwnTaskInv, DequeuePC, ShotPC, HasData
<1>16. FirstTaskInv(A)'
  <2>1. 0 \in 0 .. m
    BY <1>2 DEF m
  <2>2. new[0] \in Members(A) /\ IsAlive(new[0])
    BY <1>11, <2>1
  <2>3. QED
    BY <1>3, <1>6, <2>2 DEF FirstTaskInv, IsAlive, new
<1>17. /\ Quiet' /\ \A u \in Thread : Holds(u)' = Holds(u)
       /\ \A s : (Pushing(s)' <=> Pushing(s)) /\ (Unlinked(s)' <=> Unlinked(s))
  BY <1>3, <1>4, <1>5, ExecutorGlobals
<1>18. ASSUME NEW u \in Thread PROVE ThreadInv(u, A)'
  <2>1. CASE u = t
    <3>1. PusherInv(t, A)'
      BY <1>3, <1>5 DEF PusherInv, PushPC, ListInv, ThreadInv
    <3>2. LeaverInv(t, A)'
      BY <1>3 DEF LeaverInv
    <3>3. QED
      BY <1>13, <1>14, <1>15, <2>1, <3>1, <3>2 DEF ThreadInv
  <2>2. CASE u # t
    <3>1. PusherInv(u, A) /\ Same(u)
      BY <1>4, <2>2 DEF ListInv, ThreadInv
    <3>2. PusherInv(u, A)'
      BY <1>3, <1>17, <3>1 DEF PusherInv, Same
    <3>3. QED
      BY <1>5, <2>2, <3>1, <3>2, OtherThread
  <2>3. QED
    BY <2>1, <2>2
<1>19. MemoryInv(A)'
  BY <1>3, <1>5, <1>6 DEF ListInv, MemoryInv
<1>20. LinkedInv(A)' /\ OrphanInv(A)'
  BY <1>3, <1>17 DEF ListInv, LinkedInv, OrphanInv, InQueue, IsAlive
<1>21. Chain(link', A)
  BY <1>3 DEF ListInv
<1>22. QED
  BY <1>16, <1>17, <1>18, <1>19, <1>20, <1>21 DEF ListInv

\* A task that has run is cleared, and only that one.
LEMMA ClearTaskStep ==
  ASSUME OwnInv, NEW A, ListInv(A), NEW t \in Thread, ClearTask(t)
  PROVE  ListInv(A)'
<1> DEFINE c == combine_shot[i[t]]
<1>1. TypeOK /\ i[t] \in Nat /\ n[t] \in Nat /\ i \in [Thread -> 0 .. SHOT_N]
  BY SizesAssumption DEF OwnInv, LockInv, TypeOK
<1>2. /\ link' = link /\ live' = live /\ combine_shot' = combine_shot
      /\ tls' = tls /\ slot' = slot /\ pc' = pc /\ n' = n
      /\ pc[t] = "shot_clear" /\ i[t] < n[t] /\ i'[t] = i[t] + 1
  BY <1>1 DEF ClearTask, At, objVars
<1>3. op_code' = [op_code EXCEPT ![c] = NOT_SET] /\ op_code \in [Node -> Op \union {NOT_SET}]
  BY <1>1 DEF ClearTask, Cleared, TypeOK
<1>4. \A u \in Thread \ {t} : Same(u)
  BY <1>1, OthersSame DEF Step, ShotStep, ClearTask
<1>5. /\ pc[t] \in ExecutorPC /\ pc'[t] \in ExecutorPC
      /\ pc[t] \in ShotPC /\ pc[t] \notin ScanPC \union {"run_first", "unlock"}
  BY <1>2 DEF ExecutorPC, ShotPC, ScanPC, TargetPC, SearchPC
<1>6. /\ Members(A) \subseteq Node /\ slot[t] \in Slot /\ ShotInv(t, A) /\ OwnTaskInv(t, A)
  BY <1>5, ExecutorFacts
<1>7. /\ \A k \in 0 .. n[t] - 1 :
           combine_shot[k] \in Members(A) \intersect Slot /\ IsAlive(combine_shot[k])
      /\ \A j, k \in 0 .. n[t] - 1 : combine_shot[j] = combine_shot[k] => j = k
      /\ \A k \in i[t] .. n[t] - 1 : HasData(combine_shot[k])
  BY <1>5, <1>6 DEF ShotInv
<1>8. i[t] \in 0 .. n[t] - 1 /\ c \in Node
  BY <1>1, <1>2, <1>6, <1>7
<1>9. \A a \in Node : op_code'[a] = IF a = c THEN NOT_SET ELSE op_code[a]
  BY <1>3, <1>8
<1>10. \A k \in i'[t] .. n'[t] - 1 :
         /\ k \in i[t] .. n[t] - 1 /\ k \in 0 .. n[t] - 1
         /\ combine_shot[k] # c /\ op_code'[combine_shot[k]] # NOT_SET
  <2>1. TAKE k \in i'[t] .. n'[t] - 1
  <2>2. k \in i[t] .. n[t] - 1 /\ k \in 0 .. n[t] - 1 /\ k # i[t]
    BY <1>1, <1>2
  <2>3. combine_shot[k] # c /\ combine_shot[k] \in Node
    BY <1>6, <1>7, <1>8, <2>2
  <2>4. QED
    BY <1>7, <1>9, <2>2, <2>3 DEF HasData
<1> HIDE DEF c
<1>11. ShotInv(t, A)'
  BY <1>2, <1>5, <1>7, <1>10 DEF ShotInv, IsAlive, HasData, ShotPC, ScanPC, TargetPC, SearchPC
<1>12. OwnTaskInv(t, A)'
  <2>1. ASSUME HasData(slot[t])', slot[t] \in Members(A) PROVE slot[t] \in Left(t)'
    <3>1. slot[t] # c /\ HasData(slot[t])
      BY <1>2, <1>6, <1>9, <2>1 DEF HasData
    <3>2. slot[t] \in Left(t)
      BY <1>5, <1>6, <2>1, <3>1 DEF OwnTaskInv, Executing
    <3>3. PICK k \in i[t] .. n[t] - 1 : slot[t] = combine_shot[k]
      BY <3>2 DEF Left
    <3>4. k \in i'[t] .. n'[t] - 1
      BY <1>1, <1>2, <3>1, <3>3 DEF c
    <3>5. QED
      BY <1>2, <3>3, <3>4 DEF Left
  <2>2. QED
    BY <1>2, <2>1 DEF OwnTaskInv, DequeuePC
<1>13. ScannerInv(t, A)'
  BY <1>2 DEF ScannerInv, ScanPC, TargetPC, SearchPC
<1>14. FirstTaskInv(A)'
  <2>1. MutualExclusion /\ FirstTaskInv(A)
    BY DEF OwnInv, LockInv, ListInv
  <2>2. \A u \in Thread : pc[u] \notin ScanPC \union {"run_first"}
    <3>1. \A u \in Thread : pc[u] \in ExecutorPC => u = t
      BY <1>5, <2>1 DEF MutualExclusion, Executing
    <3>2. QED
      BY <1>5, <3>1, Places
  <2>3. Executing(t)
    BY <1>5 DEF Executing
  <2>4. combine_shot[0] \in live /\ IsAlive(combine_shot[0])
    BY <2>1, <2>2, <2>3 DEF FirstTaskInv
  <2>5. QED
    BY <1>2, <2>4 DEF FirstTaskInv, IsAlive
<1>15. /\ Quiet' /\ \A u \in Thread : Holds(u)' = Holds(u)
       /\ \A s : (Pushing(s)' <=> Pushing(s)) /\ (Unlinked(s)' <=> Unlinked(s))
  BY <1>2, <1>4, <1>5, ExecutorGlobals
<1>16. ASSUME NEW u \in Thread PROVE ThreadInv(u, A)'
  <2>1. CASE u = t
    <3>1. PusherInv(t, A)'
      BY <1>2, <1>5 DEF PusherInv, PushPC, ListInv, ThreadInv
    <3>2. LeaverInv(t, A)'
      BY <1>2 DEF LeaverInv
    <3>3. QED
      BY <1>11, <1>12, <1>13, <2>1, <3>1, <3>2 DEF ThreadInv
  <2>2. CASE u # t
    <3>1. PusherInv(u, A) /\ Same(u)
      BY <1>4, <2>2 DEF ListInv, ThreadInv
    <3>2. PusherInv(u, A)'
      BY <1>2, <1>15, <3>1 DEF PusherInv, Same
    <3>3. QED
      BY <1>5, <2>2, <3>1, <3>2, OtherThread
  <2>3. QED
    BY <2>1, <2>2
<1>17. MemoryInv(A)' /\ LinkedInv(A)' /\ OrphanInv(A)' /\ Chain(link', A)
  BY <1>2, <1>15 DEF ListInv, MemoryInv, LinkedInv, OrphanInv, InQueue, IsAlive
<1>18. QED
  BY <1>14, <1>15, <1>16, <1>17 DEF ListInv

\* The executor leaves its call: through unlock(), or an exception takes it past.
LEMMA LeaveStep ==
  ASSUME OwnInv, NEW A, ListInv(A), NEW t \in Thread, Unlock(t) \/ ExecuteEscapes(t)
  PROVE  ListInv(A)'
<1>1. TypeOK /\ SlotProtocol /\ MutualExclusion /\ FirstTaskInv(A)
  BY DEF OwnInv, LockInv, ListInv
<1>2. /\ KeepsMemory /\ tls' = tls /\ slot'[t] = Null /\ i'[t] = 0
      /\ pc[t] \in {"unlock", "shot_exec"} /\ pc'[t] = "idle"
  BY <1>1 DEF Unlock, ExecuteEscapes, EndExecutor, At, Goto, Return, KeepsMemory,
              shared, objVars, heapVars, TypeOK
<1>3. \A u \in Thread \ {t} : Same(u)
  BY <1>1, OthersSame DEF Step, ShotStep
<1>4. slot[t] = tls[t] /\ Executing(t)
  BY <1>1, <1>2 DEF SlotProtocol, ExecutorPC, Executing
<1>5. Holds(t)' = Holds(t)
  BY <1>2, <1>4 DEF Holds
<1>6. ThreadInv(t, A)'
  <2>1. PusherInv(t, A)'
    BY <1>2 DEF PusherInv, PushPC
  <2>2. QED
    BY <1>2, <2>1, WaiterThread
<1>7. FirstTaskInv(A)'
  <2>1. \A u \in Thread : pc[u] \notin ScanPC \union {"run_first"}
    <3>1. \A u \in Thread : pc[u] \in ExecutorPC => u = t
      BY <1>1, <1>4 DEF MutualExclusion, Executing
    <3>2. pc[t] \notin ScanPC \union {"run_first"}
      BY <1>2 DEF ScanPC, TargetPC, SearchPC
    <3>3. QED
      BY <3>1, <3>2, Places
  <2>2. combine_shot[0] \in live /\ IsAlive(combine_shot[0])
    BY <1>1, <1>4, <2>1 DEF FirstTaskInv
  <2>3. QED
    BY <1>2, <2>2 DEF FirstTaskInv, IsAlive, KeepsMemory
<1>8. pc'[t] \notin OrphanPC
  BY <1>2 DEF OrphanPC
<1>9. QED
  BY <1>1, <1>2, <1>3, <1>5, <1>6, <1>7, <1>8, ListFrame

\* dequeue_slot takes the slot off the list: the other nodes stay, in order.
LEMMA UnlinkStep ==
  ASSUME OwnInv, NEW A, ListInv(A), NEW t \in Thread, DequeueCas(t), link' # link,
         NEW c, NEW p, NEW B,
         c = current_node[t], p = pred[t], B = Without(A, c)
  PROVE  ListInv(B)'
<1>1. TypeOK /\ link \in [Node -> TaggedPointer]
  BY DEF OwnInv, LockInv, TypeOK
<1>2. /\ CasMatches(link[p], c, flag[t])
      /\ link' = SetPtr(link, p, new_next[t]) /\ pc[t] = "deq_cas" /\ pc'[t] = "deq_null"
      /\ live' = live /\ op_code' = op_code /\ combine_shot' = combine_shot /\ tls' = tls
      /\ slot' = slot /\ i' = i /\ n' = n /\ parent' = parent /\ current_node' = current_node
  BY <1>1 DEF DequeueCas, At, Goto, objVars, locals, scanVars, TypeOK
<1>3. \A u \in Thread \ {t} : Same(u)
  BY <1>1, OthersSame DEF Step, DequeueAction
<1>4. pc[t] \in ExecutorPC /\ pc'[t] \in ExecutorPC
  BY <1>2 DEF ExecutorPC, DequeuePC
<1>5. /\ Head \in live /\ Members(A) \subseteq live /\ Members(A) \subseteq Node
      /\ Members(A) \ {Head, Tail} \subseteq Slot /\ slot[t] \in Slot
      /\ Head \in Members(A) \ {Tail}
      /\ ScannerInv(t, A) /\ ShotInv(t, A) /\ OwnTaskInv(t, A)
  BY <1>4, ExecutorFacts
<1>6. /\ parent[t] \in Members(A) \ {Tail} /\ c \in A[parent[t]] \ {Tail}
      /\ p \in Members(A) /\ c \in A[p] /\ new_next[t] = link[c].ptr
  BY <1>2, <1>5 DEF ScannerInv, ScanPC, TargetPC, SearchPC
<1>7. /\ c \in Members(A) \ {Tail} /\ c # Head /\ p # Tail /\ p # c /\ parent[t] # c
      /\ Chain(link, A)
  BY <1>5, <1>6, MemberFacts
<1>8. link[p].ptr = c
  BY <1>2 DEF CasMatches
<1>9. Chain(link', B)
  BY <1>1, <1>2, <1>6, <1>7, <1>8, ChainRemove
<1>10. /\ Members(B) = Members(A) \ {c}
       /\ \A a \in Node : B[a] = A[a] \ {c}
  BY <1>7, WithoutFacts
<1>11. /\ \A a \in Node \ {p} : link'[a] = link[a]
       /\ \A a \in Node : link'[a].alive = link[a].alive
       /\ c \in Slot /\ c \in Node /\ p \in Node
       /\ link[c].ptr # Null /\ link'[c].ptr # Null
  <2>1. c \in Slot /\ c \in Node /\ p \in Node
    BY <1>5, <1>6, <1>7
  <2>2. \A a \in Node \ {p} : link'[a] = link[a]
    BY <1>1, <1>2, <2>1 DEF SetPtr
  <2>3. \A a \in Node : link'[a].alive = link[a].alive
    BY <1>1, <1>2, <2>1 DEF SetPtr, TaggedPointer
  <2>4. link[c].ptr # Null
    BY <1>7, ChainFacts
  <2>5. QED
    BY <1>7, <2>1, <2>2, <2>3, <2>4
<1>12. /\ Quiet' /\ \A u \in Thread : Holds(u)' = Holds(u)
       /\ \A s : Pushing(s)' <=> Pushing(s)
       /\ \A s : ~Unlinked(s)
       /\ \A s : Unlinked(s)' <=> s = c
  BY <1>2, <1>3, <1>4, ExecutorGlobals
<1>13. MemoryInv(B)'
  <2>1. ~ \A u \in Thread : pc[u] = "idle" /\ tls[u] = Null
    BY <1>2
  <2>2. MemoryInv(A)
    BY DEF ListInv
  <2>3. QED
    BY <1>2, <1>5, <1>10, <2>2 DEF MemoryInv
<1>14. LinkedInv(B)'
  <2>1. SUFFICES ASSUME NEW s \in Slot, link'[s].ptr # Null
                 PROVE  s \in Members(B) \/ Unlinked(s)' \/ Pushing(s)'
    BY DEF LinkedInv, InQueue
  <2>2. CASE s = p
    BY <1>6, <1>7, <1>10, <2>2
  <2>3. CASE s # p
    <3>1. InQueue(s)
      BY <1>11, <2>1, <2>3 DEF InQueue, Node
    <3>2. s \in Members(A) \/ Pushing(s)
      BY <1>12, <3>1 DEF ListInv, LinkedInv
    <3>3. QED
      BY <1>10, <1>12, <3>2
  <2>4. QED
    BY <2>2, <2>3
<1>15. OrphanInv(B)'
  BY <1>2, <1>10, <1>11, <1>12 DEF ListInv, OrphanInv, IsAlive, Node
<1>16. ShotInv(t, B)'
  <2>1. /\ i[t] = 0
        /\ \A k \in 0 .. n[t] - 1 :
             /\ combine_shot[k] \in Members(A) \intersect Slot
             /\ IsAlive(combine_shot[k])
             /\ parent[t] = combine_shot[k] \/ parent[t] \in A[combine_shot[k]]
        /\ \A j, k \in 0 .. n[t] - 1 : combine_shot[j] = combine_shot[k] => j = k
        /\ \A k \in i[t] .. n[t] - 1 : HasData(combine_shot[k])
    BY <1>2, <1>5 DEF ShotInv, ScanPC, TargetPC, SearchPC
  <2>2. ASSUME NEW k \in 0 .. n[t] - 1 PROVE combine_shot[k] # c
    <3>1. parent[t] \in Members(A) /\ c \in A[combine_shot[k]]
      BY <1>5, <1>6, <2>1, MemberFacts
    <3>2. QED
      BY <1>5, <2>1, <3>1, MemberFacts
  <2>3. \A k \in 0 .. n[t] - 1 :
          /\ combine_shot[k] \in Members(B) \intersect Slot
          /\ link'[combine_shot[k]].alive
          /\ parent[t] = combine_shot[k] \/ parent[t] \in B[combine_shot[k]]
    BY <1>5, <1>7, <1>10, <1>11, <2>1, <2>2 DEF IsAlive
  <2>4. QED
    BY <1>2, <2>1, <2>3 DEF ShotInv, IsAlive, HasData
<1>17. HasData(slot[t]) /\ slot[t] \in Members(A) =>
         slot[t] \in Left(t) \union A[parent[t]] /\ slot[t] # c
  BY <1>2, <1>4, <1>5 DEF OwnTaskInv, Executing, DequeuePC
<1>18. OwnTaskInv(t, B)'
  <2>1. parent[t] \in Node /\ (slot[t] \in Members(B) => slot[t] \in Members(A))
    BY <1>5, <1>6, <1>10
  <2>2. Left(t)' = Left(t)
    BY <1>2 DEF Left
  <2>3. QED
    BY <1>2, <1>10, <1>17, <2>1, <2>2 DEF OwnTaskInv, HasData, ShotPC
<1>19. ScannerInv(t, B)'
  <2>1. parent[t] \in Members(B) \ {Tail} /\ c \in live \intersect Slot /\ c \notin Members(B)
    BY <1>5, <1>6, <1>7, <1>10, <1>11
  <2>2. QED
    BY <1>2, <1>11, <2>1 DEF ScannerInv, TargetPC, SearchPC, InQueue
<1>20. ASSUME NEW u \in Thread PROVE ThreadInv(u, B)'
  <2>1. CASE u = t
    <3>1. PusherInv(t, B)'
      BY <1>2, <1>5, NodesAssumption DEF PusherInv, PushPC, Node
    <3>2. LeaverInv(t, B)'
      BY <1>2 DEF LeaverInv
    <3>3. QED
      BY <1>16, <1>18, <1>19, <2>1, <3>1, <3>2 DEF ThreadInv
  <2>2. CASE u # t
    <3>1. PusherInv(u, A) /\ Same(u)
      BY <1>3, <2>2 DEF ListInv, ThreadInv
    <3>2. PusherInv(u, B)'
      <4>1. pc[u] \in PushPC =>
              /\ slot[u] \in Node \ {p, c} /\ slot[u] \notin Members(B)
        <5>1. slot[u] # Null => slot[u] \in Node
          BY <1>1 DEF TypeOK, Node
        <5>2. pc[u] \in PushPC => slot[u] # Null /\ slot[u] \notin Members(A)
          BY <3>1 DEF PusherInv, PushPC
        <5>3. QED
          BY <1>6, <1>7, <1>10, <5>1, <5>2
      <4>2. QED
        BY <1>2, <1>11, <1>12, <3>1, <4>1 DEF PusherInv, PushPC, Same
    <3>3. QED
      BY <1>4, <2>2, <3>1, <3>2, OtherThread
  <2>3. QED
    BY <2>1, <2>2
<1>21. FirstTaskInv(B)'
  <2>1. MutualExclusion /\ FirstTaskInv(A)
    BY DEF OwnInv, LockInv, ListInv
  <2>2. CASE combine_shot[0] \in live /\ IsAlive(combine_shot[0])
    <3>1. combine_shot[0] \in Node
      BY <1>1, <2>2 DEF TypeOK
    <3>2. QED
      BY <1>2, <1>11, <2>2, <3>1 DEF FirstTaskInv, IsAlive
  <2>3. CASE ~(combine_shot[0] \in live /\ IsAlive(combine_shot[0]))
    <3>1. \A u \in Thread : pc[u] \in ExecutorPC => u = t
      BY <1>4, <2>1 DEF MutualExclusion, Executing
    <3>2. HasData(slot[t]) /\ slot[t] \in Members(A)
      BY <1>4, <2>1, <2>3, <3>1, Places DEF FirstTaskInv, Executing
    <3>3. slot[t] \in Members(B) /\ pc'[t] \in ScanPC
      BY <1>2, <1>10, <1>17, <3>2 DEF ScanPC
    <3>4. QED
      BY <1>2, <3>2, <3>3 DEF FirstTaskInv, HasData
  <2>4. QED
    BY <2>2, <2>3
<1>22. QED
  BY <1>9, <1>12, <1>13, <1>14, <1>15, <1>20, <1>21 DEF ListInv

\* The slot taken off the list is marked so, and freed if its thread left.
LEMMA DequeueNullStep ==
  ASSUME OwnInv, NEW A, ListInv(A), NEW t \in Thread, DequeueNull(t),
         NEW c, c = current_node[t]
  PROVE  ListInv(A)'
<1>1. TypeOK /\ link \in [Node -> TaggedPointer]
  BY DEF OwnInv, LockInv, TypeOK
<1>2. /\ link' = SetPtr(link, c, Null) /\ pc[t] = "deq_null" /\ pc'[t] = "run_next"
      /\ live' = IF link[c].alive THEN live ELSE live \ {c}
      /\ op_code' = op_code /\ combine_shot' = combine_shot /\ tls' = tls /\ slot' = slot
      /\ i' = i /\ n' = n /\ parent' = parent /\ current_node'[t] = parent[t]
  BY <1>1 DEF DequeueNull, ClearPtr, LastReference, IsAlive, At, Goto, objVars, TypeOK
<1>3. \A u \in Thread \ {t} : Same(u)
  BY <1>1, OthersSame DEF Step, DequeueAction
<1>4. pc[t] \in ExecutorPC /\ pc'[t] \in ExecutorPC
  BY <1>2 DEF ExecutorPC, DequeuePC
<1>5. /\ Head \in live /\ Members(A) \subseteq live /\ Members(A) \subseteq Node
      /\ slot[t] \in Slot
      /\ ScannerInv(t, A) /\ ShotInv(t, A) /\ OwnTaskInv(t, A)
  BY <1>4, ExecutorFacts
<1>6. /\ parent[t] \in Members(A) \ {Tail}
      /\ c \in live \intersect Slot /\ c \notin Members(A)
  BY <1>2, <1>5 DEF ScannerInv, ScanPC
<1>7. /\ \A a \in Node \ {c} : link'[a] = link[a]
      /\ \A a \in Node : link'[a].alive = link[a].alive
      /\ c \in Node /\ link'[c].ptr = Null /\ c # Head /\ c # Tail
  <2>1. c \in Node
    BY <1>6 DEF Node
  <2>2. \A a \in Node \ {c} : link'[a] = link[a]
    BY <1>1, <1>2, <2>1 DEF SetPtr
  <2>3. \A a \in Node : link'[a].alive = link[a].alive
    BY <1>1, <1>2, <2>1 DEF SetPtr, TaggedPointer
  <2>4. link'[c].ptr = Null
    BY <1>1, <1>2, <2>1 DEF SetPtr, TaggedPointer
  <2>5. QED
    BY <1>6, <2>1, <2>2, <2>3, <2>4, NodesAssumption
<1>8. Chain(link', A)
  <2>1. Chain(link, A) /\ \A a \in Members(A) : link'[a].ptr = link[a].ptr
    BY <1>5, <1>6, <1>7 DEF ListInv
  <2>2. QED
    BY <2>1, ChainFrame
<1>9. /\ Quiet' /\ \A u \in Thread : Holds(u)' = Holds(u)
      /\ \A s : Pushing(s)' <=> Pushing(s)
      /\ \A s : Unlinked(s) <=> s = c
      /\ \A s : ~Unlinked(s)'
  BY <1>2, <1>3, <1>4, ExecutorGlobals
<1>10. MemoryInv(A)'
  <2>1. Members(A) \intersect Slot \subseteq live' /\ Head \in live' /\ Tail \in live'
    BY <1>2, <1>5, <1>6, <1>7, MemberFacts
  <2>2. QED
    BY <2>1 DEF MemoryInv
<1>11. LinkedInv(A)'
  <2>1. ASSUME NEW s \in Slot, link'[s].ptr # Null PROVE s \in Members(A) \/ Pushing(s)'
    <3>1. s \in Node \ {c} /\ link'[s] = link[s]
      BY <1>7, <2>1 DEF Node
    <3>2. s \in Members(A) \/ Pushing(s)
      BY <1>9, <2>1, <3>1 DEF ListInv, LinkedInv, InQueue
    <3>3. QED
      BY <1>9, <3>2
  <2>2. QED
    BY <2>1 DEF LinkedInv, InQueue
<1>12. OrphanInv(A)'
  <2>1. ASSUME NEW s \in live' \intersect Slot
        PROVE  \/ link'[s].alive /\ \E u \in Thread : s \in Holds(u)'
               \/ ~link'[s].alive /\ s \in Members(A)
    <3>1. s \in live \intersect Slot /\ s \in Node /\ link'[s].alive = link[s].alive
      BY <1>2, <1>7, <2>1 DEF Node
    <3>2. s = c => link[s].alive
      BY <1>2, <2>1
    <3>3. QED
      BY <1>9, <3>1, <3>2 DEF ListInv, OrphanInv, IsAlive
  <2>2. QED
    BY <2>1 DEF OrphanInv, IsAlive
<1>13. ScannerInv(t, A)'
  BY <1>2, <1>6 DEF ScannerInv, ScanPC, TargetPC, SearchPC
<1>14. ShotInv(t, A)'
  <2>1. pc[t] \in ScanPC /\ pc'[t] \in ScanPC
    BY <1>2 DEF ScanPC
  <2>2. /\ i[t] = 0
        /\ \A k \in 0 .. n[t] - 1 :
             /\ combine_shot[k] \in Members(A) \intersect Slot
             /\ IsAlive(combine_shot[k])
             /\ parent[t] = combine_shot[k] \/ parent[t] \in A[combine_shot[k]]
        /\ \A j, k \in 0 .. n[t] - 1 : combine_shot[j] = combine_shot[k] => j = k
        /\ \A k \in i[t] .. n[t] - 1 : HasData(combine_shot[k])
    BY <1>2, <1>5, <2>1 DEF ShotInv
  <2>3. \A k \in 0 .. n[t] - 1 : link'[combine_shot[k]].alive
    BY <1>5, <1>7, <2>2 DEF IsAlive
  <2>4. QED
    BY <1>2, <2>2, <2>3 DEF ShotInv, IsAlive, HasData
<1>15. OwnTaskInv(t, A)'
  <2>1. HasData(slot[t]) /\ slot[t] \in Members(A) => slot[t] \in Left(t) \union A[parent[t]]
    BY <1>2, <1>4, <1>5 DEF OwnTaskInv, Executing, DequeuePC
  <2>2. Left(t)' = Left(t)
    BY <1>2 DEF Left
  <2>3. QED
    BY <1>2, <2>1, <2>2 DEF OwnTaskInv, HasData, DequeuePC, ShotPC
<1>16. ASSUME NEW u \in Thread PROVE ThreadInv(u, A)'
  <2>1. CASE u = t
    <3>1. PusherInv(t, A)'
      BY <1>2, <1>5, NodesAssumption DEF PusherInv, PushPC, Node
    <3>2. LeaverInv(t, A)'
      BY <1>2 DEF LeaverInv
    <3>3. QED
      BY <1>13, <1>14, <1>15, <2>1, <3>1, <3>2 DEF ThreadInv
  <2>2. CASE u # t
    <3>1. PusherInv(u, A) /\ Same(u)
      BY <1>3, <2>2 DEF ListInv, ThreadInv
    <3>2. PusherInv(u, A)'
      <4>1. pc[u] \in PushPC => slot[u] \in Node \ {c}
        <5>1. slot[u] # Null => slot[u] \in Node
          BY <1>1 DEF TypeOK, Node
        <5>2. pc[u] \in PushPC => slot[u] # Null /\ ~Unlinked(slot[u])
          BY <3>1 DEF PusherInv, PushPC
        <5>3. QED
          BY <1>9, <5>1, <5>2
      <4>2. QED
        BY <1>2, <1>7, <1>9, <3>1, <4>1 DEF PusherInv, PushPC, Same
    <3>3. QED
      BY <1>4, <2>2, <3>1, <3>2, OtherThread
  <2>3. QED
    BY <2>1, <2>2
<1>17. FirstTaskInv(A)'
  <2>1. MutualExclusion /\ FirstTaskInv(A)
    BY DEF OwnInv, LockInv, ListInv
  <2>2. CASE combine_shot[0] \in live /\ IsAlive(combine_shot[0])
    <3>1. combine_shot[0] \in Node
      BY <1>1, <2>2 DEF TypeOK
    <3>2. QED
      BY <1>2, <1>7, <2>2, <3>1 DEF FirstTaskInv, IsAlive
  <2>3. CASE ~(combine_shot[0] \in live /\ IsAlive(combine_shot[0]))
    <3>1. \A u \in Thread : pc[u] \in ExecutorPC => u = t
      BY <1>4, <2>1 DEF MutualExclusion, Executing
    <3>2. HasData(slot[t]) /\ slot[t] \in Members(A)
      BY <1>4, <2>1, <2>3, <3>1, Places DEF FirstTaskInv, Executing
    <3>3. pc'[t] \in ScanPC
      BY <1>2 DEF ScanPC
    <3>4. QED
      BY <1>2, <3>2, <3>3 DEF FirstTaskInv, HasData
  <2>4. QED
    BY <2>2, <2>3
<1>18. QED
  BY <1>8, <1>9, <1>10, <1>11, <1>12, <1>16, <1>17 DEF ListInv

-----------------------------------------------------------------------------
(* Pushing a slot.                                                         *)

\* The successor of a slot to be pushed is nobody else's business.
LEMMA PushSetStep ==
  ASSUME OwnInv, NEW A, ListInv(A), NEW t \in Thread, PushSet(t),
         NEW s, s = slot[t]
  PROVE  ListInv(A)'
<1>1. TypeOK /\ link \in [Node -> TaggedPointer]
  BY DEF OwnInv, LockInv, TypeOK
<1>2. /\ link' = SetPtr(link, s, loaded[t]) /\ pc[t] = "push_set" /\ pc'[t] = "push_cas"
      /\ live' = live /\ op_code' = op_code /\ combine_shot' = combine_shot /\ tls' = tls
      /\ slot' = slot /\ loaded' = loaded /\ i' = i
  BY <1>1 DEF PushSet, At, Goto, objVars, locals, scanVars, TypeOK
<1>3. \A u \in Thread \ {t} : Same(u)
  BY <1>1, OthersSame DEF Step, ApplyStep
<1>4. /\ s \in Slot /\ s \in Node /\ s \in live /\ s # Null /\ s \in Holds(t)
      /\ \A u \in Thread \ {t} : slot[u] # s
      /\ \A u \in Thread : pc[u] \notin OrphanPC
      /\ Head \in live
  BY <1>2, InsideFacts DEF OrphanPC
<1>5. s \notin Members(A) /\ ~Unlinked(s) /\ loaded[t] # Null /\ i[t] = 0
  BY <1>2, <1>4 DEF ListInv, ThreadInv, PusherInv, PushPC, ShotInv
<1>6. /\ \A a \in Node \ {s} : link'[a] = link[a]
      /\ \A a \in Node : link'[a].alive = link[a].alive
      /\ link'[s].ptr = loaded[t]
  BY <1>1, <1>2, <1>4 DEF SetPtr, TaggedPointer
<1>7. /\ Chain(link, A) /\ Members(A) \subseteq Node
      /\ \A a \in Members(A) : A[a] \subseteq Members(A)
  BY <1>4, MemberFacts
<1>8. Chain(link', A)
  <2>1. \A a \in Members(A) : link'[a].ptr = link[a].ptr
    BY <1>5, <1>6, <1>7
  <2>2. QED
    BY <1>7, <2>1, ChainFrame
<1>9. /\ \A x : Unlinked(x)' <=> Unlinked(x)
      /\ \A x : Pushing(x)' <=> Pushing(x)
      /\ Pushing(s)'
      /\ \A u \in Thread : Holds(u)' = Holds(u)
      /\ Quiet'
  <2>1. \A x : Unlinked(x)' <=> Unlinked(x)
    BY <1>2, <1>3 DEF Unlinked, Same
  <2>2. (\A x : Pushing(x)' <=> Pushing(x)) /\ Pushing(s)'
    BY <1>2, <1>3 DEF Pushing, Same
  <2>3. \A u \in Thread : Holds(u)' = Holds(u)
    BY <1>2 DEF Holds
  <2>4. Quiet'
    BY <1>2, <1>3, <1>4 DEF Quiet, Same, OrphanPC
  <2>5. QED
    BY <2>1, <2>2, <2>3, <2>4
<1>10. MemoryInv(A)'
  BY <1>2, <1>4 DEF ListInv, MemoryInv
<1>11. LinkedInv(A)'
  <2>1. ASSUME NEW x \in Slot, link'[x].ptr # Null
        PROVE  x \in Members(A) \/ Unlinked(x)' \/ Pushing(x)'
    <3>1. CASE x = s
      BY <1>9, <3>1
    <3>2. CASE x # s
      <4>1. link[x].ptr # Null
        BY <1>6, <2>1, <3>2 DEF Node
      <4>2. QED
        BY <1>9, <4>1 DEF ListInv, LinkedInv, InQueue
    <3>3. QED
      BY <3>1, <3>2
  <2>2. QED
    BY <2>1 DEF LinkedInv, InQueue
<1>12. OrphanInv(A)'
  BY <1>2, <1>6, <1>9 DEF ListInv, OrphanInv, IsAlive, Node
<1>13. ASSUME NEW u \in Thread PROVE ThreadInv(u, A)'
  <2>1. CASE u = t
    <3>1. PusherInv(t, A)'
      BY <1>2, <1>4, <1>5, <1>6, <1>9 DEF PusherInv
    <3>2. QED
      BY <1>2, <1>5, <2>1, <3>1, WaiterThread DEF ApplyPC
  <2>2. CASE u # t
    <3>1. ThreadInv(u, A) /\ Same(u)
      BY <1>3, <2>2 DEF ListInv
    <3>2. PusherInv(u, A)'
      <4>1. slot[u] # s /\ (slot[u] # Null => slot[u] \in Node)
        BY <1>1, <1>4, <2>2 DEF TypeOK, Node
      <4>2. QED
        BY <1>2, <1>6, <1>9, <3>1, <4>1 DEF ThreadInv, PusherInv, PushPC, Same
    <3>3. LeaverInv(u, A)'
      BY <1>4, <3>1 DEF LeaverInv, Same, OrphanPC
    <3>4. ScannerInv(u, A)'
      <4>1. pc[u] \in TargetPC =>
              current_node[u] \in Members(A) /\ current_node[u] \in Node \ {s}
        BY <1>5, <1>7, <3>1 DEF ThreadInv, ScannerInv, ScanPC
      <4>2. pc[u] \in SearchPC => pred[u] \in Node \ {s}
        BY <1>5, <1>7, <3>1 DEF ThreadInv, ScannerInv
      <4>3. pc[u] = "deq_null" => current_node[u] \in Node \ {s}
        <5>1. pc[u] = "deq_null" => Unlinked(current_node[u]) /\ current_node[u] \in Slot
          BY <3>1 DEF ThreadInv, ScannerInv, Unlinked
        <5>2. QED
          BY <1>5, <5>1 DEF Node
      <4>4. QED
        BY <1>2, <1>6, <3>1, <4>1, <4>2, <4>3
           DEF ThreadInv, ScannerInv, ScanPC, TargetPC, SearchPC, Same, IsAlive, InQueue
    <3>5. ShotInv(u, A)'
      BY <1>2, <1>6, <1>7, <3>1 DEF ThreadInv, ShotInv, Same, IsAlive, HasData
    <3>6. OwnTaskInv(u, A)'
      BY <1>2, <3>1 DEF ThreadInv, OwnTaskInv, Executing, Left, Same, HasData
    <3>7. QED
      BY <3>2, <3>3, <3>4, <3>5, <3>6 DEF ThreadInv
  <2>3. QED
    BY <2>1, <2>2
<1>14. FirstTaskInv(A)'
  <2>1. FirstTaskInv(A)
    BY DEF ListInv
  <2>2. CASE combine_shot[0] \in live /\ IsAlive(combine_shot[0])
    <3>1. combine_shot[0] \in Node
      BY <1>1, <2>2 DEF TypeOK
    <3>2. QED
      BY <1>2, <1>6, <2>2, <3>1 DEF FirstTaskInv, IsAlive
  <2>3. CASE \E u \in Thread : /\ pc[u] \in ScanPC \union {"run_first"}
                               /\ HasData(slot[u]) /\ slot[u] \in Members(A)
    <3>1. PICK u \in Thread : /\ pc[u] \in ScanPC \union {"run_first"}
                              /\ HasData(slot[u]) /\ slot[u] \in Members(A)
      BY <2>3
    <3>2. u # t
      BY <1>2, <3>1 DEF ScanPC, TargetPC, SearchPC
    <3>3. pc'[u] = pc[u]
      BY <1>3, <3>2 DEF Same
    <3>4. QED
      BY <1>2, <3>1, <3>3 DEF FirstTaskInv, HasData
  <2>4. CASE \A u \in Thread :
               /\ ~Executing(u)
               /\ pc[u] \in ApplyPC => HasData(slot[u])
               /\ pc[u] \in {"try_lock", "lock_cas"} => slot[u] \in Members(A)
    BY <1>2, <1>3, <2>4
       DEF FirstTaskInv, Executing, HasData, Same, ApplyPC, ExecutorPC, DequeuePC
  <2>5. QED
    BY <2>1, <2>2, <2>3, <2>4 DEF FirstTaskInv
<1>15. QED
  BY <1>8, <1>9, <1>10, <1>11, <1>12, <1>13, <1>14 DEF ListInv

\* The slot goes on the list behind the head: an executor's scan does not notice.
LEMMA PushCasStep ==
  ASSUME OwnInv, NEW A, ListInv(A), NEW t \in Thread, PushCas(t),
         NEW s, NEW B, s = slot[t], B = Pushed(A, s)
  PROVE  ListInv(B)'
<1> DEFINE M == Members(A)
<1>1. TypeOK /\ link \in [Node -> TaggedPointer]
  BY DEF OwnInv, LockInv, TypeOK
<1>2. /\ link[Head].ptr = loaded[t]
      /\ link' = SetPtr(link, Head, s) /\ pc[t] = "push_cas" /\ pc'[t] = "try_lock"
      /\ live' = live /\ op_code' = op_code /\ combine_shot' = combine_shot /\ tls' = tls
      /\ slot' = slot /\ i' = i
  BY <1>1 DEF PushCas, CasMatches, At, Goto, objVars, scanVars, TypeOK
<1>3. \A u \in Thread \ {t} : Same(u)
  BY <1>1, OthersSame DEF Step, ApplyStep
<1>4. /\ s \in Slot /\ s \in Node /\ s \in live /\ s \notin {Null, Head, Tail}
      /\ s \in Holds(t) /\ IsAlive(s)
      /\ \A u \in Thread \ {t} : slot[u] # s
      /\ \A u \in Thread : pc[u] \notin OrphanPC
      /\ Head \in live
  BY <1>2, InsideFacts DEF OrphanPC
<1>5. s \notin M /\ ~Unlinked(s) /\ link[s].ptr = loaded[t] /\ i[t] = 0
  BY <1>2, <1>4 DEF ListInv, ThreadInv, PusherInv, PushPC, ShotInv
<1>6. /\ Chain(link, A) /\ M \subseteq Node /\ Head \in M /\ Head # Tail
      /\ \A a \in M : A[a] \subseteq M /\ Head \notin A[a]
      /\ A[Tail] = {}
  BY <1>4, MemberFacts, NodesAssumption
<1>7. /\ link'[Head].ptr = s
      /\ \A a \in Node \ {Head} : link'[a] = link[a]
      /\ \A a \in Node : link'[a].alive = link[a].alive
  BY <1>1, <1>2, <1>4, <1>6 DEF SetPtr, TaggedPointer
<1>8. Chain(link', B)
  BY <1>1, <1>2, <1>4, <1>5, <1>6, ChainPush
<1>9. /\ Members(B) = M \union {s}
      /\ B[Head] = A[Head] \union {s} /\ \A a \in Node \ {Head, s} : B[a] = A[a]
      /\ \A a \in M : A[a] \subseteq B[a]
  <2>1. /\ Members(B) = M \union {s}
        /\ B[Head] = A[Head] \union {s} /\ \A a \in Node \ {Head, s} : B[a] = A[a]
    BY <1>4, <1>5, <1>6, PushedFacts
  <2>2. QED
    BY <1>5, <1>6, <2>1
<1> HIDE DEF M
<1>10. /\ \A x : Unlinked(x)' <=> Unlinked(x)
       /\ \A x : Pushing(x) => x = s \/ Pushing(x)'
       /\ \A u \in Thread : Holds(u)' = Holds(u)
       /\ Quiet'
  <2>1. \A x : Unlinked(x)' <=> Unlinked(x)
    BY <1>2, <1>3 DEF Unlinked, Same
  <2>2. \A x : Pushing(x) => x = s \/ Pushing(x)'
    BY <1>2, <1>3 DEF Pushing, Same
  <2>3. \A u \in Thread : Holds(u)' = Holds(u)
    BY <1>2 DEF Holds
  <2>4. Quiet'
    BY <1>2, <1>3, <1>4 DEF Quiet, Same, OrphanPC
  <2>5. QED
    BY <2>1, <2>2, <2>3, <2>4
<1>11. MemoryInv(B)'
  BY <1>2, <1>4, <1>9 DEF ListInv, MemoryInv, M
<1>12. LinkedInv(B)'
  <2>1. ASSUME NEW x \in Slot, link'[x].ptr # Null
        PROVE  x \in Members(B) \/ Unlinked(x)' \/ Pushing(x)'
    <3>1. link[x].ptr # Null
      BY <1>7, <2>1, NodesAssumption DEF Node
    <3>2. x \in M \/ Unlinked(x) \/ Pushing(x)
      BY <3>1 DEF ListInv, LinkedInv, InQueue, M
    <3>3. QED
      BY <1>9, <1>10, <3>2
  <2>2. QED
    BY <2>1 DEF LinkedInv, InQueue
<1>13. OrphanInv(B)'
  BY <1>2, <1>7, <1>9, <1>10 DEF ListInv, OrphanInv, IsAlive, Node, M
<1>14. ASSUME NEW u \in Thread PROVE ThreadInv(u, B)'
  <2>1. CASE u = t
    <3>1. PusherInv(t, B)'
      BY <1>2, <1>4 DEF PusherInv, PushPC
    <3>2. QED
      BY <1>2, <1>5, <2>1, <3>1, WaiterThread DEF ApplyPC
  <2>2. CASE u # t
    <3>1. ThreadInv(u, A) /\ Same(u) /\ slot[u] # s
      BY <1>3, <1>4, <2>2 DEF ListInv
    <3>2. PusherInv(u, B)'
      <4>1. slot[u] # Null => slot[u] \in Node \ {Head}
        BY <1>1, NodesAssumption DEF TypeOK, Node
      <4>2. QED
        BY <1>2, <1>7, <1>9, <1>10, <3>1, <4>1 DEF ThreadInv, PusherInv, PushPC, Same, M
    <3>3. LeaverInv(u, B)'
      BY <1>4, <3>1 DEF LeaverInv, Same, OrphanPC
    <3>4. ScannerInv(u, B)'
      <4>1. pc[u] \in ScanPC => parent[u] \in Members(B) \ {Tail}
        BY <1>9, <3>1 DEF ThreadInv, ScannerInv, M
      <4>2. pc[u] \in TargetPC =>
              /\ current_node[u] \in B[parent[u]] \ {Tail}
              /\ current_node[u] \in M \ {Head}
        BY <1>6, <1>9, <3>1 DEF ThreadInv, ScannerInv, ScanPC, M
      <4>3. pc[u] \in SearchPC =>
              /\ pred[u] \in Members(B) /\ current_node[u] \in B[pred[u]]
              /\ pred[u] \in Node
        BY <1>6, <1>9, <3>1 DEF ThreadInv, ScannerInv, M
      <4>4. pc[u] = "deq_null" =>
              current_node[u] \in Slot \ Members(B) /\ link'[current_node[u]].ptr # Null
        <5>1. pc[u] = "deq_null" =>
                /\ Unlinked(current_node[u]) /\ current_node[u] \in Slot \ M
                /\ link[current_node[u]].ptr # Null
          BY <3>1 DEF ThreadInv, ScannerInv, Unlinked, InQueue, M
        <5>2. QED
          BY <1>5, <1>7, <1>9, <5>1, NodesAssumption DEF Node
      <4>5. pc[u] = "deq_step" => link'[pred[u]].ptr # current_node[u]
        <5>1. pc[u] = "deq_step" =>
                /\ link[pred[u]].ptr # current_node[u] /\ pred[u] \in Node
                /\ current_node[u] \in M
          BY <3>1, <4>2, <4>3 DEF ThreadInv, ScannerInv, SearchPC, TargetPC
        <5>2. QED
          BY <1>5, <1>7, <5>1
      <4>6. pc[u] \in TargetPC => link'[current_node[u]] = link[current_node[u]]
        BY <1>6, <1>7, <4>2
      <4>7. QED
        BY <1>2, <1>7, <3>1, <4>1, <4>2, <4>3, <4>4, <4>5, <4>6
           DEF ThreadInv, ScannerInv, ScanPC, TargetPC, SearchPC, Same, IsAlive, InQueue
    <3>5. ShotInv(u, B)'
      <4>1. ASSUME pc[u] \in ScanPC \union ShotPC, NEW k \in 0 .. n[u] - 1
            PROVE  /\ combine_shot[k] \in Members(B) \intersect Slot
                   /\ link'[combine_shot[k]].alive
                   /\ B[combine_shot[k]] = A[combine_shot[k]]
        <5>1. combine_shot[k] \in M \intersect Slot /\ IsAlive(combine_shot[k])
          BY <3>1, <4>1 DEF ThreadInv, ShotInv, M
        <5>2. combine_shot[k] \in Node \ {Head, s}
          BY <1>5, <1>6, <5>1, NodesAssumption
        <5>3. QED
          BY <1>7, <1>9, <5>1, <5>2 DEF IsAlive
      <4>2. QED
        BY <1>2, <3>1, <4>1 DEF ThreadInv, ShotInv, Same, IsAlive, HasData
    <3>6. OwnTaskInv(u, B)'
      <4>1. slot[u] \in Members(B) => slot[u] \in M
        BY <1>9, <3>1
      <4>2. pc[u] \in ScanPC => parent[u] \in M
        BY <3>1 DEF ThreadInv, ScannerInv, M
      <4>3. pc[u] \in TargetPC => current_node[u] \in M
        BY <1>6, <3>1 DEF ThreadInv, ScannerInv, ScanPC, M
      <4>4. /\ pc[u] \in DequeuePC \union {"run_next"} => A[parent[u]] \subseteq B[parent[u]]
            /\ pc[u] \in {"run_alive", "run_data"} => A[current_node[u]] \subseteq B[current_node[u]]
        BY <1>9, <4>2, <4>3 DEF ScanPC, TargetPC, SearchPC, DequeuePC
      <4>5. Left(u)' = Left(u)
        BY <1>2, <3>1 DEF Left, Same
      <4>6. QED
        BY <1>2, <3>1, <4>1, <4>4, <4>5 DEF ThreadInv, OwnTaskInv, Executing, Same, HasData, M
    <3>7. QED
      BY <3>2, <3>3, <3>4, <3>5, <3>6 DEF ThreadInv
  <2>3. QED
    BY <2>1, <2>2
<1>15. FirstTaskInv(B)'
  <2>1. FirstTaskInv(A)
    BY DEF ListInv
  <2>2. CASE combine_shot[0] \in live /\ IsAlive(combine_shot[0])
    <3>1. combine_shot[0] \in Node
      BY <1>1, <2>2 DEF TypeOK
    <3>2. QED
      BY <1>2, <1>7, <2>2, <3>1 DEF FirstTaskInv, IsAlive
  <2>3. CASE \E u \in Thread : /\ pc[u] \in ScanPC \union {"run_first"}
                               /\ HasData(slot[u]) /\ slot[u] \in Members(A)
    <3>1. PICK u \in Thread : /\ pc[u] \in ScanPC \union {"run_first"}
                              /\ HasData(slot[u]) /\ slot[u] \in Members(A)
      BY <2>3
    <3>2. u # t
      BY <1>2, <3>1 DEF ScanPC, TargetPC, SearchPC
    <3>3. pc'[u] = pc[u] /\ slot[u] \in Members(B)
      BY <1>3, <1>9, <3>1, <3>2 DEF Same, M
    <3>4. QED
      BY <1>2, <3>1, <3>3 DEF FirstTaskInv, HasData
  <2>4. CASE \A u \in Thread :
               /\ ~Executing(u)
               /\ pc[u] \in ApplyPC => HasData(slot[u])
               /\ pc[u] \in {"try_lock", "lock_cas"} => slot[u] \in Members(A)
    <3>1. HasData(slot[t]) /\ s \in Members(B)
      BY <1>2, <1>9, <2>4 DEF ApplyPC
    <3>2. ~Executing(t)'
      BY <1>2 DEF Executing, ExecutorPC, DequeuePC
    <3>3. \A u \in Thread \ {t} :
            /\ ~Executing(u)'
            /\ pc'[u] \in ApplyPC => (HasData(slot[u]))'
            /\ pc'[u] \in {"try_lock", "lock_cas"} => slot'[u] \in Members(B)
      BY <1>2, <1>3, <1>9, <2>4 DEF Same, Executing, HasData, M
    <3>4. QED
      BY <1>2, <3>1, <3>2, <3>3 DEF FirstTaskInv, HasData
  <2>5. QED
    BY <2>1, <2>2, <2>3, <2>4 DEF FirstTaskInv
<1>16. QED
  BY <1>8, <1>10, <1>11, <1>12, <1>13, <1>14, <1>15 DEF ListInv

-----------------------------------------------------------------------------
(* The clients' calls.                                                     *)

\* A new slot is on nobody's mind.
LEMMA GetSlotStep ==
  ASSUME OwnInv, NEW A, ListInv(A), NEW t \in Thread, GetSlot(t)
  PROVE  ListInv(A)'
<1>1. TypeOK /\ link \in [Node -> TaggedPointer] /\ live \subseteq Node /\ OwnedSlotLive
  BY DEF OwnInv, LockInv, TypeOK
<1>2. PICK s \in Slot \ live :
        /\ tls' = [tls EXCEPT ![t] = s] /\ live' = live \union {s}
        /\ link' = [link EXCEPT ![s] = NewPointer(Null)]
        /\ op_code' = [op_code EXCEPT ![s] = NOT_SET]
  BY DEF GetSlot, SetTls, FreshLink
<1>3. /\ combine_shot' = combine_shot /\ pc' = pc /\ slot' = slot /\ i' = i
      /\ current_node' = current_node /\ pc[t] = "idle" /\ Head \in live /\ tls[t] = Null
  BY DEF GetSlot, At, objVars, locals, scanVars
<1>4. \A u \in Thread \ {t} : Same(u)
  BY <1>1, OthersSame DEF Call
<1>5. /\ \A a \in Node \ {s} : link'[a] = link[a] /\ op_code'[a] = op_code[a]
      /\ link'[s].ptr = Null /\ link'[s].alive /\ s \in Node
      /\ s \notin {Head, Tail, Null}
  <2>1. s \in Node /\ op_code \in [Node -> Op \union {NOT_SET}]
    BY <1>1 DEF TypeOK, Node
  <2>2. QED
    BY <1>1, <1>2, <2>1, NodesAssumption DEF NewPointer
<1>6. /\ Chain(link, A) /\ Members(A) \subseteq Node /\ Members(A) \subseteq live
      /\ \A a \in Members(A) : A[a] \subseteq Members(A)
      /\ s \notin Members(A)
  BY <1>2, <1>3, MemberFacts
<1>7. Chain(link', A)
  <2>1. \A a \in Members(A) : link'[a].ptr = link[a].ptr
    BY <1>5, <1>6
  <2>2. QED
    BY <1>6, <2>1, ChainFrame
<1>8. /\ \A x : Unlinked(x)' <=> Unlinked(x)
      /\ \A x : Pushing(x)' <=> Pushing(x)
      /\ \A u \in Thread : slot[u] # s /\ (slot[u] # Null => slot[u] \in Node \ {s})
      /\ \A u \in Thread : Holds(u) \subseteq Holds(u)'
      /\ s \in Holds(t)'
      /\ Quiet'
  <2>1. \A x : Unlinked(x)' <=> Unlinked(x)
    BY <1>3 DEF Unlinked
  <2>2. \A x : Pushing(x)' <=> Pushing(x)
    BY <1>3 DEF Pushing
  <2>3. \A u \in Thread : slot[u] # s /\ (slot[u] # Null => slot[u] \in Node \ {s})
    BY <1>1, <1>2, <1>5 DEF OwnedSlotLive, Holds
  <2>4. (\A u \in Thread : Holds(u) \subseteq Holds(u)') /\ s \in Holds(t)'
    BY <1>1, <1>2, <1>3, <1>5 DEF Holds, TypeOK
  <2>5. Quiet'
    BY <1>3 DEF ListInv, Quiet
  <2>6. QED
    BY <2>1, <2>2, <2>3, <2>4, <2>5
<1>9. MemoryInv(A)'
  BY <1>2, <1>3, <1>5 DEF ListInv, MemoryInv
<1>10. LinkedInv(A)'
  <2>1. ASSUME NEW x \in Slot, link'[x].ptr # Null
        PROVE  x \in Members(A) \/ Unlinked(x)' \/ Pushing(x)'
    <3>1. link[x].ptr # Null
      BY <1>5, <2>1 DEF Node
    <3>2. QED
      BY <1>8, <3>1 DEF ListInv, LinkedInv, InQueue
  <2>2. QED
    BY <2>1 DEF LinkedInv, InQueue
<1>11. OrphanInv(A)'
  <2>1. ASSUME NEW x \in live' \intersect Slot
        PROVE  \/ link'[x].alive /\ \E u \in Thread : x \in Holds(u)'
               \/ ~link'[x].alive /\ (x \in Members(A) \/ Unlinked(x)')
    <3>1. CASE x = s
      BY <1>5, <1>8, <3>1
    <3>2. CASE x # s
      <4>1. x \in live \intersect Slot /\ link'[x] = link[x]
        BY <1>2, <1>5, <2>1, <3>2 DEF Node
      <4>2. QED
        BY <1>8, <4>1 DEF ListInv, OrphanInv, IsAlive
    <3>3. QED
      BY <3>1, <3>2
  <2>2. QED
    BY <2>1 DEF OrphanInv, IsAlive
<1>12. ASSUME NEW u \in Thread PROVE ThreadInv(u, A)'
  <2>1. CASE u = t
    <3>1. PusherInv(t, A)'
      BY <1>3 DEF PusherInv, PushPC
    <3>2. i[t] = 0
      BY <1>3 DEF ListInv, ThreadInv, ShotInv
    <3>3. QED
      BY <1>3, <2>1, <3>1, <3>2, WaiterThread
  <2>2. CASE u # t
    <3>1. ThreadInv(u, A) /\ Same(u)
      BY <1>4, <2>2 DEF ListInv
    <3>2. PusherInv(u, A)'
      BY <1>5, <1>8, <3>1 DEF ThreadInv, PusherInv, PushPC, Same
    <3>3. LeaverInv(u, A)'
      BY <1>5, <1>6, <3>1 DEF ThreadInv, LeaverInv, Same
    <3>4. ScannerInv(u, A)'
      <4>1. pc[u] \in TargetPC =>
              current_node[u] \in Members(A) /\ current_node[u] \in Node \ {s}
        BY <1>6, <3>1 DEF ThreadInv, ScannerInv, ScanPC
      <4>2. pc[u] \in SearchPC => pred[u] \in Node \ {s}
        BY <1>6, <3>1 DEF ThreadInv, ScannerInv
      <4>3. pc[u] = "deq_null" => current_node[u] \in Node \ {s}
        BY <1>2, <3>1 DEF ThreadInv, ScannerInv, Node
      <4>4. QED
        BY <1>2, <1>5, <3>1, <4>1, <4>2, <4>3
           DEF ThreadInv, ScannerInv, ScanPC, TargetPC, SearchPC, Same, IsAlive, InQueue
    <3>5. ShotInv(u, A)'
      <4>1. ASSUME pc[u] \in ScanPC \union ShotPC
            PROVE  \A k \in 0 .. n[u] - 1 : combine_shot[k] \in Node \ {s}
        BY <1>6, <3>1, <4>1 DEF ThreadInv, ShotInv
      <4>2. ASSUME pc[u] \in ScanPC \union ShotPC
            PROVE  \A k \in i[u] .. n[u] - 1 : op_code'[combine_shot[k]] # NOT_SET
        <5>1. TAKE k \in i[u] .. n[u] - 1
        <5>2. k \in 0 .. n[u] - 1
          BY <1>1, SizesAssumption DEF TypeOK
        <5>3. HasData(combine_shot[k])
          BY <3>1, <4>2 DEF ThreadInv, ShotInv
        <5>4. QED
          BY <1>5, <4>1, <4>2, <5>2, <5>3 DEF HasData
      <4>3. QED
        BY <1>3, <1>5, <3>1, <4>1, <4>2 DEF ThreadInv, ShotInv, Same, IsAlive, HasData
    <3>6. OwnTaskInv(u, A)'
      <4>1. Left(u)' = Left(u)
        BY <1>3, <3>1 DEF Left, Same
      <4>2. slot[u] \in Members(A) => slot[u] \in Node \ {s}
        BY <1>6
      <4>3. QED
        BY <1>3, <1>5, <3>1, <4>1, <4>2 DEF ThreadInv, OwnTaskInv, Executing, Same, HasData
    <3>7. QED
      BY <3>2, <3>3, <3>4, <3>5, <3>6 DEF ThreadInv
  <2>3. QED
    BY <2>1, <2>2
<1>13. FirstTaskInv(A)'
  <2>1. FirstTaskInv(A)
    BY DEF ListInv
  <2>2. CASE combine_shot[0] \in live /\ IsAlive(combine_shot[0])
    <3>1. combine_shot[0] \in Node \ {s}
      BY <1>1, <1>2, <2>2
    <3>2. QED
      BY <1>2, <1>3, <1>5, <2>2, <3>1 DEF FirstTaskInv, IsAlive
  <2>3. CASE \E u \in Thread : /\ pc[u] \in ScanPC \union {"run_first"}
                               /\ HasData(slot[u]) /\ slot[u] \in Members(A)
    <3>1. PICK u \in Thread : /\ pc[u] \in ScanPC \union {"run_first"}
                              /\ HasData(slot[u]) /\ slot[u] \in Members(A)
      BY <2>3
    <3>2. op_code'[slot[u]] = op_code[slot[u]]
      BY <1>5, <1>6, <3>1
    <3>3. QED
      BY <1>3, <3>1, <3>2 DEF FirstTaskInv, HasData
  <2>4. CASE \A u \in Thread :
               /\ ~Executing(u)
               /\ pc[u] \in ApplyPC => HasData(slot[u])
               /\ pc[u] \in {"try_lock", "lock_cas"} => slot[u] \in Members(A)
    <3>1. ASSUME NEW u \in Thread, pc[u] \in ApplyPC PROVE op_code'[slot[u]] # NOT_SET
      <4>1. slot[u] # Null
        BY <3>1 DEF ListInv, ThreadInv, PusherInv, ApplyPC
      <4>2. QED
        BY <1>5, <1>8, <2>4, <3>1, <4>1 DEF HasData
    <3>2. QED
      BY <1>3, <2>4, <3>1 DEF FirstTaskInv, Executing, HasData
  <2>5. QED
    BY <2>1, <2>2, <2>3, <2>4 DEF FirstTaskInv
<1>14. QED
  BY <1>7, <1>8, <1>9, <1>10, <1>11, <1>12, <1>13 DEF ListInv

\* A client publishes an operation while nobody leaves.
LEMMA ApplySlotStep ==
  ASSUME OwnInv, NEW A, ListInv(A), NEW t \in Thread, ApplySlot(t),
         NEW s, s = tls[t]
  PROVE  ListInv(A)'
<1>1. TypeOK /\ op_code \in [Node -> Op \union {NOT_SET}] /\ OwnedSlotLive /\ SlotProtocol
  BY DEF OwnInv, LockInv, TypeOK
<1>2. PICK op \in Op : op_code' = [op_code EXCEPT ![s] = op]
  BY DEF ApplySlot
<1>3. /\ link' = link /\ live' = live /\ combine_shot' = combine_shot /\ tls' = tls
      /\ slot'[t] = s /\ i' = i /\ pc[t] = "idle" /\ pc'[t] = "has_data" /\ s # Null
      /\ MayEnter
  BY <1>1 DEF ApplySlot, At, Goto, objVars, scanVars, TypeOK
<1>4. \A u \in Thread \ {t} : Same(u)
  BY <1>1, OthersSame DEF Call
<1>5. /\ s \in Node /\ s \in Holds(t) /\ s \in Slot
      /\ \A u \in Thread \ {t} : slot[u] # s
  <2>1. s \in Slot /\ s \in Node
    BY <1>1, <1>3 DEF TypeOK, Node
  <2>2. s \in Holds(t) /\ \A u \in Thread : slot[u] = s => s \in Holds(u)
    BY <1>3 DEF Holds
  <2>3. QED
    BY <1>1, <2>1, <2>2 DEF OwnedSlotLive
<1>6. /\ op_code'[s] # NOT_SET
      /\ \A a \in Node \ {s} : op_code'[a] = op_code[a]
      /\ \A a \in Node : op_code[a] # NOT_SET => op_code'[a] # NOT_SET
  BY <1>1, <1>2, <1>5, OpAssumption
<1>7. slot[t] = Null /\ i[t] = 0
  BY <1>1, <1>3 DEF SlotProtocol, ListInv, ThreadInv, ShotInv
<1>8. Head \in live
  BY <1>3 DEF ListInv, MemoryInv
<1>9. Members(A) \subseteq Node
  BY <1>8, MemberFacts
<1>10. \A u \in Thread : pc[u] \notin OrphanPC
  BY <1>3 DEF MayEnter, ListInv, Quiet
<1>11. /\ \A x : Unlinked(x)' <=> Unlinked(x)
       /\ \A x : Pushing(x)' <=> Pushing(x)
       /\ \A u \in Thread : Holds(u)' = Holds(u)
       /\ Quiet'
  <2>1. \A x : Unlinked(x)' <=> Unlinked(x)
    BY <1>3, <1>4 DEF Unlinked, Same
  <2>2. \A x : Pushing(x)' <=> Pushing(x)
    BY <1>3, <1>4 DEF Pushing, Same
  <2>3. \A u \in Thread : Holds(u)' = Holds(u)
    BY <1>3, <1>4, <1>7 DEF Holds, Same
  <2>4. Quiet'
    BY <1>3, <1>4, <1>10 DEF Quiet, Same, OrphanPC
  <2>5. QED
    BY <2>1, <2>2, <2>3, <2>4
<1>12. MemoryInv(A)' /\ LinkedInv(A)' /\ OrphanInv(A)' /\ Chain(link', A)
  BY <1>3, <1>8, <1>11 DEF ListInv, MemoryInv, LinkedInv, OrphanInv, InQueue, IsAlive
<1>13. ASSUME NEW u \in Thread PROVE ThreadInv(u, A)'
  <2>1. CASE u = t
    <3>1. PusherInv(t, A)'
      BY <1>3 DEF PusherInv, PushPC
    <3>2. QED
      BY <1>3, <1>7, <2>1, <3>1, WaiterThread DEF ApplyPC
  <2>2. CASE u # t
    <3>1. ThreadInv(u, A) /\ Same(u) /\ slot[u] # s
      BY <1>4, <1>5, <2>2 DEF ListInv
    <3>2. PusherInv(u, A)' /\ LeaverInv(u, A)' /\ ScannerInv(u, A)'
      BY <1>3, <1>11, <3>1 DEF ThreadInv, PusherInv, LeaverInv, ScannerInv, Same, IsAlive, InQueue
    <3>3. ShotInv(u, A)'
      <4>1. ASSUME pc[u] \in ScanPC \union ShotPC
            PROVE  \A k \in i[u] .. n[u] - 1 : op_code'[combine_shot[k]] # NOT_SET
        <5>1. TAKE k \in i[u] .. n[u] - 1
        <5>2. k \in 0 .. n[u] - 1
          BY <1>1, SizesAssumption DEF TypeOK
        <5>3. HasData(combine_shot[k]) /\ combine_shot[k] \in Node
          BY <1>9, <3>1, <4>1, <5>2 DEF ThreadInv, ShotInv
        <5>4. QED
          BY <1>6, <5>3 DEF HasData
      <4>2. QED
        BY <1>3, <3>1, <4>1 DEF ThreadInv, ShotInv, Same, IsAlive, HasData
    <3>4. OwnTaskInv(u, A)'
      <4>1. Left(u)' = Left(u)
        BY <1>3, <3>1 DEF Left, Same
      <4>2. QED
        BY <1>3, <1>6, <1>9, <3>1, <4>1 DEF ThreadInv, OwnTaskInv, Executing, Same, HasData
    <3>5. QED
      BY <3>2, <3>3, <3>4 DEF ThreadInv
  <2>3. QED
    BY <2>1, <2>2
<1>14. FirstTaskInv(A)'
  <2>1. FirstTaskInv(A)
    BY DEF ListInv
  <2>2. CASE combine_shot[0] \in live /\ IsAlive(combine_shot[0])
    BY <1>3, <2>2 DEF FirstTaskInv, IsAlive
  <2>3. CASE \E u \in Thread : /\ pc[u] \in ScanPC \union {"run_first"}
                               /\ HasData(slot[u]) /\ slot[u] \in Members(A)
    <3>1. PICK u \in Thread : /\ pc[u] \in ScanPC \union {"run_first"}
                              /\ HasData(slot[u]) /\ slot[u] \in Members(A)
      BY <2>3
    <3>2. u # t
      BY <1>3, <3>1 DEF ScanPC, TargetPC, SearchPC
    <3>3. pc'[u] = pc[u] /\ slot'[u] = slot[u] /\ op_code'[slot[u]] # NOT_SET
      BY <1>4, <1>6, <1>9, <3>1, <3>2 DEF Same, HasData
    <3>4. QED
      BY <3>1, <3>3 DEF FirstTaskInv, HasData
  <2>4. CASE \A u \in Thread :
               /\ ~Executing(u)
               /\ pc[u] \in ApplyPC => HasData(slot[u])
               /\ pc[u] \in {"try_lock", "lock_cas"} => slot[u] \in Members(A)
    <3>1. ASSUME NEW u \in Thread \ {t}, pc[u] \in ApplyPC PROVE op_code'[slot[u]] # NOT_SET
      <4>1. slot[u] # Null
        BY <3>1 DEF ListInv, ThreadInv, PusherInv, ApplyPC
      <4>2. slot[u] \in Node
        BY <1>1, <4>1 DEF TypeOK, Node
      <4>3. QED
        BY <1>6, <2>4, <3>1, <4>2 DEF HasData
    <3>2. ~Executing(t)'
      BY <1>3 DEF Executing, ExecutorPC, DequeuePC
    <3>3. QED
      BY <1>3, <1>4, <1>6, <2>4, <3>1, <3>2 DEF FirstTaskInv, Executing, HasData, Same
  <2>5. QED
    BY <2>1, <2>2, <2>3, <2>4 DEF FirstTaskInv
<1>15. QED
  BY <1>11, <1>12, <1>13, <1>14 DEF ListInv

-----------------------------------------------------------------------------
(* Threads that leave.                                                     *)

\* While t leaves nobody else is inside, and no more is said of the others than
\* of threads that never came.
LEMMA AloneFacts ==
  ASSUME NEW A, ListInv(A), NEW t \in Thread, pc'[t] \in OrphanPC \union {"idle"},
         pc[t] \in OrphanPC \union {"idle"},
         \A u \in Thread \ {t} : Same(u) /\ pc[u] = "idle"
  PROVE  /\ \A u \in Thread \ {t} : pc'[u] = "idle" /\ \A B : ThreadInv(u, B)'
         /\ \A s : ~Unlinked(s) /\ ~Pushing(s)
         /\ \A B : FirstTaskInv(B)'
<1>1. \A u \in Thread \ {t} : pc'[u] = "idle" /\ i'[u] = 0
  BY DEF Same, ListInv, ThreadInv, ShotInv
<1>2. ASSUME NEW u \in Thread \ {t}, NEW B PROVE ThreadInv(u, B)'
  <2>1. PusherInv(u, B)'
    BY <1>1 DEF PusherInv, PushPC
  <2>2. QED
    BY <1>1, <2>1, WaiterThread
<1>3. \A s : ~Unlinked(s) /\ ~Pushing(s)
  BY DEF Unlinked, Pushing, OrphanPC
<1>4. ASSUME NEW B PROVE FirstTaskInv(B)'
  <2>1. \A u \in Thread : pc'[u] \notin ApplyPC \union ExecutorPC \union {"try_lock", "lock_cas"}
    <3>1. \A l \in OrphanPC \union {"idle"} :
            l \notin ApplyPC \union ExecutorPC \union {"try_lock", "lock_cas"}
      BY DEF OrphanPC, ApplyPC, ExecutorPC, DequeuePC
    <3>2. QED
      BY <1>1, <3>1
  <2>2. QED
    BY <2>1 DEF FirstTaskInv, Executing
<1>5. QED
  BY <1>1, <1>2, <1>3, <1>4

\* detach: the slot is given up, but not yet marked.
LEMMA DetachStep ==
  ASSUME OwnInv, NEW A, ListInv(A), DetachMode # "any", NEW t \in Thread, Detach(t)
  PROVE  ListInv(A)'
<1>1. TypeOK /\ SlotProtocol
  BY DEF OwnInv, LockInv
<1>2. /\ KeepsMemory /\ i' = i /\ pc[t] = "idle" /\ pc'[t] = "orphan_check"
      /\ slot'[t] = tls[t] /\ tls'[t] = Null /\ tls[t] # Null
      /\ DetachMode = "quiescent" /\ \A u \in Thread \ {t} : pc[u] = "idle"
  BY <1>1 DEF Detach, MayDetach, SetTls, At, Goto, KeepsMemory, objVars, heapVars, scanVars,
              TypeOK
<1>3. \A u \in Thread \ {t} : Same(u)
  BY <1>1, OthersSame DEF Call
<1>4. /\ \A u \in Thread \ {t} : pc'[u] = "idle" /\ ThreadInv(u, A)'
      /\ \A s : ~Unlinked(s) /\ ~Pushing(s)
      /\ FirstTaskInv(A)'
  BY <1>2, <1>3, AloneFacts DEF OrphanPC
<1>5. slot[t] = Null /\ i[t] = 0
  BY <1>1, <1>2 DEF SlotProtocol, ListInv, ThreadInv, ShotInv
<1>6. \A u \in Thread : Holds(u)' = Holds(u)
  BY <1>2, <1>3, <1>5 DEF Holds, Same
<1>7. ThreadInv(t, A)'
  <2>1. PusherInv(t, A)'
    BY <1>2 DEF PusherInv, PushPC
  <2>2. LeaverInv(t, A)'
    BY <1>2 DEF LeaverInv
  <2>3. ScannerInv(t, A)'
    BY <1>2 DEF ScannerInv, ScanPC, TargetPC, SearchPC
  <2>4. ShotInv(t, A)'
    BY <1>2, <1>5 DEF ShotInv, ScanPC, TargetPC, SearchPC, ShotPC
  <2>5. OwnTaskInv(t, A)'
    BY <1>2 DEF OwnTaskInv, Executing, ExecutorPC, DequeuePC
  <2>6. QED
    BY <2>1, <2>2, <2>3, <2>4, <2>5 DEF ThreadInv
<1>8. Quiet'
  BY <1>2, <1>4 DEF Quiet, OrphanPC
<1>9. Chain(link', A) /\ MemoryInv(A)' /\ LinkedInv(A)' /\ OrphanInv(A)'
  <2>1. Head \in live
    BY <1>2 DEF ListInv, MemoryInv
  <2>2. Chain(link', A) /\ MemoryInv(A)'
    BY <1>2, <2>1 DEF ListInv, MemoryInv, KeepsMemory
  <2>3. LinkedInv(A)' /\ OrphanInv(A)'
    BY <1>2, <1>4, <1>6 DEF ListInv, LinkedInv, OrphanInv, KeepsMemory, InQueue, IsAlive
  <2>4. QED
    BY <2>2, <2>3
<1>10. QED
  BY <1>4, <1>7, <1>8, <1>9 DEF ListInv

\* A slot with a successor is on the list: nobody else could be removing it.
LEMMA OrphanWaitStep ==
  ASSUME OwnInv, NEW A, ListInv(A), NEW t \in Thread, OrphanQueued(t) \/ OrphanLoad(t)
  PROVE  ListInv(A)'
<1>1. TypeOK
  BY DEF OwnInv, LockInv
<1>2. /\ KeepsMemory /\ tls' = tls /\ slot' = slot /\ i' = i
      /\ \/ pc[t] = "orphan_check" /\ pc'[t] = "orphan_load" /\ InQueue(slot[t])
         \/ /\ pc[t] = "orphan_load" /\ pc'[t] = "orphan_store"
            /\ loaded'[t] = link[slot[t]].ptr
  BY <1>1 DEF OrphanQueued, OrphanLoad, At, Goto, KeepsMemory, shared, objVars, heapVars,
              locals, scanVars, TypeOK
<1>3. \A u \in Thread \ {t} : Same(u)
  BY <1>1, OthersSame DEF Step, OrphanStep
<1>4. pc[t] \in OrphanPC /\ pc'[t] \in OrphanPC /\ pc[t] \notin {"idle", "deq_null"}
  BY <1>2 DEF OrphanPC
<1>5. \A u \in Thread \ {t} : pc[u] = "idle"
  BY <1>4 DEF ListInv, Quiet
<1>6. (\A s : ~Unlinked(s) /\ ~Pushing(s)) /\ FirstTaskInv(A)'
  BY <1>3, <1>4, <1>5, AloneFacts
<1>7. slot[t] \in Members(A)
  <2>1. slot[t] \in Slot
    BY <1>4, InsideFacts
  <2>2. QED
    BY <1>2, <1>6, <2>1 DEF ListInv, LinkedInv, ThreadInv, LeaverInv
<1>8. i[t] = 0 /\ slot[t] # Null
  BY <1>2 DEF ListInv, ThreadInv, ShotInv, PusherInv
<1>9. ThreadInv(t, A)'
  <2>1. PusherInv(t, A)'
    BY <1>2, <1>8 DEF PusherInv, PushPC
  <2>2. LeaverInv(t, A)'
    BY <1>2, <1>7 DEF LeaverInv, KeepsMemory
  <2>3. ScannerInv(t, A)'
    BY <1>2 DEF ScannerInv, ScanPC, TargetPC, SearchPC
  <2>4. ShotInv(t, A)'
    BY <1>2, <1>8 DEF ShotInv, ScanPC, TargetPC, SearchPC, ShotPC
  <2>5. OwnTaskInv(t, A)'
    BY <1>2 DEF OwnTaskInv, Executing, ExecutorPC, DequeuePC
  <2>6. QED
    BY <2>1, <2>2, <2>3, <2>4, <2>5 DEF ThreadInv
<1>10. Holds(t)' = Holds(t)
  BY <1>2 DEF Holds
<1>11. pc[t] \notin {"push_set", "push_cas"} /\ pc'[t] # "deq_null"
  BY <1>2
<1>12. QED
  BY <1>1, <1>2, <1>3, <1>4, <1>6, <1>9, <1>10, <1>11, ListFrame

\* A queued slot is marked dead and stays on the list; any other is freed.
LEMMA OrphanEndStep ==
  ASSUME OwnInv, NEW A, ListInv(A), NEW t \in Thread, OrphanStore(t) \/ OrphanDelete(t),
         NEW s, s = slot[t]
  PROVE  ListInv(A)'
<1>1. TypeOK /\ link \in [Node -> TaggedPointer] /\ SlotProtocol
  BY DEF OwnInv, LockInv, TypeOK
<1>2. /\ op_code' = op_code /\ combine_shot' = combine_shot /\ tls' = tls /\ i' = i
      /\ slot'[t] = Null /\ pc'[t] = "idle"
      /\ \/ /\ pc[t] = "orphan_store" /\ live' = live
            /\ link' = [link EXCEPT ![s] = [ptr |-> loaded[t], alive |-> FALSE]]
         \/ /\ pc[t] = "orphan_check" /\ ~InQueue(s)
            /\ link' = link /\ live' = live \ {s}
  BY <1>1 DEF OrphanStore, OrphanDelete, ClearFlag, At, Goto, Return, objVars, scanVars, TypeOK
<1>3. \A u \in Thread \ {t} : Same(u)
  BY <1>1, OthersSame DEF Step, OrphanStep
<1>4. pc[t] \in OrphanPC /\ pc[t] # "idle" /\ pc'[t] \in OrphanPC \union {"idle"}
  BY <1>2 DEF OrphanPC
<1>5. \A u \in Thread \ {t} : pc[u] = "idle"
  BY <1>4 DEF ListInv, Quiet
<1>6. /\ \A u \in Thread \ {t} : pc'[u] = "idle" /\ ThreadInv(u, A)'
      /\ \A x : ~Unlinked(x) /\ ~Pushing(x)
      /\ FirstTaskInv(A)'
  BY <1>3, <1>4, <1>5, AloneFacts
<1>7. /\ s \in Slot /\ s \in Node /\ s \notin {Head, Tail, Null} /\ s \in live
      /\ Head \in live /\ Tail \in live
      /\ \A u \in Thread \ {t} : s \notin Holds(u)
  <2>1. /\ s \in Slot /\ s \in Node /\ s \notin {Head, Tail, Null} /\ s \in live
        /\ Head \in live /\ Tail \in live
        /\ \A u \in Thread \ {t} : slot[u] # s /\ tls[u] # s
    BY <1>4, InsideFacts
  <2>2. QED
    BY <2>1 DEF Holds
<1>8. Holds(t) = {s} /\ Holds(t)' = {} /\ \A u \in Thread \ {t} : Holds(u)' = Holds(u)
  <2>1. tls[t] = Null
    BY <1>1, <1>4 DEF SlotProtocol
  <2>2. QED
    BY <1>2, <1>3, <1>7, <2>1 DEF Holds, Same
<1>9. \A u \in Thread : Holds(u)' = Holds(u) \ {s}
  BY <1>7, <1>8
<1>10. /\ \A a \in Node : link'[a].ptr = link[a].ptr
       /\ \A a \in Node \ {s} : link'[a] = link[a] /\ (a \in live' <=> a \in live)
       /\ s \in live' => ~link'[s].alive /\ s \in Members(A)
       /\ Members(A) \intersect Slot \subseteq live'
  <2>1. CASE pc[t] = "orphan_store"
    <3>1. s \in Members(A) /\ loaded[t] = link[s].ptr
      BY <2>1 DEF ListInv, ThreadInv, LeaverInv
    <3>2. Members(A) \intersect Slot \subseteq live
      BY DEF ListInv, MemoryInv
    <3>3. QED
      BY <1>1, <1>2, <1>7, <2>1, <3>1, <3>2
  <2>2. CASE pc[t] = "orphan_check"
    <3>1. s \notin Members(A)
      BY <1>2, <1>7, <2>2, ChainFacts DEF ListInv, InQueue
    <3>2. Members(A) \intersect Slot \subseteq live
      BY DEF ListInv, MemoryInv
    <3>3. QED
      BY <1>2, <1>7, <2>2, <3>1, <3>2
  <2>3. QED
    BY <1>2, <2>1, <2>2
<1>11. Chain(link', A)
  <2>1. Chain(link, A) /\ Members(A) \subseteq Node
    BY <1>7, MemberFacts
  <2>2. QED
    BY <1>10, <2>1, ChainFrame
<1>12. MemoryInv(A)'
  BY <1>7, <1>10, NodesAssumption DEF MemoryInv, Node
<1>13. LinkedInv(A)'
  BY <1>6, <1>10 DEF ListInv, LinkedInv, InQueue, Node
<1>14. OrphanInv(A)'
  <2>1. ASSUME NEW x \in live' \intersect Slot
        PROVE  \/ link'[x].alive /\ \E u \in Thread : x \in Holds(u)'
               \/ ~link'[x].alive /\ x \in Members(A)
    <3>1. CASE x = s
      BY <1>10, <2>1, <3>1
    <3>2. CASE x # s
      <4>1. x \in live \intersect Slot /\ link'[x] = link[x]
        BY <1>10, <2>1, <3>2 DEF Node
      <4>2. QED
        BY <1>6, <1>9, <3>2, <4>1 DEF ListInv, OrphanInv, IsAlive
    <3>3. QED
      BY <3>1, <3>2
  <2>2. QED
    BY <2>1 DEF OrphanInv, IsAlive
<1>15. ThreadInv(t, A)'
  <2>1. PusherInv(t, A)' /\ i'[t] = 0
    BY <1>2 DEF PusherInv, PushPC, ListInv, ThreadInv, ShotInv
  <2>2. QED
    BY <1>2, <2>1, WaiterThread
<1>16. Quiet'
  BY <1>2, <1>6 DEF Quiet, OrphanPC
<1>17. QED
  BY <1>6, <1>11, <1>12, <1>13, <1>14, <1>15, <1>16 DEF ListInv

\* The destructor frees the two dummy slots, and nobody is there to notice.
LEMMA DestroyStep ==
  ASSUME OwnInv, NEW A, ListInv(A), Destroy
  PROVE  ListInv(A)'
<1>1. /\ live' = live \ {Head, Tail} /\ link' = link /\ tls' = tls /\ slot' = slot
      /\ pc' = pc /\ i' = i
      /\ \A u \in Thread : pc[u] = "idle" /\ tls[u] = Null
  BY DEF Destroy, locals, scanVars
<1>2. \A u \in Thread : pc'[u] = "idle" /\ tls'[u] = Null /\ i'[u] = 0
  BY <1>1 DEF ListInv, ThreadInv, ShotInv
<1>3. ASSUME NEW u \in Thread PROVE ThreadInv(u, A)'
  <2>1. PusherInv(u, A)'
    BY <1>2 DEF PusherInv, PushPC
  <2>2. QED
    BY <1>2, <2>1, WaiterThread
<1>4. \A s : (Unlinked(s)' <=> Unlinked(s)) /\ (Pushing(s)' <=> Pushing(s))
  BY <1>1 DEF Unlinked, Pushing
<1>5. \A u \in Thread : Holds(u)' = Holds(u)
  BY <1>1 DEF Holds
<1>6. Chain(link', A) /\ Quiet'
  BY <1>1 DEF ListInv, Quiet
<1>7. MemoryInv(A)'
  BY <1>1, <1>2, NodesAssumption DEF ListInv, MemoryInv
<1>8. LinkedInv(A)' /\ OrphanInv(A)'
  BY <1>1, <1>4, <1>5 DEF ListInv, LinkedInv, OrphanInv, InQueue, IsAlive
<1>9. FirstTaskInv(A)'
  BY <1>1 DEF FirstTaskInv, Executing, ExecutorPC, DequeuePC, ApplyPC
<1>10. QED
  BY <1>3, <1>6, <1>7, <1>8, <1>9 DEF ListInv

\* A program that stops or does not move changes nothing.
LEMMA StillStep ==
  ASSUME NEW A, ListInv(A), UNCHANGED <<shared, pc, locals>>
  PROVE  ListInv(A)'
<1> USE DEF shared, objVars, heapVars, locals, scanVars, deqVars
<1>1. /\ \A s : (Unlinked(s)' <=> Unlinked(s)) /\ (Pushing(s)' <=> Pushing(s))
      /\ \A u \in Thread : Holds(u)' = Holds(u)
  BY DEF Unlinked, Pushing, Holds
<1>2. Chain(link', A) /\ Quiet' /\ MemoryInv(A)'
  BY DEF ListInv, Quiet, MemoryInv
<1>3. LinkedInv(A)' /\ OrphanInv(A)'
  BY <1>1 DEF ListInv, LinkedInv, OrphanInv, InQueue, IsAlive
<1>4. FirstTaskInv(A)'
  BY DEF ListInv, FirstTaskInv, Executing, HasData, IsAlive
<1>5. ASSUME NEW u \in Thread PROVE ThreadInv(u, A)'
  <2>1. ThreadInv(u, A)
    BY DEF ListInv
  <2>2. PusherInv(u, A)' /\ LeaverInv(u, A)'
    BY <1>1, <2>1 DEF ThreadInv, PusherInv, LeaverInv
  <2>3. ScannerInv(u, A)'
    BY <2>1 DEF ThreadInv, ScannerInv, InQueue, IsAlive
  <2>4. ShotInv(u, A)' /\ OwnTaskInv(u, A)'
    BY <2>1 DEF ThreadInv, ShotInv, OwnTaskInv, Executing, Left, HasData, IsAlive
  <2>5. QED
    BY <2>2, <2>3, <2>4 DEF ThreadInv
<1>6. QED
  BY <1>2, <1>3, <1>4, <1>5 DEF ListInv

-----------------------------------------------------------------------------
(* The invariant.                                                          *)

\* The constructor links the head to the tail.
LEMMA ListInit == Init => \E behind : ListInv(behind)
<1> SUFFICES ASSUME Init PROVE \E behind : ListInv(behind)
  OBVIOUS
<1> USE NodesAssumption
<1> DEFINE A == [a \in Node |-> IF a = Head THEN {Tail} ELSE {}]
<1>1. /\ A[Head] = {Tail} /\ A[Tail] = {} /\ Members(A) = {Head, Tail}
      /\ A \in [Node -> SUBSET Node]
  BY DEF Node, Members
<1>2. /\ link[Head].ptr = Tail /\ \A a \in Node \ {Head} : link[a].ptr = Null
      /\ \A a \in Node : link[a].alive
  BY DEF Init, NewPointer, Node
<1>3. \A t \in Thread :
        pc[t] = "idle" /\ slot[t] = Null /\ tls[t] = Null /\ i[t] = 0 /\ n[t] = 0
  BY DEF Init
<1>4. live = {Head, Tail}
  BY DEF Init
<1> HIDE DEF A, Init
<1>5. Chain(link, A)
  BY <1>1, <1>2 DEF Chain, Node
<1>6. Quiet /\ MemoryInv(A) /\ LinkedInv(A) /\ OrphanInv(A)
  BY <1>1, <1>2, <1>3, <1>4 DEF Quiet, MemoryInv, LinkedInv, OrphanInv, OrphanPC, InQueue, Node
<1>7. FirstTaskInv(A)
  BY <1>3 DEF FirstTaskInv, Executing, ExecutorPC, DequeuePC, ApplyPC
<1>8. ASSUME NEW t \in Thread PROVE ThreadInv(t, A)
  BY <1>3 DEF ThreadInv, PusherInv, LeaverInv, ScannerInv, ShotInv, OwnTaskInv, PushPC,
              ScanPC, TargetPC, SearchPC, ShotPC, Executing, ExecutorPC, DequeuePC
<1>9. QED
  BY <1>5, <1>6, <1>7, <1>8 DEF ListInv

\* A step from the list A to the list B leaves its nodes as they are, pushes a slot
\* or unlinks one.
Moves(A, B) ==
  \/ Members(B) = Members(A)
  \/ \E t \in Thread : PushCas(t) /\ Members(B) = Members(A) \union {slot[t]}
  \/ \E t \in Thread : DequeueCas(t) /\ Members(B) = Members(A) \ {current_node[t]}

\* The nodes after a push, and after a removal.
LEMMA MovesPush ==
  ASSUME OwnInv, NEW A, ListInv(A), NEW t \in Thread, PushCas(t)
  PROVE  Moves(A, Pushed(A, slot[t]))
<1>1. pc[t] = "push_cas" /\ pc[t] # "idle"
  BY DEF PushCas, At
<1>2. slot[t] \in Node
  BY <1>1, InsideFacts
<1>3. slot[t] \notin Members(A)
  BY <1>1 DEF ListInv, ThreadInv, PusherInv, PushPC
<1>4. Members(Pushed(A, slot[t])) = Members(A) \union {slot[t]}
  BY <1>2, <1>3, PushedFacts DEF ListInv
<1>5. QED
  BY <1>4 DEF Moves

LEMMA MovesUnlink ==
  ASSUME OwnInv, NEW A, ListInv(A), NEW t \in Thread, DequeueCas(t)
  PROVE  Moves(A, Without(A, current_node[t]))
<1>1. pc[t] = "deq_cas" /\ pc[t] # "idle"
  BY DEF DequeueCas, At
<1>2. Head \in live
  BY <1>1, InsideFacts
<1>3. pred[t] \in Members(A) /\ current_node[t] \in A[pred[t]]
  BY <1>1 DEF ListInv, ThreadInv, ScannerInv, SearchPC
<1>4. current_node[t] \in Members(A) \ {Head}
  BY <1>2, <1>3, MemberFacts
<1>5. Members(Without(A, current_node[t])) = Members(A) \ {current_node[t]}
  BY <1>4, WithoutFacts DEF ListInv
<1>6. QED
  BY <1>5 DEF Moves

\* Every step leads from list to list.
LEMMA ListStep ==
  ASSUME OwnInv, OwnInv', DetachMode # "any", NEW A, ListInv(A), [Next]_vars
  PROVE  \E B : ListInv(B)' /\ Moves(A, B)
<1>0. ListInv(A)' => \E B : ListInv(B)' /\ Moves(A, B)
  BY DEF Moves
<1>1. ASSUME NEW t \in Thread, Call(t) PROVE ListInv(A)'
  <2>1. \A s : s = tls[t] /\ ApplySlot(t) => ListInv(A)'
    BY ApplySlotStep
  <2>2. QED
    BY <1>1, <2>1, GetSlotStep, DetachStep DEF Call
<1>2. ASSUME NEW t \in Thread, ApplyStep(t) PROVE \E B : ListInv(B)' /\ Moves(A, B)
  <2>1. CASE PushCas(t)
    <3>1. \A s, B : s = slot[t] /\ B = Pushed(A, s) => ListInv(B)'
      BY <2>1, PushCasStep
    <3>2. QED
      BY <2>1, <3>1, MovesPush
  <2>2. CASE LockCas(t)
    BY <1>0, <2>2, LockCasStep
  <2>3. CASE PushSet(t)
    <3>1. \A s : s = slot[t] => ListInv(A)'
      BY <2>3, PushSetStep
    <3>2. QED
      BY <1>0, <3>1
  <2>4. QED
    BY <1>0, <1>2, <2>1, <2>2, <2>3, WaiterStep DEF ApplyStep
<1>3. ASSUME NEW t \in Thread, ScanStep(t) PROVE ListInv(A)'
  BY <1>3, RunFirstStep, RunAliveStep, RunTakeStep, RunIdleStep, RunNextStep DEF ScanStep
<1>4. ASSUME NEW t \in Thread, DequeueAction(t) PROVE \E B : ListInv(B)' /\ Moves(A, B)
  <2>1. CASE DequeueNull(t)
    <3>1. \A c : c = current_node[t] => ListInv(A)'
      BY <2>1, DequeueNullStep
    <3>2. QED
      BY <1>0, <3>1
  <2>2. CASE DequeueCas(t) /\ link' # link
    <3>1. \A c, p, B : c = current_node[t] /\ p = pred[t] /\ B = Without(A, c) => ListInv(B)'
      BY <2>2, UnlinkStep
    <3>2. QED
      BY <2>2, <3>1, MovesUnlink
  <2>3. link' = link \/ DequeueNull(t) \/ DequeueCas(t)
    BY <1>4 DEF DequeueAction, DequeueNext, DequeueFlag, DequeueStep, shared, heapVars
  <2>4. QED
    BY <1>0, <1>4, <2>1, <2>2, <2>3, SearchStep DEF DequeueAction
<1>5. ASSUME NEW t \in Thread, ShotStep(t) PROVE ListInv(A)'
  BY <1>5, ShotLocalStep, ClearTaskStep, LeaveStep DEF ShotStep
<1>6. ASSUME NEW t \in Thread, OrphanStep(t) PROVE ListInv(A)'
  <2>1. \A s : s = slot[t] /\ (OrphanStore(t) \/ OrphanDelete(t)) => ListInv(A)'
    BY OrphanEndStep
  <2>2. QED
    BY <1>6, <2>1, OrphanWaitStep DEF OrphanStep
<1>7. ASSUME NEW t \in Thread, Crash(t) PROVE ListInv(A)'
  BY <1>7, StillStep DEF Crash
<1>8. ASSUME Finished \/ UNCHANGED vars PROVE ListInv(A)'
  <2>1. UNCHANGED <<shared, pc, locals>>
    BY <1>8 DEF Finished, vars
  <2>2. QED
    BY <2>1, StillStep
<1>9. QED
  BY <1>0, <1>1, <1>2, <1>3, <1>4, <1>5, <1>6, <1>7, <1>8, DestroyStep DEF Next, Step

\* What holds in every state of the program, the list carried along.
Sound == OwnInv /\ \E behind : ListInv(behind)

\* The list and the slots keep their invariant.
THEOREM SoundCorrect ==
  ASSUME DetachMode # "any"
  PROVE  Spec => []Sound
<1>1. Init => Sound
  BY OwnInit, ListInit DEF Sound
<1>2. Sound /\ [Next]_vars => Sound'
  <2> SUFFICES ASSUME Sound, [Next]_vars PROVE Sound'
    OBVIOUS
  <2>1. PICK A : ListInv(A)
    BY DEF Sound
  <2>2. OwnInv /\ OwnInv'
    BY OwnStep DEF Sound
  <2>3. PICK B : ListInv(B)'
    BY <2>1, <2>2, ListStep
  <2>4. QED
    BY <2>2, <2>3 DEF Sound
<1>3. QED
  BY <1>1, <1>2, PTL DEF Spec

\* The set of nodes of the list is the queue.
LEMMA SoundQueue ==
  ASSUME NEW A, ListInv(A)
  PROVE  Queue = Members(A)
  BY QueueIsMembers DEF ListInv

\* What the invariant says of the list.
LEMMA SoundList ==
  ASSUME Sound
  PROVE  QueueWellFormed /\ OrphansReclaimable
<1>1. PICK A : ListInv(A)
  BY DEF Sound
<1>2. Queue = Members(A)
  BY <1>1, SoundQueue
<1>3. ASSUME Head \in live PROVE
        /\ Tail \in Queue /\ Queue \subseteq live
        /\ \A a \in Queue : InQueue(a) <=> a # Tail
  <2>1. Chain(link, A) /\ Members(A) \subseteq live
    BY <1>1, <1>3, MemberFacts DEF Sound
  <2>2. link[Tail].ptr = Null
    BY <2>1 DEF Chain
  <2>3. \A a \in Members(A) \ {Tail} : link[a].ptr # Null
    BY <2>1, ChainFacts
  <2>4. Tail \in Members(A)
    BY <2>1, ChainFacts
  <2>5. QED
    BY <1>2, <2>1, <2>2, <2>3, <2>4 DEF InQueue
<1>4. OrphansReclaimable
  <2>1. OrphanInv(A)
    BY <1>1 DEF ListInv
  <2>2. QED
    BY <1>2, <2>1 DEF OrphanInv, OrphansReclaimable, Unlinked
<1>5. QED
  BY <1>3, <1>4 DEF QueueWellFormed

\* "slot in queue always(!) has next": whatever is pushed, unlinked and marked
\* dead, the list runs from the head to the tail through allocated slots.
THEOREM WellFormedQueue ==
  ASSUME DetachMode # "any"
  PROVE  Spec => []QueueWellFormed
  BY SoundCorrect, SoundList, PTL

\* No slot is lost: it is on the list, held by its thread, or just unlinked by an
\* executor who deletes it next.
THEOREM NoOrphanLost ==
  ASSUME DetachMode # "any"
  PROVE  Spec => []OrphansReclaimable
  BY SoundCorrect, SoundList, PTL

-----------------------------------------------------------------------------
(* Undefined behaviour.                                                    *)

\* Whatever a step dereferences is allocated.
LEMMA TouchesLive ==
  ASSUME OwnInv, NEW A, ListInv(A), NEW t \in Thread
  PROVE  Touches(t) \subseteq live
<1>1. ThreadInv(t, A) /\ FirstTaskInv(A)
  BY DEF ListInv
<1>2. pc[t] # "idle" => slot[t] \in live /\ Head \in live
  BY InsideFacts
<1>3. Head \in live => /\ Members(A) \subseteq live
                       /\ \A a \in Members(A) : A[a] \subseteq Members(A)
  BY MemberFacts
<1>4. CASE pc[t] \in {"has_data", "in_queue", "push_set"} \union OrphanPC
  <2>1. Touches(t) = {slot[t]}
    BY <1>4 DEF Touches, OrphanPC
  <2>2. QED
    BY <1>2, <1>4, <2>1 DEF OrphanPC
<1>5. CASE pc[t] \in {"run_alive", "run_data", "run_next", "deq_next", "deq_null"}
  <2>1. Touches(t) = {current_node[t]}
    BY <1>5 DEF Touches, OrphanPC
  <2>2. ScannerInv(t, A) /\ pc[t] # "idle"
    BY <1>1, <1>5 DEF ThreadInv
  <2>3. current_node[t] \in live
    BY <1>2, <1>3, <1>5, <2>2 DEF ScannerInv, TargetPC, ScanPC
  <2>4. QED
    BY <2>1, <2>3
<1>6. CASE pc[t] \in {"deq_flag", "deq_cas", "deq_step"}
  <2>1. Touches(t) = {pred[t]}
    BY <1>6 DEF Touches, OrphanPC
  <2>2. pred[t] \in Members(A) /\ pc[t] # "idle"
    BY <1>1, <1>6 DEF ThreadInv, ScannerInv, SearchPC
  <2>3. QED
    BY <1>2, <1>3, <2>1, <2>2
<1>7. CASE pc[t] = "shot_exec"
  <2>1. Touches(t) = {combine_shot[0]} \union Tasks(t)
    BY <1>7 DEF Touches, OrphanPC
  <2>2. Tasks(t) \subseteq live
    BY <1>1, <1>2, <1>3, <1>7 DEF Tasks, ThreadInv, ShotInv, ShotPC
  <2>3. Executing(t) /\ pc[t] \notin ScanPC \union {"run_first"}
    BY <1>7 DEF Executing, ExecutorPC, DequeuePC, ScanPC, TargetPC, SearchPC
  <2>4. \A u \in Thread : pc[u] \in ScanPC \union {"run_first"} => Executing(u)
    BY Places DEF Executing
  <2>5. \A u \in Thread : Executing(u) => u = t
    BY <2>3 DEF OwnInv, LockInv, MutualExclusion
  <2>6. combine_shot[0] \in live
    BY <1>1, <2>3, <2>4, <2>5 DEF FirstTaskInv
  <2>7. QED
    BY <2>1, <2>2, <2>6
<1>8. CASE pc[t] = "shot_clear"
  <2>1. Touches(t) = {combine_shot[k] : k \in i[t] .. n[t] - 1}
    BY <1>8 DEF Touches, OrphanPC
  <2>2. i[t] \in Nat /\ n[t] \in Nat
    BY DEF OwnInv, LockInv, TypeOK
  <2>3. \A k \in i[t] .. n[t] - 1 : k \in 0 .. n[t] - 1
    BY <2>2
  <2>4. QED
    BY <1>1, <1>2, <1>3, <1>8, <2>1, <2>3 DEF ThreadInv, ShotInv, ShotPC
<1>9. QED
  BY <1>4, <1>5, <1>6, <1>7, <1>8 DEF Touches, OrphanPC

\* A thread holds one slot.
LEMMA OneSlotEach ==
  ASSUME OwnInv, NEW u \in Thread, NEW a \in Holds(u), NEW b \in Holds(u)
  PROVE  a = b
<1>1. pc[u] \in PC
  BY DEF OwnInv, LockInv, TypeOK
<1>2. QED
  BY <1>1 DEF OwnInv, SlotProtocol, Holds, PC

\* The tasks and the slot about to join them belong to different threads, so
\* that with at most SHOT_N threads there is room for it.
LEMMA ShotHasRoom ==
  ASSUME OwnInv, NEW A, ListInv(A), IsFiniteSet(Thread), Cardinality(Thread) <= SHOT_N,
         NEW t \in Thread
  PROVE  ~Overflows(t)
<1> SUFFICES ASSUME Overflows(t) PROVE FALSE
  OBVIOUS
<1>1. pc[t] = "run_data" /\ n[t] = SHOT_N
  BY DEF Overflows
<1>2. ScannerInv(t, A) /\ ShotInv(t, A) /\ OrphanInv(A)
  BY DEF ListInv, ThreadInv
<1>3. Head \in live
  BY <1>1, InsideFacts
<1>4. /\ Members(A) \subseteq live /\ Head \in Members(A) /\ Members(A) \subseteq Node
      /\ \A a \in Members(A) : A[a] \subseteq Members(A) /\ Head \notin A[a]
      /\ \A a \in Members(A) : \A b \in A[a] : a # b
      /\ \A a \in Members(A) : \A b \in A[a] : A[b] \subseteq A[a]
  BY <1>3, MemberFacts
<1> DEFINE c == current_node[t]
           S == 0 .. SHOT_N
           g == [k \in S |-> IF k = SHOT_N THEN c ELSE combine_shot[k]]
           f == [k \in S |-> CHOOSE u \in Thread : g[k] \in Holds(u)]
<1>5. parent[t] \in Members(A) /\ c \in A[parent[t]] /\ c # Tail /\ IsAlive(c)
  BY <1>1, <1>2 DEF ScannerInv, TargetPC, ScanPC
<1>6. c \in Members(A) \intersect Slot
  BY <1>4, <1>5 DEF Node
<1>7. \A k \in 0 .. SHOT_N - 1 :
        /\ combine_shot[k] \in Members(A) \intersect Slot /\ IsAlive(combine_shot[k])
        /\ combine_shot[k] # c
        /\ \A j \in 0 .. SHOT_N - 1 : combine_shot[j] = combine_shot[k] => j = k
  <2>1. /\ \A k \in 0 .. SHOT_N - 1 :
             combine_shot[k] \in Members(A) \intersect Slot /\ IsAlive(combine_shot[k])
        /\ \A j, k \in 0 .. SHOT_N - 1 : combine_shot[j] = combine_shot[k] => j = k
        /\ \A k \in 0 .. SHOT_N - 1 :
             parent[t] = combine_shot[k] \/ parent[t] \in A[combine_shot[k]]
    BY <1>1, <1>2 DEF ShotInv, ScanPC, TargetPC
  <2>2. \A k \in 0 .. SHOT_N - 1 : c \in A[combine_shot[k]]
    BY <1>4, <1>5, <2>1
  <2>3. QED
    BY <1>4, <2>1, <2>2
<1>8. SHOT_N \in Nat
  BY SizesAssumption
<1>9. /\ \A k \in S : g[k] \in Slot \intersect live /\ IsAlive(g[k])
      /\ \A j, k \in S : g[j] = g[k] => j = k
  <2>1. \A k \in S : k = SHOT_N \/ k \in 0 .. SHOT_N - 1
    BY <1>8
  <2>2. \A k \in S : g[k] = IF k = SHOT_N THEN c ELSE combine_shot[k]
    OBVIOUS
  <2> HIDE DEF c, S, g
  <2>3. QED
    BY <1>4, <1>5, <1>6, <1>7, <2>1, <2>2
<1>10. \A k \in S : f[k] \in Thread /\ g[k] \in Holds(f[k])
  <2>1. \A k \in S : \E u \in Thread : g[k] \in Holds(u)
    BY <1>2, <1>9 DEF OrphanInv
  <2>2. \A k \in S : f[k] = CHOOSE u \in Thread : g[k] \in Holds(u)
    OBVIOUS
  <2> HIDE DEF g, f, S
  <2>3. QED
    BY <2>1, <2>2
<1>11. f \in [S -> Thread]
  BY <1>10
<1>12. IsFiniteSet(S) /\ Cardinality(S) = SHOT_N + 1
  BY <1>8, FS_Interval
<1>13. Cardinality(Thread) < Cardinality(S)
  BY <1>8, <1>12, FS_CardinalityType
<1> HIDE DEF c, S, g, f
<1>14. PICK j, k \in S : j # k /\ f[j] = f[k]
  BY <1>11, <1>12, <1>13, FS_PigeonHole
<1>15. g[j] = g[k]
  BY <1>10, <1>14, OneSlotEach
<1>16. QED
  BY <1>9, <1>14, <1>15

\* An executor never stores beyond _combine_shot while there are no more threads
\* than it has elements.
THEOREM ShotsFit ==
  ASSUME DetachMode # "any", IsFiniteSet(Thread), Cardinality(Thread) <= SHOT_N
  PROVE  Spec => []ShotFits
<1>1. Sound => ShotFits
  BY ShotHasRoom DEF Sound, ShotFits
<1>2. QED
  BY <1>1, SoundCorrect, PTL

\* No thread ever dereferences a null, stale or deleted pointer, stores beyond
\* _combine_shot or fails the assertion in run_executor.
THEOREM NeverUndefined ==
  ASSUME DetachMode # "any", IsFiniteSet(Thread), Cardinality(Thread) <= SHOT_N
  PROVE  Spec => []NoUndefinedBehaviour
<1>1. Sound => NoUndefinedBehaviour
  <2> SUFFICES ASSUME Sound, NEW t \in Thread PROVE ~Undefined(t)
    BY DEF NoUndefinedBehaviour
  <2>1. PICK A : ListInv(A)
    BY DEF Sound
  <2>2. Touches(t) \subseteq live /\ ~Overflows(t)
    BY <2>1, TouchesLive, ShotHasRoom DEF Sound
  <2>3. ~AssertFails(t)
    BY DEF Sound, OwnInv, DeadStaysDead, AssertFails, DequeuePC
  <2>4. QED
    BY <2>2, <2>3 DEF Undefined
<1>2. QED
  BY <1>1, SoundCorrect, PTL

-----------------------------------------------------------------------------
(* The invariant of the words themselves.                                  *)

\* The invariant reads what is behind the nodes of the list, and no other node.
LEMMA ListTransfer ==
  ASSUME NEW A, ListInv(A), NEW B \in [Node -> SUBSET Node],
         \A a \in Members(A) : B[a] = A[a]
  PROVE  Members(B) = Members(A) /\ ListInv(B)
<1>1. Chain(link, A) /\ Head \in Members(A) /\ Tail \in Members(A)
  BY ChainFacts DEF ListInv
<1>2. /\ Members(B) = Members(A)
      /\ \A a \in Members(A) : A[a] \subseteq Members(A)
      /\ \A a \in Members(A) \ {Tail} : link[a].ptr \in Members(A)
  BY <1>1, ChainFacts DEF Members
<1>3. Chain(link, B)
  BY <1>1, <1>2 DEF Chain
<1>4. MemoryInv(B) /\ LinkedInv(B) /\ OrphanInv(B) /\ FirstTaskInv(B)
  BY <1>2 DEF ListInv, MemoryInv, LinkedInv, OrphanInv, FirstTaskInv
<1>5. ASSUME NEW t \in Thread PROVE ThreadInv(t, B)
  <2>1. /\ PusherInv(t, A) /\ LeaverInv(t, A) /\ ScannerInv(t, A) /\ ShotInv(t, A)
        /\ OwnTaskInv(t, A)
    BY DEF ListInv, ThreadInv
  <2>2. PusherInv(t, B) /\ LeaverInv(t, B)
    BY <1>2, <2>1 DEF PusherInv, LeaverInv
  <2>3. ScannerInv(t, B)
    BY <1>2, <2>1 DEF ScannerInv, SearchPC, TargetPC, ScanPC
  <2>4. ShotInv(t, B)
    BY <1>2, <2>1 DEF ShotInv
  <2>5. pc[t] \in ScanPC => B[parent[t]] = A[parent[t]]
    BY <2>1 DEF ScannerInv
  <2>6. pc[t] \in TargetPC => B[current_node[t]] = A[current_node[t]]
    BY <1>2, <2>1 DEF ScannerInv, ScanPC
  <2>7. OwnTaskInv(t, B)
    <3>1. {"run_alive", "run_data"} \subseteq TargetPC
          /\ DequeuePC \union {"run_next"} \subseteq ScanPC
      BY DEF TargetPC, ScanPC, DequeuePC, SearchPC
    <3>2. QED
      BY <1>2, <2>1, <2>5, <2>6, <3>1 DEF OwnTaskInv
  <2>8. QED
    BY <2>2, <2>3, <2>4, <2>7 DEF ThreadInv
<1>6. QED
  BY <1>2, <1>3, <1>4, <1>5 DEF ListInv

\* What the words lead to is what the proofs have carried along.
LEMMA BehindFacts ==
  ASSUME NEW A, ListInv(A)
  PROVE  Members(Behind) = Members(A) /\ ListInv(Behind)
<1>1. \A a \in Members(A) : a \in Node /\ ReachedFrom(a) \ {a} = A[a]
  BY ReachedIsBehind, ChainFacts DEF ListInv
<1>2. Behind \in [Node -> SUBSET Node]
  BY DEF Behind, ReachedFrom
<1>3. \A a \in Members(A) : Behind[a] = A[a]
  BY <1>1 DEF Behind
<1> DEFINE B == Behind
<1>4. B \in [Node -> SUBSET Node] /\ \A a \in Members(A) : B[a] = A[a]
  BY <1>2, <1>3
<1> HIDE DEF B
<1>5. Members(B) = Members(A) /\ ListInv(B)
  BY <1>4, ListTransfer
<1>6. QED
  BY <1>5 DEF B

\* Through every push, removal, orphaning and deletion the list, the slots and the
\* threads at work on them fit together.
THEOREM ListAlwaysConsistent ==
  ASSUME DetachMode # "any"
  PROVE  Spec => []ListConsistent
<1>1. Sound => ListConsistent
  BY BehindFacts DEF Sound, ListConsistent
<1>2. QED
  BY <1>1, SoundCorrect, PTL

-----------------------------------------------------------------------------
(* What goes wrong only when a thread detaches with others inside.         *)

\* The task whose Flat_Combine runs execute() exists, in an empty shot too.
THEOREM ExecutesThroughLive ==
  ASSUME DetachMode # "any"
  PROVE  Spec => []ExecuteThroughLive
<1>1. Sound => ExecuteThroughLive
  <2> SUFFICES ASSUME Sound, NEW t \in Thread, pc[t] = "shot_exec"
               PROVE  combine_shot[0] \in live
    BY DEF ExecuteThroughLive
  <2>1. Touches(t) \subseteq live
    BY TouchesLive DEF Sound
  <2>2. Touches(t) = {combine_shot[0]} \union Tasks(t)
    BY DEF Touches, OrphanPC
  <2>3. QED
    BY <2>1, <2>2
<1>2. QED
  BY <1>1, SoundCorrect, PTL

\* dequeue_slot meets the predecessor of the slot it removes before the list ends.
THEOREM DequeueMeetsParent ==
  ASSUME DetachMode # "any"
  PROVE  Spec => []DequeueFindsParent
<1>1. Sound => DequeueFindsParent
  <2> SUFFICES ASSUME Sound, NEW t \in Thread, pc[t] = "deq_flag" PROVE pred[t] # Null
    BY DEF DequeueFindsParent
  <2>1. PICK A : ListInv(A)
    BY DEF Sound
  <2>2. pred[t] \in Members(A)
    BY <2>1 DEF ListInv, ThreadInv, ScannerInv, SearchPC
  <2>3. Members(A) \subseteq Node
    BY <2>1, ChainFacts DEF ListInv
  <2>4. QED
    BY <2>2, <2>3, NodesAssumption
<1>2. QED
  BY <1>1, SoundCorrect, PTL

=============================================================================
