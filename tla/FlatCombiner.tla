---------------------------- MODULE FlatCombiner ----------------------------
(***************************************************************************)
(* The flat-combining synchronizer of src/FlatCombiner/FlatCombiner.h,     *)
(* with the tagged pointer of TaggedPointer.h and the thread-local slot of *)
(* ThreadLocal.h it is built from.                                         *)
(*                                                                         *)
(* Client threads publish an operation in a slot of their own, push the    *)
(* slot on a shared list and spin.  Whoever wins the lock word scans the   *)
(* list, runs every published operation in one call of the user's          *)
(* execute(), and clears the slots.  Slots idle for too long are taken off *)
(* the list; slots whose thread left are taken off and freed.              *)
(*                                                                         *)
(* One action is one atomic access to shared memory, with the thread-local *)
(* work up to the next one.  Memory is sequentially consistent.            *)
(*                                                                         *)
(* An operator headed BUG is no part of the specification: it is what the  *)
(* operator after it would be with a plausible mistake in the code, kept   *)
(* to show which property notices.                                         *)
(***************************************************************************)
EXTENDS Integers, FiniteSets

CONSTANTS
  Thread,          \* client threads
  Slot,            \* addresses an Operation object can be allocated at
  Head, Tail,      \* the two dummy slots of the queue
  Null,            \* nullptr; also any pointer never written
  Op,              \* operation codes a client passes to apply_slot
  SHOT_N,          \* capacity of _combine_shot
  MAX_AWAIT_TIME,  \* generations an idle slot stays queued (64 in the code)
  StatInit,        \* values the uninitialized sum and sum_n may hold
  DetachMode,      \* what clients do: "never", "quiescent" or "any"
  MayThrow,        \* what the user's execute() throws: "std", caught, or "other"
  MaxCalls         \* BOUND: calls of apply_slot by one thread

NOT_SET == 0
Node    == Slot \union {Head, Tail}
Pointer == Node \union {Null}

ASSUME NodesAssumption ==
  Head \notin Slot /\ Tail \notin Slot /\ Head # Tail /\ Null \notin Node \union Thread
ASSUME OpAssumption == Op \subseteq Nat \ {NOT_SET}
ASSUME SizesAssumption ==
  /\ SHOT_N \in Nat \ {0} /\ MAX_AWAIT_TIME \in Nat
  /\ MaxCalls \in Nat /\ StatInit \subseteq Nat
ASSUME ClientAssumption ==
  DetachMode \in {"never", "quiescent", "any"} /\ MayThrow \subseteq {"std", "other"}

VARIABLES
  lock,          \* _lock: the lock bit and the generation counter
  combine_shot,  \* _combine_shot
  sum, sum_n,    \* the statistics behind get_stat()
  tls,           \* _slot: each thread's ThreadLocal value
  live,          \* Operation objects allocated and not yet deleted
  link,          \* next_and_alive of each node
  op_code,       \* op_code of each node
  generation,    \* generation of each node
  pc,            \* program counter of each thread, and its local variables:
  slot,          \* slot (apply_slot, detach), slot_to_delete (orphan_slot)
  loaded,        \* next (push_to_queue), old (unset_flag)
  gen,           \* lock (try_lock), generation (run_executor)
  parent, current_node, n, i,       \* run_executor and combine_shot
  pred, new_next, flag, is_alive,   \* dequeue_slot; pred is its own parent
  crashed,       \* model: the program did something undefined, or aborted
  calls,         \* model: calls of apply_slot by each thread, for MaxCalls
  execs          \* model: runs of the operation last published in a slot

objVars  == <<lock, combine_shot, sum, sum_n>>
heapVars == <<live, link, op_code, generation>>
scanVars == <<parent, current_node, n, i>>
deqVars  == <<pred, new_next, flag, is_alive>>
shared   == <<objVars, tls, heapVars>>
locals   == <<slot, loaded, gen, scanVars, deqVars>>
auxVars  == <<crashed, calls, execs>>
vars     == <<shared, pc, locals, auxVars>>

-----------------------------------------------------------------------------
(* TaggedPointer: one atomic word holding a pointer and the alive bit.     *)

TaggedPointer == [ptr : Pointer, alive : BOOLEAN]

\* TaggedPointer(p): the constructor sets the bit.
NewPointer(p) == [ptr |-> p, alive |-> TRUE]

\* Operation(): a fresh slot has no successor and no operation.
FreshLink(f, s) == [f EXCEPT ![s] = NewPointer(Null)]

\* set(p) and a successful compare_exchange: the pointer changes, the bit stays.
SetPtr(f, a, p) == [f EXCEPT ![a].ptr = p]

\* BUG: a plain store in place of the compare_exchange.
CasAlways(w, expected, bit) == TRUE

\* compare_exchange(expected, ...) loads the bit, then compares the whole word.
CasMatches(w, expected, bit) == w = [ptr |-> expected, alive |-> bit]

\* update_value_with_tag_check(nullptr, ...): the pointer goes, the bit stays.
ClearPtr(f, a) == SetPtr(f, a, Null)

\* unset_flag's store: the pointer it loaded earlier, with the bit cleared.
ClearFlag(f, a, p) == [f EXCEPT ![a] = [ptr |-> p, alive |-> FALSE]]

-----------------------------------------------------------------------------
(* Operation: the predicates and updates of a slot.                        *)

HasData(s)  == op_code[s] # NOT_SET
InQueue(s)  == link[s].ptr # Null
IsAlive(s)  == link[s].alive

\* BUG: the executor forgets to release the owner of a task.
Uncleared(s) == op_code

\* combine_shot clears the code of a task it has run.
Cleared(s) == [op_code EXCEPT ![s] = NOT_SET]

\* Unsigned in the code; GenerationBound shows that it never wraps around.
Expired(g, s) == g - generation[s] > MAX_AWAIT_TIME

\* BUG: whatever was dequeued is deleted.
DeleteAny(s) == TRUE

\* BUG: a dead slot is dequeued but never deleted.
DeleteNone(s) == FALSE

\* What run_executor deletes after dequeue_slot: a slot found dead by then.
LastReference(s) == ~IsAlive(s)

-----------------------------------------------------------------------------
(* The lock word.                                                          *)

\* BUG: try_lock stores the word it computed.
LockCasAlways(w, g) == TRUE

\* try_lock's compare_exchange of the unlocked word it loaded.
LockCasMatches(w, g) == w = [held |-> FALSE, gen |-> g]

\* BUG: the generation counts down.
CountedDown(g) == g - 1

\* Each acquisition opens the next generation.
NextGeneration(g) == g + 1

\* BUG: unlock stores 0.
UnlockedToZero(w) == [held |-> FALSE, gen |-> 0]

\* BUG: unlock stores the word unchanged.
StillLocked(w) == w

\* unlock() clears the bit and keeps the counter.
Unlocked(w) == [w EXCEPT !.held = FALSE]

-----------------------------------------------------------------------------
(* Control: where a thread is, and what its next step dereferences.        *)

ApplyPC    == {"has_data", "in_queue", "push_load", "push_set", "push_cas",
               "try_lock", "lock_cas"}
DequeuePC  == {"deq_next", "deq_flag", "deq_cas", "deq_step", "deq_null"}
ExecutorPC == {"run_first", "run_alive", "run_data", "run_next",
               "shot_exec", "shot_clear", "unlock"} \union DequeuePC
OrphanPC   == {"orphan_check", "orphan_load", "orphan_store"}
PC         == {"idle"} \union ApplyPC \union ExecutorPC \union OrphanPC

\* BUG: the scan does not stop at the tail.
ScanPastTail(c) == "run_alive"

\* run_executor's loop stops at the tail.
ScanFrom(c) == IF c = Tail THEN "shot_exec" ELSE "run_alive"

\* BUG: push_to_queue retries without setting the successor again.
RetryCasOnly == "push_cas"

\* push_to_queue's loop sets the successor before every compare_exchange.
RetryFrom == "push_set"

\* BUG: apply_slot returns when it loses the lock.
LoserReturns == "idle"

\* apply_slot's loop: a thread that loses the lock yields and looks again.
LoserGoesTo == "has_data"

\* The slots whose operations the executor t has collected.
Tasks(t) == {combine_shot[k] : k \in 0 .. n[t] - 1}

\* The objects the next step of t reads or writes through a pointer.
\* combine_shot calls execute() through element 0 even when it has no task.
Touches(t) ==
  CASE pc[t] \in {"has_data", "in_queue", "push_set"} \union OrphanPC -> {slot[t]}
    [] pc[t] \in {"run_alive", "run_data", "run_next", "deq_next", "deq_null"}
         -> {current_node[t]}
    [] pc[t] \in {"deq_flag", "deq_cas", "deq_step"} -> {pred[t]}
    [] pc[t] = "shot_exec" -> {combine_shot[0]} \union Tasks(t)
    [] pc[t] = "shot_clear" -> {combine_shot[k] : k \in i[t] .. n[t] - 1}
    [] OTHER -> {}

\* run_executor stores through _combine_shot[n] without a bound check.
Overflows(t) == pc[t] = "run_data" /\ n[t] = SHOT_N /\ HasData(current_node[t])

\* assert(was_dead) in the branch of run_executor that removes a dead slot.
AssertFails(t) == pc[t] = "deq_null" /\ ~is_alive[t] /\ IsAlive(current_node[t])

\* The next step of t is undefined behaviour, or aborts the program.
Undefined(t) == ~ (Touches(t) \subseteq live) \/ Overflows(t) \/ AssertFails(t)

At(t, label)   == ~crashed /\ pc[t] = label /\ ~Undefined(t)
Goto(t, label) == pc' = [pc EXCEPT ![t] = label]

\* The call returns: its local variables are gone.
Return(t) == Goto(t, "idle") /\ slot' = [slot EXCEPT ![t] = Null]

\* An executor's call ends, and run_executor's variables are gone too.
EndExecutor(t) ==
  /\ Return(t)
  /\ gen' = [gen EXCEPT ![t] = 0]
  /\ parent' = [parent EXCEPT ![t] = Null]
  /\ current_node' = [current_node EXCEPT ![t] = Null]
  /\ n' = [n EXCEPT ![t] = 0] /\ i' = [i EXCEPT ![t] = 0]

-----------------------------------------------------------------------------
(* What the client's threads call, and when.                               *)

\* ThreadLocal::set(s) in thread t.
SetTls(t, s) == tls' = [tls EXCEPT ![t] = s]

\* In "quiescent" mode a thread detaches only while every other thread is
\* outside the object, and none enters until it is done.
MayDetach(t) ==
  \/ DetachMode = "any"
  \/ DetachMode = "quiescent" /\ \A u \in Thread \ {t} : pc[u] = "idle"
MayEnter == DetachMode = "quiescent" => \A u \in Thread : pc[u] \notin OrphanPC

\* get_slot(): allocate the calling thread's slot, at any address not in use.
\* A thread that has one gets it back, which changes nothing.
GetSlot(t) ==
  /\ At(t, "idle") /\ tls[t] = Null /\ Head \in live
  /\ \E s \in Slot \ live :
       /\ SetTls(t, s)
       /\ live' = live \union {s}
       /\ link' = FreshLink(link, s)
       /\ op_code' = [op_code EXCEPT ![s] = NOT_SET]
       /\ generation' = [generation EXCEPT ![s] = 0]
       /\ execs' = [execs EXCEPT ![s] = 0]
  /\ UNCHANGED <<objVars, pc, locals, crashed, calls>>

\* apply_slot(op): publish the operation in the thread's slot.  Without a
\* slot the code throws before it changes anything.
ApplySlot(t) ==
  /\ At(t, "idle") /\ tls[t] # Null /\ MayEnter
  /\ calls[t] < MaxCalls /\ calls' = [calls EXCEPT ![t] = @ + 1]
  /\ \E op \in Op : op_code' = [op_code EXCEPT ![tls[t]] = op]
  /\ execs' = [execs EXCEPT ![tls[t]] = 0]
  /\ slot' = [slot EXCEPT ![t] = tls[t]]
  /\ Goto(t, "has_data")
  /\ UNCHANGED <<objVars, tls, live, link, generation, loaded, gen, scanVars,
                 deqVars, crashed>>

-----------------------------------------------------------------------------
(* apply_slot's loop.                                                      *)

\* while (slot->has_data()): somebody ran the operation, so return.
FindDone(t) ==
  /\ At(t, "has_data") /\ ~HasData(slot[t])
  /\ Return(t)
  /\ UNCHANGED <<shared, loaded, gen, scanVars, deqVars, auxVars>>

FindPending(t) ==
  /\ At(t, "has_data") /\ HasData(slot[t])
  /\ Goto(t, "in_queue")
  /\ UNCHANGED <<shared, locals, auxVars>>

CheckQueue(t) ==
  /\ At(t, "in_queue")
  /\ Goto(t, IF InQueue(slot[t]) THEN "try_lock" ELSE "push_load")
  /\ UNCHANGED <<shared, locals, auxVars>>

\* push_to_queue: load the head's successor, ...
PushLoad(t) ==
  /\ At(t, "push_load")
  /\ loaded' = [loaded EXCEPT ![t] = link[Head].ptr]
  /\ Goto(t, "push_set")
  /\ UNCHANGED <<shared, slot, gen, scanVars, deqVars, auxVars>>

\* ... make it the new slot's successor (the owner alone changes the bit of
\* its slot, so set()'s load and store are one step), ...
PushSet(t) ==
  /\ At(t, "push_set")
  /\ link' = SetPtr(link, slot[t], loaded[t])
  /\ Goto(t, "push_cas")
  /\ UNCHANGED <<objVars, tls, live, op_code, generation, locals, auxVars>>

\* ... and put the new slot behind the head if nothing changed there.
\* The head's bit never changes, so the compare_exchange is one step.
PushCas(t) ==
  /\ At(t, "push_cas") /\ CasMatches(link[Head], loaded[t], IsAlive(Head))
  /\ link' = SetPtr(link, Head, slot[t])
  /\ loaded' = [loaded EXCEPT ![t] = Null]
  /\ Goto(t, "try_lock")
  /\ UNCHANGED <<objVars, tls, live, op_code, generation, slot, gen, scanVars,
                 deqVars, auxVars>>

\* The weak compare_exchange failed, for cause or spuriously: reload, retry.
PushRetry(t) ==
  /\ At(t, "push_cas")
  /\ loaded' = [loaded EXCEPT ![t] = link[Head].ptr]
  /\ Goto(t, RetryFrom)
  /\ UNCHANGED <<shared, slot, gen, scanVars, deqVars, auxVars>>

\* try_lock: load the word; if the bit is set the lock is lost.
TryLock(t) ==
  /\ At(t, "try_lock")
  /\ IF lock.held
       THEN Goto(t, LoserGoesTo) /\ UNCHANGED gen
       ELSE Goto(t, "lock_cas") /\ gen' = [gen EXCEPT ![t] = lock.gen]
  /\ UNCHANGED <<shared, slot, loaded, scanVars, deqVars, auxVars>>

\* The compare_exchange takes the lock and opens the next generation.
LockCas(t) ==
  /\ At(t, "lock_cas") /\ LockCasMatches(lock, gen[t])
  /\ lock' = [held |-> TRUE, gen |-> NextGeneration(gen[t])]
  /\ gen' = [gen EXCEPT ![t] = NextGeneration(@)]
  /\ Goto(t, "run_first")
  /\ UNCHANGED <<combine_shot, sum, sum_n, tls, heapVars, slot, loaded,
                 scanVars, deqVars, auxVars>>

\* It failed, for cause or spuriously: try_lock returns 0 and the loop goes on.
LockFail(t) ==
  /\ At(t, "lock_cas")
  /\ gen' = [gen EXCEPT ![t] = 0]
  /\ Goto(t, LoserGoesTo)
  /\ UNCHANGED <<shared, slot, loaded, scanVars, deqVars, auxVars>>

-----------------------------------------------------------------------------
(* run_executor: the scan.                                                 *)

RunFirst(t) ==
  /\ At(t, "run_first")
  /\ parent' = [parent EXCEPT ![t] = Head]
  /\ current_node' = [current_node EXCEPT ![t] = link[Head].ptr]
  /\ n' = [n EXCEPT ![t] = 0]
  /\ Goto(t, ScanFrom(link[Head].ptr))
  /\ UNCHANGED <<shared, slot, loaded, gen, i, deqVars, auxVars>>

\* A slot whose thread detached goes straight to dequeue_slot.
RunAlive(t) ==
  /\ At(t, "run_alive")
  /\ Goto(t, IF IsAlive(current_node[t]) THEN "run_data" ELSE "deq_next")
  /\ is_alive' = [is_alive EXCEPT ![t] = IsAlive(current_node[t])]
  /\ UNCHANGED <<shared, slot, loaded, gen, scanVars, pred, new_next, flag, auxVars>>

\* A slot with an operation joins the shot.  The generation and the shot are
\* plain memory that only the executor uses.
RunTake(t) ==
  LET c == current_node[t]
  IN  /\ At(t, "run_data") /\ HasData(c)
      /\ generation' = [generation EXCEPT ![c] = gen[t]]
      /\ combine_shot' = [combine_shot EXCEPT ![n[t]] = c]
      /\ n' = [n EXCEPT ![t] = @ + 1]
      /\ parent' = [parent EXCEPT ![t] = c]
      /\ Goto(t, "run_next")
      /\ UNCHANGED <<lock, sum, sum_n, tls, live, link, op_code, slot, loaded,
                     gen, current_node, i, deqVars, auxVars>>

\* BUG: an expired slot goes the way of a dead one, with its assertion.
RunExpireAsDead(t) ==
  /\ At(t, "run_data") /\ ~HasData(current_node[t])
  /\ Expired(gen[t], current_node[t])
  /\ is_alive' = [is_alive EXCEPT ![t] = FALSE]
  /\ Goto(t, "deq_next")
  /\ UNCHANGED <<shared, slot, loaded, gen, scanVars, pred, new_next, flag, auxVars>>

\* A slot idle for too long is dequeued, ...
RunExpire(t) ==
  /\ At(t, "run_data") /\ ~HasData(current_node[t])
  /\ Expired(gen[t], current_node[t])
  /\ Goto(t, "deq_next")
  /\ UNCHANGED <<shared, locals, auxVars>>

\* ... any other idle slot stays.
RunSkip(t) ==
  /\ At(t, "run_data") /\ ~HasData(current_node[t])
  /\ ~Expired(gen[t], current_node[t])
  /\ parent' = [parent EXCEPT ![t] = current_node[t]]
  /\ Goto(t, "run_next")
  /\ UNCHANGED <<shared, slot, loaded, gen, current_node, n, i, deqVars, auxVars>>

RunNext(t) ==
  /\ At(t, "run_next")
  /\ current_node' = [current_node EXCEPT ![t] = link[current_node[t]].ptr]
  /\ Goto(t, ScanFrom(link[current_node[t]].ptr))
  /\ UNCHANGED <<shared, slot, loaded, gen, parent, n, i, deqVars, auxVars>>

-----------------------------------------------------------------------------
(* dequeue_slot, and what run_executor does when it returns.               *)

DequeueNext(t) ==
  /\ At(t, "deq_next")
  /\ new_next' = [new_next EXCEPT ![t] = link[current_node[t]].ptr]
  /\ pred' = [pred EXCEPT ![t] = parent[t]]
  /\ Goto(t, "deq_flag")
  /\ UNCHANGED <<shared, slot, loaded, gen, scanVars, flag, is_alive, auxVars>>

\* compare_exchange_strong loads the predecessor's bit first, ...
DequeueFlag(t) ==
  /\ At(t, "deq_flag")
  /\ flag' = [flag EXCEPT ![t] = IsAlive(pred[t])]
  /\ Goto(t, "deq_cas")
  /\ UNCHANGED <<shared, slot, loaded, gen, scanVars, pred, new_next, is_alive, auxVars>>

\* ... then swings the predecessor past the slot if the word is as expected.
DequeueCas(t) ==
  /\ At(t, "deq_cas")
  /\ IF CasMatches(link[pred[t]], current_node[t], flag[t])
       THEN Goto(t, "deq_null") /\ link' = SetPtr(link, pred[t], new_next[t])
       ELSE Goto(t, "deq_step") /\ UNCHANGED link
  /\ UNCHANGED <<objVars, tls, live, op_code, generation, locals, auxVars>>

\* After a failed compare_exchange the next node is tried as predecessor.
DequeueStep(t) ==
  /\ At(t, "deq_step")
  /\ pred' = [pred EXCEPT ![t] = link[pred[t]].ptr]
  /\ Goto(t, "deq_flag")
  /\ UNCHANGED <<shared, slot, loaded, gen, scanVars, new_next, flag, is_alive, auxVars>>

\* update_value_with_tag_check's loop ends with one compare_exchange of the word
\* as it then is, so it is one step, and the bit it reports decides on the
\* deletion.  The scan resumes at the parent.
DequeueNull(t) ==
  LET c == current_node[t]
  IN  /\ At(t, "deq_null")
      /\ link' = ClearPtr(link, c)
      /\ live' = IF LastReference(c) THEN live \ {c} ELSE live
      /\ current_node' = [current_node EXCEPT ![t] = parent[t]]
      /\ pred' = [pred EXCEPT ![t] = Null]
      /\ new_next' = [new_next EXCEPT ![t] = Null]
      /\ flag' = [flag EXCEPT ![t] = TRUE]
      /\ is_alive' = [is_alive EXCEPT ![t] = TRUE]
      /\ Goto(t, "run_next")
      /\ UNCHANGED <<objVars, tls, op_code, generation, slot, loaded, gen,
                     parent, n, i, auxVars>>

-----------------------------------------------------------------------------
(* combine_shot and the end of run_executor.                               *)

\* The operations of the tasks numbered by S run.
Executed(S) ==
  execs' = [s \in Node |-> execs[s] + Cardinality({j \in S : combine_shot[j] = s})]

\* combine_shot copies the tasks with their codes and passes them to execute().
\* One step: while nothing throws, the owner of a task, who alone could change
\* its code, is waiting.
Execute(t) ==
  /\ At(t, "shot_exec")
  /\ Executed(0 .. n[t] - 1)
  /\ Goto(t, "shot_clear")
  /\ UNCHANGED <<shared, locals, crashed, calls>>

\* execute() runs some of the tasks, in an order of its own, and then throws a
\* std::exception: run_executor catches it, and no slot is cleared.
ExecuteThrows(t) ==
  /\ "std" \in MayThrow /\ At(t, "shot_exec")
  /\ \E S \in SUBSET (0 .. n[t] - 1) : Executed(S)
  /\ Goto(t, "unlock")
  /\ UNCHANGED <<shared, locals, crashed, calls>>

\* It throws anything else: nothing in run_executor or apply_slot catches that,
\* so it leaves both, past unlock(), and reaches the client with the lock held.
ExecuteEscapes(t) ==
  /\ "other" \in MayThrow /\ At(t, "shot_exec")
  /\ \E S \in SUBSET (0 .. n[t] - 1) : Executed(S)
  /\ EndExecutor(t)
  /\ UNCHANGED <<shared, loaded, deqVars, crashed, calls>>

\* Each completed slot is cleared, which releases its owner.
ClearTask(t) ==
  /\ At(t, "shot_clear") /\ i[t] < n[t]
  /\ op_code' = Cleared(combine_shot[i[t]])
  /\ i' = [i EXCEPT ![t] = @ + 1]
  /\ UNCHANGED <<objVars, tls, live, link, generation, pc, slot, loaded, gen,
                 parent, current_node, n, deqVars, auxVars>>

ShotDone(t) ==
  /\ At(t, "shot_clear") /\ i[t] = n[t]
  /\ sum_n' = sum_n + 1
  /\ sum' = sum + n[t]
  /\ Goto(t, "unlock")
  /\ UNCHANGED <<lock, combine_shot, tls, heapVars, locals, auxVars>>

\* unlock(), and apply_slot returns whatever the scan did.
\* Only the holder writes a held lock word: load and store are one step.
Unlock(t) ==
  /\ At(t, "unlock")
  /\ lock' = Unlocked(lock)
  /\ EndExecutor(t)
  /\ UNCHANGED <<combine_shot, sum, sum_n, tls, heapVars, loaded, deqVars, auxVars>>

-----------------------------------------------------------------------------
(* detach, and the destructor that runs when a thread with a slot exits:   *)
(* the thread-local value is reset first in both, then the slot orphaned.  *)

Detach(t) ==
  /\ At(t, "idle") /\ tls[t] # Null /\ MayDetach(t)
  /\ slot' = [slot EXCEPT ![t] = tls[t]]
  /\ SetTls(t, Null)
  /\ Goto(t, "orphan_check")
  /\ UNCHANGED <<objVars, heapVars, loaded, gen, scanVars, deqVars, auxVars>>

\* A slot that is not queued is deleted by its owner, ...
OrphanDelete(t) ==
  /\ At(t, "orphan_check") /\ ~InQueue(slot[t])
  /\ live' = live \ {slot[t]}
  /\ Return(t)
  /\ UNCHANGED <<objVars, tls, link, op_code, generation, loaded, gen,
                 scanVars, deqVars, auxVars>>

OrphanQueued(t) ==
  /\ At(t, "orphan_check") /\ InQueue(slot[t])
  /\ Goto(t, "orphan_load")
  /\ UNCHANGED <<shared, locals, auxVars>>

\* ... a queued one is marked dead: unset_flag loads the word ...
OrphanLoad(t) ==
  /\ At(t, "orphan_load")
  /\ loaded' = [loaded EXCEPT ![t] = link[slot[t]].ptr]
  /\ Goto(t, "orphan_store")
  /\ UNCHANGED <<shared, slot, gen, scanVars, deqVars, auxVars>>

\* ... and stores it back with the bit cleared.
OrphanStore(t) ==
  /\ At(t, "orphan_store")
  /\ link' = ClearFlag(link, slot[t], loaded[t])
  /\ loaded' = [loaded EXCEPT ![t] = Null]
  /\ Return(t)
  /\ UNCHANGED <<objVars, tls, live, op_code, generation, gen, scanVars,
                 deqVars, auxVars>>

\* ~FlatCombiner(): called when every thread has detached.
Destroy ==
  /\ ~crashed /\ Head \in live
  /\ \A t \in Thread : pc[t] = "idle" /\ tls[t] = Null
  /\ live' = live \ {Head, Tail}
  /\ UNCHANGED <<objVars, tls, link, op_code, generation, pc, locals, auxVars>>

-----------------------------------------------------------------------------
(* Undefined behaviour ends the program: what it does then is not modelled *)
(* and nothing is claimed about it.                                        *)

Crash(t) ==
  /\ ~crashed /\ Undefined(t)
  /\ crashed' = TRUE
  /\ UNCHANGED <<shared, pc, locals, calls, execs>>

\* The clients may stop calling at any time.
Finished ==
  /\ crashed \/ \A t \in Thread : pc[t] = "idle"
  /\ UNCHANGED vars

Init ==
  /\ lock = [held |-> FALSE, gen |-> 0]
  /\ combine_shot = [k \in 0 .. SHOT_N - 1 |-> Null]
  /\ sum \in StatInit /\ sum_n \in StatInit
  /\ tls = [t \in Thread |-> Null]
  /\ live = {Head, Tail}
  /\ link = [a \in Node |-> NewPointer(IF a = Head THEN Tail ELSE Null)]
  /\ op_code = [a \in Node |-> NOT_SET]
  /\ generation = [a \in Node |-> 0] /\ execs = generation
  /\ pc = [t \in Thread |-> "idle"]
  /\ slot = tls /\ loaded = tls
  /\ parent = tls /\ current_node = tls /\ pred = tls /\ new_next = tls
  /\ gen = [t \in Thread |-> 0] /\ n = gen /\ i = gen /\ calls = gen
  /\ flag = [t \in Thread |-> TRUE] /\ is_alive = flag
  /\ crashed = FALSE

\* The steps a thread takes inside a call.
ApplyStep(t) ==
  \/ FindDone(t) \/ FindPending(t) \/ CheckQueue(t)
  \/ PushLoad(t) \/ PushSet(t) \/ PushCas(t) \/ PushRetry(t)
  \/ TryLock(t) \/ LockCas(t) \/ LockFail(t)
ScanStep(t) ==
  \/ RunFirst(t) \/ RunAlive(t) \/ RunTake(t) \/ RunExpire(t) \/ RunSkip(t)
  \/ RunNext(t)
DequeueAction(t) ==
  \/ DequeueNext(t) \/ DequeueFlag(t) \/ DequeueCas(t) \/ DequeueStep(t)
  \/ DequeueNull(t)
ShotStep(t) ==
  \/ Execute(t) \/ ExecuteThrows(t) \/ ExecuteEscapes(t)
  \/ ClearTask(t) \/ ShotDone(t) \/ Unlock(t)
OrphanStep(t) ==
  \/ OrphanDelete(t) \/ OrphanQueued(t) \/ OrphanLoad(t) \/ OrphanStore(t)
Step(t) ==
  ApplyStep(t) \/ ScanStep(t) \/ DequeueAction(t) \/ ShotStep(t) \/ OrphanStep(t)
Call(t) == GetSlot(t) \/ ApplySlot(t) \/ Detach(t)

Next ==
  \/ \E t \in Thread : Call(t) \/ Step(t) \/ Crash(t)
  \/ Destroy
  \/ Finished

Spec == Init /\ [][Next]_vars

\* A thread inside a call keeps running, and a weak compare_exchange does not
\* fail spuriously for ever.  Nobody has to make another call.
Fairness == \A t \in Thread :
  WF_vars(Step(t)) /\ SF_vars(LockCas(t)) /\ SF_vars(PushCas(t))
FairSpec == Spec /\ Fairness

=============================================================================
