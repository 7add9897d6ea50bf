---------------------- MODULE FlatCombinerCorrectness ----------------------
(***************************************************************************)
(* What makes FlatCombiner correct.  Properties of states and steps first, *)
(* then the two abstract specifications it implements: the lock of         *)
(* ExecutorLock and the exactly-once call of AtomicApply.                  *)
(***************************************************************************)
EXTENDS FlatCombiner

\* The type of every variable.
TypeOK ==
  /\ lock \in [held : BOOLEAN, gen : Nat]
  /\ combine_shot \in [0 .. SHOT_N - 1 -> Pointer]
  /\ sum \in Nat /\ sum_n \in Nat
  /\ tls \in [Thread -> Slot \union {Null}]
  /\ live \in SUBSET Node
  /\ link \in [Node -> TaggedPointer]
  /\ op_code \in [Node -> Op \union {NOT_SET}]
  /\ generation \in [Node -> Nat]
  /\ pc \in [Thread -> PC]
  /\ slot \in [Thread -> Slot \union {Null}]
  /\ loaded \in [Thread -> Pointer]
  /\ gen \in [Thread -> Nat]
  /\ parent \in [Thread -> Pointer] /\ current_node \in [Thread -> Pointer]
  /\ n \in [Thread -> 0 .. SHOT_N] /\ i \in [Thread -> 0 .. SHOT_N]
  /\ pred \in [Thread -> Pointer] /\ new_next \in [Thread -> Pointer]
  /\ flag \in [Thread -> BOOLEAN] /\ is_alive \in [Thread -> BOOLEAN]
  /\ crashed \in BOOLEAN
  /\ calls \in [Thread -> 0 .. MaxCalls]
  /\ execs \in [Node -> Nat]

Applying(t)  == pc[t] \in ApplyPC \union ExecutorPC
Executing(t) == pc[t] \in ExecutorPC

-----------------------------------------------------------------------------
(* The lock.                                                               *)

\* At most one thread is between try_lock and unlock, and the lock bit is set
\* meanwhile.
MutualExclusion ==
  /\ \A t, u \in Thread : Executing(t) /\ Executing(u) => t = u
  /\ (\E t \in Thread : Executing(t)) => lock.held

\* Nobody leaves run_executor with the lock bit set: while it is, there is an
\* executor who will unlock().
HeldByExecutor == lock.held => \E t \in Thread : Executing(t)

\* A slot was never stamped by a generation still to come, so the unsigned
\* subtraction in run_executor that decides on expiry never wraps around.
GenerationBound ==
  /\ \A s \in Node : generation[s] <= lock.gen
  /\ \A t \in Thread : Executing(t) => gen[t] = lock.gen

-----------------------------------------------------------------------------
(* Memory.                                                                 *)

\* The slot a thread holds, as its thread-local value or inside a call, is
\* its own, allocated and marked alive: no executor deletes it under its owner.
Holds(t) == {tls[t], slot[t]} \ {Null}
OwnedSlotLive ==
  /\ \A t \in Thread : Holds(t) \subseteq {s \in live : IsAlive(s)}
  /\ \A t, u \in Thread : t # u => Holds(t) \intersect Holds(u) = {}

\* assert(was_dead): a slot found dead is still dead when it is dequeued.
AssertHolds == \A t \in Thread : ~AssertFails(t)

\* No thread dereferences a null, stale or deleted pointer, stores beyond
\* _combine_shot or fails the assertion.
NoUndefinedBehaviour == \A t \in Thread : ~Undefined(t)

\* The slot execute() is called through still exists: once deleted, a slot is
\* referenced from nowhere, _combine_shot included.
ExecuteThroughLive ==
  \A t \in Thread : pc[t] = "shot_exec" => combine_shot[0] \in live

\* A shot never outgrows the array of SHOT_N tasks.
ShotFits == \A t \in Thread : ~Overflows(t)

-----------------------------------------------------------------------------
(* The queue.                                                              *)

\* S holds the successor of each of its nodes.
Closed(S) == \A a \in S : link[a].ptr \in S \union {Null}

\* The nodes reached from a by following successors, a included.
ReachedFrom(a) ==
  {b \in Node : \A S \in SUBSET Node : a \in S /\ Closed(S) => b \in S}

\* The nodes on the list that starts at the head.
Queue == ReachedFrom(Head)

\* "slot in queue always(!) has next": the list runs from the head to the
\* tail, without a gap or a cycle, through allocated slots only.
QueueWellFormed ==
  Head \in live =>
    /\ Tail \in Queue
    /\ Queue \subseteq live
    /\ \A a \in Queue : InQueue(a) <=> a # Tail

\* A slot its thread gave up stays within an executor's reach until deleted.
OrphansReclaimable ==
  Head \in live =>
    \A s \in live \intersect Slot :
      s \in Queue \/ \E t \in Thread : s \in Holds(t) \union {current_node[t]}

\* A thread that goes for the lock with its operation pending is on the list,
\* so that whoever wins the lock, itself included, will find the operation.
WaitingIsQueued ==
  \A t \in Thread :
    pc[t] \in {"try_lock", "lock_cas"} /\ HasData(slot[t]) => slot[t] \in Queue

\* dequeue_slot finds the predecessor of the slot it removes.
DequeueFindsParent ==
  \A t \in Thread : pc[t] = "deq_flag" => pred[t] # Null

-----------------------------------------------------------------------------
(* The operations.                                                         *)

\* The tasks handed to execute() belong to threads that are waiting in
\* apply_slot: no client touches the data of a slot while it is being run.
TasksAreWaiting ==
  \A t \in Thread : pc[t] \in {"shot_exec", "shot_clear"} =>
    \A k \in i[t] .. n[t] - 1 :
      /\ HasData(combine_shot[k])
      /\ \E u \in Thread : slot[u] = combine_shot[k] /\ Applying(u)

\* An operation is passed to execute() at most once.
AtMostOnce == \A s \in Slot : execs[s] <= 1

\* apply_slot blocks "until slot gets complete": when it returns, the
\* operation it published has been run and cleared.
Completed(t) == op_code'[slot[t]] = NOT_SET /\ execs[slot[t]] = 1
CompleteOnReturn ==
  [][\A t \in Thread : Applying(t) /\ pc'[t] = "idle" => Completed(t)]_vars

\* Every call of apply_slot returns.
ApplyReturns == \A t \in Thread : Applying(t) ~> pc[t] = "idle"

-----------------------------------------------------------------------------
(* Refinement.                                                             *)

\* try_lock and unlock implement the executor's lock: one executor at a time,
\* and a new generation for each.
executor ==
  IF \E t \in Thread : Executing(t) THEN CHOOSE t \in Thread : Executing(t) ELSE Null
Lock == INSTANCE ExecutorLock WITH Nobody <- Null, held <- lock.held, epoch <- lock.gen
LockSpec == Lock!Spec

\* How far the operation of each thread is.
phase ==
  [t \in Thread |->
     IF ~Applying(t) THEN "none"
     ELSE CASE execs[slot[t]] = 0 -> "published"
            [] execs[slot[t]] = 1 -> "done"
            [] OTHER              -> "rerun"]
Abstract == INSTANCE AtomicApply

\* apply_slot runs the operation exactly once, between the call and the return.
ApplySpec == Abstract!Spec

=============================================================================
