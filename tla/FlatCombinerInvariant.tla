----------------------- MODULE FlatCombinerInvariant -----------------------
(***************************************************************************)
(* The inductive invariant behind the properties of FlatCombiner's list    *)
(* and of its calls, for clients that detach only while nobody else is     *)
(* inside the object (DetachMode other than "any").                        *)
(*                                                                         *)
(* behind[a] is the set of nodes behind a on the list.  It is a parameter: *)
(* the proofs carry one along from step to step, TLC computes it.          *)
(***************************************************************************)
EXTENDS FlatCombinerCorrectness

\* The nodes on the list.
Members(behind) == {Head} \union behind[Head]

\* The words of f make a list from the head to the tail.  Every set of members
\* that starts at the head and follows successors is the whole list, which
\* stands in for an induction along it.
Chain(f, behind) ==
  /\ behind \in [Node -> SUBSET Node]
  /\ \A a \in Members(behind) :
       a \notin behind[a] /\ \A b \in behind[a] : behind[b] \subseteq behind[a]
  /\ \A a \in Members(behind) \ {Tail} :
       /\ behind[a] = {f[a].ptr} \union behind[f[a].ptr]
       /\ Tail \in behind[a]
  /\ behind[Tail] = {} /\ f[Tail].ptr = Null
  /\ \A a, b \in Members(behind) : a = b \/ a \in behind[b] \/ b \in behind[a]
  /\ \A S \in SUBSET Members(behind) :
       Head \in S /\ (\A a \in S \ {Tail} : f[a].ptr \in S) => S = Members(behind)

PushPC   == {"push_load", "push_set", "push_cas"}
SearchPC == {"deq_flag", "deq_cas", "deq_step"}
TargetPC == {"run_alive", "run_data", "deq_next"} \union SearchPC
ScanPC   == TargetPC \union {"deq_null", "run_next"}
ShotPC   == {"shot_exec", "shot_clear"}

\* The slot an executor has unlinked and not yet marked as unlinked.
Unlinked(s) == \E t \in Thread : pc[t] = "deq_null" /\ current_node[t] = s

\* A slot whose owner is about to push it, its successor set before or now.
Pushing(s) == \E t \in Thread : pc[t] \in {"push_set", "push_cas"} /\ slot[t] = s

-----------------------------------------------------------------------------
(* The list and the slots.                                                 *)

\* A thread that gives up its slot is alone inside the object.
Quiet ==
  \A t \in Thread : pc[t] \in OrphanPC =>
    DetachMode = "quiescent" /\ \A u \in Thread \ {t} : pc[u] = "idle"

\* What is on the list is allocated, and the object outlives its clients.
MemoryInv(behind) ==
  /\ Members(behind) \intersect Slot \subseteq live
  /\ Head \in live <=> Tail \in live
  /\ Head \notin live => \A t \in Thread : pc[t] = "idle" /\ tls[t] = Null

\* A slot with a successor is on the list, about to be pushed, or just unlinked.
LinkedInv(behind) ==
  \A s \in Slot : InQueue(s) => s \in Members(behind) \/ Unlinked(s) \/ Pushing(s)

\* A slot is somebody's, or dead and within an executor's reach.
OrphanInv(behind) ==
  \A s \in live \intersect Slot :
    \/ IsAlive(s) /\ \E u \in Thread : s \in Holds(u)
    \/ ~IsAlive(s) /\ (s \in Members(behind) \/ Unlinked(s))

\* Element 0 of _combine_shot is a slot of an attached thread, except before the
\* first shot after a moment when nobody was inside the object.
FirstTaskInv(behind) ==
  \/ combine_shot[0] \in live /\ IsAlive(combine_shot[0])
  \/ \E t \in Thread :
       /\ pc[t] \in ScanPC \union {"run_first"}
       /\ HasData(slot[t]) /\ slot[t] \in Members(behind)
  \/ \A u \in Thread :
       /\ ~Executing(u)
       /\ pc[u] \in ApplyPC => HasData(slot[u])
       /\ pc[u] \in {"try_lock", "lock_cas"} => slot[u] \in Members(behind)

-----------------------------------------------------------------------------
(* Each thread.                                                            *)

\* A thread pushes a slot of its own that is not on the list.
PusherInv(t, behind) ==
  /\ pc[t] # "idle" => slot[t] # Null
  /\ pc[t] \in PushPC => slot[t] \notin Members(behind) /\ ~Unlinked(slot[t])
  /\ pc[t] \in {"push_set", "push_cas"} => loaded[t] # Null
  /\ pc[t] = "push_cas" => link[slot[t]].ptr = loaded[t]

\* The slot a thread marks dead is on the list, and its word does not change.
LeaverInv(t, behind) ==
  /\ pc[t] \in {"orphan_load", "orphan_store"} => slot[t] \in Members(behind)
  /\ pc[t] = "orphan_store" => loaded[t] = link[slot[t]].ptr

\* The executor stays on the list, and what it removes is behind its parent.
ScannerInv(t, behind) ==
  /\ pc[t] \in ScanPC => parent[t] \in Members(behind) \ {Tail}
  /\ pc[t] \in TargetPC => current_node[t] \in behind[parent[t]] \ {Tail}
  /\ pc[t] = "run_data" => IsAlive(current_node[t])
  /\ pc[t] = "run_next" => current_node[t] = parent[t]
  /\ pc[t] = "deq_null" =>
       /\ current_node[t] \in live \intersect Slot
       /\ current_node[t] \notin Members(behind) /\ InQueue(current_node[t])
  /\ pc[t] \in SearchPC =>
       /\ pred[t] \in Members(behind) /\ current_node[t] \in behind[pred[t]]
       /\ new_next[t] = link[current_node[t]].ptr
  /\ pc[t] = "deq_cas" => flag[t] = IsAlive(pred[t])
  /\ pc[t] = "deq_step" => link[pred[t]].ptr # current_node[t]

\* The tasks are different slots of the list, none of them ahead of the scan,
\* alive, and with an operation until it is cleared.
ShotInv(t, behind) ==
  /\ pc[t] \notin {"shot_clear", "unlock"} => i[t] = 0
  /\ pc[t] \in ScanPC \union ShotPC =>
       /\ \A k \in 0 .. n[t] - 1 :
            combine_shot[k] \in Members(behind) \intersect Slot /\ IsAlive(combine_shot[k])
       /\ \A j, k \in 0 .. n[t] - 1 : combine_shot[j] = combine_shot[k] => j = k
       /\ \A k \in i[t] .. n[t] - 1 : HasData(combine_shot[k])
  /\ pc[t] \in ScanPC => \A k \in 0 .. n[t] - 1 :
       parent[t] = combine_shot[k] \/ parent[t] \in behind[combine_shot[k]]

\* The tasks that have not been cleared.
Left(t) == {combine_shot[k] : k \in i[t] .. n[t] - 1}

\* An executor with an operation of its own meets it, if it is on the list.
OwnTaskInv(t, behind) ==
  Executing(t) /\ HasData(slot[t]) /\ slot[t] \in Members(behind) =>
    /\ pc[t] \in {"run_alive", "run_data"} =>
         slot[t] \in Left(t) \union {current_node[t]} \union behind[current_node[t]]
    /\ pc[t] \in DequeuePC \union {"run_next"} =>
         slot[t] \in Left(t) \union behind[parent[t]]
    /\ pc[t] \in DequeuePC => slot[t] # current_node[t]
    /\ pc[t] \in ShotPC => slot[t] \in Left(t)
    /\ pc[t] = "unlock" => "std" \in MayThrow

ThreadInv(t, behind) ==
  /\ PusherInv(t, behind) /\ LeaverInv(t, behind)
  /\ ScannerInv(t, behind) /\ ShotInv(t, behind) /\ OwnTaskInv(t, behind)

ListInv(behind) ==
  /\ Chain(link, behind)
  /\ Quiet /\ MemoryInv(behind) /\ LinkedInv(behind) /\ OrphanInv(behind)
  /\ FirstTaskInv(behind)
  /\ \A t \in Thread : ThreadInv(t, behind)

-----------------------------------------------------------------------------
(* The calls.                                                              *)

\* Without exceptions: an operation on the list has a caller who waits for it.
CallerInv(behind) ==
  \A s \in Members(behind) \intersect Slot :
    HasData(s) => \E u \in Thread : slot[u] = s /\ Applying(u)

\* Without exceptions: an operation is cleared after it has run once, and until
\* then it has run only if its executor is about to clear it.
OnceInv ==
  /\ \A s \in Slot : execs[s] <= 1
  /\ \A s \in Slot : HasData(s) /\ execs[s] # 0 =>
       \E t \in Thread : pc[t] = "shot_clear" /\ s \in Left(t)
  /\ \A t \in Thread : pc[t] = "shot_clear" => \A s \in Left(t) : execs[s] = 1
  /\ \A u \in Thread : Applying(u) /\ ~HasData(slot[u]) => execs[slot[u]] = 1

CallInv(behind) == CallerInv(behind) /\ OnceInv

\* No call of apply_slot overlaps with the removal of its own slot, expired but
\* alive, from the list.
Undisturbed ==
  \A t, u \in Thread :
    pc[t] \in DequeuePC /\ is_alive[t] /\ Applying(u) => current_node[t] # slot[u]

\* While calls are undisturbed, a thread that has been on the list stays there
\* until its call returns.
QueuedInv(behind) ==
  \A t \in Thread :
    pc[t] \in {"try_lock", "lock_cas"} \union ExecutorPC => slot[t] \in Members(behind)

-----------------------------------------------------------------------------
(* The invariant of the words themselves.                                  *)

\* The nodes behind each node.
Behind == [a \in Node |-> ReachedFrom(a) \ {a}]

\* The list, the slots and the threads at work on them fit together: what is on
\* the list or about to be, who may still write to it, and what the executor has
\* read of it.
ListConsistent == ListInv(Behind)

\* A pending operation on the list has a caller who waits for it, and it has run
\* exactly if its executor is about to clear it.
CallsConsistent == CallInv(Behind)

=============================================================================
