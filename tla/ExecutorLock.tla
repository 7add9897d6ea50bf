---------------------------- MODULE ExecutorLock ----------------------------
(***************************************************************************)
(* What try_lock and unlock of FlatCombiner.h promise run_executor: one    *)
(* executor at a time, and a generation number no earlier executor had.    *)
(* Not that it is released: an exception may carry its executor away.      *)
(***************************************************************************)
EXTENDS Naturals

CONSTANTS Thread, Nobody  \* Nobody is no thread

VARIABLES held,      \* the lock is taken
          executor,  \* who may run run_executor, or Nobody
          epoch      \* number of acquisitions so far: the current generation

vars == <<held, executor, epoch>>

Init == ~held /\ executor = Nobody /\ epoch = 0

Acquire(t) ==
  /\ ~held
  /\ held' = TRUE
  /\ executor' = t
  /\ epoch' = epoch + 1

Release(t) ==
  /\ executor = t
  /\ held' = FALSE
  /\ executor' = Nobody
  /\ UNCHANGED epoch

\* The executor is gone without a release, and nobody follows it.
Abandon(t) ==
  /\ executor = t
  /\ executor' = Nobody
  /\ UNCHANGED <<held, epoch>>

Next == \E t \in Thread : Acquire(t) \/ Release(t) \/ Abandon(t)

Spec == Init /\ [][Next]_vars

=============================================================================
