----------------------------- MODULE AtomicApply -----------------------------
(***************************************************************************)
(* What FlatCombiner.h promises a client: apply_slot returns after the     *)
(* operation the thread published has been run, exactly once, at one       *)
(* instant between the call and the return.  The operations that waiting   *)
(* threads have published may run together, as one shot.                   *)
(***************************************************************************)
CONSTANT Thread

VARIABLE phase   \* of each thread's operation

Phase == {"none", "published", "done"}

Init == phase = [t \in Thread |-> "none"]

Publish(t) ==
  /\ phase[t] = "none"
  /\ phase' = [phase EXCEPT ![t] = "published"]

\* One call of execute() with the operations of the threads in S.
RunShot(S) ==
  /\ \A t \in S : phase[t] = "published"
  /\ phase' = [t \in Thread |-> IF t \in S THEN "done" ELSE phase[t]]

Complete(t) ==
  /\ phase[t] = "done"
  /\ phase' = [phase EXCEPT ![t] = "none"]

Next ==
  \/ \E t \in Thread : Publish(t) \/ Complete(t)
  \/ \E S \in SUBSET Thread : RunShot(S)

Spec == Init /\ [][Next]_phase

=============================================================================
