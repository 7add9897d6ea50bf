-------------------------- MODULE MCCombinedObject --------------------------
(***************************************************************************)
(* CombinedObject as TLC checks it: threads are interchangeable, and the   *)
(* indices reach one beyond the array on either side.                      *)
(***************************************************************************)
EXTENDS CombinedObject, TLC

Symmetry == Permutations(Thread)
IndexAround == -1 .. SIZE

=============================================================================
