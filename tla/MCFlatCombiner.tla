--------------------------- MODULE MCFlatCombiner ---------------------------
(***************************************************************************)
(* FlatCombiner as TLC checks it.  Threads and slot addresses are          *)
(* interchangeable: the specification never names one of them.             *)
(***************************************************************************)
EXTENDS FlatCombinerInvariant, TLC

Symmetry == Permutations(Thread) \union Permutations(Slot)

=============================================================================
