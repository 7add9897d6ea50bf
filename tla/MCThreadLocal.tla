---------------------------- MODULE MCThreadLocal ----------------------------
(***************************************************************************)
(* ThreadLocal as TLC checks it: names of one kind are interchangeable.    *)
(***************************************************************************)
EXTENDS ThreadLocal, TLC

Symmetry == Permutations(Thread) \union Permutations(Object)
              \union Permutations(Slot) \union Permutations(Key)

=============================================================================
