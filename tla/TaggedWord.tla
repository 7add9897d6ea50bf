----------------------------- MODULE TaggedWord -----------------------------
(***************************************************************************)
(* The words behind TaggedPointer and _lock.  FlatCombiner keeps both as   *)
(* records; in the code each is an unsigned integer of w bits whose top    *)
(* bit, worth BIT, is the alive bit or the lock bit.  What the masks do to *)
(* the word is shown to be what FlatCombiner does to the record.           *)
(***************************************************************************)
EXTENDS Integers

CONSTANT BIT   \* ALIVE_BIT and LOCK_BIT_MASK: 2^63

Word    == 0 .. 2 * BIT - 1
Address == 0 .. BIT - 1   \* pointers of a user process; and generations

\* w & BIT, w & ~BIT, and p | bit for a bit that is 0 or BIT.
Tag(w)        == IF w >= BIT THEN BIT ELSE 0
Untagged(w)   == w % BIT
Tagged(p, bit) == IF bit = BIT /\ p < BIT THEN p + BIT ELSE p

-----------------------------------------------------------------------------
(* TaggedPointer.  Each operator is the word that is stored or compared.   *)

\* TaggedPointer(p), set(p) with the word it loaded, unset_flag with its own.
Constructed(p) == Tagged(p, BIT)
SetWord(old, p) == Tagged(p, Tag(old))
UnsetWord(old) == Untagged(old)

\* The word a compare_exchange expects: the caller's pointer, the bit it loaded.
ExpectedWord(p, flag) == Tagged(p, Tag(flag))

\* A failed compare_exchange_weak returns the pointer of the word it found.
Reloaded(w) == Untagged(w)

\* update_value_with_tag_check(p, flag): what it expects the first time, whatever
\* it loaded; and, for each word it expects, what it stores and what it returns.
FirstGuess(flag) == Tagged(BIT - 1, IF flag THEN BIT ELSE 0)
UpdateWord(expected, p) == Tagged(Untagged(p), Tag(expected))
UpdateResult(expected, flag) == (IF flag THEN BIT ELSE 0) = Tag(expected)

-----------------------------------------------------------------------------
(* The lock word.                                                          *)

\* try_lock's word for the next generation, one up modulo the word; its result is
\* that word's generation.
LockedWord(w) == Tagged((Untagged(w) + 1) % (2 * BIT), BIT)
UnlockedWord(w) == Untagged(w)

=============================================================================
