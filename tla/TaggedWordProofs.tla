-------------------------- MODULE TaggedWordProofs --------------------------
(***************************************************************************)
(* The words of TaggedWord read as the records of FlatCombiner, for every  *)
(* width of the word.                                                      *)
(***************************************************************************)
EXTENDS TaggedWord, TLAPS

\* The record FlatCombiner keeps for a word.
Link(w) == [ptr |-> Untagged(w), alive |-> w >= BIT]
Lock(w) == [held |-> w >= BIT, gen |-> Untagged(w)]

\* Taking a word apart: below BIT it is the pointer, and from BIT on BIT more.
LEMMA Halves ==
  ASSUME BIT \in Nat \ {0}, NEW w \in Word
  PROVE  /\ Untagged(w) \in Address
         /\ w < BIT  => Untagged(w) = w       /\ Tag(w) = 0
         /\ w >= BIT => Untagged(w) = w - BIT /\ Tag(w) = BIT
BY DEF Word, Address, Untagged, Tag

\* Putting one together.
LEMMA Joined ==
  ASSUME BIT \in Nat \ {0}, NEW p \in Address
  PROVE  /\ Tagged(p, BIT) = p + BIT /\ Tagged(p, 0) = p
         /\ Tagged(p, BIT) \in Word /\ Tagged(p, 0) \in Word
         /\ Untagged(p + BIT) = p /\ Untagged(p) = p
BY DEF Word, Address, Untagged, Tagged

\* A word with the bit, and one without it, as records.
LEMMA Records ==
  ASSUME NEW w
  PROVE  /\ w >= BIT => /\ Link(w) = [ptr |-> Untagged(w), alive |-> TRUE]
                        /\ Lock(w) = [held |-> TRUE, gen |-> Untagged(w)]
         /\ ~(w >= BIT) => /\ Link(w) = [ptr |-> Untagged(w), alive |-> FALSE]
                           /\ Lock(w) = [held |-> FALSE, gen |-> Untagged(w)]
<1>1. CASE w >= BIT
  <2>1. (w >= BIT) = TRUE BY <1>1
  <2> QED BY <2>1, Zenon DEF Link, Lock
<1>2. CASE ~(w >= BIT)
  <2>1. (w >= BIT) = FALSE BY <1>2
  <2> QED BY <2>1, Zenon DEF Link, Lock
<1> QED BY <1>1, <1>2

-----------------------------------------------------------------------------
(* Words and records.                                                      *)

\* Two words are equal exactly if their records are: a compare_exchange of words
\* is one of records.
THEOREM WordsAreRecords ==
  ASSUME BIT \in Nat \ {0}, NEW v \in Word, NEW w \in Word
  PROVE  (v = w <=> Link(v) = Link(w)) /\ (v = w <=> Lock(v) = Lock(w))
<1>1. v \in Int /\ w \in Int BY DEF Word
<1>2. Link(v) = Link(w) => Untagged(v) = Untagged(w) /\ (v >= BIT <=> w >= BIT)
  BY DEF Link
<1>3. Lock(v) = Lock(w) => Untagged(v) = Untagged(w) /\ (v >= BIT <=> w >= BIT)
  BY DEF Lock
<1>4. Untagged(v) = Untagged(w) /\ (v >= BIT <=> w >= BIT) => v = w
  BY <1>1, Halves
<1> QED BY <1>2, <1>3, <1>4

\* A tagged word reads back as the pointer and the bit it was made of.
LEMMA LinkOfTagged ==
  ASSUME BIT \in Nat \ {0}, NEW p \in Address, NEW w \in Word
  PROVE  /\ Tagged(p, Tag(w)) \in Word
         /\ Link(Tagged(p, Tag(w))) = [ptr |-> p, alive |-> w >= BIT]
<1>1. CASE w >= BIT
  <2>1. Tag(w) = BIT /\ p + BIT >= BIT BY <1>1, Halves DEF Address
  <2> QED BY <1>1, <2>1, Joined DEF Link
<1>2. CASE w < BIT
  <2>1. Tag(w) = 0 /\ ~(p >= BIT) BY <1>2, Halves DEF Address
  <2> QED BY <1>2, <2>1, Joined DEF Link, Word
<1> QED BY <1>1, <1>2 DEF Word

-----------------------------------------------------------------------------
(* TaggedPointer.                                                          *)

\* The constructor, set and unset_flag do to the word what NewPointer, SetPtr and
\* ClearFlag do to the record: each changes its half and keeps the other.
THEOREM StoresKeepTheOtherHalf ==
  ASSUME BIT \in Nat \ {0}, NEW p \in Address, NEW w \in Word
  PROVE  /\ Link(Constructed(p)) = [ptr |-> p, alive |-> TRUE]
         /\ Link(SetWord(w, p)) = [ptr |-> p, alive |-> Link(w).alive]
         /\ Link(UnsetWord(w)) = [ptr |-> Link(w).ptr, alive |-> FALSE]
<1>1. Link(Constructed(p)) = [ptr |-> p, alive |-> TRUE]
  <2>1. p + BIT >= BIT BY DEF Address
  <2> QED BY <2>1, Joined DEF Link, Constructed
<1>2. Link(SetWord(w, p)) = [ptr |-> p, alive |-> Link(w).alive]
  BY LinkOfTagged DEF SetWord, Link
<1>3. Link(UnsetWord(w)) = [ptr |-> Link(w).ptr, alive |-> FALSE]
  <2>1. Untagged(w) \in Address BY Halves
  <2>2. Untagged(Untagged(w)) = Untagged(w) BY <2>1, Joined
  <2>3. ~(Untagged(w) >= BIT) BY <2>1 DEF Address
  <2>4. Link(Untagged(w)) = [ptr |-> Untagged(w), alive |-> FALSE]
    BY <2>2, <2>3, Records
  <2> QED BY <2>4 DEF UnsetWord, Link
<1> QED BY <1>1, <1>2, <1>3

\* A compare_exchange that loaded the bit from the word f succeeds on the word w
\* exactly if w has the expected pointer and f's bit, and stores the new pointer
\* with w's own bit, although it computed the new word from f's.  The weak one
\* gives its caller w's pointer when it fails.
THEOREM CompareExchangeIsExact ==
  ASSUME BIT \in Nat \ {0}, NEW p \in Address, NEW q \in Address,
         NEW f \in Word, NEW w \in Word
  PROVE  /\ w = ExpectedWord(p, f) <=> Link(w) = [ptr |-> p, alive |-> Link(f).alive]
         /\ w = ExpectedWord(p, f) =>
              Link(ExpectedWord(q, f)) = [ptr |-> q, alive |-> Link(w).alive]
         /\ Reloaded(w) = Link(w).ptr
<1>1. /\ ExpectedWord(p, f) \in Word
      /\ Link(ExpectedWord(p, f)) = [ptr |-> p, alive |-> Link(f).alive]
      /\ Link(ExpectedWord(q, f)) = [ptr |-> q, alive |-> Link(f).alive]
  BY LinkOfTagged DEF ExpectedWord, Link
<1>2. w = ExpectedWord(p, f) <=> Link(w) = Link(ExpectedWord(p, f))
  BY <1>1, WordsAreRecords
<1>3. Reloaded(w) = Link(w).ptr BY DEF Reloaded, Link
<1> QED BY <1>1, <1>2, <1>3

\* update_value_with_tag_check starts from a guess instead of the word it loaded.
\* Whichever word e it is comparing with when the compare_exchange succeeds, the
\* guess or one read back, it stores the pointer, keeps the bit, and returns
\* whether the bit was the one the caller named.
THEOREM UpdateIsExact ==
  ASSUME BIT \in Nat \ {0}, NEW p \in Address, NEW flag \in BOOLEAN,
         NEW w \in Word, NEW e, e = w
  PROVE  /\ Link(UpdateWord(e, p)) = [ptr |-> p, alive |-> Link(w).alive]
         /\ UpdateResult(e, flag) <=> Link(w).alive = flag
<1>1. Untagged(p) = p BY Joined
<1>2. Link(UpdateWord(e, p)) = [ptr |-> p, alive |-> Link(w).alive]
  BY <1>1, LinkOfTagged DEF UpdateWord, Link
<1>3. UpdateResult(e, flag) <=> Link(w).alive = flag
  BY Halves DEF UpdateResult, Link, Word
<1> QED BY <1>2, <1>3

\* And the guess itself is harmless: no pointer but the last address there is makes
\* the word it expects, with the bit the caller named.
THEOREM FirstGuessMatchesNoObject ==
  ASSUME BIT \in Nat \ {0}, NEW flag \in BOOLEAN, NEW w \in Word
  PROVE  w = FirstGuess(flag) <=> Link(w) = [ptr |-> BIT - 1, alive |-> flag]
<1>1. BIT - 1 \in Address BY DEF Address
<1>2. FirstGuess(flag) \in Word BY <1>1, Joined DEF FirstGuess
<1>3. Link(FirstGuess(flag)) = [ptr |-> BIT - 1, alive |-> flag]
  <2>1. CASE flag = TRUE
    <3>1. FirstGuess(flag) = BIT - 1 + BIT BY <1>1, <2>1, Joined DEF FirstGuess
    <3>2. Untagged(BIT - 1 + BIT) = BIT - 1 BY <1>1, Joined
    <3>3. BIT - 1 + BIT >= BIT BY DEF Address
    <3>4. Link(BIT - 1 + BIT) = [ptr |-> BIT - 1, alive |-> TRUE]
      BY <3>2, <3>3, Records
    <3> QED BY <2>1, <3>1, <3>4
  <2>2. CASE flag = FALSE
    <3>1. FirstGuess(flag) = BIT - 1 BY <1>1, <2>2, Joined DEF FirstGuess
    <3>2. Untagged(BIT - 1) = BIT - 1 BY <1>1, Joined
    <3>3. ~(BIT - 1 >= BIT) BY DEF Address
    <3>4. Link(BIT - 1) = [ptr |-> BIT - 1, alive |-> FALSE] BY <3>2, <3>3, Records
    <3> QED BY <2>2, <3>1, <3>4
  <2> QED BY <2>1, <2>2
<1> QED BY <1>2, <1>3, WordsAreRecords

-----------------------------------------------------------------------------
(* The lock word.                                                          *)

\* Before the last generation, try_lock's word is the next generation with the bit
\* set, its result is not the 0 of failure, and unlock's word is the same generation
\* without the bit: NextGeneration and Unlocked.
THEOREM LockWord ==
  ASSUME BIT \in Nat \ {0}, NEW w \in Word, Untagged(w) < BIT - 1
  PROVE  /\ Lock(LockedWord(w)) = [held |-> TRUE, gen |-> Lock(w).gen + 1]
         /\ Untagged(LockedWord(w)) # 0
         /\ Lock(UnlockedWord(w)) = [held |-> FALSE, gen |-> Lock(w).gen]
<1> DEFINE g == Untagged(w)
<1>1. g \in Address /\ g + 1 \in Address BY Halves DEF Address
<1>2. (g + 1) % (2 * BIT) = g + 1 BY <1>1 DEF Address
<1>3. LockedWord(w) = g + 1 + BIT /\ Untagged(LockedWord(w)) = g + 1
  BY <1>1, <1>2, Joined DEF LockedWord
<1>4. Lock(LockedWord(w)) = [held |-> TRUE, gen |-> Lock(w).gen + 1]
  <2>1. LockedWord(w) >= BIT BY <1>1, <1>3 DEF Address
  <2>2. Lock(w).gen = g BY DEF Lock
  <2> QED BY <1>3, <2>1, <2>2, Records
<1>5. Lock(UnlockedWord(w)) = [held |-> FALSE, gen |-> Lock(w).gen]
  <2>1. Untagged(g) = g /\ ~(g >= BIT) BY <1>1, Joined DEF Address
  <2>2. Lock(w).gen = g BY DEF Lock
  <2> QED BY <2>1, <2>2, Records DEF UnlockedWord
<1> QED BY <1>1, <1>3, <1>4, <1>5 DEF Address

\* At the last generation of the word's bits, try_lock takes the lock and returns 0,
\* which apply_slot reads as failure: nobody would ever unlock it.
THEOREM LastGeneration ==
  ASSUME BIT \in Nat \ {0, 1}
  PROVE  Lock(LockedWord(BIT - 1)) = [held |-> TRUE, gen |-> 0]
<1>1. BIT - 1 \in Address BY DEF Address
<1>2. Untagged(BIT - 1) = BIT - 1 BY <1>1, Joined
<1>3. LockedWord(BIT - 1) = BIT BY <1>2 DEF LockedWord, Tagged
<1>4. Untagged(BIT) = 0 BY DEF Untagged
<1>5. BIT >= BIT OBVIOUS
<1> QED BY <1>3, <1>4, <1>5, Records

=============================================================================
