----------------------------- MODULE ThreadLocal -----------------------------
(***************************************************************************)
(* ThreadLocal.h as several FlatCombiners use it during a program's life:  *)
(* each constructs a ThreadLocal of its own, keeps every thread's slot in  *)
(* it, and is destroyed, while threads detach, exit and are replaced.  A   *)
(* call touches its own thread's values only, so it is one step.           *)
(***************************************************************************)
EXTENDS Integers

CONSTANTS
  Thread,   \* a thread that exits leaves its name to a new one
  Object,   \* FlatCombiners, one name for each construction
  Slot,     \* slots, one name for each allocation (BOUND: as many as there are)
  Key,      \* the PTHREAD_KEYS_MAX keys of the process
  Null,     \* nullptr
  None      \* no key; the maker of a slot not yet allocated

ASSUME NamesAssumption == Null \notin Slot /\ None \notin Key /\ None \notin Thread \X Object

VARIABLES
  keys,       \* pthread: the keys in use
  specific,   \* pthread: each thread's value for each key
  built,      \* FlatCombiners constructed and not destroyed
  th_key,     \* _th_key of each FlatCombiner's ThreadLocal
  orphaned,   \* how often each slot was passed to orphan_slot
  maker,      \* history: the thread and object that allocated a slot
  aliased     \* history: a ThreadLocal was left with a key that is not its own

vars == <<keys, specific, built, th_key, orphaned, maker, aliased>>

Init ==
  /\ keys = {} /\ built = {} /\ aliased = FALSE
  /\ specific = [t \in Thread |-> [k \in Key |-> Null]]
  /\ th_key = [o \in Object |-> None]
  /\ orphaned = [s \in Slot |-> 0]
  /\ maker = [s \in Slot |-> None]

-----------------------------------------------------------------------------
(* What pthread does.                                                      *)

\* pthread_key_create takes a key nobody uses.
FreshKeys == Key \ keys

\* A new key's value is null in every thread.
Blank(k) == specific' = [t \in Thread |-> [specific[t] EXCEPT ![k] = Null]]

\* pthread_setspecific, through ThreadLocal::set.
Set(t, o, s) == specific' = [specific EXCEPT ![t][th_key[o]] = s]

\* pthread_getspecific, through ThreadLocal::get.
Get(t, o) == specific[t][th_key[o]]

-----------------------------------------------------------------------------
(* ThreadLocal's constructor, in FlatCombiner's.                           *)

\* BUG: _th_key is static, and only the first constructor creates it.
StaticKey == IF keys = {} THEN FreshKeys ELSE keys

\* _th_key is a member of each ThreadLocal, and each constructor creates one.
OwnKey == FreshKeys

Construct(o) ==
  /\ th_key[o] = None
  /\ \E k \in OwnKey :
       /\ keys' = keys \union {k}
       /\ th_key' = [th_key EXCEPT ![o] = k]
       /\ Blank(k)
  /\ built' = built \union {o}
  /\ UNCHANGED <<orphaned, maker, aliased>>

\* The result of pthread_key_create is ignored: without a key left, _th_key
\* is whatever the memory held.  If that is a key in use, set(nullptr) clears
\* the constructing thread's value of it; if not, set throws and there is no
\* object.
ConstructExhausted(t, o) ==
  /\ th_key[o] = None /\ FreshKeys = {}
  /\ \E k \in keys :
       /\ th_key' = [th_key EXCEPT ![o] = k]
       /\ specific' = [specific EXCEPT ![t][k] = Null]
  /\ built' = built \union {o} /\ aliased' = TRUE
  /\ UNCHANGED <<keys, orphaned, maker>>

-----------------------------------------------------------------------------
(* FlatCombiner's use of it.                                               *)

\* get_slot() of a thread that has none.
GetSlot(t, o) ==
  /\ o \in built /\ Get(t, o) = Null
  /\ \E s \in Slot :
       /\ maker[s] = None
       /\ maker' = [maker EXCEPT ![s] = <<t, o>>]
       /\ Set(t, o, s)
  /\ UNCHANGED <<keys, built, th_key, orphaned, aliased>>

OrphanSlots(S) == orphaned' = [s \in Slot |-> orphaned[s] + IF s \in S THEN 1 ELSE 0]

\* BUG: detach() leaves the thread's value as it was.
KeptBy(t, o) == Get(t, o)

\* detach() sets the value to nullptr before it orphans the slot.
LeftBy(t, o) == Null

Detach(t, o) ==
  /\ o \in built /\ Get(t, o) # Null
  /\ Set(t, o, LeftBy(t, o))
  /\ OrphanSlots({Get(t, o)})
  /\ UNCHANGED <<keys, built, th_key, maker, aliased>>

\* A thread exits: slot_destructor is called with its non-null values of all keys
\* in use.
Exit(t) ==
  /\ specific' = [specific EXCEPT ![t] = [k \in Key |-> Null]]
  /\ OrphanSlots({specific[t][k] : k \in keys} \ {Null})
  /\ UNCHANGED <<keys, built, th_key, maker, aliased>>

\* BUG: the destructor deletes the key.
KeysWithout(o) == keys \ {th_key[o]}

\* ~ThreadLocal is implicit: the key stays in use for good.
KeysAfter(o) == keys

\* ~FlatCombiner, whether or not all threads have detached.
Destroy(o) ==
  /\ o \in built
  /\ built' = built \ {o}
  /\ keys' = KeysAfter(o)
  /\ UNCHANGED <<specific, th_key, orphaned, maker, aliased>>

Next ==
  \/ \E o \in Object : Construct(o) \/ Destroy(o)
  \/ \E t \in Thread, o \in Object : ConstructExhausted(t, o) \/ GetSlot(t, o) \/ Detach(t, o)
  \/ \E t \in Thread : Exit(t)

Spec == Init /\ [][Next]_vars

-----------------------------------------------------------------------------
(* What must hold.                                                         *)

TypeOK ==
  /\ keys \subseteq Key /\ built \subseteq Object /\ aliased \in BOOLEAN
  /\ specific \in [Thread -> [Key -> Slot \union {Null}]]
  /\ th_key \in [Object -> Key \union {None}]
  /\ orphaned \in [Slot -> Nat]
  /\ maker \in [Slot -> (Thread \X Object) \union {None}]

\* Slot s is what some thread's ThreadLocal holds: its thread finds it, or its exit.
Held(s) == \E t \in Thread, k \in keys : specific[t][k] = s

\* As long as the keys last, get_slot() gives a thread the slot it allocated itself,
\* for this very object: not another object's, nor one kept from an object that is
\* gone.  (Once they are used up, two objects can share a slot.)
SlotIsOwn == ~aliased =>
  \A t \in Thread, o \in built : Get(t, o) # Null => maker[Get(t, o)] = <<t, o>>

\* detach() and the thread's exit never pass the same slot to orphan_slot twice,
\* nor leave a thread a slot that was passed to it, be there keys left or not: a
\* second orphan_slot would delete it again.
OrphanedOnce == \A s \in Slot : orphaned[s] <= 1 /\ (orphaned[s] = 1 => ~Held(s))

\* As long as the keys last, no slot is forgotten: until orphan_slot has it, a thread
\* does, even when the object is destroyed before that thread detached or exited.
NothingForgotten == ~aliased =>
  \A s \in Slot : maker[s] # None => orphaned[s] = 1 \/ Held(s)

=============================================================================
