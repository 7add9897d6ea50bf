-------------------------- MODULE ThreadLocalProofs --------------------------
(***************************************************************************)
(* What ThreadLocal keeps for every number of threads, objects and keys.   *)
(***************************************************************************)
EXTENDS ThreadLocal, TLAPS

-----------------------------------------------------------------------------
(* The inductive invariant.                                                *)

\* Objects have keys in use, and a key not in use has no values.
KeysInUse ==
  /\ \A o \in Object : th_key[o] # None => th_key[o] \in keys
  /\ \A o \in built : th_key[o] # None
  /\ \A t \in Thread, k \in Key \ keys : specific[t][k] = Null

\* A slot is the value of one thread for one key.
HeldOnce == \A t, u \in Thread : \A k, l \in Key :
  specific[t][k] = specific[u][l] /\ specific[t][k] # Null => t = u /\ k = l

\* A slot that is held is allocated and not orphaned, and no slot is orphaned
\* before it is allocated, or twice.
Accounted ==
  /\ \A t \in Thread, k \in Key : specific[t][k] # Null =>
       maker[specific[t][k]] # None /\ orphaned[specific[t][k]] = 0
  /\ \A s \in Slot : orphaned[s] <= 1 /\ (maker[s] = None => orphaned[s] = 0)

\* As long as the keys last, no two objects have the same, and a key's values
\* were allocated for its object, be that destroyed or not.
KeysApart == ~aliased =>
  /\ \A o, p \in Object : th_key[o] = th_key[p] /\ th_key[o] # None => o = p
  /\ \A t \in Thread, o \in Object : th_key[o] # None /\ Get(t, o) # Null =>
       maker[Get(t, o)] = <<t, o>>

Inv == TypeOK /\ KeysInUse /\ HeldOnce /\ Accounted /\ KeysApart /\ NothingForgotten

-----------------------------------------------------------------------------
(* What each action does to the threads' values.                           *)

\* A step of Set changes one thread's value for one key.
LEMMA SetEffect ==
  ASSUME TypeOK, NEW t \in Thread, NEW o \in Object, th_key[o] \in Key,
         NEW s \in Slot \union {Null}, Set(t, o, s)
  PROVE  /\ specific' \in [Thread -> [Key -> Slot \union {Null}]]
         /\ \A u \in Thread, l \in Key :
              specific'[u][l] = IF u = t /\ l = th_key[o] THEN s ELSE specific[u][l]
BY DEF Set, TypeOK

\* The initial state satisfies the invariant.
LEMMA InitInv == ASSUME Init PROVE Inv
<1>1. TypeOK BY DEF Init, TypeOK
<1>2. KeysInUse /\ HeldOnce BY DEF Init, KeysInUse, HeldOnce
<1>3. Accounted BY DEF Init, Accounted
<1>4. KeysApart /\ NothingForgotten BY DEF Init, KeysApart, NothingForgotten
<1> QED BY <1>1, <1>2, <1>3, <1>4 DEF Inv

\* A ThreadLocal constructed with a key of its own.
LEMMA ConstructInv == ASSUME Inv, NEW o \in Object, Construct(o) PROVE Inv'
<1>1. PICK k \in Key \ keys :
        keys' = keys \union {k} /\ th_key' = [th_key EXCEPT ![o] = k] /\ Blank(k)
  BY DEF Construct, OwnKey, FreshKeys
<1>2. specific' = specific
  <2>1. \A t \in Thread : [specific[t] EXCEPT ![k] = Null] = specific[t]
    BY DEF Inv, TypeOK, KeysInUse
  <2> QED BY <1>1, <2>1 DEF Blank, Inv, TypeOK
<1>3. TypeOK' BY <1>1, <1>2 DEF Construct, Inv, TypeOK
<1>4. KeysInUse' BY <1>1, <1>2, NamesAssumption DEF Construct, Inv, TypeOK, KeysInUse
<1>5. HeldOnce' /\ Accounted' BY <1>2 DEF Construct, Inv, HeldOnce, Accounted
<1>6. KeysApart'
  <2>1. \A p \in Object : th_key[p] # k
    BY <1>1, NamesAssumption DEF Inv, KeysInUse
  <2>2. \A t \in Thread : specific[t][k] = Null
    BY <1>1 DEF Inv, KeysInUse
  <2> QED BY <1>1, <1>2, <2>1, <2>2 DEF Construct, Inv, TypeOK, KeysApart, Get
<1>7. NothingForgotten'
  BY <1>1, <1>2 DEF Construct, Inv, NothingForgotten, Held
<1> QED BY <1>3, <1>4, <1>5, <1>6, <1>7 DEF Inv

\* One constructed after the keys were used up.
LEMMA ExhaustedInv ==
  ASSUME Inv, NEW t \in Thread, NEW o \in Object, ConstructExhausted(t, o) PROVE Inv'
<1>1. PICK k \in keys : /\ th_key' = [th_key EXCEPT ![o] = k]
                        /\ specific' = [specific EXCEPT ![t][k] = Null]
  BY DEF ConstructExhausted
<1>2. k \in Key BY DEF Inv, TypeOK
<1>3. TypeOK' BY <1>1, <1>2 DEF ConstructExhausted, Inv, TypeOK
<1>4. \A u \in Thread, l \in Key :
        specific'[u][l] = IF u = t /\ l = k THEN Null ELSE specific[u][l]
  BY <1>1, <1>2 DEF Inv, TypeOK
<1>5. KeysInUse'
  BY <1>1, <1>2, <1>4, NamesAssumption DEF ConstructExhausted, Inv, TypeOK, KeysInUse
<1>6. HeldOnce' BY <1>4 DEF Inv, HeldOnce
<1>7. Accounted' BY <1>4 DEF ConstructExhausted, Inv, Accounted
<1>8. KeysApart' /\ NothingForgotten'
  BY DEF ConstructExhausted, KeysApart, NothingForgotten
<1> QED BY <1>3, <1>5, <1>6, <1>7, <1>8 DEF Inv

\* get_slot() holds a slot that was not allocated before.
LEMMA GetSlotInv ==
  ASSUME Inv, NEW t \in Thread, NEW o \in Object, GetSlot(t, o) PROVE Inv'
<1>1. PICK s \in Slot : /\ maker[s] = None
                        /\ maker' = [maker EXCEPT ![s] = <<t, o>>]
                        /\ Set(t, o, s)
  BY DEF GetSlot
<1>2. th_key[o] \in keys /\ th_key[o] \in Key /\ Get(t, o) = Null
  BY DEF GetSlot, Inv, KeysInUse, TypeOK
<1>3. /\ specific' \in [Thread -> [Key -> Slot \union {Null}]]
      /\ \A u \in Thread, l \in Key :
           specific'[u][l] = IF u = t /\ l = th_key[o] THEN s ELSE specific[u][l]
  BY <1>1, <1>2, SetEffect DEF Inv
<1>4. \A u \in Thread, l \in Key : specific[u][l] # s
  BY <1>1, NamesAssumption DEF Inv, Accounted
<1>5. TypeOK' BY <1>1, <1>3 DEF GetSlot, Inv, TypeOK
<1>6. KeysInUse' BY <1>2, <1>3 DEF GetSlot, Inv, KeysInUse
<1>7. HeldOnce' BY <1>3, <1>4 DEF Inv, HeldOnce
<1>8. <<t, o>> # None BY NamesAssumption
<1>9. Accounted'
  <2>1. orphaned[s] = 0 BY <1>1 DEF Inv, Accounted
  <2> QED BY <1>1, <1>3, <1>4, <1>8, <2>1 DEF GetSlot, Inv, TypeOK, Accounted
<1>10. KeysApart'
  <2> SUFFICES ASSUME ~aliased, NEW u \in Thread, NEW p \in Object,
                      th_key[p] # None, specific'[u][th_key[p]] # Null
               PROVE  maker'[specific'[u][th_key[p]]] = <<u, p>>
    BY DEF GetSlot, Inv, KeysApart, Get
  <2>1. th_key[p] \in Key BY DEF Inv, TypeOK
  <2>2. CASE u = t /\ th_key[p] = th_key[o]
    <3>1. p = o BY <2>2 DEF Inv, KeysApart
    <3> QED BY <1>1, <1>3, <2>1, <2>2, <3>1 DEF Inv, TypeOK
  <2>3. CASE ~(u = t /\ th_key[p] = th_key[o])
    <3>1. specific'[u][th_key[p]] = specific[u][th_key[p]] BY <1>3, <2>1, <2>3
    <3>2. maker[specific[u][th_key[p]]] = <<u, p>>
      BY <3>1 DEF Inv, KeysApart, Get
    <3> QED BY <1>1, <1>4, <2>1, <3>1, <3>2 DEF Inv, TypeOK
  <2> QED BY <2>2, <2>3
<1>11. NothingForgotten'
  <2> SUFFICES ASSUME ~aliased, NEW r \in Slot, maker'[r] # None
               PROVE  orphaned'[r] = 1 \/ Held(r)'
    BY DEF GetSlot, NothingForgotten
  <2>1. keys' = keys /\ orphaned' = orphaned BY DEF GetSlot
  <2>2. CASE r = s BY <1>2, <1>3, <2>1, <2>2 DEF Held
  <2>3. CASE r # s
    <3>1. orphaned[r] = 1 \/ Held(r) BY <1>1, <2>3 DEF Inv, TypeOK, NothingForgotten
    <3>2. ASSUME Held(r) PROVE Held(r)'
      <4>1. PICK u \in Thread, l \in keys : specific[u][l] = r BY <3>2 DEF Held
      <4>2. r # Null BY NamesAssumption
      <4>3. l \in Key BY DEF Inv, TypeOK
      <4>4. specific'[u][l] = r BY <1>2, <1>3, <4>1, <4>2, <4>3 DEF Get
      <4> QED BY <2>1, <4>4 DEF Held
    <3> QED BY <2>1, <3>1, <3>2
  <2> QED BY <2>2, <2>3
<1> QED BY <1>5, <1>6, <1>7, <1>9, <1>10, <1>11 DEF Inv

\* detach() passes the slot it lets go of to orphan_slot.
LEMMA DetachInv ==
  ASSUME Inv, NEW t \in Thread, NEW o \in Object, Detach(t, o) PROVE Inv'
<1> DEFINE s == Get(t, o)
<1>1. th_key[o] \in keys /\ th_key[o] \in Key
  BY DEF Detach, Inv, KeysInUse, TypeOK
<1>2. s \in Slot BY <1>1 DEF Detach, Get, Inv, TypeOK
<1>3. /\ specific' \in [Thread -> [Key -> Slot \union {Null}]]
      /\ \A u \in Thread, l \in Key :
           specific'[u][l] = IF u = t /\ l = th_key[o] THEN Null ELSE specific[u][l]
  BY <1>1, SetEffect DEF Inv, Detach, LeftBy
<1>4. \A r \in Slot : orphaned'[r] = orphaned[r] + IF r = s THEN 1 ELSE 0
  BY <1>2 DEF Detach, OrphanSlots
<1>5. \A u \in Thread, l \in Key : specific'[u][l] # s
  BY <1>1, <1>2, <1>3, NamesAssumption DEF Get, Inv, HeldOnce
<1>6. maker[s] # None /\ orphaned[s] = 0
  BY <1>1, <1>2, NamesAssumption DEF Get, Inv, Accounted
<1>7. TypeOK' BY <1>3 DEF Detach, OrphanSlots, Inv, TypeOK
<1>8. KeysInUse' BY <1>3 DEF Detach, Inv, KeysInUse
<1>9. HeldOnce' BY <1>3 DEF Inv, HeldOnce
<1>10. Accounted'
  <2>1. \A u \in Thread, l \in Key : specific'[u][l] # Null =>
          maker'[specific'[u][l]] # None /\ orphaned'[specific'[u][l]] = 0
    <3> SUFFICES ASSUME NEW u \in Thread, NEW l \in Key, specific'[u][l] # Null
                 PROVE  maker[specific[u][l]] # None /\ orphaned'[specific[u][l]] = 0
                        /\ specific'[u][l] = specific[u][l]
      BY DEF Detach
    <3>1. specific'[u][l] = specific[u][l] BY <1>3
    <3>2. specific[u][l] \in Slot BY <3>1 DEF Inv, TypeOK
    <3>3. maker[specific[u][l]] # None /\ orphaned[specific[u][l]] = 0
      BY <3>1 DEF Inv, Accounted
    <3> QED BY <1>4, <1>5, <3>1, <3>2, <3>3
  <2>2. \A r \in Slot : orphaned'[r] <= 1 /\ (maker'[r] = None => orphaned'[r] = 0)
    BY <1>4, <1>6 DEF Detach, Inv, TypeOK, Accounted
  <2> QED BY <2>1, <2>2 DEF Accounted
<1>11. KeysApart'
  <2>1. UNCHANGED <<th_key, maker, aliased>> BY DEF Detach
  <2>2. \A p \in Object : th_key[p] # None => th_key[p] \in Key BY DEF Inv, TypeOK
  <2>3. \A u \in Thread, p \in Object : th_key[p] # None /\ Get(u, p)' # Null =>
          Get(u, p)' = Get(u, p)
    BY <1>3, <2>1, <2>2 DEF Get
  <2> QED BY <2>1, <2>3 DEF Inv, KeysApart
<1>12. NothingForgotten'
  <2> SUFFICES ASSUME ~aliased, NEW r \in Slot, maker[r] # None
               PROVE  orphaned'[r] = 1 \/ Held(r)'
    BY DEF Detach, NothingForgotten
  <2>1. CASE r = s BY <1>4, <1>6, <2>1
  <2>2. CASE r # s
    <3>1. orphaned[r] = 1 \/ Held(r) BY DEF Inv, NothingForgotten
    <3>2. ASSUME Held(r) PROVE Held(r)'
      <4>1. PICK u \in Thread, l \in keys : specific[u][l] = r BY <3>2 DEF Held
      <4>2. l \in Key BY DEF Inv, TypeOK
      <4>3. specific'[u][l] = r BY <1>3, <2>2, <4>1, <4>2 DEF Get
      <4> QED BY <4>3 DEF Detach, Held
    <3>3. orphaned[r] = 1 => orphaned'[r] = 1 BY <1>4, <2>2 DEF Inv, TypeOK
    <3> QED BY <3>1, <3>2, <3>3
  <2> QED BY <2>1, <2>2
<1> QED BY <1>7, <1>8, <1>9, <1>10, <1>11, <1>12 DEF Inv

\* A thread's exit passes all of its slots to orphan_slot.
LEMMA ExitInv == ASSUME Inv, NEW t \in Thread, Exit(t) PROVE Inv'
<1> DEFINE S == {specific[t][k] : k \in keys} \ {Null}
<1>1. specific' = [specific EXCEPT ![t] = [k \in Key |-> Null]] BY DEF Exit
<1>2. \A u \in Thread, l \in Key :
        specific'[u][l] = IF u = t THEN Null ELSE specific[u][l]
  BY <1>1 DEF Inv, TypeOK
<1>3. \A r \in Slot : orphaned'[r] = orphaned[r] + IF r \in S THEN 1 ELSE 0
  BY DEF Exit, OrphanSlots
<1>4. \A r \in S : /\ maker[r] # None /\ orphaned[r] = 0
                   /\ \A u \in Thread, l \in Key : specific'[u][l] # r
  <2> SUFFICES ASSUME NEW k \in keys, specific[t][k] # Null
               PROVE  /\ maker[specific[t][k]] # None /\ orphaned[specific[t][k]] = 0
                      /\ \A u \in Thread, l \in Key : specific'[u][l] # specific[t][k]
    OBVIOUS
  <2>1. k \in Key BY DEF Inv, TypeOK
  <2>2. maker[specific[t][k]] # None /\ orphaned[specific[t][k]] = 0
    BY <2>1 DEF Inv, Accounted
  <2>3. \A u \in Thread, l \in Key : specific'[u][l] # specific[t][k]
    BY <1>2, <2>1 DEF Inv, HeldOnce
  <2> QED BY <2>2, <2>3
<1>5. TypeOK' BY <1>1 DEF Exit, OrphanSlots, Inv, TypeOK
<1>6. KeysInUse' BY <1>2 DEF Exit, Inv, KeysInUse
<1>7. HeldOnce' BY <1>2 DEF Inv, HeldOnce
<1>8. Accounted'
  <2>1. ASSUME NEW u \in Thread, NEW l \in Key, specific'[u][l] # Null
        PROVE  maker'[specific'[u][l]] # None /\ orphaned'[specific'[u][l]] = 0
    <3>1. specific'[u][l] = specific[u][l] BY <1>2, <2>1
    <3>2. specific[u][l] \in Slot BY <2>1, <3>1 DEF Inv, TypeOK
    <3>3. maker[specific[u][l]] # None /\ orphaned[specific[u][l]] = 0
      BY <2>1, <3>1 DEF Inv, Accounted
    <3>4. specific[u][l] \notin S BY <1>4, <3>1
    <3>5. orphaned'[specific[u][l]] = 0 BY <1>3, <3>2, <3>3, <3>4
    <3> QED BY <3>1, <3>3, <3>5 DEF Exit
  <2>2. \A r \in Slot : orphaned'[r] <= 1 /\ (maker'[r] = None => orphaned'[r] = 0)
    <3> SUFFICES ASSUME NEW r \in Slot
                 PROVE  orphaned'[r] <= 1 /\ (maker[r] = None => orphaned'[r] = 0)
      BY DEF Exit
    <3>1. CASE r \in S BY <1>3, <1>4, <3>1
    <3>2. CASE r \notin S BY <1>3, <3>2 DEF Inv, TypeOK, Accounted
    <3> QED BY <3>1, <3>2
  <2> QED BY <2>1, <2>2 DEF Accounted
<1>9. KeysApart'
  <2>1. \A p \in Object : th_key[p] # None => th_key[p] \in Key BY DEF Inv, TypeOK
  <2> QED BY <1>2, <2>1 DEF Exit, Inv, KeysApart, Get
<1>10. NothingForgotten'
  <2> SUFFICES ASSUME ~aliased, NEW r \in Slot, maker[r] # None
               PROVE  orphaned'[r] = 1 \/ Held(r)'
    BY DEF Exit, NothingForgotten
  <2>1. CASE r \in S BY <1>3, <1>4, <2>1
  <2>2. CASE r \notin S
    <3>1. orphaned[r] = 1 \/ Held(r) BY DEF Inv, NothingForgotten
    <3>2. ASSUME Held(r) PROVE Held(r)'
      <4>1. PICK u \in Thread, l \in keys : specific[u][l] = r BY <3>2 DEF Held
      <4>2. l \in Key BY DEF Inv, TypeOK
      <4>3. u # t BY <2>2, <4>1, NamesAssumption
      <4>4. specific'[u][l] = r BY <1>2, <4>1, <4>2, <4>3
      <4> QED BY <4>4 DEF Exit, Held
    <3>3. orphaned[r] = 1 => orphaned'[r] = 1 BY <1>3, <2>2 DEF Inv, TypeOK
    <3> QED BY <3>1, <3>2, <3>3
  <2> QED BY <2>1, <2>2
<1> QED BY <1>5, <1>6, <1>7, <1>8, <1>9, <1>10 DEF Inv

\* A destructor that leaves the key alone loses nobody's slot.
LEMMA DestroyInv == ASSUME Inv, NEW o \in Object, Destroy(o) PROVE Inv'
<1>1. /\ keys' = keys /\ built' = built \ {o}
      /\ UNCHANGED <<specific, th_key, orphaned, maker, aliased>>
  BY DEF Destroy, KeysAfter
<1> QED BY <1>1 DEF Inv, TypeOK, KeysInUse, HeldOnce, Accounted, KeysApart,
           NothingForgotten, Held, Get

\* Every step keeps the invariant.
LEMMA NextInv == ASSUME Inv, [Next]_vars PROVE Inv'
<1>1. ASSUME NEW o \in Object, Construct(o) PROVE Inv' BY <1>1, ConstructInv
<1>2. ASSUME NEW o \in Object, Destroy(o) PROVE Inv' BY <1>2, DestroyInv
<1>3. ASSUME NEW t \in Thread, NEW o \in Object, ConstructExhausted(t, o) PROVE Inv'
  BY <1>3, ExhaustedInv
<1>4. ASSUME NEW t \in Thread, NEW o \in Object, GetSlot(t, o) PROVE Inv'
  BY <1>4, GetSlotInv
<1>5. ASSUME NEW t \in Thread, NEW o \in Object, Detach(t, o) PROVE Inv'
  BY <1>5, DetachInv
<1>6. ASSUME NEW t \in Thread, Exit(t) PROVE Inv' BY <1>6, ExitInv
<1>7. CASE UNCHANGED vars
  BY <1>7 DEF vars, Inv, TypeOK, KeysInUse, HeldOnce, Accounted, KeysApart,
     NothingForgotten, Held, Get
<1> QED BY <1>1, <1>2, <1>3, <1>4, <1>5, <1>6, <1>7 DEF Next

\* The invariant holds throughout.
LEMMA Invariance == Spec => []Inv
<1>1. Init => Inv BY InitInv
<1>2. Inv /\ [Next]_vars => Inv' BY NextInv
<1> QED BY <1>1, <1>2, PTL DEF Spec

-----------------------------------------------------------------------------
(* The theorems.                                                           *)

\* With any number of threads, objects and keys, a thread's slot is the one it
\* allocated for this object as long as every object got a key.
THEOREM SlotsAreOwn == Spec => []SlotIsOwn
<1>1. Inv => SlotIsOwn BY DEF Inv, TypeOK, KeysInUse, KeysApart, SlotIsOwn
<1> QED BY <1>1, Invariance, PTL

\* detach() and exit orphan a slot once, and let go of it, also when the keys are
\* used up and objects share them.
THEOREM SlotsOrphanedOnce == Spec => []OrphanedOnce
<1>1. ASSUME Inv, NEW s \in Slot, orphaned[s] = 1 PROVE ~Held(s)
  <2>1. \A t \in Thread, k \in keys : specific[t][k] # s
    BY <1>1, NamesAssumption DEF Inv, TypeOK, Accounted
  <2> QED BY <2>1 DEF Held
<1>2. Inv => OrphanedOnce BY <1>1 DEF Inv, Accounted, OrphanedOnce
<1> QED BY <1>2, Invariance, PTL

\* No slot is forgotten as long as every object got a key.
THEOREM NoSlotForgotten == Spec => []NothingForgotten
<1>1. Inv => NothingForgotten BY DEF Inv
<1> QED BY <1>1, Invariance, PTL

=============================================================================
