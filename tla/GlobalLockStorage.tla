-------------------------- MODULE GlobalLockStorage --------------------------
(***************************************************************************)
(* The storage of src/GlobalLockStorage, the baseline that StorageSlot and *)
(* the combiner replace: every call of Execute holds _mutex from its first *)
(* access to the map to its last, so a call takes effect in one step.      *)
(***************************************************************************)
CONSTANTS Thread, Key, Value, Op,
          Empty,   \* the value of a call that passes none
          Absent   \* a key the map has no entry for

PUT    == 1
GET    == 2
DELETE == 3

VARIABLES storage,            \* _storage
          phase,              \* of each thread's call: "none", "published", "done"
          op_code, key,       \* its arguments,
          value,              \* value, passed by reference
          result              \* and what it returns

args == <<op_code, key>>
vars == <<storage, phase, args, value, result>>

Init ==
  /\ storage = [k \in Key |-> Absent]
  /\ phase = [t \in Thread |-> "none"]

\* Execute(op, k, v) is called, or Execute(op, k), which passes an empty value.
Call(t) ==
  /\ phase[t] = "none"
  /\ phase' = [phase EXCEPT ![t] = "published"]
  /\ \E op \in Op, k \in Key, v \in Value \union {Empty} :
       /\ op_code' = [op_code EXCEPT ![t] = op]
       /\ key' = [key EXCEPT ![t] = k]
       /\ value' = [value EXCEPT ![t] = v]
  /\ UNCHANGED <<storage, result>>

Locked(t, r) ==
  /\ phase[t] = "published"
  /\ phase' = [phase EXCEPT ![t] = "done"]
  /\ result' = [result EXCEPT ![t] = r]
  /\ UNCHANGED args

Put(t) ==
  /\ op_code[t] = PUT
  /\ Locked(t, "OK")
  /\ storage' = [storage EXCEPT ![key[t]] = value[t]]
  /\ UNCHANGED value

Get(t) ==
  /\ op_code[t] = GET
  /\ IF storage[key[t]] = Absent
       THEN Locked(t, "NOT_FOUND") /\ UNCHANGED value
       ELSE Locked(t, "OK") /\ value' = [value EXCEPT ![t] = storage[key[t]]]
  /\ UNCHANGED storage

Delete(t) ==
  /\ op_code[t] = DELETE
  /\ Locked(t, IF storage[key[t]] = Absent THEN "NOT_FOUND" ELSE "OK")
  /\ storage' = [storage EXCEPT ![key[t]] = Absent]
  /\ UNCHANGED value

Unsupported(t) ==
  /\ op_code[t] \notin {PUT, GET, DELETE}
  /\ Locked(t, "UNSUPPORTED_OPERATION")
  /\ UNCHANGED <<storage, value>>

\* value is the caller's own string again, to keep or to change.
Return(t) ==
  /\ phase[t] = "done"
  /\ phase' = [phase EXCEPT ![t] = "none"]
  /\ \E v \in Value \union {Empty} : value' = [value EXCEPT ![t] = v]
  /\ UNCHANGED <<storage, args, result>>

Next == \E t \in Thread :
  Call(t) \/ Put(t) \/ Get(t) \/ Delete(t) \/ Unsupported(t) \/ Return(t)

Spec == Init /\ [][Next]_vars

=============================================================================
