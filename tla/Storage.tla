------------------------------ MODULE Storage ------------------------------
(***************************************************************************)
(* The key-value structure of src/Storage: what a combiner's shot does to  *)
(* a Storage and to the StorageSlots of the threads whose operations it    *)
(* runs.  One action is one iteration of Execute's loop.                   *)
(***************************************************************************)
EXTENDS Integers

CONSTANTS Key,     \* keys, ordered like the strings they stand for
          Value,   \* values; Empty is the empty string
          Empty,
          Absent   \* a key the map has no entry for

PUT    == 1
GET    == 2
DELETE == 3

VARIABLES storage,                 \* _storage
          op_code,                 \* of each thread's operation
          key, value, error_code   \* _key, _value, error_code of its StorageSlot

EmptyStorage == [k \in Key |-> Absent]

-----------------------------------------------------------------------------
(* The owner prepares its slot.                                            *)

\* prepare_data(k, v), and prepare_data(k), which stores an empty value.
PrepareBoth(t, k, v) ==
  /\ key'   = [key EXCEPT ![t] = k]
  /\ value' = [value EXCEPT ![t] = v]
PrepareKey(t, k) == PrepareBoth(t, k, Empty)

\* get_data() moves the value out of the slot, and leaves the empty string.
GetData(t) == value' = [value EXCEPT ![t] = Empty]

-----------------------------------------------------------------------------
(* The executor runs a shot.                                               *)

\* comparator: execute() sorts the shot by key, and one key's by operation code.
Before(t, u) ==
  \/ key[t] < key[u]
  \/ key[t] = key[u] /\ op_code[t] < op_code[u]

Reply(t, e) == error_code' = [error_code EXCEPT ![t] = e]

Put(t, code) ==
  /\ code = PUT
  /\ storage' = [storage EXCEPT ![key[t]] = value[t]]
  /\ Reply(t, "OK")
  /\ UNCHANGED value

GetFound(t, code) ==
  /\ code = GET /\ storage[key[t]] # Absent
  /\ value' = [value EXCEPT ![t] = storage[key[t]]]
  /\ Reply(t, "OK")
  /\ UNCHANGED storage

DeleteFound(t, code) ==
  /\ code = DELETE /\ storage[key[t]] # Absent
  /\ storage' = [storage EXCEPT ![key[t]] = Absent]
  /\ Reply(t, "OK")
  /\ UNCHANGED value

NotFound(t, code) ==
  /\ code \in {GET, DELETE} /\ storage[key[t]] = Absent
  /\ Reply(t, "NOT_FOUND")
  /\ UNCHANGED <<storage, value>>

Unsupported(t, code) ==
  /\ code \notin {PUT, GET, DELETE}
  /\ Reply(t, "UNSUPPORTED_OPERATION")
  /\ UNCHANGED <<storage, value>>

\* The task of thread t, run with the operation code beside it in the shot.
Execute(t, code) ==
  /\ \/ Put(t, code) \/ GetFound(t, code) \/ DeleteFound(t, code)
     \/ NotFound(t, code) \/ Unsupported(t, code)
  /\ UNCHANGED key

=============================================================================
