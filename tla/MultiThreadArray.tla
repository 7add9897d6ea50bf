-------------------------- MODULE MultiThreadArray --------------------------
(***************************************************************************)
(* The array of src/Array/MultiThreadArray.h and the MultiThreadArraySlots *)
(* of the threads whose operations a shot runs, in the order of the queue. *)
(* One action is one iteration of Execute's loop.                          *)
(***************************************************************************)
EXTENDS Integers

CONSTANTS SIZE, Zero   \* the length; the value SET_TO_ZERO stores

SET         == 1
GET         == 2
SET_TO_ZERO == 3

VARIABLES array,                     \* _array
          op_code,                   \* of each thread's operation
          index, data, error_code    \* _index, _data, error_code of its slot

\* std::make_shared value-initializes the array.
EmptyArray == [j \in 0 .. SIZE - 1 |-> Zero]

\* prepare_data(j, v), and prepare_data(j), which leaves the slot's data alone.
PrepareBoth(t, j, v) ==
  /\ index' = [index EXCEPT ![t] = j]
  /\ data'  = [data EXCEPT ![t] = v]
PrepareIndex(t, j) ==
  /\ index' = [index EXCEPT ![t] = j]
  /\ UNCHANGED data

\* check_index.
InBounds(j) == 0 <= j /\ j < SIZE

Reply(t, e) == error_code' = [error_code EXCEPT ![t] = e]

\* The index is checked before the operation code is looked at.
BadIndex(t) ==
  /\ ~InBounds(index[t])
  /\ Reply(t, "BAD_INDEX")
  /\ UNCHANGED <<array, data>>

Set(t, code) ==
  /\ InBounds(index[t]) /\ code = SET
  /\ array' = [array EXCEPT ![index[t]] = data[t]]
  /\ Reply(t, "OK")
  /\ UNCHANGED data

Get(t, code) ==
  /\ InBounds(index[t]) /\ code = GET
  /\ data' = [data EXCEPT ![t] = array[index[t]]]
  /\ Reply(t, "OK")
  /\ UNCHANGED array

SetToZero(t, code) ==
  /\ InBounds(index[t]) /\ code = SET_TO_ZERO
  /\ array' = [array EXCEPT ![index[t]] = Zero]
  /\ Reply(t, "OK")
  /\ UNCHANGED data

Unsupported(t, code) ==
  /\ InBounds(index[t]) /\ code \notin {SET, GET, SET_TO_ZERO}
  /\ Reply(t, "UNSUPPORTED_OPERATION")
  /\ UNCHANGED <<array, data>>

\* The task of thread t, run with the operation code beside it in the shot.
Execute(t, code) ==
  /\ \/ BadIndex(t) \/ Set(t, code) \/ Get(t, code) \/ SetToZero(t, code)
     \/ Unsupported(t, code)
  /\ UNCHANGED index

=============================================================================
