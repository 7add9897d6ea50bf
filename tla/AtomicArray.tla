----------------------------- MODULE AtomicArray -----------------------------
(***************************************************************************)
(* What MultiThreadArray promises its clients: an array of cells, and each *)
(* call takes effect on one of them, or on none, at one instant.           *)
(***************************************************************************)
EXTENDS Integers

CONSTANTS Thread, SIZE, Zero

SET         == 1
GET         == 2
SET_TO_ZERO == 3

VARIABLES cells, phase, op_code, index, data, result

vars == <<cells, phase, op_code, index, data, result>>
Cell == 0 .. SIZE - 1

Init ==
  /\ cells = [j \in Cell |-> Zero]
  /\ phase = [t \in Thread |-> "none"]

\* A client changes its own arguments only, and only before it calls.
Others(f, t) == [u \in Thread \ {t} |-> f[u]]
Call(t) ==
  /\ phase[t] = "none"
  /\ phase' = [phase EXCEPT ![t] = "published"]
  /\ Others(op_code, t)' = Others(op_code, t)
  /\ Others(index, t)' = Others(index, t)
  /\ Others(data, t)' = Others(data, t)
  /\ UNCHANGED <<cells, result>>

\* The cells t's operation writes and reads, and what it reports.
Writes(t) == {j \in Cell : j = index[t] /\ op_code[t] \in {SET, SET_TO_ZERO}}
Reads(t)  == {j \in Cell : j = index[t] /\ op_code[t] = GET}
Report(t) ==
  IF index[t] \notin Cell THEN "BAD_INDEX"
  ELSE IF Writes(t) \union Reads(t) = {} THEN "UNSUPPORTED_OPERATION" ELSE "OK"

Effect(t) ==
  /\ phase[t] = "published"
  /\ phase' = [phase EXCEPT ![t] = "done"]
  /\ cells' = [j \in Cell |-> IF j \notin Writes(t) THEN cells[j]
                              ELSE IF op_code[t] = SET THEN data[t] ELSE Zero]
  /\ data' = [data EXCEPT ![t] = IF Reads(t) = {} THEN @ ELSE cells[index[t]]]
  /\ result' = [result EXCEPT ![t] = Report(t)]
  /\ UNCHANGED <<op_code, index>>

Return(t) ==
  /\ phase[t] = "done"
  /\ phase' = [phase EXCEPT ![t] = "none"]
  /\ UNCHANGED <<cells, op_code, index, data, result>>

Next == \E t \in Thread : Call(t) \/ Effect(t) \/ Return(t)

Spec == Init /\ [][Next]_vars

=============================================================================
