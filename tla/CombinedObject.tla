--------------------------- MODULE CombinedObject ---------------------------
(***************************************************************************)
(* The combiner with a structure behind it: FlatCombiner is a template     *)
(* over the slot type, here StorageSlot or MultiThreadArraySlot.  The      *)
(* combiner itself is AtomicApply, which FlatCombiner implements; what is  *)
(* added is what execute() does with a shot while its owners wait.         *)
(***************************************************************************)
EXTENDS Integers

CONSTANTS
  Thread,
  Op,           \* operation codes clients use, one of them unknown to Execute
  Key, Value,   \* Storage: keys and values (both structures hold Values)
  Empty,        \* "", and the 0 of an array
  Absent,       \* a key Storage has no entry for
  SIZE, Index   \* the array's length; indices clients use, not all in bounds

ASSUME ObjectAssumption ==
  /\ Op \subseteq Int \ {0} /\ Key \subseteq Int /\ Index \subseteq Int
  /\ SIZE \in Nat /\ Empty \in Value /\ Absent \notin Value

VARIABLES
  object,       \* the template argument: "Storage" or "MultiThreadArray"
  contents,     \* the structure
  phase,        \* AtomicApply's: how far each thread's operation is
  op_code,      \* the code each thread published last
  key, value, error_code,  \* the rest of its slot
  shot,         \* threads whose operations the executor passed to execute()
  tasks         \* those of them that Execute has not come to yet

slotVars == <<op_code, key, value, error_code>>
vars     == <<object, contents, phase, slotVars, shot, tasks>>

Apply == INSTANCE AtomicApply
Map   == INSTANCE Storage WITH storage <- contents
Arr   == INSTANCE MultiThreadArray WITH
           array <- contents, index <- key, data <- value, Zero <- Empty

\* The slots are default-initialized: whatever they held is a client's to read.
Init ==
  /\ object \in {"Storage", "MultiThreadArray"}
  /\ contents = IF object = "Storage" THEN Map!EmptyStorage ELSE Arr!EmptyArray
  /\ Apply!Init
  /\ op_code = [t \in Thread |-> 0]
  /\ key = [t \in Thread |-> 0]
  /\ value \in [Thread -> Value]
  /\ error_code \in [Thread -> {"OK", "UNSUPPORTED_OPERATION"}]
  /\ shot = {} /\ tasks = {}

\* prepare_data, then apply_slot(op): the slot is the owner's until then.
Prepare(t) ==
  \/ /\ object = "Storage"
     /\ \E k \in Key : Map!PrepareKey(t, k) \/ \E v \in Value : Map!PrepareBoth(t, k, v)
  \/ /\ object = "MultiThreadArray"
     /\ \E j \in Index : Arr!PrepareIndex(t, j) \/ \E v \in Value : Arr!PrepareBoth(t, j, v)
Publish(t) ==
  /\ Apply!Publish(t)
  /\ Prepare(t)
  /\ \E op \in Op : op_code' = [op_code EXCEPT ![t] = op]
  /\ UNCHANGED <<object, contents, error_code, shot, tasks>>

\* combine_shot passes the operations its scan collected, in any order.
StartShot(S) ==
  /\ shot = {} /\ S # {}
  /\ \A t \in S : phase[t] = "published"
  /\ shot' = S /\ tasks' = S
  /\ UNCHANGED <<object, contents, phase, slotVars>>

\* StorageSlot::execute sorts the shot; equals keep the queue's order, which
\* may be any.  MultiThreadArraySlot::execute takes the shot as it comes.
IsNext(t) ==
  /\ t \in tasks
  /\ object = "Storage" => \A u \in tasks : ~Map!Before(u, t)

\* BUG: the sort moves the slots of the shot and leaves the codes.
CodeOfAnother(t) == op_code[CHOOSE u \in shot : shot = {t} \/ u # t]

\* A task is a pair of slot and code, and is moved as one.
CodeOf(t) == op_code[t]

RunTask(t) ==
  /\ IsNext(t)
  /\ tasks' = tasks \ {t}
  /\ \/ object = "Storage" /\ Map!Execute(t, CodeOf(t))
     \/ object = "MultiThreadArray" /\ Arr!Execute(t, CodeOf(t))
  /\ UNCHANGED <<object, phase, op_code, shot>>

\* BUG: every waiting thread is released, in the shot or not.
AllWaiting == {t \in Thread : phase[t] = "published"}

\* combine_shot clears the codes of its own tasks.
Released == shot

EndShot ==
  /\ shot # {} /\ tasks = {}
  /\ Apply!RunShot(Released)
  /\ shot' = {}
  /\ UNCHANGED <<object, contents, slotVars, tasks>>

\* apply_slot returns, and the client reads its slot; get_data() changes it.
Complete(t) ==
  /\ Apply!Complete(t)
  /\ UNCHANGED value \/ (object = "Storage" /\ Map!GetData(t))
  /\ UNCHANGED <<object, contents, op_code, key, error_code, shot, tasks>>

Next ==
  \/ \E t \in Thread : Publish(t) \/ RunTask(t) \/ Complete(t)
  \/ \E S \in SUBSET Thread : StartShot(S)
  \/ EndShot

Spec == Init /\ [][Next]_vars

-----------------------------------------------------------------------------
(* What the clients see.                                                   *)

\* A call has taken effect once Execute has come to its task, although its
\* owner learns of it at the end of the shot.
Effective(t) == phase[t] = "done" \/ t \in shot \ tasks
progress(obj) ==
  [t \in Thread |-> IF object # obj THEN "none"
                    ELSE IF Effective(t) THEN "done" ELSE phase[t]]

\* Each abstract specification is shown the slots of its own structure only.
View(obj, f) == IF object = obj THEN f ELSE [t \in Thread |-> 0]

Baseline == INSTANCE GlobalLockStorage WITH
  storage <- IF object = "Storage" THEN contents ELSE Map!EmptyStorage,
  phase   <- progress("Storage"),
  op_code <- View("Storage", op_code), key <- View("Storage", key),
  value   <- View("Storage", value),   result <- View("Storage", error_code)

Cells == INSTANCE AtomicArray WITH
  Zero    <- Empty,
  cells   <- IF object = "MultiThreadArray" THEN contents ELSE Arr!EmptyArray,
  phase   <- progress("MultiThreadArray"),
  op_code <- View("MultiThreadArray", op_code), index <- View("MultiThreadArray", key),
  data    <- View("MultiThreadArray", value),
  result  <- View("MultiThreadArray", error_code)

\* A Storage behind the combiner, with its shots sorted by key and code, does
\* nothing that the storage with one global lock would not do: each call takes
\* effect alone, at one instant, and reports what it did to its own slot.
StorageLinearizable == Baseline!Spec

\* Each call on a MultiThreadArray reads or writes the one cell it names, at one
\* instant, and a bad index or code touches none.
ArrayLinearizable == Cells!Spec

=============================================================================
