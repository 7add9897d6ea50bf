# A verification of flat_combine

`flat_combine` is a header-only flat-combining synchronizer in C++: threads
publish operations in slots of their own, and whichever thread wins a lock runs
everybody's operations in one call of a sequential structure's `execute()`. This
directory holds TLA+ modules that model it, the TLC configurations that check
them on small instances, and theorems about them proved with TLAPS.

Paths below are relative to `src/`, the repository; line numbers without a file
are lines of `src/FlatCombiner/FlatCombiner.h`.

- [The system](#the-system)
- [Modules](#modules)
- [What the model keeps and what it leaves out](#what-the-model-keeps-and-what-it-leaves-out)
- [Runs](#runs)
- [What the code does not keep](#what-the-code-does-not-keep)
- [Proofs](#proofs)
- [Plan](#plan)

## The system

| component | file | state | operations |
|---|---|---|---|
| `FlatCombiner` | `FlatCombiner.h` | lock word `_lock` (a lock bit and a 63-bit generation), the list between the dummy slots `_queue` and `_dummy_tail`, `_combine_shot`, `sum`, `sum_n`, the thread-local `_slot` | constructor, destructor, `get_slot`, `apply_slot`, `detach`, `get_stat`; inside: `push_to_queue`, `try_lock`, `unlock`, `run_executor`, `dequeue_slot`, `combine_shot`, `orphan_slot` |
| `Operation` (slot) | `FlatCombiner.h` | `op_code`, `generation`, `next_and_alive`, and the user's data as base class | `has_data`, `in_queue`, `is_alive`, `next` |
| `TaggedPointer` | `TaggedPointer.h` | one atomic word: a pointer and the alive bit (bit 63) | `get`, `set`, `unset_flag`, two compare-exchanges, `update_value_with_tag_check` |
| `ThreadLocal` | `ThreadLocal.h` | a pthread key; a value in each thread | `get`, `set`; the key's destructor at thread exit |
| `MultiThreadArray` | `Array/MultiThreadArray.h` | an array; index, data and error code in each slot | `Execute` of a batch |
| `Storage` | `Storage/` | a map; key, value and error code in each slot | `execute`: stable sort of the batch, then `Execute` |
| `GlobalLockStorage` | `GlobalLockStorage/` | the same map, and a mutex | `Execute` of one operation |

How they interact. A client calls `get_slot()` (allocates its slot and keeps it in
`ThreadLocal`), fills in its data, and calls `apply_slot(code)`. That stores the
code, pushes the slot behind the head of the list if it is not there, and tries
the lock. The winner scans the list (`run_executor`): slots with a code go into
`_combine_shot`, slots idle for more than `MAX_AWAIT_TIME` generations and slots
whose thread left are unlinked by `dequeue_slot`, the latter also deleted. Then
`combine_shot` calls `execute()` of the user's class through the first task, and
clears the codes, which lets the waiting owners return. A loser yields and looks
at its code again. `detach()`, or the destructor of the thread-local value,
deletes a slot that is not in the list and otherwise clears its alive bit for
a later executor to find.

All sharing is through atomics of single words. There is no blocking: waiting is
spinning on the slot's own code.

### What is hard here

- An executor unlinks and deletes slots that belong to other threads, while these
  publish, push, look at their own slot or detach. Who may delete which slot is
  decided by two words (the alive bit and the successor) that are read and written
  in separate steps.
- One word holds a pointer written by executors and pushers and a bit written by
  the owner. `unset_flag` and `set` read and write it in two steps, and the
  compare-exchanges read the bit in one step and compare the word in another.
- A slot may be unlinked as expired at any moment before its owner's code becomes
  visible, and the owner checks only before it competes for the lock.
- Plain memory (`generation`, `_combine_shot`, `sum`) is protected by the lock only.
- `_combine_shot` keeps pointers over from earlier shots, addresses are reused by
  the allocator, and `sum` and `sum_n` are never initialized.
- `execute()` may throw between two operations: what `run_executor` catches leaves every code of
  the shot set, and what it does not catch leaves the lock taken.
- Termination: a thread that loses for ever, or whose slot keeps expiring.
- A shot is reordered before it runs, and taken apart into single operations on data
  that nothing else protects.
- A thread-local value outlives the object it belongs to: pthread keys are never
  deleted, and there are only so many of them.

`PROJECT.json` lists each of these under "hazards", at its line.

### What makes each component correct

- `FlatCombiner`, as its client sees it: `apply_slot` returns, and when it does, the
  operation has been run exactly once, between the call and the return.
- The lock: one executor, who gives it back; generations only grow, one per executor, so that the
  unsigned difference that decides about expiry is never taken from a later stamp.
- The list: from the head to the tail without a gap, through allocated slots only;
  a slot has a successor exactly if it is on it; a slot that waits for the lock with
  its code set is on it.
- Memory: a thread's slot stays allocated and its own until it gives it up; then
  it is deleted, once, and referenced from nowhere.
- `execute()`: its tasks belong to threads that are waiting, so user data is never
  touched by two threads.
- `TaggedPointer`: an update of one half of the word never loses one of the other.
- `MultiThreadArray`, `Storage`: a batch has the effect of its operations one at a
  time, in an order the clients could have seen, and each client finds the result of
  its own operation in its own slot.
- `ThreadLocal`: a thread finds the slot it allocated for this very object, and every slot
  reaches `orphan_slot` once: by `detach` or by the thread's exit, whichever comes first.

## Modules

| module | what it is |
|---|---|
| `FlatCombiner` | the combiner, its slots, tagged pointers and thread-local values; one action per atomic access |
| `ExecutorLock` | abstract: what `try_lock` and `unlock` promise `run_executor`, which need not come to `unlock` |
| `AtomicApply` | abstract: what `apply_slot` promises a client |
| `FlatCombinerCorrectness` | EXTENDS `FlatCombiner`: the invariants, action and liveness properties, and the two refinement mappings |
| `FlatCombinerInvariant` | EXTENDS `FlatCombinerCorrectness`: the inductive invariants of the list and of the calls |
| `FlatCombinerProofs` | EXTENDS `FlatCombinerCorrectness`: the theorems about the lock and about who owns which slot |
| `FlatCombinerChainProofs` | lemmas about the shape of the list: pushing, unlinking, reachability |
| `FlatCombinerListProofs` | the theorems about the list, the shots and memory, for clients that do not detach at any moment |
| `FlatCombinerCallProofs` | the theorems about the calls, and the proof that `AtomicApply` is implemented |
| `MCFlatCombiner` | EXTENDS `FlatCombinerInvariant`: the symmetry set for TLC |
| `Storage`, `MultiThreadArray` | the two structures: what prepares a slot, and one iteration of the loop that runs a shot |
| `CombinedObject` | a structure behind the combiner: composes `AtomicApply` with `Storage` or `MultiThreadArray` |
| `GlobalLockStorage` | the storage with one mutex; also the abstract specification of `Storage` behind the combiner |
| `AtomicArray` | abstract: what `MultiThreadArray` behind the combiner promises |
| `CombinedObjectProofs`, `MCCombinedObject` | its theorems; its symmetry set and index range for TLC |
| `ThreadLocal` | the pthread keys and values of several combiners in one process |
| `ThreadLocalProofs`, `MCThreadLocal` | its theorems; its symmetry set for TLC |
| `TaggedWord`, `TaggedWordProofs` | the words behind `TaggedPointer` and `_lock`, and the theorems that relate them to `FlatCombiner`'s records |

The refinements form a chain. `FlatCombiner` implements `AtomicApply` (`ApplySpec`, checked
and proved, for calls that are undisturbed in the sense of `steady` below);
`AtomicApply` with a structure, `CombinedObject`, implements `GlobalLockStorage` or
`AtomicArray` (checked and proved). So a client of `FlatCombiner<StorageSlot>` sees what a client
of the storage with the global lock sees, wherever `ApplySpec` holds.
`CombinedObject` takes `AtomicApply`'s `RunShot` apart into the steps of `execute()`; that is faithful
because the owners of all tasks wait meanwhile, which is `TasksAreWaiting` in `FlatCombiner`
and an invariant of `CombinedObject`.

### `FlatCombiner`

Each client thread has a program counter `pc[t]`, "idle" outside the object. The
label names the access the thread does next. State and code:

| variables | code |
|---|---|
| `lock` | `_lock`: `held` is bit 63, `gen` the rest |
| `link[a]` | `next_and_alive` of node `a`: the pointer and the alive bit |
| `op_code[a]`, `generation[a]` | the fields of `Operation` |
| `live` | the objects that are allocated |
| `combine_shot`, `sum`, `sum_n` | the members of that name |
| `tls[t]` | the value of `_slot` in thread t |
| `slot`, `loaded`, `gen`, `parent`, `current_node`, `n`, `i`, `pred`, `new_next`, `flag`, `is_alive` | local variables of the call the thread is in |
| `crashed`, `calls`, `execs` | of the model only: the program is over; how often the thread called; how often the operation last published in a slot was run |

| actions | code |
|---|---|
| `GetSlot` | `get_slot` (123-133), at any address not in use, so freed addresses come back |
| `ApplySlot` | `apply_slot` up to its loop (141-149) |
| `FindDone`, `FindPending`, `CheckQueue` | the loop (152-156) |
| `PushLoad`, `PushSet`, `PushCas`, `PushRetry` | `push_to_queue` (328-341) |
| `TryLock`, `LockCas`, `LockFail` | `try_lock` (203-213); `LockFail` is also the spurious failure of a weak compare-exchange, and leads back to the loop's head |
| `RunFirst`, `RunAlive`, `RunTake`, `RunExpire`, `RunSkip`, `RunNext` | the scan of `run_executor` (348-404) |
| `DequeueNext`, `DequeueFlag`, `DequeueCas`, `DequeueStep`, `DequeueNull` | `dequeue_slot` (240-258) and the `delete` that follows it (374-401); `DequeueFlag` and `DequeueCas` are the two accesses of `TaggedPointer::compare_exchange_strong` |
| `Execute`, `ClearTask`, `ShotDone` | `combine_shot` and the try block around it (406-439) |
| `ExecuteThrows` | `execute()` runs some of the tasks and throws a `std::exception`, which line 411 catches |
| `ExecuteEscapes` | it throws anything else, which leaves `run_executor` and `apply_slot`, past `unlock` (164) |
| `Unlock` | `unlock` and the return (159-166, 227-231) |
| `Detach`, `OrphanDelete`, `OrphanQueued`, `OrphanLoad`, `OrphanStore` | `detach`, the thread-local destructor and `orphan_slot` (179-188, 266-286); the last two are the load and the store of `unset_flag` |
| `Destroy` | `~FlatCombiner` (113-117), when every thread has detached |

Accesses are joined into one step only where no other thread can tell. The
comment on each such action says why: `set()` in `PushSet` (only the owner writes
the bit of its slot, and the slot is not on the list), the head's
compare-exchange in `PushCas` (the head's bit never changes), the final round of
`update_value_with_tag_check` in `DequeueNull` (a compare-exchange of the whole
word as it is), `unlock` (only the holder writes a held lock word), and reading
the tasks' codes in `Execute` (their owners are waiting: that is `TasksAreWaiting`, which needs
an `execute()` that does not throw; see Exceptions below).

**Undefined behaviour.** `Touches(t)` is the set of objects the next step of t
reads or writes through a pointer. If one is not allocated (null, never
allocated, deleted), or the step stores beyond `_combine_shot`, or it fails
`assert(was_dead)`, the step is `Crash`: the program is over and the model stops.
Nothing is claimed about what it does after that. `NoUndefinedBehaviour` says it
never comes to this, and it is a property like any other: the runs say under
which clients it holds, and the findings under which it does not. Memory that was
never written is `Null` where it is a pointer, and any value of `StatInit` for
`sum` and `sum_n`.

**Clients.** `DetachMode` says what they do. "never": threads stay attached. "any":
they detach (or exit) whenever they are outside `apply_slot`, as the library
allows. "quiescent": they detach only while every other thread is outside the
object, and none enters meanwhile. The repository's own workers
(`test/FlatCombineLogic/FlatCombineDeleteTest.cpp:84`,
`test/ArrayUsageExample/ArrayUsageExample.cpp:84`) detach while others work: "any".
The other two modes are what a client must do to get more than "any" gives it.

**Exceptions.** `MayThrow` says what the user's `execute()` throws: a subset of {"std", "other"}.
A `std::exception` is caught at line 411. Then no slot is cleared, the executor unlocks and its call
returns, and its owner is back in client code with the operation still published: it may call
again, detach or exit while another executor collects the slot. Any other exception unwinds
`run_executor` and `apply_slot` and reaches the client with the lock bit set. A client that does not
catch it ends the program, and the behaviour there; the model has the client catch it and go
on. Before it throws, `execute()` may have run any of the tasks. With "std", a task's owner may be
outside, so `Execute` as one step loses the orders in which that owner stores a new code between the copying of
the old one and its run. No property checked or proved with
exceptions looks at which code a slot has, or at runs.

### `CombinedObject`, `Storage`, `MultiThreadArray`

`object` is the template argument and never changes. `phase` is the variable of
`AtomicApply`, whose actions are conjoined with what the structure does:

| actions | code |
|---|---|
| `Publish` | `prepare_data` (`Storage.cpp:13-21`, `MultiThreadArray.h:113-120`), then `apply_slot(op)` up to its loop |
| `StartShot` | `combine_shot` up to the call of `execute()`; S is any set of waiting threads |
| `RunTask` | one iteration of `Execute`'s loop (`Storage.h:99-138`, `MultiThreadArray.h:47-82`): one of the actions of `Storage` or `MultiThreadArray` |
| `EndShot` | the end of `combine_shot`, which releases the owners: `AtomicApply`'s `RunShot` |
| `Complete` | `apply_slot` returns, and the client may take its result out with `get_data` |

`IsNext` is the sort: a `StorageSlot` runs when no task left in the shot comes before it by
`comparator`. Tasks that compare equal keep the queue's order, which depends on who pushed
first, so it may be any. `key` stands for `_key` and `_index`, `value` for `_value` and
`_data`. The slots start with any contents, as default initialization leaves them.
Strings are integers where their order matters (keys) and any values where it does not.

The mapping to the abstract specifications shows a call as done as soon as the loop
has come to its task (`progress`), though its owner is released at the end of the
shot. A behaviour with a `Storage` shows `AtomicArray` an array nobody calls, and the
other way round.

### `ThreadLocal`

Here the combiner is only what it does with `_slot`; in exchange there are several
of them, threads exit and are replaced, and pthread's keys run out. `specific[t][k]` is what
`pthread_getspecific` gives thread t for key k. `Construct` and `ConstructExhausted` are
the constructor (`ThreadLocal.h:12-19`) with and without a key left, `GetSlot`, `Detach`,
`Destroy` the members of `FlatCombiner` with these names, `Exit` a thread's exit with
`slot_destructor` for all its slots. `Destroy` may come while threads still have slots, although
the comment at line 114 asks them to detach before. No call touches another thread's
values, so each is one step. What `orphan_slot` goes on to do with a slot is `FlatCombiner`'s.

### `TaggedWord`

`FlatCombiner` keeps a tagged pointer and the lock word as records. `TaggedWord` has the
integers instead: what each operation of `TaggedPointer`, `try_lock` and `unlock` compares and
stores, with masks as arithmetic on a word whose top bit is worth `BIT`. It has no steps:
the steps are `FlatCombiner`'s, and which load feeds which store is said there.

### The operators headed BUG

Some operators of `FlatCombiner`, `CombinedObject` and `ThreadLocal` are headed `BUG`. The
specifications do not use them. Each is what the operator that follows would be with a plausible mistake in
the code: a plain store for a compare-exchange, a forgotten reset, a dropped
loop test, a counter that runs backwards. `PROJECT.json` pairs each property of
each passing run with one that makes TLC report the property violated, so that no
property is listed that the code could not break.

## What the model keeps and what it leaves out

Kept: every shared access, branch, early return and retry of the combiner; failed
and spuriously failed compare-exchanges; deletion and reuse of addresses;
both kinds of exceptions of `execute()`, after any of the tasks.

Abstracted:

- Memory is sequentially consistent. The code asks for weaker orders in places
  (`try_lock` acquires with `memory_order_release`, `next()` in `dequeue_slot` is
  relaxed); what a weak machine adds is not modelled.
- In `FlatCombiner` a tagged pointer is a record and not a 64-bit word, and the generation is
  a natural number. `TaggedWord` has the words. The generation grows by one per executor
  and has 63 bits.
- What an operation does, and the user's data, are left out of `FlatCombiner`: `execs` counts
  the runs. `CombinedObject` has them.
- A call of `execute()` is one step. While nothing throws, other threads cannot see it in parts, since
  the owners of all its tasks wait.
- `get_stat` only reads. In `FlatCombiner` there is one object, and `ThreadLocal` is
  its per-thread value `tls`; the keys are in `ThreadLocal`.
- `CombinedObject` has no exceptions: `AtomicApply` promises nothing of an `execute()` that
  throws. A `bad_alloc` in the middle of a shot would leave its first tasks both done and
  published; they run again, and a `DELETE` that succeeded would then report `NOT_FOUND`.
- Every client calls `init()` on its slot right after `get_slot()`, as all clients in the
  repository do, so `_storage` is the same in all slots.
- Keys of `ThreadLocal` that other parts of the process use are not modelled, nor a
  `ThreadLocal` without a destructor or with an initial value, which `FlatCombiner` never has.
- A client that calls `apply_slot` without a slot gets an exception before
  anything changes: no step.
- A thread's exit and its call of `detach` reset the thread-local value first and
  orphan the slot second; they are the same steps here.


## Runs

`objects` checks `MCCombinedObject` and `keys` `MCThreadLocal`, the other runs `MCFlatCombiner`.
Threads and addresses are interchangeable, so the runs without liveness use symmetry.

| run | clients | bounds | checks | states |
|---|---|---|---|---|
| `steady` | never detach | 3 threads, 3 slots, 2 calls each, `MAX_AWAIT_TIME` 2, `Undisturbed` | `TypeOK`, `NoUndefinedBehaviour`, `WaitingIsQueued`, `TasksAreWaiting`, `ApplySpec` | 336k |
| `quiescent` | detach alone | 2 threads, 3 slots, 3 calls, `MAX_AWAIT_TIME` 1 | `NoUndefinedBehaviour`, `QueueWellFormed`, `AtMostOnce`, `OrphansReclaimable`, `ListConsistent`, `CallsConsistent` | 159k |
| `detach` | detach any time, `execute()` throws either kind | 2 threads, 3 slots, 2 calls, `MAX_AWAIT_TIME` 1 | `MutualExclusion`, `GenerationBound`, `OwnedSlotLive`, `AssertHolds`, `LockSpec` | 618k |
| `live` | detach alone | 2 threads, 2 slots, 2 calls, `MAX_AWAIT_TIME` 0, fair | `HeldByExecutor`, `ApplyReturns` | 35k |
| `objects` | call a `Storage` or an array | 2 threads, 2 keys, 2 values, 2 cells and indices -1 to 2, 4 codes | `StorageLinearizable`, `ArrayLinearizable` | 265k |
| `keys` | detach, exit, build and destroy objects | 2 threads, 3 objects, 2 keys, 4 slots | `SlotIsOwn`, `OrphanedOnce`, `NothingForgotten` | 6k |
| `lost_operation` | never detach | 2 threads, 3 calls, `MAX_AWAIT_TIME` 0 | `CompleteOnReturn`, violated | |
| `lost_parent` | detach any time | as `detach` | `DequeueFindsParent`, violated | |
| `dangling_link` | detach any time | as `detach` | `QueueWellFormed`, violated | |
| `stale_shot` | detach any time | 2 threads, 3 calls, `MAX_AWAIT_TIME` 0 | `ExecuteThroughLive`, violated | |
| `shot_overflow` | never detach | 2 threads, `SHOT_N` 1 | `ShotFits`, violated | |
| `escape` | never detach, `execute()` throws no `std::exception` | 2 threads, 1 call, `MAX_AWAIT_TIME` 64, fair | `ApplyReturns`, violated | |

**`steady`**: as long as threads stay attached, and no call of `apply_slot` overlaps with the
removal of its own expired slot, `apply_slot` keeps its promise. `ApplySpec` is the promise in
full: under the mapping `phase`, which reads off how often the pending operation of each
thread has run, every behaviour of the combiner is one of `AtomicApply`: publish, run once,
return. The second condition is the constraint `Undisturbed` of the run and the hypothesis of the
theorem `ImplementsApply`. It is there because of `lost_operation`: what it cuts off is the
overlap in which the code does lose operations. Slots do expire and are
removed and pushed again in this run, as long as their owners are outside `apply_slot` meanwhile.
It is where three threads matter: one executes, one pushes, one is released and calls again.
`WaitingIsQueued` and `TasksAreWaiting` say why it works.

**`quiescent`**: with expiry and detaching, but no thread inside the object while another
detaches, the list keeps its shape, dead slots are deleted once and never touched
again, and no operation runs twice. (That an operation may not run at all is
`lost_operation`.) `ListConsistent` and `CallsConsistent` are the inductive invariants of
the [proofs](#the-list-and-the-calls), with the nodes behind each node computed from the words. `MAX_AWAIT_TIME` 1 with 6 calls makes slots expire, be pushed
again, and expire again; three addresses for two threads let one be reused while the
other's dead slot is still listed.

**`detach`**: what remains true however threads detach and whatever `execute()` throws. No two threads
execute, and none executes without the lock; nobody's slot is
deleted, marked or given away under its owner, not even when a caught exception sends the owner away
with its operation published; the assertion holds; stamps never lie in
the future. That the lock is ever given back is not among these: see `escape`. All of these are proved as well, for every number of threads and
slots; the run is there for the reader, and because each of them has a mutant.

**`live`**: every call of `apply_slot` returns, with slots that expire after a single idle
generation and threads that leave in between, as long as `execute()` returns. `HeldByExecutor` is
what that rests on: the lock bit is never left behind. With a `std::exception` calls return too, but the
executor's own one returns incomplete, so the run does not claim it; with any other exception
they do not (`escape`). Fairness:

- `WF(Step(t))`: a thread inside a call keeps running. The scheduler of the operating
  system does that. `Step` does not contain the calls: nobody is obliged to call
  `apply_slot` again, so nobody is served by work that need not come.
- `SF(LockCas(t))` and `SF(PushCas(t))`: a compare-exchange that could succeed again and
  again succeeds once. Two things in the code need this. The compare-exchanges are weak,
  and may fail spuriously; `LockFail` and `PushRetry` are enabled whenever the success is.
  And a thread whose compare-exchange is always beaten by another's would never
  return. With finitely many calls this amounts to "no spurious failure for ever";
  a thread against others that call without end is lock-free at best, and
  nothing is claimed for it.

**`objects`**: every behaviour of the structure behind the combiner is one of its abstract
specification: no call is seen half done, none is lost or answered with another's result,
reordering a shot is invisible, and what is out of bounds or unknown touches nothing. Two threads
make shots of one and two tasks, on the same key or cell and on different ones, while the other
thread publishes, waits outside the shot or returns. The code 4 is unknown to both structures.
Nothing bounds the number of calls. The theorems lift the bound on threads.

**`keys`**: three objects and two keys, so that the third construction finds none left, and
either shares a key or fails. Four slots let one thread hold slots of two objects, give one up,
and get another. The same properties are proved for any numbers.

The bounds. Every cfg of `MCFlatCombiner` bounds the calls of a thread (`MaxCalls`), which bounds the
generations too; slots are the addresses the allocator has. Two threads are enough for
each failure found, and each of the passing runs sees expiry, reuse and rivalry for the lock
where its mode has them. Two larger instances showed no
violation either: `detach`, without exceptions, with three threads, four slots and one call each,
searched completely, and `quiescent` with three threads, two calls each and `MAX_AWAIT_TIME` 0, of
which 1.8 million states were searched and not the rest.

Deadlock is checked in every run. `Finished` lets the system stop only when it has
crashed or every thread is outside the object.

## What the code does not keep

Each of these is a run that TLC ends with a counterexample. The quotation is what the
repository says.

1. **An operation can be lost** (`lost_operation`, line 155). "Method gets blocked until
   slot gets complete" (136-137). Thread B executes and looks at A's slot while it is
   idle and expired. A publishes its code, sees itself queued, and goes for the lock.
   B unlinks A's slot, and unlocks. A wins the lock, scans a list without its own slot,
   runs nothing, and returns. It needs an idle stretch of more than `MAX_AWAIT_TIME`
   generations; the run has 0 for 64 to be short.
2. **The search for a parent runs off the list** (`lost_parent`, line 247). "Get newest
   version of parent" (253). The parent's owner clears the alive bit between the load of
   the bit and the compare-exchange. It fails although the parent is the parent; the
   loop goes forward, away from it, over the tail to `nullptr`.
3. **A removed slot comes back** (`dangling_link`, `TaggedPointer.h:54`). "slot in queue
   always(!) has next" (309-312). `unset_flag` stores the successor it loaded; an executor
   unlinked that successor in between.
4. **`execute()` through a deleted slot** (`stale_shot`, line 433). "the only reference to
   it" (395-396). An executor with no task still calls `executor_tasks.at(0)`, left over
   from an earlier shot.
5. **`SHOT_N` does not limit a shot** (`shot_overflow`, line 367). "Maximum array size that
   could be passed to a single Combine function call" (86). The scan stores one task for
   every pending slot.
6. **An exception can take the lock with it** (`escape`, line 411). "Here we go into spin lock, until
   somebody (or current thread, if he is lucky) execute last operation" (README.md:108-109).
   `run_executor` catches `std::exception` and nothing else, and `apply_slot` calls `unlock` only if
   `run_executor` returns. After any other exception the lock bit stays set; whoever calls then
   finds its operation pending and the lock lost, for ever. The run assumes a client that
   catches the exception.

Four more follow from the models and have no run.

- *Detaching does not free.* "worker **must** detach from it to avoid memory leak" (README.md:116-117). A
  queued slot is only marked, the destructor (113-117) frees the two dummies, and when everybody
  has left no executor comes to delete it: `GetSlot`, `ApplySlot` and its return, `Detach`, `Destroy`.
- *A slot can be orphaned for nobody.* "we are dead, executor will delete pointer" (275-276). A slot that is
  unlinked as expired between the test and the store in `orphan_slot` (268, 277) is deleted by
  neither side. `OrphansReclaimable` fails in `detach`; it holds, and is checked, only where a detaching
  thread is alone and this cannot happen.
- *A caught exception completes nothing.* "Method gets blocked until slot gets complete" (136-137). After a
  `std::exception` no slot is cleared: the executor's own call returns at line 166 with its slot
  incomplete, the others' operations run again although some had run, and the executor's slot stays
  published. `CompleteOnReturn`, `AtMostOnce` and `TasksAreWaiting` fail with "std" in `MayThrow`.
- *Keys run out.* Once a process has used up its pthread keys, `ThreadLocal`'s constructor goes on
  with an uninitialized key (`ThreadLocal.h:14` ignores the result). If that happens to be a key in
  use, two combiners share each thread's slot, and the constructing thread loses the one it had;
  `SlotIsOwn` and `NothingForgotten` fail without `~aliased`. The key of a destroyed combiner does
  not come back.

## Proofs

`FlatCombinerProofs` proves these of `Spec`, for every `Thread`, `Slot`, `Op`, `SHOT_N`,
`MAX_AWAIT_TIME`, `MaxCalls`, `StatInit`, every way of detaching, and whatever
`execute()` throws, but for `NeverAbandoned`. The assumptions are the four `ASSUME`s of `FlatCombiner`: the
dummies are distinct from each other and from the slots, `Null` is neither a node nor a
thread, codes are natural numbers other than `NOT_SET`, sizes are natural
numbers, `SHOT_N` is not 0.

| theorem | states | needs |
|---|---|---|
| `TypeCorrect` | `Spec => []TypeOK` | itself |
| `Exclusion` | `Spec => []MutualExclusion` | `LockInv` |
| `NeverAbandoned` | `Spec => []HeldByExecutor`, if `"other" \notin MayThrow` | `LockInv` |
| `Generations` | `Spec => []GenerationBound` | `LockInv` |
| `Ownership` | `Spec => []OwnedSlotLive` | `OwnInv` |
| `NoAssertFailure` | `Spec => []AssertHolds` | `OwnInv` |
| `ImplementsLock` | `Spec => LockSpec` | `LockInv` |

The argument.

- `TypeOK` is inductive by itself. `n \in 0 .. SHOT_N` is, only because a
  step that would store beyond the array is a `Crash`.
- `LockInv == TypeOK /\ MutualExclusion /\ GenerationBound` is inductive. Exclusion
  needs the second half of `MutualExclusion` (the bit is set while somebody
  executes), without which a compare-exchange of an unlocked word proves nothing, and
  a thread's `gen` must equal the word's while it executes, or the next stamp could lie in
  the future.
- `OwnInv == LockInv /\ OwnedSlotLive /\ SlotProtocol /\ DeadStaysDead`. A slot is
  deleted in three places. `OrphanDelete` deletes the caller's own, which `SlotProtocol`
  shows no thread holds any more. `Destroy` deletes no slot. `DequeueNull` deletes a slot whose bit
  is clear, and a slot somebody holds has it set. `DeadStaysDead` carries what the executor
  read at line 361 over the steps of `dequeue_slot`: a slot found dead stays
  allocated, because only the one executor deletes queued slots (here
  `MutualExclusion` comes in), and dead, because the bit is never set again except by
  allocation. That is `assert(was_dead)`.
- Four lemmas (`LockEffects`, `GenerationEffects`, `OwnershipEffects`, `TargetEffects`) go
  through all the actions once and say which of them touch the lock word, the stamps, the
  slots' ownership, or the executor's target at all. The invariance proofs then
  treat only those.
- `HeldByExecutor` is the converse of that half. It is invariant as long as `ExecuteEscapes` is not
  a step, and false after one, when the bit is set and nobody executes.
- `ImplementsLock` maps the lock bit to `held`, the one thread that executes to `executor`, and
  `lock.gen` to `epoch`. `LockCas` is `Acquire`, `Unlock` is `Release`, `ExecuteEscapes` is
  `Abandon`, every other step stutters.

What these theorems say of the program ends, like the model, at its first undefined step.

### The list and the calls

Proved of `Spec`, for every `Thread`, `Slot`, `Op`, `SHOT_N`, `MAX_AWAIT_TIME`, `MaxCalls` and `StatInit`,
under the same `ASSUME`s and the hypotheses in the table:

- Q: `DetachMode # "any"`. Clients detach only while nobody else is inside the object, or never.
- F: `Thread` is finite, and there are at most `SHOT_N` threads.
- X: `MayThrow = {}`. `execute()` does not throw.
- U: `[]Undisturbed`. No call of `apply_slot` overlaps with the removal of its own slot, alive but
  expired, from the list.

| theorem | states | under | the run that refutes it otherwise |
|---|---|---|---|
| `WellFormedQueue` | `QueueWellFormed` | Q | `dangling_link` |
| `NoOrphanLost` | `OrphansReclaimable` | Q | none: see the end of the previous section |
| `ListAlwaysConsistent` | `ListConsistent` | Q | `dangling_link` |
| `DequeueMeetsParent` | `DequeueFindsParent` | Q | `lost_parent` |
| `ExecutesThroughLive` | `ExecuteThroughLive` | Q | `stale_shot` |
| `ShotsFit` | `ShotFits` | Q, F | `shot_overflow` for F |
| `NeverUndefined` | `NoUndefinedBehaviour` | Q, F | the four named above |
| `TasksWait` | `TasksAreWaiting` | Q, X | |
| `RunsAtMostOnce` | `AtMostOnce` | Q, X | |
| `CallsAlwaysConsistent` | `CallsConsistent` | Q, X | |
| `WaitersQueued` | `WaitingIsQueued` | Q, U | |
| `CompletesOnReturn` | `CompleteOnReturn` | Q, X, U | `lost_operation` for U |
| `ImplementsApply` | `ApplySpec` | Q, X, U | `lost_operation` for U |
| `UndisturbedUnlessExpired` | U, if no step is `RunExpire` | | |

The hypotheses are what a client (Q, F, X) or its pace (U) has to provide. They are met:
`quiescent` has Q, F and X, `steady` all four. U is about behaviours, and
`UndisturbedUnlessExpired` says when a user can count on it: as long as no slot is idle for more
than `MAX_AWAIT_TIME` generations. The three theorems with U need it because a slot may be unlinked between
`CheckQueue` and `TryLock`, and its owner does not look again.

`NeverUndefined` is the sum of this section and of the lock and ownership theorems: with at most
`SHOT_N` threads that detach alone, no step reads or writes a deleted slot, stores beyond the array or
fails the assertion. It does not need X: exceptions leave codes set or the lock taken, but not the list broken.

The argument.

- *The list.* "Behind on the list" is not a formula about the words, and a proof by induction
  along the list is not available. So `ListInv(behind)` has the set of nodes behind each node as a
  parameter, and the proof carries one along (`Sound` says there is one). `Chain` ties it to the
  words: a member's set is its successor and what is behind that, members are ordered, and a set of
  members that starts at the head and follows successors is all of them. This last
  conjunct stands in for the induction. A push inserts a node behind the head, an
  unlinking removes one behind its parent, and every other step leaves the sets alone
  (`MovesPush`, `MovesUnlink`, `Moves`). `ReachedIsBehind` shows that the carried sets are the
  reachable nodes, so `QueueWellFormed` and `ListConsistent`, which TLC evaluates, follow.
- *Who is at work on it.* `LinkedInv`: a slot with a successor is on the list, about to be
  pushed, or just unlinked. `PusherInv`, `LeaverInv`, `ScannerInv` give each thread what it has read:
  a pusher's slot is nowhere yet; the executor's parent is on the list and the target behind
  it; while `dequeue_slot` searches, the target is still behind `pred`, so the search meets the
  parent before the tail. Here Q comes in (`Quiet`): otherwise a bit may change under `deq_cas`, and an
  `unset_flag` may store a successor of the past.
- *Memory.* `MemoryInv` and `OrphanInv`: what is on the list is allocated, and a slot is somebody's,
  or dead and within an executor's reach. `FirstTaskInv` is about element 0 of the array: either it is a
  live slot, or somebody whose own operation is pending is on the way, so that the next shot
  will write it before `execute()` goes through it.
- *A shot.* `ShotInv`: the tasks are different slots of the list, none of them ahead of the scan,
  all alive. Each live slot is held by a thread, and by one only (`OwnInv`), so a
  pigeonhole argument gives `ShotsFit`, and after it a scan always has room for one task more.
- *The calls.* `CallerInv`: an operation pending on the list has a caller who waits. `OnceInv`: it has
  run exactly if its executor is in the loop that clears the codes and has not come to it. X is needed
  because an exception leaves a code set whose operation may have run, and lets the executor return.
  `OwnTaskInv` is why the executor's own call is complete: the scan does not pass by its own
  slot. `QueuedInv` says that slot is on the list at all, and is where U comes in.
- *The refinement.* With these, `ApplySlot` is `Publish`, `Execute` is `RunShot` of the tasks'
  owners, `FindDone` and `Unlock` are `Complete`, and every other step leaves `phase` alone.

### The other components

`CombinedObjectProofs` proves, for any threads, keys, values, codes, indices and any length of the
array, under `ObjectAssumption` (codes, keys and indices are integers, no code is 0,
`Absent` is no value):

| theorem | states |
|---|---|
| `StorageImplementsBaseline` | `Spec => StorageLinearizable` |
| `ArrayImplementsCells` | `Spec => ArrayLinearizable` |

The invariant says that the owners of a shot's tasks wait (`ShotWaits`), so that a slot does
not change between its preparation and its task; that waiting threads have
prepared a key (`Prepared`); and the types. Then a call of `prepare_data` and `apply_slot` maps to a call, a task to
the one abstract action its code names, a return to a return; the first and the last step of a shot
change nothing that is seen (`ShotProgress`). The sort needs no part in
it: the theorems hold for any order of the tasks of a shot, since their owners all wait.

`ThreadLocalProofs` proves `SlotsAreOwn`, `SlotsOrphanedOnce` and `NoSlotForgotten`, the three properties of
`keys`, for any threads, objects, slots and keys, under `NamesAssumption` (null and none are not names of
anything). The invariant adds to them that a slot is one thread's value for one key (`HeldOnce`),
held only while it is allocated and not orphaned (`Accounted`), that a key nobody took has no values
(`KeysInUse`), and that while keys last no two objects, destroyed or not, have the same
(`KeysApart`). That the destructor leaves its key in use is what `NothingForgotten` needs: a
thread may exit later.

`TaggedWordProofs` relates words to records for every `BIT`, a positive integer (2^63 in the code).
`WordsAreRecords`: equal words are equal records, so comparing words is comparing records.
`StoresKeepTheOtherHalf`, `CompareExchangeIsExact`: the constructor, `set`, `unset_flag` and the
compare-exchanges act as `NewPointer`, `SetPtr`, `ClearFlag` and `CasMatches`. `UpdateIsExact`:
so does `update_value_with_tag_check`, wherever its loop ends, and
`FirstGuessMatchesNoObject`: its first guess (`TaggedPointer.h:121-123`) is the word of no object.
`LockWord`: `try_lock` and `unlock` act as `NextGeneration` and `Unlocked`, and the result is not the 0 of
failure, at every generation but the last; `LastGeneration`: there it takes the lock and
returns 0. At one executor per nanosecond that is 292 years away.

What is only model-checked of the passing runs is `ApplyReturns`: liveness under fairness is beyond
the prover. `NeverAbandoned` is the part of it that is a safety property.

## Plan

Done: the combiner, its two abstract specifications and their runs; the structures behind it,
composed with its contract; the thread-local keys; the words. Proved: every property of the passing
runs but the liveness of `apply_slot`.

Left, in this order:

1. A contract weaker than `AtomicApply` for an `execute()` that throws (a task may take effect any number of
   times before it is done): stated, checked, proved from `ListInv`, which holds with exceptions
   already; and `CombinedObject` on top of it.
2. What remains true of the list when clients detach at any moment, beyond the lock and ownership: which
   part of `ListInv` survives until the first lost update of `unset_flag`.

Not modelled, and not planned: the vendored test framework (`third-party/`), the build files
and the load tests, which keep no state of the program; weak memory, which needs a model of
the C++ memory orders under every access.
