# ClaraX: formal models and proofs

This directory holds TLA+ specifications of the parts of ClaraX whose
correctness rests on protocols between threads, callbacks and the Python
interpreter, the TLC configurations that check them, and proofs of their most
important properties with TLAPS. Line numbers refer to the repository at the
commit the specifications were translated from; `PROJECT.json` maps every
definition to its lines.

## 1. The system

ClaraX has three layers.

* The binding crate `clarax` (`src/`), a Rust binding to the Python
  interpreter: attachment of threads, owned references, dynamic borrow
  checking of class instances, lazily built values, errors, coroutines,
  trampolines called by the interpreter.
* `clarax-core`, a schema engine: it serialises and validates Python objects
  against a list of typed fields, one by one or in (parallel) batches.
* `clarax-django`, a bridge from Django REST framework to the engine: a Rust
  module that turns model metadata into schemas, and Python mixins, a list
  serializer, a streaming view and a middleware that use it.

The foreign declarations (`clarax-ffi`), the procedural macros
(`clarax-macros*`), build configuration, introspection, guide, benches and
examples generate or describe code and keep no state at run time.

### Inventory

| Component | State | Operations | Hard behaviour |
|---|---|---|---|
| Attachment guards (`src/internal/state.rs`) | `ATTACH_COUNT` per thread, the stack of guards each thread holds, the interpreter's own attachment | `attach`, `try_attach`, `assume`, drop of a guard, `SuspendAttach`, `ForbidAttaching` | guards nest; a thread's own count and the interpreter's opinion must agree; the GIL is handed over |
| Reference pool (`state.rs`, `Py::drop`) | `POOL.pending_decrefs`, reference counts | `clone_ref`, drop, `register_decref`, `drop_deferred_references` | destructors run inside a drain and drain again; drops on detached threads; free-threaded drains in parallel |
| Borrow checking (`src/pycell`) | `BorrowFlag` per class hierarchy | `try_borrow`, `try_borrow_mut`, releases | lock-free increments race with exclusive borrows; the counter has a reserved top value |
| Once cells and locks (`src/sync/once_lock.rs`, `src/sync.rs`) | the cell, the `Once`'s state, the Mutex, the GIL | `get_or_init`, `get_or_try_init`, `set`, `call_once_py_attached`, `lock_py_attached` | the GIL and the cell's lock are taken in both orders; nested and failing initialisers |
| Lazy error state (`src/err/err_state.rs`) | the inner state, a `Once`, the normalising thread | `as_normalized`, `restore`, `into_normalized` | normalisation runs Python code: re-entrancy, other threads, panics |
| Interpreter lifecycle (`src/interpreter_lifecycle.rs`) | `START`, the interpreter's state | `initialize`, `attach` with auto-initialise, `with_embedded_python_interpreter` | a panic poisons `START`; another thread attaches mid-initialisation |
| Type objects (`lazy_type_object.rs`) | the cell, the list of initialising threads, the filled dict | `get_or_try_init`, `ensure_init` | recursion while class attributes are computed; two threads filling |
| Coroutines (`src/coroutine*`) | the future, the waker's loop/future, the cancel handle | `send`, `throw`, `close`, `wake`, `cancelled` | wake-ups from other threads, cancellation, panics |
| Traversal (`impl_/pymethods.rs`) | attachment lock, borrow, panic trap | `_call_traverse`, `_call_clear` | base classes, early returns, instances borrowed elsewhere |
| Free list (`impl_/freelist.rs`) | slots, split | `insert`, `pop` | off-by-one at the capacity |
| Iteration (`src/types/list.rs`, `tuple.rs`, `dict.rs`) | positions still to come; entries passed, items expected | `next`, `next_back`, `nth`, `advance_by`, loops | the container changes between the calls and in closures; unchecked reads; critical sections that are suspended |
| Validation (`clarax-core`) | pure, per row and field | `validate`, `validate_many`, `validate_batch` | parallel and sequential paths, error reporting, constraint boundaries |
| Serialisation (`clarax-core`) | pure, per row and field | `serialize`, `serialize_many` | one row of several failing |
| Django bridge (`clarax-django`) | class-level schema and field caches, thread-local metrics | `to_representation`, list `data`, `serialize_stream` | stale caches, fallbacks when the engine fails |

### How the components interact

Everything that touches Python runs under an attachment guard. A trampoline
(the interpreter calling Rust) makes an `AttachGuard::Assumed`; code that may
block makes a `SuspendAttach`: the once cells, `Python::detach`, the error
state and the coroutine wakers all do. `__traverse__` makes a
`ForbidAttaching` and takes a shared borrow. Any `Py<T>` that goes out of
scope ends in `Py::drop`, and so in the pool when its thread is detached.
`clarax-core` is called attached, converts its inputs while attached and
validates batches detached on a thread pool; `clarax-django` calls the engine
and falls back to Django REST framework where it refuses.

### What makes each component correct

* **Attachment and pool**: the count never says "attached" for a thread that is
  not; every guard restores it; a reference is in one place and an object's
  count is the number of references to it, whatever destructors do inside a
  drain; a count is only decremented attached; parked references get dropped.
* **Borrow checking**: the counter is the number of borrows, so one class's
  contents are never reachable through a mutable guard and another guard;
  `into_super` does not panic; `increment` is lock-free.
* **Traversal**: a handler cannot attach, a collection leaves the borrow flag and
  the attach count as they were, clearing fails exactly with an exception set,
  and only a panic aborts the process (it does not hold, see 3).
* **Once cells and Mutexes**: one initialiser at a time, one value for ever,
  nobody blocked with the GIL, failed initialisers wake others, calls return.
* **Error state**: one closure runs, once, in the thread that is written down;
  no `expect` or `unreachable!` of the normalisation is reached; a normalised
  error stays what it is.
* **Type objects**: one type for all; only a recursive caller sees it without
  its class attributes; with a GIL it is filled once.
* **Coroutines**: no wake-up is lost, no thrown exception overlooked, and a
  stale waker does not touch the future of a later poll.
* **Iteration**: unchecked reads are in bounds, no position comes twice or gets
  lost between two ends while additions do not wrap (it does not hold when they
  do, see 3), and a loop over a changing dict ends.
* **Validation and serialisation**: both code paths and all orders of Rayon give
  the one report that the constraints demand and the one output the values have;
  ordinary data of the declared classes gets a report.
* **Django bridge**: a cached classification is that of the class that uses it;
  rows of plain columns have the fields of DRF's and, but for the types listed in
  3, its values, whichever of three implementations made them; streams keep order
  and size; statistics belong to one request.

## 2. Modules

| Module | Extends / uses | What it is |
|---|---|---|
| `AttachPool` | | guards, `ATTACH_COUNT`, the GIL, owned references, the pool |
| `AttachPoolProofs` | `AttachPool` | proofs about guards and about references |
| `SharedXorMutable` | | abstract specification: readers or one writer |
| `PyClassBorrow` | `SharedXorMutable` (refinement) | the borrow flag of one instance under guards of a class hierarchy |
| `Traversal` | `PyClassBorrow` (composition) | the collector traverses and clears that instance |
| `TraversalProofs` | `Traversal` | proofs about `PyClassBorrow`, the refinement included, and `Traversal`, which implements it |
| `InitOnce` | | abstract specification: a cell is filled by one thread at a time, and for good |
| `PyOnceLock`, `PyOnceLockProofs` | `InitOnce` (refinement) | once cells, `Once`s and Mutexes entered by attached threads; proofs |
| `ErrState`, `ErrStateProofs` | `InitOnce` (refinement) | lazy exceptions and their normalisation; proofs |
| `LazyTypeObject`, `LazyTypeObjectProofs` | | the type object of a class and the two `GILOnceCell`s it is made of; proofs |
| `Coroutine`, `CoroutineProofs` | | a Rust future as a coroutine, its waker, cancel handle and event loop; proofs |
| `SequenceIteration`, `DictIteration` | | iterators over containers that change |
| `IterationProofs` | both | proofs |
| `CoreValidation` | | `validate`, `validate_many` and the batches under them |
| `CoreSerialization` | `CoreValidation` | `serialize` and `serialize_many` over the same values |
| `RustSerializer` | | the mixin of `clarax-django`: caches, rows, lists, streams, the middleware |
| `SerializationProofs` | `CoreSerialization`, `RustSerializer` | proofs about the engine and the mixin, which share lemmas about sequences in chunks |
| `MC...` | the module | values of the constants for TLC; `MCSerializers` puts the engine, the mixin and the iterators side by side |

Definitions called `...Again`, `...Unlocked`, `...Forgets` and the like, placed
in front of the definition they vary, are plausible bugs. They are not part of a
specification; `PROJECT.json` ("mutants") says which property each one breaks.

### AttachPool (`src/internal/state.rs`, `src/instance.rs`)

| State | Code |
|---|---|
| `attached` | the interpreter's thread states (the holder of the GIL) |
| `count[t]` | `ATTACH_COUNT`; `-1` is `ATTACH_FORBIDDEN_DURING_TRAVERSE` |
| `stack[t]` | guards alive in the thread, innermost last, with what each saved and the batch it is dropping |
| `mode[t]` | in the middle of a guard's operation, or switched out by the GIL |
| `owned`, `pool` | `Py<T>` values; `POOL.pending_decrefs` |
| `target`, `refcnt` | the object behind each reference; `ob_refcnt` |

`AttachEnsure`, `AttachAssumed`, `Trampoline`: `try_attach`, `assume`;
`DropGuard` and `Release`: `Drop for AttachGuard` (release and decrement are two
steps); `Suspend`, `Resume`, `Restore`, `Restored`: `SuspendAttach`, whose drop
restores the count first, then waits for the GIL, then drains; `Forbid`,
`Unforbid`: `ForbidAttaching`; `Create`, `CloneRef`, `Send`, `DropNow`,
`DropLater`: `Py<T>`; `DecrefDeferred`: one round of the loop in
`drop_deferred_references`. A decrement that takes the last
reference runs a destructor: the `tp_dealloc` of a ClaraX class enters its
trampoline, so the thread gets one more guard (`Decref`), which drains the pool
and under which it may do anything an attached thread may, in between two rounds
of the loop outside. `SwitchOut` and
`SwitchIn` are the interpreter's hand-over of the GIL. `LeavePython` and
`EnterPython` are the interpreter running with no guard of ours. The build, with
a GIL or without, is chosen in the initial state.

### PyClassBorrow (`src/pycell/impl_.rs`, `src/pyclass/guard.rs`)

One instance of a class in a hierarchy of `Depth` classes; which of them are
frozen is chosen in the initial state. `flag` is the `BorrowFlag` of the first
mutable class, which every class below shares; frozen classes above it have no
checker. `TryBorrow` and `Increment` are the load and the compare-and-swap of
`BorrowFlag::increment` (a failed exchange goes round the loop with the value it
found). `IntoSuper`, `Raised`, `IntoSuperMut`: `into_super` borrows for the base
and then releases. `Map`, `MapReturns`, `MapPanics`: `PyClassGuard::map`, whose
closure may panic with the guard in a `ManuallyDrop`, which leaks the borrow.
The atomic orderings of the flag are taken to be sequentially consistent: it is
one atomic variable, and the properties are about it and not about the memory it
protects.

### Traversal (`src/impl_/pymethods.rs`)

The cyclic collector calls `tp_traverse` or `tp_clear` of the instance
(`Collect`). `stack` holds the slots under way, one for each class that has one:
`CallSuper` and `CallNative` are `call_super_traverse` and `call_super_clear`,
`WrongThread`, `Borrow`, `BorrowTurn`, `NotBorrowed`, `NotBorrowedMut` the checks
that follow, `HandlerReturns` the end of the user's handler, `TrapSprings` the
drop of an armed `PanicTrap`. The collector's thread uses the guard `gc` of
`PyClassBorrow` for its borrow, and the other guards go on meanwhile
(`OthersStep`): in detached threads, or further up the stack when it is the
program that called the collector. What is nested in a slot and what a slot saves
(`ForbidAttaching`) is in `attach` and `stack`.

### PyOnceLock (`src/sync/once_lock.rs`, `src/sync.rs`)

A thread is in a stack of calls: `Enter` is the caller's detaching and queueing,
`Begin` the lock's choice of who initialises, `AttachInside` the taking back of
the GIL inside the lock, `Yield`/`Unyield` Python code that hands the GIL over,
`Finish`/`Fail` the end of the initialiser, `Leave` and `AttachOutside` the ways
out. A cell in `Onces` is a `std::sync::Once` entered by `call_once`, which a
panic poisons. A cell in `Mutexes` is a Mutex: `TryLock` and `LockBlocks` are the
two halves of `lock_py_attached`, what its guard protects takes the place of an
initialiser, and `Unlock` is the drop of the guard. (A poisoned Mutex is locked
like any other, so poisoning is left out.) Cells and Mutexes are used in ascending
order: re-entrant use is an
error by the documentation, and two initialisers that need each other's cells
wait for ever as with any lock. `Set` is `PyOnceLock::set`, which does not
detach.

`InitOnce` says what all of this promises to a caller: one initialiser at a time,
content that never changes, a direct `Put` only beside no initialiser, and some
cells with one chance. `Initialisation` maps the lock's holder to the initialiser
and a poisoned `Once` to a closed cell; a Mutex is a cell that is given up every
time. (What a plain `Once` is filled with is who ran its initialiser.)

### ErrState (`src/err/err_state.rs`)

`once`, `normalizer`, `lockPoisoned` and `inner` are the four fields of
`PyErrState`. `Look` is `as_normalized`, `Check` and `CheckPanics` the
re-entrancy guard under the mutex, `Begin` the `Once` letting one caller in and
the closure writing its thread and taking the lazy value, `Finish` the end of the
closure, `Panic`, `Unwind` and `Catch` a panic on its way out through it. The
closure may run Python code that looks at errors of higher numbers or at its own
(`MayLook`).

An error implements `InitOnce` too: its content is the normalised exception, the
initialiser the thread in `normalizer` while the `Once` runs, and every error
has one chance, because a panic poisons its `Once`.

### LazyTypeObject (`src/impl_/pyclass/lazy_type_object.rs`, `GILOnceCell`)

`value` and `full` are the two cells, `list` is `initializing_threads`, `dict`
says whose object each class attribute is, `frozen` that the type was made
immutable. A call is `create`d, goes through `ensure_init` (`Ensure`,
`EnterList`), computes the attributes one by one (`Attribute`, `AttributeFails`,
`Computed`), which is user code that may give the GIL up or ask for the type
again, and fills the dict (`Fill`, `FillFails`, `Freeze`, `ClearList`, `Publish`);
`FillFails` is an attribute that cannot be set, or the freezing of the type that
fails after all are. `HandOver` is the GIL going to another thread, in user code
only; on a free-threaded build every thread may step at any time.

### Coroutine (`src/coroutine.rs`, `src/coroutine/`)

Polls are numbered; a waker is named by the poll that made it and an
`asyncio.Future` by the poll it is for. `Send`, `Throw` and `Reraise` are the
beginnings of `Coroutine::poll`; `EnterBody` resets the waker if nobody has a
clone of it (`Unique` is `Arc::get_mut`) and replaces it otherwise. `AskEvent`,
`AskCancel`, `WakeSelf` are what the Rust future does in a poll, bound only by
the contract of `Future`: it is pending only if it left its waker behind, or woke
it. `Suspend` and `Create` are `initialize_future` with the cell locked in
between; `Fire`, `Wake` and `Post` a thread that makes the event happen and
wakes; `ReleaseWaiter` and `Cancel` the event loop's side. The model has no GIL:
threads interleave at every step as on a free-threaded build, and what a GIL adds
(waiting for it, with a cell locked) is what `PyOnceLock` checks.

### SequenceIteration, DictIteration (`src/types/`)

A container is its size, an item the position it was read from. `Begin` is the
first half of `next`, `next_back`, `nth` and `nth_back`, which measures the list,
`Read` and `Nothing` the second half; the two are one step of the interpreter
with a GIL or in the list's critical section, and that is what the guard of
`Mutate` says. A call that is a loop (`fold` and its like) runs the caller's
closure and measures again (`GoOn`); the closure may change the list, or detach,
which suspends the section (`Suspend`). `Advance` is the nightly `advance_by`. In
`DictIteration` a dict is its entries in order, of which some are deleted;
`Insert` into a full table throws those out, so positions move. `Refuses` are the
two panics of `next_unchecked`. `overflowChecks` is how the crate is built: an
addition in `nth` or `nth_back` (`Reached`) that leaves `usize` panics, or wraps as
in a release build, for no profile of the repository asks for the checks; `wrapped`
remembers that one did. `Limits` is what a call measures: a tuple's `next` and
`next_back` go by the length the iterator keeps. Builds for the limited API fetch
items with a check and panic instead; they are not modelled. `Begin` is bounded by
`Len(given) <= MaxSize`, which only an iterator whose additions have wrapped can
reach past.

### CoreValidation, CoreSerialization (`clarax-core/src`)

A call is an element of `Inputs`: the function, a schema, rows (dicts or objects),
or a buffer of `FieldValue`s from a Rust caller. A value is its class, the number
that matters about it (length, value, coefficient of a `Decimal`), a `Decimal`'s
exponent and one peculiarity ("wide" for an int that is no `i64`, "nan",
"surrogate", "lossy" for a list or dict that JSON changes, ...). `FitsDecimal` is
the room a `rust_decimal` has, 96 bits and 28 places (`Mantissas`, `MaxScale`).
`InlineCodes` is `validate_py_value_inline`, `SingleCodes` is `validate_single`,
`Convert` is `convert_py_to_field_value`, `count_decimal_digits` works on the text
Python gives to the value. The actions are one entry of the row loop (`CheckDict`,
`CheckObject`, `Extract`), a chunk of a batch in Rayon's order (`Work`), and
`Collect` and `Report`. `PopRow` is other Python code shortening the list of rows,
which the loop allows: it reads the length first and runs Python code inside. It
takes the last row: code that removes a row in front, or puts another one in a
place, changes which row comes next and is left out, as the rows of an input are
fixed. Messages and parameters of errors are left out. `CoreSerialization` adds
`SerializeDict`, the copy of a dict whose values Python converts, and
`SerializeObject`, the detour over `FieldValue` and JSON; a written value is the
value it is made from and how it is written.

### RustSerializer (`clarax-django`)

Classes are made at an address (`id(cls)`), collected, and replaced by others.
`ownSchema` is the `_clarax_schema` attribute that `InitSchema` compiles, `SchemaOf`
its lookup through the bases,
`cache` the module's `_field_cache`: `Hit`, `WorkOut` and `Store` are the lookup
and its miss, in which another thread may do the same. `Emit` gives one row of a
job (an instance, or a list through `_ClaraXListSerializer` with its fallback row
by row), `Stream` a whole stream, `BeginRequest`/`EndRequest` the middleware.
A row says for each field whether it holds the value DRF gives or what it holds
instead. `Compile` and `RustType` are the table of Django's types; `Alike` are the
conversions whose result is DRF's, `Coerces` those whose result is or may be another:
an instance of one type read through a descriptor of another, and every type in
`OwnWay`.

## 3. Checks

Every run listed as *pass* is a complete exploration of its instance.

| Run | Properties | Instance |
|---|---|---|
| `attach` | `CountImpliesAttached`, `OnePlace`, `RefcountExact`, `DecrefWhileAttached`, `GuardRestoresCount`, `ParkedIsDropped` | both builds, 2 threads, 2 references, 2 objects, one thread that keeps attaching with guards 4 deep, one whose guards do not nest; together 3 guards on the free-threaded build |
| `borrow` | `FlagExact`, `NoAliasing`, `IntoSuperSucceeds`, `SharedOrMutable` (refinement), `LockFree`, `HandlerIsConfined`, `ClearReports`, `CollectorLeavesNoTrace` | 2 guards, one of them at times the collector's, all 8 hierarchies of 3 classes, flag of 0..5 |
| `traverse_trap` | `AbortMeansPanic` is violated | 2 classes |
| `once` | `AttachedRuns`, `InitialisedOnce` (refinement), `CallsReturn`, no deadlock | both builds, 2 threads, 2 cells, a `Once` and a Mutex, 2 failures, 2 locks |
| `once_set_deadlock` | `NoInterpreterDeadlock` is violated | GIL, 2 threads, 1 cell |
| `err` | `ExpectsHold`, `RunsInNormalizer`, `InitialisedOnce` (refinement), `CallsReturn`, no deadlock | both builds, 2 threads, 2 errors |
| `lazy` | `OneType`, `OutsidersGetAFilledType`, `WithGilOneFills`, no deadlock | both builds, 2 threads, 2 attributes, 3 calls open in a thread |
| `coroutine` | `NoLostWake`, `CancelNotMissed`, `CloneOfItsPoll`, `EventIsSeen` | 2 waking threads, 4 polls, 2 cancellations, with and without a handle |
| `serializers` | `SameReport`, `OrdinaryDataGetsAReport`, `ValidCountBounds`, `SerializedAlike` of the engine; `CacheFitsClass`, `PlainRowsAreDRFs`, `StreamInOrder`, `StatsAreOfTheRequest` of the mixin; `ReadsInBoundsUnlessWrapped`, `EachPositionOnce`, `DictFaithful`, `DictEnds` of the iterators | the inputs of `MCCoreEngine`, parallel from 2 entries on; 2 threads and 2 classes at a time; containers of up to 4 items, every build, strides 0, 1, 2 and `usize::MAX` of a 4-bit word. One behaviour is a run of one of the four |
| `iteration_release` | `ReadsInBounds` is violated | the same containers and builds, strides 0, 1 and `usize::MAX` |
| `decimal_digits` | `DigitsOfDecimals` is violated | lists of one dict with one `Decimal` |
| `django_nested` | `RowsAreDRFs` is violated | 1 class with a nested serializer on a foreign key |

The type invariants of the modules are proved (see 4) rather than run.

### Bounds, and why they are enough

* Two threads are the least that race. The proofs cover any number of threads,
  guards, references, cells and errors and any nesting, for the safety properties.
* `MaxDepth` 4 in `attach` for the thread that keeps attaching: a guard that drains,
  a destructor's guard inside the drain, a detachment inside that, and a guard that
  attaches again and drains what was parked meanwhile, after which the interrupted
  drain goes on. It takes two objects and two references: the batch must not be
  empty when the destructor runs. The other thread has one guard at a time and parks,
  attaches and drains in between. On the free-threaded build the two have three
  guards between them (`Bounds`), so that there the destructor's detachment itself
  drains when it ends. Deeper nesting is what the proofs are for, as far as safety goes.
* Three classes are enough for a frozen base, the first mutable class and a
  class below it that shares its flag, in every arrangement. `MaxFlag` 5 is the
  least above `2 * Cardinality(Guards)`: the code adds one without an overflow
  check of its own because no program has that many guards, and the assumption
  `BorrowAssumption` says so.
* Two cells, a Mutex and a `Once`, in this order 1, 2, 3, 4 with the Mutex second
  and the `Once` third: each is used from inside another while a thread waits for
  it, and one is poisoned; two failures let both waiting callers try in turn;
  `MaxLocks` ends what would be locking for ever, so that no fairness of a Mutex
  is needed.
* Errors born normalised or lazy; closures look at one other error and their own.
* Two class attributes: one is set when the other fails. Three open calls: a call
  from an attribute of a call from an attribute.
* Four polls: register, be woken with a stale clone, be cancelled, and finish.
  The body finishes in its fourth poll at the latest (`MaxPolls`).
* Four items let both ends move, skip and shorten the list between them; the word
  of 16 values makes the largest stride overflow as `usize::MAX` does.
* Validation: one row of every field type against values of every class, with
  bounds one below, at and above each constraint; two rows of two fields with
  every combination of dict and object, of good, bad and missing values; buffers
  with an incomplete last record. `Threshold` is 128 in the code (`PARALLEL_THRESHOLD`);
  at 2 the same batches are on either side of it.
  A `rust_decimal` has 16 bits and 7 places instead of 96 and 28: values lie on either
  side of both.
* Two addresses: a class and one derived from it, or one that takes the address
  of another. A stream of four instances loses its second, so that a chunk of two is
  filled across the gap and a short one is left.

### Fairness, and why the code justifies it

The interpreter hands the GIL to every thread that keeps asking (its switch
interval), so steps that wait for it are strongly fair. Steps that do not wait are
weakly fair: a running thread goes on. A thread in the middle of a guard's
operation or of a drain goes on (`GoOn`). A caller's code under a guard or a
Mutex, an initialiser, an error's closure and a coroutine's poll are assumed to
return: without that nothing returns in any implementation. A `Once` or a cell
lets one of its waiting callers in when it is free (`std::sync::Once` wakes them
all). The event loop runs every callback it was given. Nothing obliges a thread to
attach (but the poller of `attach`), an event to happen, or a caller to begin.
`LockFree` needs no fairness but of the loop's own thread: it says that who goes
round for ever sees other threads make progress for ever. `DictEnds` is stated as
a bound on the items and needs none. `CallsReturn` of `ErrState` holds only
because closures look at errors in order: two errors whose closures look at each
other's wait for ever.

### What the violated properties show

* `NoInterpreterDeadlock`. `PyOnceLock::set` waits attached for an initialiser
  that waits for the GIL; the type's doc says it never deadlocks with the
  interpreter.
* `AbortMeansPanic`. `_call_traverse` returns early, with its panic trap armed,
  when a base class's traversal returns non-zero, as it does when a visitor stops
  it: the process aborts with a message about a panic that did not happen.
* `DigitsOfDecimals`. `count_decimal_digits` adds the exponent of a text such as
  `1.2E+4` to all digits of its mantissa, those behind the point included, and
  counts six digits in a number that has five; `validate_many` then rejects it
  where five are allowed (`1.0E+2` counts as four, `0E+3` as four). A mantissa of
  one digit that is not zero, as in the doc's `1E+2`, is counted right, and so is
  everything without a positive exponent: that is what `Counted`, the hypothesis of
  `SameReport` and `ValidCountBounds`, asks of a value beyond being of the class its
  field declares.
* `ReadsInBounds`. `nth_back` tests `index + n < length_size`; where the addition
  wraps, `nth_back(usize::MAX)` after a `next()` passes the test and reads behind
  the end (`list.rs:598`; `BoundTupleIterator` does the same).
  `ReadsInBoundsUnlessWrapped` says that no other read of a list is out of bounds.
* `RowsAreDRFs`. A nested serializer on a foreign key is given the raw key before
  its DRF field is asked, in single rows and in lists; the mixin's doc says it
  delegates nested serializers to Python.

### Where the code and what is said of it differ otherwise

These came up while modelling. The properties above are stated so that they hold.

* *Attachment.* The comment at `state.rs:175` says the pool is emptied before the
  thread state is released; nothing in `Drop for AttachGuard` empties it, and what
  another thread parked meanwhile waits for the next attach (`ParkedIsDropped`
  needs the poller).
* *Errors.* A panic in an error's closure leaves the error empty for good;
  `restore` then panics with a message that excludes this.
* *Validation.* `valid_count` is the number of entries less the number of *field
  names* with errors (`engine_validate.rs:131`), so two records that fail in one
  field count as one, where the doc at `:23` says "Number of fields that passed
  all validation checks"; `ValidCountBounds` says what does hold.
* *Serialisation.* For a dict, a missing required value of a field that needs no
  conversion stays missing, where `serialize` raises; a missing nullable key
  stays absent, where `serialize` writes `None`; datetimes are `isoformat()` for
  dicts and RFC 3339 in UTC otherwise; a time of whole milliseconds has three
  decimals or six; unknown keys come through. A list or dict is copied as it is for
  dicts and goes through `json.dumps`, serde_json and back otherwise
  (`lib.rs:1204-1218`, `:1269-1297`): keys become strings and come back sorted, inner
  tuples become lists, ints from 2^63 up floats, and a float may lose its last digit.
  One row that fails aborts the list. `SerializedAlike` asks for equal forms of
  ordinary values only, datetimes and "lossy" lists and dicts excepted, and for whole
  records in order of everything.
* *Decimals.* The field type is an "arbitrary-precision decimal" (`types.rs:53`), and
  `Decimal::from_str_exact` (`lib.rs:1151`) refuses an exponent, more than 28 places
  and more than 96 bits: `validate` and `serialize` raise for a `Decimal` that
  `validate_many` counts the digits of in a dict. Such a value is not `Ordinary`.
* *Type objects.* "Multiple threads may try to fill it at the same time, but only
  one of them will succeed" (`lazy_type_object.rs:119`): on a free-threaded build
  two threads may fill it, and the later one may find the type frozen and fail.
  `WithGilOneFills` is therefore about builds with a GIL.
* *Iteration.* List iterators are declared `FusedIterator` (`list.rs:921`); one
  that has ended goes on when the list grows again. `nth` that finds nothing
  leaves the iterator where it was. Where `index + n` wraps (`list.rs:527`) `nth`
  goes back and yields positions a second time. `len()` overestimates on a list
  that became shorter. A dict whose keys are replaced yields one item too many
  before it panics, and its `len()` is then `usize::MAX`.
* *Django.* The fast path writes datetimes as RFC 3339 in UTC with `+00:00`, where DRF
  writes `Z` or the current zone's offset, times of whole milliseconds with three
  places instead of six, Decimals with the places they have instead of the field's,
  and JSON columns after the trip through JSON (`engine_serialize.rs:77-88`). A row
  that cannot be converted falls back to DRF, so rows of one list may differ in form.
  `PlainRowsAreDRFs` asks for DRF's values in the other columns, with DRF's default
  formats. A class derived from one that was used before has the schema of its
  base's model; write-only fields come out; the list path gives a plain attribute
  for a computed field; an exception of a Python field propagates from a list.

## 4. Proofs

All proofs are complete: no step is left out and nothing but the named
assumptions on constants is assumed. Each theorem is about the specification of
its module without fairness, so it holds under any.

**AttachPoolProofs** (assumes `AttachAssumption`: `MaxDepth` a natural number for
each thread, finitely many references). The inductive invariant is `TypeInv /\
GuardInv`. `CountImpliesAttached` is not inductive: whether dropping a guard
leaves the thread attached depends on what lies under it. `GuardInv` says of each
thread's stack which guard may lie on which and what each saved, and of the thread
that its count and attachment are those its top guard and mode imply. From it
follow `AttachedWhenCounted` and, as a step property, `CountIsRestored`.

The second part is about references. `RefInv` is that owned references, the pool
and the batches of all guards are pairwise disjoint, and `RefcountExact`. The
proof goes through four lemmas about what a step does to the set of live
references (unchanged, one less, one more, moved to a batch) and their effect on
`Cardinality(Refs(o))`. It gives `RefcountsAreExact`, `ReferencesHaveOnePlace`,
`TypesAreRight` and `DecrefsAreAttached`, which uses `GuardInv` as well: who is in
the middle of a drain is attached.

**TraversalProofs** has two parts. The first is about `PyClassBorrow` (assumes
`BorrowAssumption`: finitely many guards, twice as many fewer than `MaxFlag`).
`BorrowInv` joins the types, `FlagExact`,
`IntoSuperSucceeds`, `WriterAlone` (a mutable guard excludes every other one that
the flag counts) and `PlacesOK` (a guard in the loop of `increment` has a checker;
one in `into_super` goes from a mutable class to a frozen, checked base).
`FlagExact` is what everything rests on: it turns the
test of the counter into a statement about the guards. `GuardsDoNotAlias`,
`IntoSuperNeverPanics` and the refinement `ImplementsSharedXorMutable` follow;
in the refinement every action maps to a step of `SharedXorMutable` or to a
stutter (a mapped guard stays a reader, `into_super` stays one throughout).

The second part is about the collector (adds `CollectorAssumption`).
`CollectorIsAGuard` shows that
every step of the composition is a step of `PyClassBorrow` or leaves its state
alone, so all of the above holds with a collector among the guards. `Nested` says
what each slot on the stack has saved: the attach count at its depth. It gives
`HandlersAreConfined` for any depth of the hierarchy, and with the collector's
guard (`CollectorInvariant`: none between slots, the class's own in a handler)
`NoTraceIsLeft`. `ExceptionExact` adds what the thread's exception is while a
slot clears: none before its base has failed, and none in its handler. It gives
`ClearIsReported`.

**PyOnceLockProofs** (assumes `OnceAssumption`). `OnceInv` joins the types (among
them that a thread's calls ascend and all but the newest are in their
initialisers), `LockedByInitialiser` (a cell is locked by exactly the thread
between being let in and the end of its initialiser), `AttachedRuns` and
`EmptyWhileRunning` (the cell of a running initialiser has no value). The last is
what makes `WriteOnce` follow: `Finish` writes without looking. Lemmas on stacks
say what moving, beginning and ending the newest call does to the cells a thread
holds; every action is one of the three. Because calls ascend, no stack has a
cell twice, and so the end of one call cannot end another one's lock.
`CellsAreInitialisedOnce` is the refinement of `InitOnce`: an action that lets a
caller in maps to `LetIn`, the end of an initialiser to `Complete` or `GiveUp`,
`Set` to `Put`, and every other one to a stutter. It needs one invariant more,
`KindsKept`: `set` is under way only for cells that have it, and no Mutex is
ever filled, so that giving a Mutex up closes nothing.

**ErrStateProofs** (assumes `ErrAssumption`: `Nobody` is no thread). `ErrInv`
joins the types, `StackOK` (each thread's calls are well formed: only the
innermost is not running its closure, and no error is normalised twice in one
stack), `Untouched` (an error whose `Once` has not run is as it was born),
`ExpectsHold`, `RunsInNormalizer` and `NoSelfWait`. `RunsInNormalizer` needs
`StackOK` because the end of one call must not end another of the same error.
`ExceptionIsForGood` is the step property that follows. For the refinement of
`InitOnce` (`ErrorsAreNormalisedOnce`) `TakenIsGone` is added: an error whose
closure runs, or has panicked, has neither its lazy value nor an exception, so
that the end of the closure fills something empty. `WriteOnce` and
`NormalizedForGood` are theorems that no run repeats: the refinements that the
runs check say more.

**LazyTypeObjectProofs** (assumes `LazyAssumption`). `LazyInv` joins the types
with what is true of every call on a thread's stack (`StackOK`: it has the
cell's type once it is past the first cell, has filled as many attributes as it
says, and all but the innermost are in user code), of the list (`Listed`: a
thread on it is in the middle of its own initialisation, so a call that finds
itself there is not an outermost one) and of results. `TypesAreOne` and
`OutsidersAreServed` follow, for both builds. `GilState` is the second invariant,
for builds with a GIL: only the attached thread is outside user code, from its
look at the second cell (or the list) to the end of what it does the cell is
empty, a type is frozen only by the thread about to set the cell, no stack
computes attributes twice, and who computes them is on the list while that
matters. The last part is why `ClearList`, which takes every thread off, does no
harm: the cell is set before anyone else runs. Lemmas say what pushing, moving
and ending the newest call do to a stack (`Pushes`, `Moves`, `Leaves`), and every
action is one of the three.

**CoroutineProofs** (assumes `CoroutineAssumption`: at least one poll, and the
event's source and the cancel handle are not workers). `CoInv` joins the types;
`PollInv`, what the cell of the current waker holds in each phase, and that a
waiting task waits for the future in it; `CloneInv`, that clones are never newer
than the current waker, and during a poll a clone of it is of this poll
(`CloneOfItsPoll` needs this at `Create`, where a registered clone gets its
future); `CancelNotMissed`; and `EventInv`, which follows the registration of an
event found pending to where it is now: still with the source, spent on a waker
woken early, in the hands of a worker that has not looked, or on its way to the
future. `NoLostWake` speaks of the waiting task only and is not inductive: the
wake-up it needs may have come before there was a future; `EventInv` says where
it was then, and implies it.

**IterationProofs** (assumes `SequenceAssumption` and `DictAssumption`; the build,
with or without overflow checks, is a variable). The invariant says that the limit
a call has measured is not above the container's size until it reads
(`MeasuredHolds`, the place where the GIL or the critical section is needed; for a
tuple, which is not measured again, until an addition has wrapped) and, until then
too, that the positions given, passed over and still to come are disjoint and all
there are (`Once`). `DictIterationEnds` bounds the items by the size at the start
and one. `DictIterationFaithful` says, by induction over the steps, that as long
as the dict does not change the items are the entries behind the position, and
counts those ahead of it: `Advance` and the skipping of deleted entries take the
least position ahead, so nothing lies between.

**SerializationProofs** has two parts as well, after lemmas about `FlattenSeq`
(one more chunk at the end, and what holds of every prefix). Both rest on
functions that are defined recursively: `SchemaOf`, `FlattenSeq`, `NumDigits`, and
`last` in `SameReport`. That such a function does what its equation says is not
free (it is a `CHOOSE`): the lemmas show that a function satisfying the equation
exists, and compare two of them at a least place where they differ (`WFMin` for
the natural numbers, or the rank of a class).

The first part is about `RustSerializer` (assumes `SerializerAssumption`).
`MixinInv` joins the types, a rank that is lower for the base than for the class (so
bases form no circle, and `SchemaOf` is the lookup it says), and for each class and
each job which schema its classification was worked out with (the heart of
`CacheFits`: between the lookup of the schema and the store another class may have
been derived, the schema compiled, or the class used by another thread, and the
schema a class finds does not change while it is used). `PlainRowsLikeDRF` adds
that the rows of a job so far are each what a single row would be; `StatsAreExact` that
what a thread has counted is what its request has returned; `StreamsKeepOrder` that
what a stream has given out, chunks and the open chunk one after the other, is the
good instances it has read.

The second part is about the engine (assumes `InputsAssumption`, the types of what
a caller passes: a schema has one field to a name, a row a value for each field,
and a Rust buffer no `Decimal` with a positive exponent). Its first step is about
one value: `Matches` says that the codes a code path pushes are, each once, the
demands the value does not meet; `InlineRight` and `SingleRight` show it for the
path of dicts and the path of `FieldValue`s, for every type of field and any
bounds. `CoreInv` (types, what has been written is right entry by entry, and who
raises had a reason) gives `OrdinaryDataIsReported` and `RowsSerializedAlike`; the
arithmetic of rows (`RowsEnd`) is what makes them whole rows although the list may
get shorter. `ReportInv` adds what the buffer of a batch holds, that each chunk is
handed out once and its errors are those of its entries (`CheckedOK`), and that
the errors so far report the entries so far (`Reports`: there are cuts in the list
of errors, one for each entry). Chunks are counted by division, `ChunkBounds`
shows that they have every entry and each at least one, and the pigeonhole
principle that when as many chunks are finished as there are, sorting finds each.
`CallsReportAlike` and `ValidCountIsBounded` follow; the latter compares the set
of names with errors and the set of entries with errors by a surjection, which is
a bijection when there is one record only.

What stays with model checking: every liveness property (`ParkedIsDropped`,
`LockFree`, `CallsReturn`, `EventIsSeen`), because fairness is out of reach of the
provers used. Every safety and action property of a passing run is stated by a
theorem.

## 5. Limits of the models

* Thread-local destruction (`ATTACH_COUNT.try_with` failing), finalisation of the
  interpreter and builds with `pyo3_disable_reference_pool` are not modelled.
* `SameReport` speaks about values of the class their field declares. On others
  the two paths differ by design or by accident: a tuple passes as a list for
  `validate` and not for `validate_many`; a date passes as a datetime, a sized
  object as text and anything as a `Decimal` in `validate_many`, where `validate`
  raises. No document says what they should give.
* `SameReport` and `ValidCountBounds` leave out `Decimal`s of several digits (and
  zeros) with a positive exponent, because the code goes wrong there (see 3).
  Exponents beyond 32 bits, on which `count_decimal_digits` overflows or reads
  zero, are not modelled.
* `batch_sum` and `batch_stats` are floating-point arithmetic (`batch_stats`
  panics on a NaN by `partial_cmp().unwrap()`).
* A coroutine's loop is not closed while it waits, and `is_cancelled` is not
  called: it has no effect, but it waits for the handle's mutex, which `throw`
  holds while it runs Python code.
* Threads of one Mutex are not told apart from those of a reader-writer lock: the
  readers of `RwLockExt` are left out.
* Per-instance field sets (`fields=` of a dynamic serializer), the order of a
  row's keys and the warning about repeated queries are left out of
  `RustSerializer`.

### Not modelled

* *Interpreter lifecycle*: `START` is one `Once` around one call of the
  interpreter per process. Its check is an assertion inside `call_once_force`
  (`interpreter_lifecycle.rs:123`); if it fails and the interpreter is then
  started by other means than `Python::initialize`, `wait_for_initialization`
  refuses the poisoned `Once` for ever, although the comment says one may
  initialise and retry. The order of calls that leads there is the embedder's.
* *Free list*: a push and a pop of a small array, by one type's allocator and
  deallocator. (It keeps one object fewer than its capacity: `insert` asks for
  `next < capacity`.)
* Conversions, the typed wrappers of Python types (but for the iterators),
  foreign declarations, macros, build configuration and stub generation keep no
  state between two calls. They are most of the repository's lines; a model of
  them would restate single calls of the interpreter or the text of generated
  code, about which there is no protocol to check.

## 6. Plan

What was planned, in order of importance, is done: `AttachPool`, `PyClassBorrow`
with `SharedXorMutable`, `PyOnceLock`, `ErrState`, `LazyTypeObject`, `Coroutine`,
`Traversal`, the iterators, `CoreValidation`, `CoreSerialization` and
`RustSerializer` are modelled, checked and proved.

What would be next:

1. `InitOnce` for the type object's two cells (with a GIL), and an abstract
   specification of a notification that is never lost, which the coroutine
   would implement.
2. The readers of `RwLockExt`, and several Mutexes taken together.
