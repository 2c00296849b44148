------------------------------ MODULE PyOnceLock ------------------------------
(***************************************************************************)
(* One-time initialisation by threads attached to the interpreter:         *)
(* PyOnceLock (src/sync/once_lock.rs) and the OnceExt and OnceLockExt      *)
(* traits (src/sync.rs).                                                   *)
(*                                                                         *)
(* A caller detaches from the interpreter, enters the cell, which blocks   *)
(* it while another thread runs an initialiser, and attaches again: inside *)
(* the closure if it is to run the initialiser, on the way out if not.     *)
(* The initialiser may run Python code (which hands the GIL over), use     *)
(* other cells, fail or panic.  A cell whose kind is "once" is a           *)
(* std::sync::Once entered by call_once: a panic poisons it.  The others   *)
(* (PyOnceLock, call_once_force) are left as they were.  A Mutex locked by *)
(* lock_py_attached is a cell that is never written: the code its guard    *)
(* protects takes the place of the initialiser.                            *)
(*                                                                         *)
(* Using a cell from its own initialiser is an error by its documentation, *)
(* and two initialisers that need each other's cells wait for ever as with *)
(* any lock, so initialisers use cells in ascending order only.            *)
(***************************************************************************)
EXTENDS Integers, Sequences

CONSTANTS
  Threads,      \* threads that use the cells
  Nobody,       \* no thread
  Cells,        \* the cells, numbered in the order initialisers use them
  Onces,        \* the cells that are a Once entered by call_once
  Mutexes,      \* the cells that are a Mutex
  Builds,       \* the builds considered: TRUE is free-threaded
  SetOn,        \* the builds on which threads call PyOnceLock::set
  MaxFailures,  \* bound on the initialisers that fail
  MaxLocks      \* bound on the times a Mutex is locked

ASSUME OnceAssumption ==
  /\ Nobody \notin Threads
  /\ Cells \subseteq Nat
  /\ Onces \subseteq Cells /\ Mutexes \subseteq Cells \ Onces
  /\ Builds \subseteq BOOLEAN
  /\ SetOn \subseteq Builds
  /\ MaxFailures \in Nat /\ MaxLocks \in Nat

VARIABLES
  freeThreaded,  \* the build
  attached,      \* the threads attached to the interpreter
  value,         \* whose initialiser (or set) wrote each cell
  running,       \* the thread that has each cell's lock
  poisoned,      \* the Onces whose closure panicked
  calls,         \* the calls each thread is in, innermost last
  failures,      \* initialisers that failed so far
  locked         \* times a Mutex was locked so far

vars == <<freeThreaded, attached, value, running, poisoned, calls, failures, locked>>

(***************************************************************************)
(* A call: detached and waiting for the cell; chosen to initialise it and  *)
(* attaching; running the initialiser; the initialiser having given up the *)
(* GIL; on its way out and attaching; in set, waiting for the cell.        *)
(***************************************************************************)
Places == {"queued", "entered", "body", "yielded", "leaving", "setting"}
Call == [cell : Cells, at : Places]

Top(t) == calls[t][Len(calls[t])]
TopAt(t, p) == calls[t] # <<>> /\ Top(t).at = p
Move(t, p) == [calls EXCEPT ![t][Len(calls[t])].at = p]
Pop(t) == [calls EXCEPT ![t] = SubSeq(@, 1, Len(@) - 1)]
Push(t, c, p) == [calls EXCEPT ![t] = Append(@, [cell |-> c, at |-> p])]

\* Nobody else has the GIL, if there is one.
CanAttach == freeThreaded \/ attached = {}

\* t runs code that has a Python<'py> token.
HasToken(t) == t \in attached /\ (calls[t] = <<>> \/ TopAt(t, "body"))

\* The callers' rule: ascending order, no re-entrancy.
MayUse(t, c) == \A i \in 1..Len(calls[t]) : calls[t][i].cell < c

-------------------------------------------------------------------------------
Init ==
  /\ freeThreaded \in Builds
  /\ attached = {}
  /\ value = [c \in Cells |-> Nobody]
  /\ running = [c \in Cells |-> Nobody]
  /\ poisoned = {}
  /\ calls = [t \in Threads |-> <<>>]
  /\ failures = 0 /\ locked = 0

\* Code outside any call attaches and detaches.
Attach(t) ==
  /\ calls[t] = <<>> /\ CanAttach
  /\ attached' = attached \cup {t}
  /\ UNCHANGED <<freeThreaded, value, running, poisoned, calls, failures, locked>>

Detach(t) ==
  /\ calls[t] = <<>> /\ t \in attached
  /\ attached' = attached \ {t}
  /\ UNCHANGED <<freeThreaded, value, running, poisoned, calls, failures, locked>>

\* A slip: no SuspendAttach.
EnterAttached(t, c) ==
  /\ HasToken(t) /\ MayUse(t, c) /\ c \notin Mutexes /\ value[c] = Nobody
  /\ calls' = Push(t, c, "queued")
  /\ UNCHANGED <<freeThreaded, attached, value, running, poisoned, failures, locked>>

\* get_or_init and call_once_py_attached: the fast path finds nothing
\* (otherwise it returns and nothing changes), SuspendAttach::new.
Enter(t, c) ==
  /\ HasToken(t) /\ MayUse(t, c) /\ c \notin Mutexes /\ value[c] = Nobody
  /\ attached' = attached \ {t}
  /\ calls' = Push(t, c, "queued")
  /\ UNCHANGED <<freeThreaded, value, running, poisoned, failures, locked>>

\* lock_py_attached, when try_lock succeeds ...
TryLock(t, c) ==
  /\ HasToken(t) /\ MayUse(t, c) /\ c \in Mutexes /\ running[c] = Nobody
  /\ locked < MaxLocks /\ locked' = locked + 1
  /\ running' = [running EXCEPT ![c] = t]
  /\ calls' = Push(t, c, "body")
  /\ UNCHANGED <<freeThreaded, attached, value, poisoned, failures>>

\* ... and when it does not: SuspendAttach::new, then lock.
LockBlocks(t, c) ==
  /\ HasToken(t) /\ MayUse(t, c) /\ c \in Mutexes /\ running[c] # Nobody
  /\ locked < MaxLocks /\ locked' = locked + 1
  /\ attached' = attached \ {t}
  /\ calls' = Push(t, c, "queued")
  /\ UNCHANGED <<freeThreaded, value, running, poisoned, failures>>

\* A slip: the cell is not looked at again under its lock.
BeginAgain(t, c) ==
  /\ TopAt(t, "queued") /\ Top(t).cell = c
  /\ running[c] = Nobody /\ c \notin poisoned
  /\ running' = [running EXCEPT ![c] = t]
  /\ calls' = Move(t, "entered")
  /\ UNCHANGED <<freeThreaded, attached, value, poisoned, failures, locked>>

\* The cell lets one caller in; the Mutex is locked.
Begin(t, c) ==
  /\ TopAt(t, "queued") /\ Top(t).cell = c
  /\ value[c] = Nobody /\ running[c] = Nobody /\ c \notin poisoned
  /\ running' = [running EXCEPT ![c] = t]
  /\ calls' = Move(t, "entered")
  /\ UNCHANGED <<freeThreaded, attached, value, poisoned, failures, locked>>

\* drop(ts_guard) in the closure: attach, then the initialiser runs.
AttachInside(t) ==
  /\ TopAt(t, "entered") /\ CanAttach
  /\ attached' = attached \cup {t}
  /\ calls' = Move(t, "body")
  /\ UNCHANGED <<freeThreaded, value, running, poisoned, failures, locked>>

\* The initialiser runs Python code, which hands the GIL over.
Yield(t) ==
  /\ TopAt(t, "body") /\ t \in attached
  /\ attached' = attached \ {t}
  /\ calls' = Move(t, "yielded")
  /\ UNCHANGED <<freeThreaded, value, running, poisoned, failures, locked>>

Unyield(t) ==
  /\ TopAt(t, "yielded") /\ CanAttach
  /\ attached' = attached \cup {t}
  /\ calls' = Move(t, "body")
  /\ UNCHANGED <<freeThreaded, value, running, poisoned, failures, locked>>

\* The initialiser returns: the cell is written and unlocked.
Finish(t, c) ==
  /\ TopAt(t, "body") /\ Top(t).cell = c /\ t \in attached /\ c \notin Mutexes
  /\ value' = [value EXCEPT ![c] = t]
  /\ running' = [running EXCEPT ![c] = Nobody]
  /\ calls' = Pop(t)
  /\ UNCHANGED <<freeThreaded, attached, poisoned, failures, locked>>

\* The guard of a Mutex is dropped.
Unlock(t, c) ==
  /\ TopAt(t, "body") /\ Top(t).cell = c /\ t \in attached /\ c \in Mutexes
  /\ running' = [running EXCEPT ![c] = Nobody]
  /\ calls' = Pop(t)
  /\ UNCHANGED <<freeThreaded, attached, value, poisoned, failures, locked>>

\* A slip: the cell stays locked.
FailStaysLocked(t, c) ==
  /\ TopAt(t, "body") /\ Top(t).cell = c /\ t \in attached /\ c \notin Mutexes
  /\ failures < MaxFailures
  /\ failures' = failures + 1
  /\ poisoned' = IF c \in Onces THEN poisoned \cup {c} ELSE poisoned
  /\ calls' = Pop(t)
  /\ UNCHANGED <<freeThreaded, attached, value, running, locked>>

\* It returns an error or panics: the cell is unlocked and stays empty.
Fail(t, c) ==
  /\ TopAt(t, "body") /\ Top(t).cell = c /\ t \in attached /\ c \notin Mutexes
  /\ failures < MaxFailures
  /\ failures' = failures + 1
  /\ running' = [running EXCEPT ![c] = Nobody]
  /\ poisoned' = IF c \in Onces THEN poisoned \cup {c} ELSE poisoned
  /\ calls' = Pop(t)
  /\ UNCHANGED <<freeThreaded, attached, value, locked>>

\* A caller finds the cell written by another one, or the Once poisoned
\* (call_once panics) ...
Leave(t, c) ==
  /\ TopAt(t, "queued") /\ Top(t).cell = c
  /\ value[c] # Nobody \/ c \in poisoned
  /\ calls' = Move(t, "leaving")
  /\ UNCHANGED <<freeThreaded, attached, value, running, poisoned, failures, locked>>

\* ... and its closure is dropped unused, ts_guard with it: attach.
AttachOutside(t) ==
  /\ TopAt(t, "leaving") /\ CanAttach
  /\ attached' = attached \cup {t}
  /\ calls' = Pop(t)
  /\ UNCHANGED <<freeThreaded, value, running, poisoned, failures, locked>>

\* PyOnceLock::set writes the cell when nobody is initialising it ...
Set(t, c) ==
  /\ freeThreaded \in SetOn /\ c \notin Onces \cup Mutexes
  /\ HasToken(t) /\ MayUse(t, c)
  /\ value[c] = Nobody /\ running[c] = Nobody
  /\ value' = [value EXCEPT ![c] = t]
  /\ UNCHANGED <<freeThreaded, attached, running, poisoned, calls, failures, locked>>

\* ... and otherwise waits for the cell, attached.
SetWaits(t, c) ==
  /\ freeThreaded \in SetOn /\ c \notin Onces \cup Mutexes
  /\ HasToken(t) /\ MayUse(t, c)
  /\ value[c] = Nobody /\ running[c] # Nobody
  /\ calls' = Push(t, c, "setting")
  /\ UNCHANGED <<freeThreaded, attached, value, running, poisoned, failures, locked>>

SetReturns(t, c) ==
  /\ TopAt(t, "setting") /\ Top(t).cell = c /\ running[c] = Nobody
  /\ value' = [value EXCEPT ![c] = IF @ = Nobody THEN t ELSE @]
  /\ calls' = Pop(t)
  /\ UNCHANGED <<freeThreaded, attached, running, poisoned, failures, locked>>

Next ==
  \E t \in Threads :
    \/ Attach(t) \/ Detach(t)
    \/ AttachInside(t) \/ Yield(t) \/ Unyield(t) \/ AttachOutside(t)
    \/ \E c \in Cells :
         \/ Enter(t, c) \/ Begin(t, c) \/ Leave(t, c)
         \/ Finish(t, c) \/ Fail(t, c)
         \/ TryLock(t, c) \/ LockBlocks(t, c) \/ Unlock(t, c)
         \/ Set(t, c) \/ SetWaits(t, c) \/ SetReturns(t, c)

Spec == Init /\ [][Next]_vars

(***************************************************************************)
(* Threads keep running, an initialiser that holds the GIL comes to an     *)
(* end, and CPython's GIL does not pass over a waiting thread for ever.    *)
(***************************************************************************)
Fairness ==
  \A t \in Threads :
    /\ WF_vars(Detach(t))
    /\ SF_vars(AttachInside(t) \/ Unyield(t) \/ AttachOutside(t))
    /\ WF_vars(\E c \in Cells : Begin(t, c) \/ Leave(t, c) \/ SetReturns(t, c))
    /\ SF_vars(\E c \in Cells : Finish(t, c) \/ Unlock(t, c))

-------------------------------------------------------------------------------
Ascending(s) == \A i, j \in 1..Len(s) : i < j => s[i].cell < s[j].cell

\* Types; every call but the innermost of a thread is in its initialiser.
TypeOK ==
  /\ freeThreaded \in Builds
  /\ attached \subseteq Threads
  /\ ~freeThreaded => \A t, u \in attached : t = u
  /\ value \in [Cells -> Threads \cup {Nobody}]
  /\ running \in [Cells -> Threads \cup {Nobody}]
  /\ poisoned \subseteq Onces
  /\ failures \in 0..MaxFailures /\ locked \in 0..MaxLocks
  /\ calls \in [Threads -> Seq(Call)]
  /\ \A t \in Threads :
       /\ Ascending(calls[t])
       /\ \A i \in 1..Len(calls[t]) - 1 : calls[t][i].at = "body"

Inside == {"entered", "body", "yielded"}

\* A cell is locked by exactly the thread that is between being let in and
\* the end of its initialiser, however that ends: no initialiser runs beside
\* another one's, and a failed one leaves nothing locked.
LockedByInitialiser ==
  \A t \in Threads : \A c \in Cells :
    running[c] = t <=>
      \E i \in 1..Len(calls[t]) : calls[t][i].cell = c /\ calls[t][i].at \in Inside

\* A value is written once; later callers and late initialisers see that one
\* (references to it are handed out, so it may never be replaced).
WriteOnce ==
  [][\A c \in Cells : value[c] # Nobody => value'[c] = value[c]]_value

\* Cells keep the promise of one-time initialisation.  A Mutex is a cell that is
\* given up every time.
Initialisation ==
  INSTANCE InitOnce WITH
    initialiser <- running, content <- value, closed <- poisoned,
    Values <- Threads, Empty <- Nobody, OneChance <- Onces,
    Settable <- Cells \ (Onces \cup Mutexes)

InitialisedOnce == Initialisation!Spec

WantsGil(t) == \E p \in {"entered", "yielded", "leaving"} : TopAt(t, p)

\* Nobody who may have to wait for an initialiser stays attached, except in
\* set: the initialiser may need the GIL, and a garbage collection that stops
\* the world would wait for the caller (init_once_cell_py_attached).
AttachedRuns ==
  \A t \in attached : calls[t] = <<>> \/ TopAt(t, "body") \/ TopAt(t, "setting")

\* "This type will not deadlock with the interpreter.  Before blocking calls
\* the cell will detach from the runtime" (once_lock.rs:9).
NoInterpreterDeadlock ==
  ~ \E t, u \in Threads :
      /\ ~freeThreaded /\ t \in attached /\ TopAt(t, "setting")
      /\ running[Top(t).cell] = u /\ WantsGil(u)

\* Every call returns: failed initialisers wake the waiting callers, and
\* neither the GIL nor a cell is waited for in vain.
CallsReturn == \A t \in Threads : calls[t] # <<>> ~> calls[t] = <<>>
===============================================================================
