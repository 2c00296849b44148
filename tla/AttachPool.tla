------------------------------ MODULE AttachPool ------------------------------
(***************************************************************************)
(* Attachment of threads to the interpreter and the deferred drop of       *)
(* Python references (src/internal/state.rs, Py::drop and Py::clone_ref in *)
(* src/instance.rs).                                                       *)
(*                                                                         *)
(* A thread is attached when it holds the GIL (or, on a free-threaded      *)
(* build, has an attached thread state).  ClaraX keeps its own opinion of  *)
(* that in the thread-local ATTACH_COUNT, maintained by a stack of guards  *)
(* (AttachGuard, SuspendAttach, ForbidAttaching) that Rust drops in LIFO   *)
(* order.  Dropping a Py<T> decrements the Python reference count at once  *)
(* when the count says "attached", and otherwise parks the reference in a  *)
(* process-wide pool that the next guard to attach empties.                *)
(*                                                                         *)
(* A Handle is one owned Python reference (one Py<T>).  The pool's Vec is  *)
(* kept as a set: each entry is a distinct owned reference and the order   *)
(* of the decrements is not observable through the properties.             *)
(***************************************************************************)
EXTENDS Integers, Sequences, FiniteSets

CONSTANTS
  Threads,       \* the operating-system threads
  Handles,       \* names for owned references
  Objects,       \* Python objects the references point at
  Builds,        \* the builds considered: TRUE is free-threaded (Py_GIL_DISABLED)
  MaxDepth       \* bound on the nesting of guards in each thread

ASSUME AttachAssumption ==
  /\ Builds \subseteq BOOLEAN
  /\ MaxDepth \in [Threads -> Nat]
  /\ IsFiniteSet(Handles)

VARIABLES
  freeThreaded,  \* the build
  attached,  \* threads the interpreter regards as attached
  count,     \* ATTACH_COUNT of each thread
  stack,     \* guards alive in each thread, innermost last
  mode,      \* where the thread is between two guard operations
  owned,     \* Py<T> values each thread owns
  pool,      \* POOL.pending_decrefs
  target,    \* the object each handle points at
  refcnt     \* ob_refcnt of each object, counting Rust's references

stateVars == <<attached, count, stack, mode, owned, pool, target, refcnt>>
vars == <<freeThreaded, stateVars>>
refVars == <<owned, pool, target, refcnt>>
guardVars == <<attached, count, stack, mode>>

\* ATTACH_FORBIDDEN_DURING_TRAVERSE
Forbidden == -1

(***************************************************************************)
(* Guards.  "ensured" and "locked" are AttachGuard::Ensured with gstate    *)
(* UNLOCKED and LOCKED, "assumed" is AttachGuard::Assumed, "suspend" is    *)
(* SuspendAttach, which becomes "restored" while its Drop empties the      *)
(* pool, "forbid" is ForbidAttaching; "python" is the interpreter running  *)
(* on a thread of its own that no guard counts.  `saved` is ATTACH_COUNT   *)
(* when the guard was made: SuspendAttach and ForbidAttaching store it,    *)
(* for an AttachGuard it is history.  `batch` is the local Vec of          *)
(* references that drop_deferred_references took and still has to drop.    *)
(***************************************************************************)
CountingKinds == {"ensured", "locked", "assumed"}
AttachedKinds == CountingKinds \cup {"python", "restored", "forbid"}
Kinds == AttachedKinds \cup {"suspend"}
Frame == [kind : Kinds, saved : Int, batch : SUBSET Handles]
Modes == {"run", "switched", "restoring", "released"}

Guard(k, c, b) == [kind |-> k, saved |-> c, batch |-> b]
Depth(t) == Len(stack[t])
Top(t) == stack[t][Len(stack[t])]
Rest(t) == SubSeq(stack[t], 1, Len(stack[t]) - 1)
TopIs(t, ks) == stack[t] # <<>> /\ Top(t).kind \in ks

\* thread_is_attached(): ClaraX's own opinion.
ThreadIsAttached(t) == count[t] > 0

\* The interpreter lets t attach: nobody else has the GIL.
CanAttach(t) == freeThreaded \/ attached \subseteq {t}

\* The thread runs code of its own: it is not inside a guard operation and
\* the loop of drop_deferred_references is over.
Running(t) == mode[t] = "run" /\ (stack[t] # <<>> => Top(t).batch = {})

\* Rust code with a Python<'py> token.
HasToken(t) == Running(t) /\ TopIs(t, CountingKinds \cup {"restored"})

Batched(t) == UNION {stack[t][i].batch : i \in 1..Len(stack[t])}
Live ==
  {h \in Handles : h \in pool \/ \E t \in Threads : h \in owned[t] \cup Batched(t)}
Refs(o) == {h \in Live : target[h] = o}

-------------------------------------------------------------------------------
Init ==
  /\ freeThreaded \in Builds
  /\ attached = {}
  /\ count = [t \in Threads |-> 0]
  /\ stack = [t \in Threads |-> <<>>]
  /\ mode = [t \in Threads |-> "run"]
  /\ owned = [t \in Threads |-> {}]
  /\ pool = {}
  /\ target \in [Handles -> Objects]
  /\ refcnt = [o \in Objects |-> 0]

\* The interpreter runs Python code on t without any ClaraX guard, and stops.
EnterPython(t) ==
  /\ mode[t] = "run" /\ stack[t] = <<>> /\ CanAttach(t) /\ 0 < MaxDepth[t]
  /\ attached' = attached \cup {t}
  /\ stack' = [stack EXCEPT ![t] = <<Guard("python", count[t], {})>>]
  /\ UNCHANGED <<count, mode, refVars>>

LeavePython(t) ==
  /\ Running(t) /\ TopIs(t, {"python"})
  /\ attached' = attached \ {t}
  /\ stack' = [stack EXCEPT ![t] = Rest(t)]
  /\ UNCHANGED <<count, mode, refVars>>

\* Slips that must not go unnoticed: a drain that copies the pool instead of
\* taking it, one that forgets what it took, one that is never started.
PushAttachCopies(t, k) ==
  /\ Depth(t) < MaxDepth[t]
  /\ count' = [count EXCEPT ![t] = @ + 1]
  /\ stack' = [stack EXCEPT ![t] = Append(@, Guard(k, count[t], pool))]
  /\ UNCHANGED <<mode, refVars>>

PushAttachForgets(t, k) ==
  /\ Depth(t) < MaxDepth[t]
  /\ count' = [count EXCEPT ![t] = @ + 1]
  /\ stack' = [stack EXCEPT ![t] = Append(@, Guard(k, count[t], {}))]
  /\ pool' = {}
  /\ UNCHANGED <<mode, owned, target, refcnt>>

PushAttachNoDrain(t, k) ==
  /\ Depth(t) < MaxDepth[t]
  /\ count' = [count EXCEPT ![t] = @ + 1]
  /\ stack' = [stack EXCEPT ![t] = Append(@, Guard(k, count[t], {}))]
  /\ UNCHANGED <<mode, refVars>>

\* increment_attach_count, then drop_deferred_references takes the whole
\* pool (mem::take under its mutex) into the new guard's batch.
PushAttach(t, k) ==
  /\ Depth(t) < MaxDepth[t]
  /\ count' = [count EXCEPT ![t] = @ + 1]
  /\ stack' = [stack EXCEPT ![t] = Append(@, Guard(k, count[t], pool))]
  /\ pool' = {}
  /\ UNCHANGED <<mode, owned, target, refcnt>>

\* try_attach on a thread whose count says it is attached already.
AttachAssumed(t) ==
  /\ Running(t) /\ ThreadIsAttached(t) /\ ~TopIs(t, {"forbid"})
  /\ PushAttach(t, "assumed")
  /\ UNCHANGED attached

\* Python calls into a trampoline, which assumes the thread is attached
\* whatever the count says.
Trampoline(t) ==
  /\ Running(t) /\ TopIs(t, AttachedKinds \ {"forbid"})
  /\ PushAttach(t, "assumed")
  /\ UNCHANGED attached

\* try_attach with a count of zero: PyGILState_Ensure, which waits for the
\* GIL unless the thread has it already.  With a count of -1 try_attach
\* returns ForbiddenDuringTraverse and changes nothing.
AttachEnsure(t) ==
  /\ Running(t) /\ count[t] = 0 /\ CanAttach(t)
  /\ PushAttach(t, IF t \in attached THEN "locked" ELSE "ensured")
  /\ attached' = attached \cup {t}

\* Dropping an AttachGuard that does not detach: decrement_attach_count.
DropGuard(t) ==
  /\ Running(t) /\ TopIs(t, {"assumed", "locked"})
  /\ count' = [count EXCEPT ![t] = @ - 1]
  /\ stack' = [stack EXCEPT ![t] = Rest(t)]
  /\ UNCHANGED <<attached, mode, refVars>>

\* Dropping an Ensured guard: PyGILState_Release, and only then the count.
Release(t) ==
  /\ Running(t) /\ TopIs(t, {"ensured"})
  /\ attached' = attached \ {t}
  /\ mode' = [mode EXCEPT ![t] = "released"]
  /\ UNCHANGED <<count, stack, refVars>>

Decrement(t) ==
  /\ mode[t] = "released"
  /\ count' = [count EXCEPT ![t] = @ - 1]
  /\ stack' = [stack EXCEPT ![t] = Rest(t)]
  /\ mode' = [mode EXCEPT ![t] = "run"]
  /\ UNCHANGED <<attached, refVars>>

\* SuspendAttach::new: the count is put aside, then PyEval_SaveThread.
Suspend(t) ==
  /\ HasToken(t) /\ Depth(t) < MaxDepth[t]
  /\ stack' = [stack EXCEPT ![t] = Append(@, Guard("suspend", count[t], {}))]
  /\ count' = [count EXCEPT ![t] = 0]
  /\ attached' = attached \ {t}
  /\ UNCHANGED <<mode, refVars>>

\* Slips: the count is not put back; user code runs before the GIL is back.
ResumeForgetsCount(t) ==
  /\ Running(t) /\ TopIs(t, {"suspend"})
  /\ mode' = [mode EXCEPT ![t] = "restoring"]
  /\ UNCHANGED <<attached, count, stack, refVars>>

ResumeTooEarly(t) ==
  /\ Running(t) /\ TopIs(t, {"suspend"})
  /\ count' = [count EXCEPT ![t] = Top(t).saved]
  /\ UNCHANGED <<attached, mode, stack, refVars>>

\* SuspendAttach::drop: the count is put back before PyEval_RestoreThread
\* has the GIL again.
Resume(t) ==
  /\ Running(t) /\ TopIs(t, {"suspend"})
  /\ count' = [count EXCEPT ![t] = Top(t).saved]
  /\ mode' = [mode EXCEPT ![t] = "restoring"]
  /\ UNCHANGED <<attached, stack, refVars>>

\* PyEval_RestoreThread returns; the pool is taken before user code runs.
Restore(t) ==
  /\ mode[t] = "restoring" /\ CanAttach(t)
  /\ attached' = attached \cup {t}
  /\ stack' = [stack EXCEPT ![t] =
                 Append(Rest(t), Guard("restored", Top(t).saved, pool))]
  /\ pool' = {}
  /\ mode' = [mode EXCEPT ![t] = "run"]
  /\ UNCHANGED <<count, owned, target, refcnt>>

\* The drop of SuspendAttach returns to the code that had detached.
Restored(t) ==
  /\ Running(t) /\ TopIs(t, {"restored"})
  /\ stack' = [stack EXCEPT ![t] = Rest(t)]
  /\ UNCHANGED <<attached, count, mode, refVars>>

\* The garbage collector calls a __traverse__ (possibly of a base class,
\* from inside the traverse of a subclass): ForbidAttaching, and its drop.
Forbid(t) ==
  /\ Running(t) /\ TopIs(t, AttachedKinds) /\ Depth(t) < MaxDepth[t]
  /\ stack' = [stack EXCEPT ![t] = Append(@, Guard("forbid", count[t], {}))]
  /\ count' = [count EXCEPT ![t] = Forbidden]
  /\ UNCHANGED <<attached, mode, refVars>>

Unforbid(t) ==
  /\ Running(t) /\ TopIs(t, {"forbid"})
  /\ count' = [count EXCEPT ![t] = Top(t).saved]
  /\ stack' = [stack EXCEPT ![t] = Rest(t)]
  /\ UNCHANGED <<attached, mode, refVars>>

\* The interpreter's evaluation loop hands the GIL over and gets it back
\* while a thread runs Python code; no guard notices.
SwitchOut(t) ==
  /\ Running(t) /\ t \in attached /\ ~TopIs(t, {"forbid"})
  /\ attached' = attached \ {t}
  /\ mode' = [mode EXCEPT ![t] = "switched"]
  /\ UNCHANGED <<count, stack, refVars>>

SwitchIn(t) ==
  /\ mode[t] = "switched" /\ CanAttach(t)
  /\ attached' = attached \cup {t}
  /\ mode' = [mode EXCEPT ![t] = "run"]
  /\ UNCHANGED <<count, stack, refVars>>

-------------------------------------------------------------------------------
\* A new object comes into being with one owned reference.
Create(t, h, o) ==
  /\ HasToken(t) /\ h \notin Live /\ refcnt[o] = 0
  /\ target' = [target EXCEPT ![h] = o]
  /\ refcnt' = [refcnt EXCEPT ![o] = 1]
  /\ owned' = [owned EXCEPT ![t] = @ \cup {h}]
  /\ UNCHANGED <<guardVars, pool>>

\* Py::clone_ref, which needs the token: Py_INCREF.
CloneRef(t, h, src) ==
  /\ HasToken(t) /\ h \notin Live /\ src \in owned[t]
  /\ target' = [target EXCEPT ![h] = target[src]]
  /\ refcnt' = [refcnt EXCEPT ![target[src]] = @ + 1]
  /\ owned' = [owned EXCEPT ![t] = @ \cup {h}]
  /\ UNCHANGED <<guardVars, pool>>

\* Py<T> is Send: another thread becomes the owner.
Send(t, u, h) ==
  /\ Running(t) /\ t # u /\ h \in owned[t]
  /\ owned' = [owned EXCEPT ![t] = @ \ {h}, ![u] = @ \cup {h}]
  /\ UNCHANGED <<guardVars, pool, target, refcnt>>

\* Py_DECREF(h) on thread t, whose guards otherwise become st.  At zero the
\* object is deallocated; the tp_dealloc of a ClaraX class enters its
\* trampoline (a plain Python object has none).
Decref(t, h, st) ==
  LET o == target[h] IN
  /\ refcnt' = [refcnt EXCEPT ![o] = @ - 1]
  /\ \/ /\ stack' = [stack EXCEPT ![t] = st]
        /\ UNCHANGED <<count, pool>>
     \/ /\ refcnt[o] = 1 /\ Len(st) < MaxDepth[t]
        /\ count' = [count EXCEPT ![t] = @ + 1]
        /\ stack' = [stack EXCEPT ![t] =
                       Append(st, Guard("assumed", count[t], pool))]
        /\ pool' = {}
  /\ UNCHANGED <<attached, mode, target>>

\* A slip: the drop never looks at the count.
DropNowAlways(t, h) ==
  /\ Running(t) /\ h \in owned[t]
  /\ owned' = [owned EXCEPT ![t] = @ \ {h}]
  /\ Decref(t, h, stack[t])

\* <Py<T> as Drop>::drop: at once when the count says attached ...
DropNow(t, h) ==
  /\ Running(t) /\ h \in owned[t] /\ ThreadIsAttached(t)
  /\ owned' = [owned EXCEPT ![t] = @ \ {h}]
  /\ Decref(t, h, stack[t])

\* ... and otherwise register_decref.
DropLater(t, h) ==
  /\ Running(t) /\ h \in owned[t] /\ ~ThreadIsAttached(t)
  /\ owned' = [owned EXCEPT ![t] = @ \ {h}]
  /\ pool' = pool \cup {h}
  /\ UNCHANGED <<guardVars, target, refcnt>>

\* One turn of the loop of drop_deferred_references.
DecrefDeferred(t, h) ==
  /\ mode[t] = "run" /\ stack[t] # <<>> /\ h \in Top(t).batch
  /\ Decref(t, h, [stack[t] EXCEPT ![Len(stack[t])].batch = @ \ {h}])
  /\ UNCHANGED owned

-------------------------------------------------------------------------------
GuardStep(t) ==
  \/ AttachAssumed(t) \/ Trampoline(t) \/ AttachEnsure(t)
  \/ DropGuard(t) \/ Release(t) \/ Decrement(t)
  \/ Suspend(t) \/ Resume(t) \/ Restore(t) \/ Restored(t)
  \/ Forbid(t) \/ Unforbid(t)

InterpreterStep(t) ==
  EnterPython(t) \/ LeavePython(t) \/ SwitchOut(t) \/ SwitchIn(t)

RefStep(t) ==
  \E h \in Handles :
    \/ \E o \in Objects : Create(t, h, o)
    \/ \E src \in Handles : CloneRef(t, h, src)
    \/ \E u \in Threads : Send(t, u, h)
    \/ DropNow(t, h) \/ DropLater(t, h) \/ DecrefDeferred(t, h)

Next ==
  /\ \E t \in Threads : GuardStep(t) \/ InterpreterStep(t) \/ RefStep(t)
  /\ UNCHANGED freeThreaded

Spec == Init /\ [][Next]_vars

(***************************************************************************)
(* Fairness.  The interpreter hands the GIL over to every thread that      *)
(* keeps asking (its switch interval), so the steps that wait for it are   *)
(* strongly fair; a thread inside a guard operation or inside the loop of  *)
(* drop_deferred_references goes on by itself.  No two of these steps are  *)
(* possible for a thread at a time, so one condition covers them.  The     *)
(* code a caller runs under a guard, at whatever depth, returns (each      *)
(* depth is an obligation of its own, since code may open and close inner  *)
(* guards for ever).  Nothing obliges a thread to attach, except the       *)
(* threads in Pollers.                                                     *)
(***************************************************************************)
GoOn(t) ==
  Decrement(t) \/ Restore(t) \/ SwitchIn(t) \/ \E h \in Handles : DecrefDeferred(t, h)

EndGuard(t) ==
  LeavePython(t) \/ DropGuard(t) \/ Release(t) \/ Resume(t) \/ Restored(t)
    \/ Unforbid(t)

Fairness(Pollers) ==
  \A t \in Threads :
    /\ SF_stateVars(GoOn(t))
    /\ \A d \in 1..MaxDepth[t] : SF_stateVars(Depth(t) = d /\ EndGuard(t))
    /\ t \in Pollers => SF_stateVars(stack[t] = <<>> /\ AttachEnsure(t))

-------------------------------------------------------------------------------
TypeOK ==
  /\ freeThreaded \in BOOLEAN
  /\ attached \in SUBSET Threads
  /\ count \in [Threads -> Int]
  /\ stack \in [Threads -> Seq(Frame)]
  /\ mode \in [Threads -> Modes]
  /\ owned \in [Threads -> SUBSET Handles]
  /\ pool \in SUBSET Handles
  /\ target \in [Handles -> Objects]
  /\ refcnt \in [Objects -> Nat]

\* Whenever a thread's own code runs and ClaraX believes the thread attached,
\* the interpreter agrees: the fast paths of try_attach, Py::drop and
\* Py::clone trust the count alone (state.rs:35, instance.rs:2280).
CountImpliesAttached ==
  \A t \in Threads :
    mode[t] = "run" /\ ThreadIsAttached(t) => t \in attached

\* An owned reference is in one place only: some thread's Py<T>, the pool, or
\* the batch of one running drain.  A second place would be a second
\* Py_DECREF for the same reference.
OnePlace ==
  /\ \A t, u \in Threads : t # u => owned[t] \cap owned[u] = {}
  /\ \A t \in Threads : owned[t] \cap pool = {}
  /\ \A t \in Threads : \A i \in 1..Len(stack[t]) :
       /\ stack[t][i].batch \cap pool = {}
       /\ \A u \in Threads :
            /\ stack[t][i].batch \cap owned[u] = {}
            /\ \A j \in 1..Len(stack[u]) :
                 <<t, i>> # <<u, j>> =>
                   stack[t][i].batch \cap stack[u][j].batch = {}

\* Reference counts are exact: an object's count is the number of references
\* that are owned, parked or being dropped, so no parked reference is lost
\* and no object dies while a Py<T> to it lives.
RefcountExact == \A o \in Objects : refcnt[o] = Cardinality(Refs(o))

\* A reference count is only ever decremented by a thread that is attached,
\* for a reference that thread itself was holding or draining
\* (drop_deferred_references takes the token as its witness).
DecrefWhileAttached ==
  [][\A h \in Live : h \notin Live' =>
       \E t \in attached : h \in owned[t] \cup Batched(t)]_vars

\* When a guard goes away the thread's count is what it was when the guard
\* was made, whatever was nested inside it, panics of try_attach included.
GuardRestoresCount ==
  [][\A t \in Threads : Len(stack'[t]) < Len(stack[t]) =>
       count'[t] = Top(t).saved]_vars

\* A parked reference is dropped in the end, as long as one thread keeps
\* attaching: nothing in the guards can strand it, and a drain interrupted
\* by destructors that detach, attach and drain again is resumed.
ParkedIsDropped ==
  \A h \in Handles : h \in pool ~> h \notin UNION {Batched(t) : t \in Threads} \cup pool
===============================================================================
