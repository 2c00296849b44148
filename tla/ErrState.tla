------------------------------ MODULE ErrState ------------------------------
(***************************************************************************)
(* Normalisation of an exception: PyErrState (src/err/err_state.rs).       *)
(*                                                                         *)
(* A PyErr made by Rust code is a closure until somebody asks for the      *)
(* exception.  as_normalized then runs the closure, once, under a Once     *)
(* that is entered detached from the interpreter; the closure runs         *)
(* attached, may run Python code that hands the GIL over, may look at      *)
(* other errors and may panic.  A Once cannot be entered again by the      *)
(* thread that runs it, so the thread that normalises is written down and  *)
(* compared first.  That entry is never erased.                            *)
(*                                                                         *)
(* Errors whose closures look at each other from two threads wait for each *)
(* other for ever; closures here look at errors of higher numbers, or      *)
(* their own.                                                              *)
(***************************************************************************)
EXTENDS Integers, Sequences

CONSTANTS
  Threads,   \* threads that share the errors
  Nobody,    \* no thread
  Errors,    \* the errors, numbered in the order their closures look at them
  Builds     \* the builds considered: TRUE is free-threaded

ASSUME ErrAssumption ==
  /\ Nobody \notin Threads
  /\ Errors \subseteq Nat
  /\ Builds \subseteq BOOLEAN

VARIABLES
  freeThreaded,  \* the build
  attached,      \* the threads attached to the interpreter
  once,          \* normalized: Once
  normalizer,    \* normalizing_thread: Mutex<Option<ThreadId>>
  lockPoisoned,  \* the errors whose normalizing_thread mutex is poisoned
  inner,         \* inner: Option<Lazy | Normalized>
  calls,         \* each thread's calls of as_normalized, innermost last
  unwinding      \* the threads in a panic

vars == <<freeThreaded, attached, once, normalizer, lockPoisoned, inner, calls, unwinding>>
state == <<once, normalizer, lockPoisoned, inner>>

(***************************************************************************)
(* A call: past is_completed; detached and in call_once; chosen to run the *)
(* closure, having taken it, and attaching; running it; having given up    *)
(* the GIL; on its way out of call_once and attaching.                     *)
(***************************************************************************)
Places == {"check", "queued", "taken", "body", "yielded", "leaving"}
Call == [err : Errors, at : Places]

Top(t) == calls[t][Len(calls[t])]
TopAt(t, p) == calls[t] # <<>> /\ Top(t).at = p
Move(t, p) == [calls EXCEPT ![t][Len(calls[t])].at = p]
Pop(t) == [calls EXCEPT ![t] = SubSeq(@, 1, Len(@) - 1)]

\* Nobody else has the GIL, if there is one.
CanAttach == freeThreaded \/ attached = {}

\* t runs code of its own: outside any call, or in a closure.
Runs(t) == t \in attached /\ t \notin unwinding /\ (calls[t] = <<>> \/ TopAt(t, "body"))

\* An error its code may look at: a later one, or the one being normalised.
MayLook(t, e) == \A i \in 1..Len(calls[t]) : calls[t][i].err <= e

-----------------------------------------------------------------------------
\* lazy() errors, and errors made by normalized() whose Once is completed.
Init ==
  /\ freeThreaded \in Builds
  /\ attached = {}
  /\ inner \in [Errors -> {"lazy", "normalized"}]
  /\ once = [e \in Errors |-> IF inner[e] = "lazy" THEN "new" ELSE "done"]
  /\ normalizer = [e \in Errors |-> Nobody]
  /\ lockPoisoned = {}
  /\ calls = [t \in Threads |-> <<>>]
  /\ unwinding = {}

\* Code outside any call attaches and detaches.
Attach(t) ==
  /\ calls[t] = <<>> /\ CanAttach
  /\ attached' = attached \cup {t}
  /\ UNCHANGED <<freeThreaded, calls, unwinding, state>>

Detach(t) ==
  /\ calls[t] = <<>> /\ t \in attached /\ t \notin unwinding
  /\ attached' = attached \ {t}
  /\ UNCHANGED <<freeThreaded, calls, unwinding, state>>

\* as_normalized: not completed yet, so make_normalized.  (A completed one
\* returns at once.)
Look(t, e) ==
  /\ Runs(t) /\ MayLook(t, e)
  /\ once[e] # "done"
  /\ calls' = [calls EXCEPT ![t] = Append(@, [err |-> e, at |-> "check"])]
  /\ UNCHANGED <<freeThreaded, attached, unwinding, state>>

\* A slip: the thread stays attached in call_once.
CheckAttached(t, e) ==
  /\ TopAt(t, "check") /\ Top(t).err = e /\ t \notin unwinding
  /\ e \notin lockPoisoned /\ normalizer[e] # t
  /\ calls' = Move(t, "queued")
  /\ UNCHANGED <<freeThreaded, attached, unwinding, state>>

\* The guard against re-entrancy passes; detach.
Check(t, e) ==
  /\ TopAt(t, "check") /\ Top(t).err = e /\ t \notin unwinding
  /\ e \notin lockPoisoned /\ normalizer[e] # t
  /\ calls' = Move(t, "queued")
  /\ attached' = attached \ {t}
  /\ UNCHANGED <<freeThreaded, unwinding, state>>

\* It does not: the assertion panics with the mutex locked, which poisons it;
\* or the mutex is poisoned already and unwrap panics.
CheckPanics(t, e) ==
  /\ TopAt(t, "check") /\ Top(t).err = e /\ t \notin unwinding
  /\ e \in lockPoisoned \/ normalizer[e] = t
  /\ lockPoisoned' = lockPoisoned \cup {e}
  /\ unwinding' = unwinding \cup {t}
  /\ calls' = Pop(t)
  /\ UNCHANGED <<freeThreaded, attached, once, normalizer, inner>>

\* Slips: the thread is not written down; a completed Once is run again.
BeginUnsigned(t, e) ==
  /\ TopAt(t, "queued") /\ Top(t).err = e
  /\ once[e] = "new"
  /\ once' = [once EXCEPT ![e] = "running"]
  /\ inner' = [inner EXCEPT ![e] = "none"]
  /\ calls' = Move(t, "taken")
  /\ UNCHANGED <<freeThreaded, attached, normalizer, lockPoisoned, unwinding>>
BeginAgain(t, e) ==
  /\ TopAt(t, "queued") /\ Top(t).err = e
  /\ once[e] \in {"new", "done"}
  /\ once' = [once EXCEPT ![e] = "running"]
  /\ normalizer' = [normalizer EXCEPT ![e] = t]
  /\ inner' = [inner EXCEPT ![e] = "none"]
  /\ calls' = Move(t, "taken")
  /\ UNCHANGED <<freeThreaded, attached, lockPoisoned, unwinding>>

\* call_once lets one thread in; it writes itself down and takes the closure.
Begin(t, e) ==
  /\ TopAt(t, "queued") /\ Top(t).err = e
  /\ once[e] = "new"
  /\ once' = [once EXCEPT ![e] = "running"]
  /\ normalizer' = [normalizer EXCEPT ![e] = t]
  /\ inner' = [inner EXCEPT ![e] = "none"]
  /\ calls' = Move(t, "taken")
  /\ UNCHANGED <<freeThreaded, attached, lockPoisoned, unwinding>>

\* Python::attach, then the closure runs.
AttachInside(t) ==
  /\ TopAt(t, "taken") /\ CanAttach
  /\ attached' = attached \cup {t}
  /\ calls' = Move(t, "body")
  /\ UNCHANGED <<freeThreaded, unwinding, state>>

\* Python code in it hands the GIL over and takes it back.
Yield(t) ==
  /\ ~freeThreaded /\ TopAt(t, "body") /\ t \notin unwinding
  /\ attached' = attached \ {t}
  /\ calls' = Move(t, "yielded")
  /\ UNCHANGED <<freeThreaded, unwinding, state>>

Unyield(t) ==
  /\ TopAt(t, "yielded") /\ CanAttach
  /\ attached' = attached \cup {t}
  /\ calls' = Move(t, "body")
  /\ UNCHANGED <<freeThreaded, unwinding, state>>

\* The exception is made: detach again, store it, complete the Once.
Finish(t, e) ==
  /\ TopAt(t, "body") /\ Top(t).err = e /\ t \notin unwinding
  /\ attached' = attached \ {t}
  /\ inner' = [inner EXCEPT ![e] = "normalized"]
  /\ once' = [once EXCEPT ![e] = "done"]
  /\ calls' = Move(t, "leaving")
  /\ UNCHANGED <<freeThreaded, normalizer, lockPoisoned, unwinding>>

\* The closure panics.
Panic(t) ==
  /\ TopAt(t, "body") /\ t \notin unwinding
  /\ unwinding' = unwinding \cup {t}
  /\ UNCHANGED <<freeThreaded, attached, calls, state>>

\* A slip: the Once is left open for another try.
UnwindForced(t, e) ==
  /\ TopAt(t, "body") /\ Top(t).err = e /\ t \in unwinding
  /\ attached' = attached \ {t}
  /\ once' = [once EXCEPT ![e] = "new"]
  /\ calls' = Move(t, "leaving")
  /\ UNCHANGED <<freeThreaded, normalizer, lockPoisoned, inner, unwinding>>

\* A panic that leaves the closure poisons the Once; nothing is stored.
Unwind(t, e) ==
  /\ TopAt(t, "body") /\ Top(t).err = e /\ t \in unwinding
  /\ attached' = attached \ {t}
  /\ once' = [once EXCEPT ![e] = "poisoned"]
  /\ calls' = Move(t, "leaving")
  /\ UNCHANGED <<freeThreaded, normalizer, lockPoisoned, inner, unwinding>>

\* A panic that reached code which catches it: in the closure (Python turns it
\* into an exception) or outside any call.
Catch(t) ==
  /\ t \in unwinding /\ (calls[t] = <<>> \/ TopAt(t, "body"))
  /\ unwinding' = unwinding \ {t}
  /\ UNCHANGED <<freeThreaded, attached, calls, state>>

\* Another thread completed the Once; call_once panics when it is poisoned.
Return(t, e) ==
  /\ TopAt(t, "queued") /\ Top(t).err = e
  /\ once[e] \in {"done", "poisoned"}
  /\ unwinding' = IF once[e] = "poisoned" THEN unwinding \cup {t} ELSE unwinding
  /\ calls' = Move(t, "leaving")
  /\ UNCHANGED <<freeThreaded, attached, state>>

\* The end of detach: attach, and read inner unless there is a panic.
Leave(t) ==
  /\ TopAt(t, "leaving") /\ CanAttach
  /\ attached' = attached \cup {t}
  /\ calls' = Pop(t)
  /\ UNCHANGED <<freeThreaded, unwinding, state>>

Next ==
  \E t \in Threads :
    \/ Attach(t) \/ Detach(t) \/ Panic(t) \/ Catch(t)
    \/ AttachInside(t) \/ Yield(t) \/ Unyield(t) \/ Leave(t)
    \/ \E e \in Errors :
         \/ Look(t, e) \/ Check(t, e) \/ CheckPanics(t, e) \/ Begin(t, e)
         \/ Finish(t, e) \/ Unwind(t, e) \/ Return(t, e)

Spec == Init /\ [][Next]_vars

(***************************************************************************)
(* Threads keep running and detach again (in CPython's switch interval if  *)
(* not before), panics are caught, a closure that may run comes to an end, *)
(* and CPython's GIL does not pass over a waiting thread for ever.         *)
(***************************************************************************)
Fairness ==
  \A t \in Threads :
    /\ SF_vars(Detach(t))
    /\ WF_vars(calls[t] = <<>> /\ Catch(t))
    /\ SF_vars(AttachInside(t) \/ Unyield(t) \/ Leave(t))
    /\ WF_vars(\E e \in Errors : Check(t, e) \/ CheckPanics(t, e) \/ Begin(t, e) \/ Return(t, e))
    /\ SF_vars(\E e \in Errors : Finish(t, e) \/ Unwind(t, e))

-----------------------------------------------------------------------------
Inside == {"taken", "body", "yielded"}
Normalizes(t, e) ==
  \E i \in 1..Len(calls[t]) : calls[t][i].err = e /\ calls[t][i].at \in Inside

\* Types; at most one thread has the GIL; a panic unwinds where it can.
TypeOK ==
  /\ freeThreaded \in Builds
  /\ attached \subseteq Threads
  /\ ~freeThreaded => \A t, u \in attached : t = u
  /\ once \in [Errors -> {"new", "running", "poisoned", "done"}]
  /\ normalizer \in [Errors -> Threads \cup {Nobody}]
  /\ lockPoisoned \subseteq Errors
  /\ inner \in [Errors -> {"lazy", "none", "normalized"}]
  /\ calls \in [Threads -> Seq(Call)]
  /\ unwinding \subseteq Threads

\* The panics that must not happen.  The closure finds its mutex sound and
\* something to take ("Cannot normalize a PyErr while already normalizing it");
\* who sees the Once completed, on the fast path or behind call_once, finds the
\* exception (the two unreachable!).
ExpectsHold ==
  \A e \in Errors :
    /\ once[e] = "new" => inner[e] = "lazy" /\ e \notin lockPoisoned
    /\ once[e] = "done" => inner[e] = "normalized"
    /\ \A t \in Threads :
         TopAt(t, "leaving") /\ Top(t).err = e /\ t \notin unwinding => once[e] = "done"

\* The Once runs in exactly the thread that is in its closure, and that is the
\* one written down.
RunsInNormalizer ==
  \A e \in Errors : \A t \in Threads :
    /\ Normalizes(t, e) => once[e] = "running" /\ normalizer[e] = t
    /\ once[e] = "running" /\ normalizer[e] = t => Normalizes(t, e)

\* No thread enters a Once whose closure it is running itself, where it would
\* wait for itself; who waits there is detached.
NoSelfWait ==
  \A t \in Threads : \A e \in Errors :
    TopAt(t, "queued") /\ Top(t).err = e => ~Normalizes(t, e) /\ t \notin attached

\* A normalised error stays as it is: references into it have been handed out.
NormalizedForGood ==
  [][\A e \in Errors : once[e] = "done" => once'[e] = "done" /\ inner'[e] = inner[e]]_<<once, inner>>

\* The closure of an error is one-time initialisation of its exception: a panic
\* closes the error, and nothing else fills it or ever changes what fills it.
Running == [e \in Errors |-> IF once[e] = "running" THEN normalizer[e] ELSE Nobody]
Exception == [e \in Errors |-> IF inner[e] = "normalized" THEN "normalized" ELSE "none"]

Initialisation ==
  INSTANCE InitOnce WITH
    initialiser <- Running, content <- Exception,
    closed <- {e \in Errors : once[e] = "poisoned"},
    Cells <- Errors, Values <- {"normalized"}, Empty <- "none",
    OneChance <- Errors, Settable <- {}

InitialisedOnce == Initialisation!Spec

\* Every look at an error ends, with the exception or with a panic: a panic in
\* a closure, or the guard's, leaves no thread waiting for the Once or the GIL.
CallsReturn == \A t \in Threads : calls[t] # <<>> ~> calls[t] = <<>>
=============================================================================
