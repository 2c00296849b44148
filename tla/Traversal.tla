------------------------------ MODULE Traversal ------------------------------
(***************************************************************************)
(* The cyclic collector visits and clears one #[pyclass] instance          *)
(* (_call_traverse and _call_clear of src/impl_/pymethods.rs, with         *)
(* ForbidAttaching and PanicTrap) while guards of PyClassBorrow come and   *)
(* go, in detached threads or further up the stack.                        *)
(*                                                                         *)
(* A class that has no slot of its own inherits its base's; each           *)
(* slot first calls the next different one below it, then checks the       *)
(* thread, borrows the contents of its class and runs the class's handler. *)
(* Below the classes there is a native base.                               *)
(***************************************************************************)
EXTENDS PyClassBorrow, Sequences

CONSTANT gc   \* the guard the collector's thread uses when it borrows

ASSUME CollectorAssumption == gc \in Guards

Forbidden == -1   \* ATTACH_FORBIDDEN_DURING_TRAVERSE
Attached == 1     \* the thread's attach count when the collector is called

VARIABLES
  foreign,  \* the first class that is unsendable and not of the collector's thread
  op,       \* "traverse" or "clear"
  own,      \* the classes that have that slot
  stack,    \* calls of slots in progress, innermost first: [level, saved]
  phase,    \* "idle", "base" (look for the base's slot), "own" (it returned),
            \* "borrow" (borrow and handler), "aborted"
  attach,   \* ATTACH_COUNT of the thread
  ret,      \* what the last slot returned
  exc,      \* whether an exception is set in the thread
  panicked  \* whether a handler of this traversal has panicked

slotVars == <<foreign, op, own, stack, phase, attach, ret, exc, panicked>>
traversalVars == <<vars, slotVars>>

Here == Head(stack).level
Bases == {l \in own : l < Here}

\* The first class of c from the object's type upwards: levels count from the root.
Lowest(c, l) == \A k \in c : k <= l

\* check_threadsafe looks at the class and at its bases.
OwnThread == Here < foreign

TraversalInit ==
  /\ Init
  /\ foreign = 1 /\ op = "traverse" /\ own = {} /\ stack = <<>> /\ phase = "idle"
  /\ attach = Attached /\ ret = 0 /\ exc = FALSE /\ panicked = FALSE

\* _call_traverse forbids attaching, _call_clear's trampoline attaches.
Enter(o, l) ==
  /\ stack' = <<[level |-> l, saved |-> attach]>> \o stack
  /\ attach' = IF o = "traverse" THEN Forbidden ELSE attach + 1
  /\ phase' = "base"

\* A slip: dropping ForbidAttaching allows attaching, whatever was saved.
ReturnAllows(r) ==
  /\ attach' = IF op = "traverse" THEN Attached ELSE attach - 1
  /\ stack' = Tail(stack)
  /\ IF Len(stack) > 1 THEN phase' = "own" /\ UNCHANGED <<foreign, own>>
                      ELSE phase' = "idle" /\ foreign' = 1 /\ own' = {}
  /\ ret' = r
  /\ exc' = (exc \/ (op = "clear" /\ r # 0))
  /\ panicked' = (Len(stack) > 1 /\ (panicked \/ (op = "traverse" /\ r = -1)))
  /\ UNCHANGED op

\* The guards of the call are dropped; an error of clear is restored.
Return(r) ==
  /\ attach' = IF op = "traverse" THEN Head(stack).saved ELSE attach - 1
  /\ stack' = Tail(stack)
  /\ IF Len(stack) > 1 THEN phase' = "own" /\ UNCHANGED <<foreign, own>>
                      ELSE phase' = "idle" /\ foreign' = 1 /\ own' = {}
  /\ ret' = r
  /\ exc' = (exc \/ (op = "clear" /\ r # 0))
  /\ panicked' = (Len(stack) > 1 /\ (panicked \/ (op = "traverse" /\ r = -1)))
  /\ UNCHANGED op

\* The collector calls the slot of the object's type.
Collect ==
  /\ phase = "idle" /\ pc[gc] = "none"
  /\ op' \in {"traverse", "clear"}
  /\ own' \in SUBSET Levels \ {{}} /\ foreign' \in 1..Depth + 1
  /\ \E l \in own' : Lowest(own', l) /\ Enter(op', l)
  /\ ret' = 0 /\ exc' = FALSE /\ panicked' = FALSE
  /\ UNCHANGED vars

\* call_super_traverse and call_super_clear: the first base with another slot.
CallSuper ==
  /\ phase = "base"
  /\ \E l \in Bases : Lowest(Bases, l) /\ Enter(op, l)
  /\ UNCHANGED <<vars, foreign, op, own, ret, exc, panicked>>

\* There is none, or a native one, which may return what its visitor returned
\* or fail to clear, with an exception or without.
CallNative ==
  /\ phase = "base" /\ Bases = {}
  /\ ret' \in {0, 1}
  /\ exc' \in {FALSE, op = "clear" /\ ret' = 1}
  /\ phase' = "own"
  /\ UNCHANGED <<vars, foreign, op, own, stack, attach, panicked>>

\* A slip: the result of the base is not looked at.
ClearFailedIgnored ==
  /\ phase = "own" /\ op = "clear" /\ ret # 0
  /\ ret' = 0
  /\ UNCHANGED <<vars, foreign, op, own, stack, phase, attach, exc, panicked>>

\* The base failed to clear: its exception, or a SystemError, is the result.
ClearFailed ==
  /\ phase = "own" /\ op = "clear" /\ ret # 0
  /\ Return(-1)
  /\ UNCHANGED vars

\* The base's traversal was not to go on: the early return drops the lock and
\* then the trap, which is still armed, in a function that cannot unwind.
TrapSprings ==
  /\ phase = "own" /\ op = "traverse" /\ ret # 0
  /\ attach' = Head(stack).saved
  /\ phase' = "aborted"
  /\ UNCHANGED <<vars, foreign, op, own, stack, ret, exc, panicked>>

\* On another thread traversal does nothing, and clear's receiver panics.
WrongThread ==
  /\ phase = "own" /\ ret = 0 /\ ~OwnThread
  /\ Return(IF op = "traverse" THEN 0 ELSE -1)
  /\ UNCHANGED vars

\* Traversal borrows shared, clear as its receiver says.
Borrow ==
  /\ phase = "own" /\ ret = 0 /\ OwnThread
  /\ TryBorrow(gc, Here) \/ (op = "clear" /\ TryBorrowMut(gc, Here))
  /\ phase' = "borrow"
  /\ UNCHANGED <<foreign, op, own, stack, attach, ret, exc, panicked>>

BorrowTurn ==
  /\ phase = "borrow" /\ Increment(gc, "borrowing", "shared")
  /\ UNCHANGED slotVars

\* An object that is borrowed mutably is not traversed; clear raises.
NotBorrowed ==
  /\ phase = "borrow" /\ BorrowFails(gc)
  /\ Return(IF op = "traverse" THEN 0 ELSE -1)

NotBorrowedMut ==
  /\ phase = "own" /\ ret = 0 /\ OwnThread /\ op = "clear"
  /\ ~frozen[Here] /\ flag # 0
  /\ Return(-1)
  /\ UNCHANGED vars

\* The handler of a class runs from the borrow to its return.
InHandler == phase = "borrow" /\ pc[gc] \in {"shared", "exclusive"}

\* A slip: the borrow is given back only after a successful traversal.
HandlerReturnsKeeping(r) ==
  /\ InHandler
  /\ op = "clear" => r # 1
  /\ Return(r)
  /\ IF r = 0 THEN Release(gc) \/ ReleaseMut(gc) ELSE UNCHANGED vars

\* The handler returns 0, what a visitor returned, or panics (an attempt to
\* attach while that is forbidden is such a panic); clear gives 0 or raises.
\* TraverseGuard, or the receiver's holder, releases the borrow.
HandlerReturns(r) ==
  /\ InHandler
  /\ op = "clear" => r # 1
  /\ Release(gc) \/ ReleaseMut(gc)
  /\ Return(r)

\* Guards that have nothing to do with the collector.
OthersStep ==
  /\ phase # "aborted"
  /\ \E g \in Guards : (g = gc => phase = "idle") /\ Step(g)
  /\ UNCHANGED slotVars

TraversalNext ==
  \/ Collect \/ CallSuper \/ CallNative \/ ClearFailed \/ TrapSprings \/ WrongThread
  \/ Borrow \/ BorrowTurn \/ NotBorrowed \/ NotBorrowedMut
  \/ \E r \in {0, 1, -1} : HandlerReturns(r)
  \/ OthersStep

TraversalSpec == TraversalInit /\ [][TraversalNext]_traversalVars

-------------------------------------------------------------------------------
\* A handler of __traverse__ never runs where attaching is allowed, not even when
\* the slots of its bases have dropped their locks, nor does it write; and no
\* handler runs on a foreign thread or with the borrow of another class.
HandlerIsConfined ==
  InHandler =>
    /\ op = "traverse" => attach = Forbidden /\ pc[gc] = "shared"
    /\ OwnThread /\ level[gc] = Here

\* However a collection ends, by a visitor that stops, a panic, a refused borrow
\* or an error of a base, the collector's thread keeps no borrow of the object
\* and may attach exactly as before.
CollectorLeavesNoTrace ==
  [][phase # "idle" /\ phase' = "idle"
       => pc'[gc] = "none" /\ stack' = <<>> /\ attach' = Attached]_traversalVars

\* tp_clear fails exactly when it leaves an exception behind.
ClearReports == phase = "idle" /\ op = "clear" => (exc <=> ret # 0)

\* "uncaught panic inside __traverse__ handler": the process aborts only if a
\* handler panicked.
AbortMeansPanic == phase = "aborted" => panicked
===============================================================================
