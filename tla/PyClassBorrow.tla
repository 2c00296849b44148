----------------------------- MODULE PyClassBorrow -----------------------------
(***************************************************************************)
(* Dynamic borrow checking of one #[pyclass] instance                      *)
(* (src/pycell/impl_.rs, src/pyclass/guard.rs, src/pycell.rs).             *)
(*                                                                         *)
(* An instance has one contents struct per class of its hierarchy.  Only   *)
(* the first mutable class stores a BorrowFlag, an atomic counter that     *)
(* every class below it shares; the frozen classes above it have a checker *)
(* that does nothing.  A guard (PyRef, PyClassGuard, the mutable ones and  *)
(* PyClassGuardMap) is for one level of the hierarchy and gives access to  *)
(* that class and, through as_super, to classes above it.                  *)
(***************************************************************************)
EXTENDS Integers, FiniteSets

CONSTANTS
  Guards,   \* the guards that may exist at one time, in any threads
  Depth,    \* number of classes in the hierarchy
  MaxFlag   \* usize::MAX, the flag's value under a mutable borrow

Levels == 1..Depth

\* into_super holds two counts for a moment, hence the factor.
ASSUME BorrowAssumption ==
  /\ Depth \in Nat \ {0}
  /\ MaxFlag \in Nat
  /\ IsFiniteSet(Guards)
  /\ 2 * Cardinality(Guards) < MaxFlag

VARIABLES
  frozen,  \* the class hierarchy: which classes are #[pyclass(frozen)]
  flag,    \* the BorrowFlag
  pc,      \* what each guard is, or what its thread is doing to get it
  level,   \* the class each guard is for
  seen,    \* the local `value` of BorrowFlag::increment
  view     \* what has become of the guard: whole, in the closure of map,
           \* a PyClassGuardMap, or leaked by a closure that panicked

vars == <<frozen, flag, pc, level, seen, view>>

(***************************************************************************)
(* pc: no guard; in the loop of BorrowFlag::increment for try_borrow;      *)
(* shared guard; in the same loop for into_super; into_super between the   *)
(* new borrow and the release of the old one; mutable guard.               *)
(***************************************************************************)
SharedPcs == {"shared", "raising", "raised"}
Pcs == {"none", "borrowing", "exclusive"} \cup SharedPcs
Views == {"whole", "closure", "part", "leaked"}

\* The checker of a class: EmptySlot until the first mutable class.
Checked(l) == \E k \in 1..l : ~frozen[k]

Shared(g) == pc[g] \in SharedPcs
Exclusive(g) == pc[g] = "exclusive"
Movable(g) == view[g] = "whole"

-------------------------------------------------------------------------------
Init ==
  /\ frozen \in [Levels -> BOOLEAN]
  /\ flag = 0
  /\ pc = [g \in Guards |-> "none"]
  /\ level = [g \in Guards |-> 1]
  /\ seen = [g \in Guards |-> 0]
  /\ view = [g \in Guards |-> "whole"]

\* try_borrow: a no-op without a checker, otherwise increment's first load.
TryBorrow(g, l) ==
  /\ pc[g] = "none"
  /\ level' = [level EXCEPT ![g] = l]
  /\ \/ /\ ~Checked(l)
        /\ pc' = [pc EXCEPT ![g] = "shared"]
        /\ UNCHANGED seen
     \/ /\ Checked(l)
        /\ pc' = [pc EXCEPT ![g] = "borrowing"]
        /\ seen' = [seen EXCEPT ![g] = flag]
  /\ UNCHANGED <<frozen, flag, view>>

\* A slip: the value read before the failed exchange is tried again.
IncrementStale(g, from, to) ==
  /\ pc[g] = from /\ seen[g] # MaxFlag /\ flag = seen[g]
  /\ flag' = seen[g] + 1
  /\ pc' = [pc EXCEPT ![g] = to]
  /\ UNCHANGED <<frozen, level, seen, view>>

\* One turn of increment's loop that does not give up: compare_exchange
\* succeeds, or brings the value another thread has put there.
Increment(g, from, to) ==
  /\ pc[g] = from /\ seen[g] # MaxFlag
  /\ \/ /\ flag = seen[g]
        /\ flag' = seen[g] + 1
        /\ pc' = [pc EXCEPT ![g] = to]
        /\ UNCHANGED seen
     \/ /\ flag # seen[g]
        /\ seen' = [seen EXCEPT ![g] = flag]
        /\ UNCHANGED <<flag, pc>>
  /\ UNCHANGED <<frozen, level, view>>

\* PyBorrowError: the flag was seen under a mutable borrow.
BorrowFails(g) ==
  /\ pc[g] = "borrowing" /\ seen[g] = MaxFlag
  /\ pc' = [pc EXCEPT ![g] = "none"]
  /\ UNCHANGED <<frozen, flag, level, seen, view>>

\* A slip: a mutable borrow is refused only to a second one.
TryBorrowMutShared(g, l) ==
  /\ pc[g] = "none" /\ ~frozen[l] /\ flag # MaxFlag
  /\ flag' = MaxFlag
  /\ pc' = [pc EXCEPT ![g] = "exclusive"]
  /\ level' = [level EXCEPT ![g] = l]
  /\ UNCHANGED <<frozen, seen, view>>

\* try_borrow_mut exists for classes that are not frozen; compare_exchange
\* from UNUSED, and PyBorrowMutError (no change) if that fails.
TryBorrowMut(g, l) ==
  /\ pc[g] = "none" /\ ~frozen[l] /\ flag = 0
  /\ flag' = MaxFlag
  /\ pc' = [pc EXCEPT ![g] = "exclusive"]
  /\ level' = [level EXCEPT ![g] = l]
  /\ UNCHANGED <<frozen, seen, view>>

\* Drop of a guard or of a PyClassGuardMap: fetch_sub, or store UNUSED.
Release(g) ==
  /\ pc[g] = "shared" /\ view[g] \in {"whole", "part"}
  /\ flag' = IF Checked(level[g]) THEN (flag - 1) % (MaxFlag + 1) ELSE flag
  /\ pc' = [pc EXCEPT ![g] = "none"]
  /\ view' = [view EXCEPT ![g] = "whole"]
  /\ UNCHANGED <<frozen, level, seen>>

ReleaseMut(g) ==
  /\ pc[g] = "exclusive" /\ view[g] \in {"whole", "part"}
  /\ flag' = 0
  /\ pc' = [pc EXCEPT ![g] = "none"]
  /\ view' = [view EXCEPT ![g] = "whole"]
  /\ UNCHANGED <<frozen, level, seen>>

\* Slips: the borrow goes along although the base cannot release it; the old
\* borrow is released without taking the new one.
IntoSuperLeaks(g) ==
  /\ pc[g] = "shared" /\ Movable(g) /\ level[g] > 1
  /\ level' = [level EXCEPT ![g] = @ - 1]
  /\ UNCHANGED <<frozen, flag, pc, seen, view>>

IntoSuperReleases(g) ==
  /\ pc[g] = "shared" /\ Movable(g) /\ level[g] > 1
  /\ flag' = IF frozen[level[g] - 1] /\ ~frozen[level[g]]
             THEN (flag - 1) % (MaxFlag + 1) ELSE flag
  /\ level' = [level EXCEPT ![g] = @ - 1]
  /\ UNCHANGED <<frozen, pc, seen, view>>

\* A slip: the old borrow is released before the new one is taken.
IntoSuperSwapped(g) ==
  /\ pc[g] = "shared" /\ Movable(g) /\ level[g] > 1
  /\ frozen[level[g] - 1] /\ ~frozen[level[g]]
  /\ pc' = [pc EXCEPT ![g] = "raising"]
  /\ flag' = (flag - 1) % (MaxFlag + 1)
  /\ seen' = [seen EXCEPT ![g] = (flag - 1) % (MaxFlag + 1)]
  /\ UNCHANGED <<frozen, level, view>>

\* into_super of a shared guard.  From a mutable class to a frozen base it
\* borrows through the base's checker and releases its own; otherwise the
\* guard is only retyped.
IntoSuper(g) ==
  /\ pc[g] = "shared" /\ Movable(g) /\ level[g] > 1
  /\ LET base == level[g] - 1
         both == frozen[base] /\ ~frozen[level[g]] IN
     \/ /\ ~both
        /\ level' = [level EXCEPT ![g] = base]
        /\ UNCHANGED <<flag, pc, seen>>
     \/ /\ both /\ Checked(base)
        /\ pc' = [pc EXCEPT ![g] = "raising"]
        /\ seen' = [seen EXCEPT ![g] = flag]
        /\ UNCHANGED <<flag, level>>
     \/ /\ both /\ ~Checked(base)
        /\ flag' = (flag - 1) % (MaxFlag + 1)
        /\ level' = [level EXCEPT ![g] = base]
        /\ UNCHANGED <<pc, seen>>
  /\ UNCHANGED <<frozen, view>>

\* The old borrow is released and the guard is for the base.  (increment
\* cannot have failed: see IntoSuperSucceeds.)
Raised(g) ==
  /\ pc[g] = "raised"
  /\ flag' = (flag - 1) % (MaxFlag + 1)
  /\ pc' = [pc EXCEPT ![g] = "shared"]
  /\ level' = [level EXCEPT ![g] = @ - 1]
  /\ UNCHANGED <<frozen, seen, view>>

\* A slip: into_super where there is no base class.
IntoSuperMutAny(g) ==
  /\ pc[g] = "exclusive" /\ Movable(g)
  /\ level' = [level EXCEPT ![g] = @ - 1]
  /\ UNCHANGED <<frozen, flag, pc, seen, view>>

\* into_super of a mutable guard, which exists between mutable classes.
IntoSuperMut(g) ==
  /\ pc[g] = "exclusive" /\ Movable(g) /\ level[g] > 1
  /\ ~frozen[level[g] - 1]
  /\ level' = [level EXCEPT ![g] = @ - 1]
  /\ UNCHANGED <<frozen, flag, pc, seen, view>>

\* PyClassGuard::map: the guard is in a ManuallyDrop while the closure runs;
\* a closure that panics leaves nobody to release the borrow.
Map(g) ==
  /\ pc[g] \in {"shared", "exclusive"} /\ view[g] = "whole"
  /\ view' = [view EXCEPT ![g] = "closure"]
  /\ UNCHANGED <<frozen, flag, pc, level, seen>>

MapReturns(g) ==
  /\ view[g] = "closure"
  /\ view' = [view EXCEPT ![g] = "part"]
  /\ UNCHANGED <<frozen, flag, pc, level, seen>>

MapPanics(g) ==
  /\ view[g] = "closure"
  /\ view' = [view EXCEPT ![g] = "leaked"]
  /\ UNCHANGED <<frozen, flag, pc, level, seen>>

Step(g) ==
  \/ \E l \in Levels : TryBorrow(g, l) \/ TryBorrowMut(g, l)
  \/ Increment(g, "borrowing", "shared") \/ BorrowFails(g)
  \/ Increment(g, "raising", "raised") \/ Raised(g)
  \/ Release(g) \/ ReleaseMut(g)
  \/ IntoSuper(g) \/ IntoSuperMut(g)
  \/ Map(g) \/ MapReturns(g) \/ MapPanics(g)

Next == \E g \in Guards : Step(g)

Spec == Init /\ [][Next]_vars

\* A thread in the loop of BorrowFlag::increment keeps turning.
Fairness ==
  \A g \in Guards :
    /\ WF_vars(Increment(g, "borrowing", "shared"))
    /\ WF_vars(Increment(g, "raising", "raised"))

-------------------------------------------------------------------------------
TypeOK ==
  /\ frozen \in [Levels -> BOOLEAN]
  /\ flag \in 0..MaxFlag
  /\ pc \in [Guards -> Pcs]
  /\ level \in [Guards -> Levels]
  /\ seen \in [Guards -> 0..MaxFlag]
  /\ view \in [Guards -> Views]

Holders == {g \in Guards : Shared(g) /\ Checked(level[g])}
Twice == {g \in Guards : pc[g] = "raised"}
Writers == {g \in Guards : Exclusive(g)}

\* The counter is the number of counts held, whatever guards were moved up
\* the hierarchy, mapped or leaked: no borrow is lost (which would let a
\* mutable borrow in) and none stays behind (which would lock the object).
FlagExact ==
  flag = IF Writers # {} THEN MaxFlag ELSE Cardinality(Holders) + Cardinality(Twice)

\* The classes whose contents a guard may read or write, as_super included
\* (as_super of a mutable guard needs a mutable base).
Reads(g) == 1..level[g]
Writes(g) == {k \in 1..level[g] : \A j \in k..level[g] : ~frozen[j]}

\* No class's contents are reachable through a mutable guard while another
\* guard reaches them, although frozen bases are read without a checker.
NoAliasing ==
  \A w \in Writers : \A g \in Guards \ {w} :
    /\ Exclusive(g) => Writes(w) \cap Writes(g) = {}
    /\ Shared(g) => Writes(w) \cap Reads(g) = {}

\* into_super's expect("this object is already borrowed") never panics: the
\* borrow being moved keeps every mutable borrow out (guard.rs:267).
IntoSuperSucceeds ==
  \A g \in Guards : pc[g] = "raising" => seen[g] # MaxFlag

\* The borrow checker implements shared-xor-mutable for the checked classes.
RW == INSTANCE SharedXorMutable WITH readers <- Holders, writers <- Writers

SharedOrMutable == RW!Spec

\* increment is lock-free: a thread goes round its loop for ever only if
\* other borrows keep succeeding or being released.
LockFree ==
  \A g \in Guards :
    <>[](pc[g] \in {"borrowing", "raising"} /\ seen[g] # MaxFlag)
      => []<><<flag' # flag>>_vars
===============================================================================
