-------------------------- MODULE TraversalProofs --------------------------
(***************************************************************************)
(* Proofs about PyClassBorrow, for any hierarchy of classes and any number *)
(* of guards, and about Traversal, where the collector is one of them.     *)
(*                                                                         *)
(* The nesting of the collector's slots is kept by the invariant Nested:   *)
(* what each call has saved is what the thread's attach count was at its   *)
(* depth.  Every step of the collector is then a step of PyClassBorrow or  *)
(* leaves its state alone, so what is shown of the guards in the first     *)
(* part holds with a collector among them.                                 *)
(***************************************************************************)
EXTENDS Traversal, FiniteSetTheorems, TLAPS

(***************************************************************************)
(* A mutable guard is for a class that is not frozen and excludes every    *)
(* other mutable guard and every shared guard of a checked class.          *)
(***************************************************************************)
WriterAlone ==
  \A w \in Guards : Exclusive(w) =>
    /\ ~frozen[level[w]]
    /\ \A g \in Guards \ {w} : ~Exclusive(g) /\ ~(Shared(g) /\ Checked(level[g]))

(***************************************************************************)
(* Who is where in the code: a guard in increment's loop has a checker, a  *)
(* guard in into_super goes from a mutable class to a frozen, checked base.*)
(***************************************************************************)
PlacesOK ==
  \A g \in Guards :
    /\ pc[g] = "borrowing" => Checked(level[g])
    /\ pc[g] \in {"raising", "raised"} =>
         /\ level[g] > 1 /\ frozen[level[g] - 1] /\ ~frozen[level[g]]
         /\ Checked(level[g] - 1)

BorrowInv == TypeOK /\ WriterAlone /\ PlacesOK /\ IntoSuperSucceeds /\ FlagExact

Count == Cardinality(Holders) + Cardinality(Twice)

-------------------------------------------------------------------------------
\* fetch_sub of a flag that is not zero does not wrap.
LEMMA FetchSub ==
  ASSUME NEW n \in Nat, NEW f \in 1..n
  PROVE  (f - 1) % (n + 1) = f - 1
OBVIOUS

LEMMA CheckedBase ==
  ASSUME TypeOK, NEW l \in Levels
  PROVE  /\ ~frozen[l] => Checked(l)
         /\ l > 1 /\ frozen[l] => (Checked(l) <=> Checked(l - 1))
         /\ l > 1 /\ Checked(l - 1) => Checked(l)
BY BorrowAssumption DEF TypeOK, Levels, Checked

\* The sets counted are finite, and all guards together stay below the top.
LEMMA CountBounds ==
  ASSUME BorrowAssumption
  PROVE  /\ IsFiniteSet(Holders) /\ IsFiniteSet(Twice)
         /\ Cardinality(Holders) \in Nat /\ Cardinality(Twice) \in Nat
         /\ Count < MaxFlag
<1>1. Holders \subseteq Guards /\ Twice \subseteq Guards
  BY DEF Holders, Twice
<1>2. /\ Cardinality(Holders) <= Cardinality(Guards)
      /\ Cardinality(Twice) <= Cardinality(Guards)
      /\ IsFiniteSet(Holders) /\ IsFiniteSet(Twice)
  BY <1>1, FS_Subset, BorrowAssumption
<1>3. /\ Cardinality(Guards) \in Nat
      /\ Cardinality(Holders) \in Nat /\ Cardinality(Twice) \in Nat
  BY <1>2, FS_CardinalityType, BorrowAssumption
<1>4. QED
  BY <1>2, <1>3, BorrowAssumption DEF Count

\* While a checked shared guard exists there is no mutable one, and the flag
\* is the count, which is at least one and below the top.
LEMMA HolderCounts ==
  ASSUME BorrowInv, NEW g \in Holders
  PROVE  Writers = {} /\ flag = Count /\ flag \in 1..MaxFlag /\ flag # MaxFlag
<1>1. Writers = {}
  BY DEF BorrowInv, WriterAlone, Writers, Holders, Exclusive, Shared, SharedPcs
<1>2. flag = Count
  BY <1>1 DEF BorrowInv, FlagExact, Count
<1>3. Cardinality(Holders) # 0
  BY CountBounds, BorrowAssumption, FS_EmptySet
<1>4. QED
  BY <1>1, <1>2, <1>3, CountBounds, BorrowAssumption DEF Count

\* A flag of zero: nobody holds anything.
LEMMA Unused ==
  ASSUME BorrowInv, flag = 0
  PROVE  Writers = {} /\ Holders = {} /\ Twice = {}
<1>1. MaxFlag # 0
  BY BorrowAssumption, FS_CardinalityType
<1>2. Writers = {} /\ Count = 0
  BY <1>1 DEF BorrowInv, FlagExact, Count
<1>3. QED
  BY <1>2, CountBounds, BorrowAssumption, FS_EmptySet DEF Count

-------------------------------------------------------------------------------
(***************************************************************************)
(* What a step does to the sets of holders and to the flag: nothing, or    *)
(* one of six changes.                                                     *)
(***************************************************************************)
SameSets == Holders' = Holders /\ Twice' = Twice /\ Writers' = Writers
Quiet == SameSets /\ flag' = flag

Acquire(g) ==
  /\ Writers = {} /\ Writers' = {} /\ g \notin Holders /\ g \in Guards
  /\ Holders' = Holders \cup {g} /\ Twice' = Twice /\ flag' = flag + 1

AcquireAgain(g) ==
  /\ Writers = {} /\ Writers' = {} /\ g \notin Twice
  /\ Holders' = Holders /\ Twice' = Twice \cup {g} /\ flag' = flag + 1

LetGo(g) ==
  /\ Writers = {} /\ Writers' = {} /\ g \in Holders
  /\ Holders' = Holders \ {g} /\ Twice' = Twice /\ flag' = flag - 1

LetGoOnce(g) ==
  /\ Writers = {} /\ Writers' = {} /\ g \in Twice
  /\ Holders' = Holders /\ Twice' = Twice \ {g} /\ flag' = flag - 1

Lock(g) ==
  /\ Writers = {} /\ Holders = {} /\ Twice = {} /\ g \in Guards
  /\ Writers' = {g} /\ Holders' = {} /\ Twice' = {} /\ flag' = MaxFlag

Unlock(g) ==
  /\ Writers = {g} /\ Holders = {} /\ Twice = {}
  /\ Writers' = {} /\ Holders' = {} /\ Twice' = {} /\ flag' = 0

Effect(g) ==
  Quiet \/ Acquire(g) \/ AcquireAgain(g) \/ LetGo(g) \/ LetGoOnce(g)
    \/ Lock(g) \/ Unlock(g)

LEMMA EffectKeepsFlag ==
  ASSUME BorrowInv, NEW g, Effect(g)
  PROVE  FlagExact'
<1>1. /\ IsFiniteSet(Holders) /\ IsFiniteSet(Twice)
      /\ Cardinality(Holders) \in Nat /\ Cardinality(Twice) \in Nat
  BY CountBounds, BorrowAssumption
<1>2. flag = IF Writers # {} THEN MaxFlag ELSE Cardinality(Holders) + Cardinality(Twice)
  BY DEF BorrowInv, FlagExact
<1>3. CASE Quiet
  BY <1>2, <1>3 DEF Quiet, SameSets, FlagExact
<1>4. CASE Acquire(g)
  <2>1. Cardinality(Holders \cup {g}) = Cardinality(Holders) + 1
    BY <1>1, <1>4, FS_AddElement DEF Acquire
  <2>2. QED
    BY <1>1, <1>2, <1>4, <2>1 DEF Acquire, FlagExact
<1>5. CASE AcquireAgain(g)
  <2>1. Cardinality(Twice \cup {g}) = Cardinality(Twice) + 1
    BY <1>1, <1>5, FS_AddElement DEF AcquireAgain
  <2>2. QED
    BY <1>1, <1>2, <1>5, <2>1 DEF AcquireAgain, FlagExact
<1>6. CASE LetGo(g)
  <2>1. Cardinality(Holders \ {g}) = Cardinality(Holders) - 1
    BY <1>1, <1>6, FS_RemoveElement DEF LetGo
  <2>2. QED
    BY <1>1, <1>2, <1>6, <2>1 DEF LetGo, FlagExact
<1>7. CASE LetGoOnce(g)
  <2>1. Cardinality(Twice \ {g}) = Cardinality(Twice) - 1
    BY <1>1, <1>7, FS_RemoveElement DEF LetGoOnce
  <2>2. QED
    BY <1>1, <1>2, <1>7, <2>1 DEF LetGoOnce, FlagExact
<1>8. CASE Lock(g)
  BY <1>8 DEF Lock, FlagExact
<1>9. CASE Unlock(g)
  BY <1>9, FS_EmptySet DEF Unlock, FlagExact
<1>10. QED
  BY <1>3, <1>4, <1>5, <1>6, <1>7, <1>8, <1>9 DEF Effect

\* Each change is a step of shared-xor-mutable, or none at all.
LEMMA EffectRefines ==
  ASSUME BorrowInv, NEW g, Effect(g)
  PROVE  [RW!Next]_(RW!vars)
<1>1. CASE Quiet \/ AcquireAgain(g) \/ LetGoOnce(g)
  BY <1>1 DEF Quiet, SameSets, AcquireAgain, LetGoOnce, RW!vars
<1>2. CASE Acquire(g)
  <2>1. RW!Read(g)
    BY <1>2 DEF Acquire, RW!Read
  <2>2. QED
    BY <1>2, <2>1 DEF Acquire, RW!Next
<1>3. CASE LetGo(g)
  <2>1. RW!EndRead(g) /\ g \in Guards
    BY <1>3 DEF LetGo, RW!EndRead, Holders
  <2>2. QED
    BY <2>1 DEF RW!Next
<1>4. CASE Lock(g)
  <2>1. RW!Write(g)
    BY <1>4 DEF Lock, RW!Write
  <2>2. QED
    BY <1>4, <2>1 DEF Lock, RW!Next
<1>5. CASE Unlock(g)
  <2>1. RW!EndWrite(g) /\ g \in Guards
    BY <1>5 DEF Unlock, RW!EndWrite, Writers
  <2>2. QED
    BY <2>1 DEF RW!Next
<1>6. QED
  BY <1>1, <1>2, <1>3, <1>4, <1>5 DEF Effect

-------------------------------------------------------------------------------
(***************************************************************************)
(* Each action: what it does to the sets, and that it keeps the rest of    *)
(* the invariant.                                                          *)
(***************************************************************************)
Rest == TypeOK /\ WriterAlone /\ PlacesOK /\ IntoSuperSucceeds

LEMMA TryBorrowStep ==
  ASSUME BorrowInv, NEW g \in Guards, NEW l \in Levels, TryBorrow(g, l)
  PROVE  Rest' /\ Effect(g)
<1> USE DEF BorrowInv, TypeOK, Pcs, SharedPcs, Views, Levels
<1>1. TypeOK'
  BY DEF TryBorrow
<1>2. Quiet
  BY DEF TryBorrow, Quiet, SameSets, Holders, Twice, Writers, Shared, Exclusive, Checked
<1>3. WriterAlone'
  BY DEF TryBorrow, WriterAlone, Shared, Exclusive, Checked
<1>4. PlacesOK'
  BY DEF TryBorrow, PlacesOK, Checked
<1>5. IntoSuperSucceeds'
  BY DEF TryBorrow, IntoSuperSucceeds
<1>6. QED
  BY <1>1, <1>2, <1>3, <1>4, <1>5 DEF Rest, Effect

LEMMA TryBorrowMutStep ==
  ASSUME BorrowInv, NEW g \in Guards, NEW l \in Levels, TryBorrowMut(g, l)
  PROVE  Rest' /\ Effect(g)
<1> USE DEF BorrowInv, TypeOK, Pcs, SharedPcs, Views, Levels
<1>1. TypeOK'
  BY BorrowAssumption DEF TryBorrowMut
<1>2. Writers = {} /\ Holders = {} /\ Twice = {}
  BY Unused DEF TryBorrowMut
<1>3. Lock(g)
  BY <1>2 DEF TryBorrowMut, Lock, Holders, Twice, Writers, Shared, Exclusive, Checked
<1>4. WriterAlone'
  BY <1>2 DEF TryBorrowMut, WriterAlone, Shared, Exclusive, Checked, Holders, Writers
<1>5. PlacesOK'
  BY DEF TryBorrowMut, PlacesOK, Checked
<1>6. IntoSuperSucceeds'
  BY DEF TryBorrowMut, IntoSuperSucceeds
<1>7. QED
  BY <1>1, <1>3, <1>4, <1>5, <1>6 DEF Rest, Effect

\* The loop for a new borrow.
LEMMA BorrowingStep ==
  ASSUME BorrowInv, NEW g \in Guards, Increment(g, "borrowing", "shared")
  PROVE  Rest' /\ Effect(g)
<1> USE DEF BorrowInv, TypeOK, Pcs, SharedPcs, Views, Levels
<1>0. Checked(level[g]) /\ flag \in Nat /\ MaxFlag \in Nat
  BY BorrowAssumption DEF Increment, PlacesOK
<1>1. TypeOK'
  <2>1. flag' \in 0..MaxFlag
    BY <1>0 DEF Increment
  <2>2. QED
    BY <2>1 DEF Increment
<1>2. CASE flag = seen[g]
  <2>1. Writers = {} /\ flag' = flag + 1
    BY <1>2 DEF Increment, FlagExact
  <2>2. Acquire(g)
    BY <1>0, <1>2, <2>1
       DEF Increment, Acquire, Holders, Twice, Writers, Shared, Exclusive, Checked
  <2>3. WriterAlone'
    BY <1>2, <2>1 DEF Increment, WriterAlone, Shared, Exclusive, Checked, Writers
  <2>4. PlacesOK'
    BY <1>2 DEF Increment, PlacesOK, Checked
  <2>5. IntoSuperSucceeds'
    BY <1>2 DEF Increment, IntoSuperSucceeds
  <2>6. QED
    BY <1>1, <2>2, <2>3, <2>4, <2>5 DEF Rest, Effect
<1>3. CASE flag # seen[g]
  <2>1. Quiet
    BY <1>3 DEF Increment, Quiet, SameSets, Holders, Twice, Writers, Shared, Exclusive, Checked
  <2>2. WriterAlone'
    BY <1>3 DEF Increment, WriterAlone, Shared, Exclusive, Checked
  <2>3. PlacesOK'
    BY <1>3 DEF Increment, PlacesOK, Checked
  <2>4. IntoSuperSucceeds'
    BY <1>3 DEF Increment, IntoSuperSucceeds
  <2>5. QED
    BY <1>1, <2>1, <2>2, <2>3, <2>4 DEF Rest, Effect
<1>4. QED
  BY <1>2, <1>3

\* The loop of into_super: the guard itself keeps mutable borrows out.
LEMMA RaisingStep ==
  ASSUME BorrowInv, NEW g \in Guards, Increment(g, "raising", "raised")
  PROVE  Rest' /\ Effect(g)
<1> USE DEF BorrowInv, TypeOK, Pcs, SharedPcs, Views, Levels
<1>0. /\ level[g] > 1 /\ frozen[level[g] - 1] /\ ~frozen[level[g]]
      /\ Checked(level[g] - 1) /\ Checked(level[g]) /\ pc[g] = "raising"
  BY CheckedBase DEF Increment, PlacesOK
<1>1. g \in Holders
  BY <1>0 DEF Holders, Shared
<1>2. Writers = {} /\ flag # MaxFlag /\ flag \in Nat
  BY <1>1, HolderCounts
<1>3. TypeOK'
  <2>1. flag' \in 0..MaxFlag
    BY <1>2, BorrowAssumption DEF Increment
  <2>2. QED
    BY <2>1 DEF Increment
<1>4. CASE flag = seen[g]
  <2>1. AcquireAgain(g)
    BY <1>0, <1>2, <1>4
       DEF Increment, AcquireAgain, Holders, Twice, Writers, Shared, Exclusive, Checked
  <2>2. WriterAlone'
    BY <1>2, <1>4 DEF Increment, WriterAlone, Shared, Exclusive, Checked, Writers
  <2>3. PlacesOK'
    BY <1>0, <1>4 DEF Increment, PlacesOK, Checked
  <2>4. IntoSuperSucceeds'
    BY <1>4 DEF Increment, IntoSuperSucceeds
  <2>5. QED
    BY <1>3, <2>1, <2>2, <2>3, <2>4 DEF Rest, Effect
<1>5. CASE flag # seen[g]
  <2>1. Quiet
    BY <1>5 DEF Increment, Quiet, SameSets, Holders, Twice, Writers, Shared, Exclusive, Checked
  <2>2. WriterAlone'
    BY <1>5 DEF Increment, WriterAlone, Shared, Exclusive, Checked
  <2>3. PlacesOK'
    BY <1>5 DEF Increment, PlacesOK, Checked
  <2>4. IntoSuperSucceeds'
    BY <1>2, <1>5 DEF Increment, IntoSuperSucceeds
  <2>5. QED
    BY <1>3, <2>1, <2>2, <2>3, <2>4 DEF Rest, Effect
<1>6. QED
  BY <1>4, <1>5

LEMMA ReleaseStep ==
  ASSUME BorrowInv, NEW g \in Guards, Release(g)
  PROVE  Rest' /\ Effect(g)
<1> USE DEF BorrowInv, TypeOK, Pcs, SharedPcs, Views, Levels
<1>1. WriterAlone' /\ PlacesOK' /\ IntoSuperSucceeds'
  BY DEF Release, WriterAlone, PlacesOK, IntoSuperSucceeds, Shared, Exclusive, Checked
<1>2. CASE Checked(level[g])
  <2>1. g \in Holders
    BY <1>2 DEF Release, Holders, Shared
  <2>2. Writers = {} /\ flag \in 1..MaxFlag /\ MaxFlag \in Nat
    BY <2>1, HolderCounts, BorrowAssumption
  <2>3. flag' = flag - 1
    BY <1>2, <2>2, FetchSub DEF Release
  <2>4. LetGo(g)
    BY <2>1, <2>2, <2>3
       DEF Release, LetGo, Holders, Twice, Writers, Shared, Exclusive, Checked
  <2>5. TypeOK'
    BY <2>2, <2>3 DEF Release
  <2>6. QED
    BY <1>1, <2>4, <2>5 DEF Rest, Effect
<1>3. CASE ~Checked(level[g])
  <2>1. Quiet
    BY <1>3 DEF Release, Quiet, SameSets, Holders, Twice, Writers, Shared, Exclusive, Checked
  <2>2. TypeOK'
    BY <1>3 DEF Release
  <2>3. QED
    BY <1>1, <2>1, <2>2 DEF Rest, Effect
<1>4. QED
  BY <1>2, <1>3

LEMMA ReleaseMutStep ==
  ASSUME BorrowInv, NEW g \in Guards, ReleaseMut(g)
  PROVE  Rest' /\ Effect(g)
<1> USE DEF BorrowInv, TypeOK, Pcs, SharedPcs, Views, Levels
<1>1. WriterAlone' /\ PlacesOK' /\ IntoSuperSucceeds'
  BY DEF ReleaseMut, WriterAlone, PlacesOK, IntoSuperSucceeds, Shared, Exclusive, Checked
<1>2. Writers = {g} /\ Holders = {}
  <2>1. Exclusive(g)
    BY DEF ReleaseMut, Exclusive
  <2>2. ~Shared(g)
    BY <2>1 DEF Shared, Exclusive
  <2>3. \A h \in Guards \ {g} : ~Exclusive(h) /\ ~(Shared(h) /\ Checked(level[h]))
    BY <2>1 DEF WriterAlone
  <2>4. QED
    BY <2>1, <2>2, <2>3 DEF Writers, Holders
<1>3. Twice = {}
  <2>1. Twice \subseteq Holders
    BY CheckedBase DEF Twice, Holders, Shared, PlacesOK
  <2>2. QED
    BY <1>2, <2>1
<1>4. Unlock(g)
  BY <1>2, <1>3
     DEF ReleaseMut, Unlock, Holders, Twice, Writers, Shared, Exclusive, Checked
<1>5. TypeOK'
  BY BorrowAssumption DEF ReleaseMut
<1>6. QED
  BY <1>1, <1>4, <1>5 DEF Rest, Effect

LEMMA IntoSuperStep ==
  ASSUME BorrowInv, NEW g \in Guards, IntoSuper(g)
  PROVE  Rest' /\ Effect(g)
<1> USE DEF BorrowInv, TypeOK, Pcs, SharedPcs, Views, Levels
<1> DEFINE base == level[g] - 1
<1>0. base \in Levels /\ level[g] \in Levels /\ level[g] > 1 /\ pc[g] = "shared"
  BY BorrowAssumption DEF IntoSuper
<1>1. /\ ~frozen[level[g]] => Checked(level[g])
      /\ frozen[level[g]] => (Checked(level[g]) <=> Checked(base))
      /\ ~frozen[base] => Checked(base) /\ Checked(level[g])
  BY <1>0, CheckedBase
<1>2. \A l : Checked(l)' <=> Checked(l)
  BY DEF IntoSuper, Checked
<1>3. CASE ~(frozen[base] /\ ~frozen[level[g]])
  <2>1. /\ level' = [level EXCEPT ![g] = base]
        /\ UNCHANGED <<frozen, flag, pc, seen, view>>
    BY <1>3 DEF IntoSuper
  <2>2. TypeOK'
    BY <1>0, <2>1
  <2>3. Quiet
    BY <1>0, <1>1, <1>2, <1>3, <2>1 DEF Quiet, SameSets, Holders, Twice, Writers, Shared, Exclusive, Checked
  <2>4. WriterAlone'
    BY <1>0, <1>1, <1>3, <2>1 DEF WriterAlone, Shared, Exclusive, Checked
  <2>5. PlacesOK' /\ IntoSuperSucceeds'
    BY <1>0, <2>1 DEF PlacesOK, IntoSuperSucceeds, Checked
  <2>6. QED
    BY <2>2, <2>3, <2>4, <2>5 DEF Rest, Effect
<1>4. CASE frozen[base] /\ ~frozen[level[g]] /\ Checked(base)
  <2>1. /\ pc' = [pc EXCEPT ![g] = "raising"]
        /\ seen' = [seen EXCEPT ![g] = flag]
        /\ UNCHANGED <<frozen, flag, level, view>>
    BY <1>4 DEF IntoSuper
  <2>2. g \in Holders
    BY <1>0, <1>1, <1>4 DEF Holders, Shared
  <2>3. flag # MaxFlag
    BY <2>2, HolderCounts
  <2>4. TypeOK'
    BY <2>1
  <2>5. Quiet
    BY <1>0, <2>1 DEF Quiet, SameSets, Holders, Twice, Writers, Shared, Exclusive, Checked
  <2>6. WriterAlone'
    BY <1>0, <2>1 DEF WriterAlone, Shared, Exclusive, Checked
  <2>7. PlacesOK'
    BY <1>0, <1>4, <2>1 DEF PlacesOK, Checked
  <2>8. IntoSuperSucceeds'
    BY <2>1, <2>3 DEF IntoSuperSucceeds
  <2>9. QED
    BY <2>4, <2>5, <2>6, <2>7, <2>8 DEF Rest, Effect
<1>5. CASE frozen[base] /\ ~frozen[level[g]] /\ ~Checked(base)
  <2>1. /\ flag' = (flag - 1) % (MaxFlag + 1)
        /\ level' = [level EXCEPT ![g] = base]
        /\ UNCHANGED <<frozen, pc, seen, view>>
    BY <1>5 DEF IntoSuper
  <2>2. g \in Holders
    BY <1>0, <1>1, <1>5 DEF Holders, Shared
  <2>3. Writers = {} /\ flag \in 1..MaxFlag /\ MaxFlag \in Nat
    BY <2>2, HolderCounts, BorrowAssumption
  <2>4. flag' = flag - 1
    BY <2>1, <2>3, FetchSub
  <2>5. LetGo(g)
    BY <1>0, <1>5, <2>1, <2>2, <2>3, <2>4
       DEF LetGo, Holders, Twice, Writers, Shared, Exclusive, Checked
  <2>6. TypeOK'
    BY <1>0, <2>1, <2>3, <2>4
  <2>7. WriterAlone' /\ PlacesOK' /\ IntoSuperSucceeds'
    BY <1>0, <1>5, <2>1 DEF WriterAlone, PlacesOK, IntoSuperSucceeds, Shared, Exclusive, Checked
  <2>8. QED
    BY <2>5, <2>6, <2>7 DEF Rest, Effect
<1>6. QED
  BY <1>3, <1>4, <1>5

LEMMA RaisedStep ==
  ASSUME BorrowInv, NEW g \in Guards, Raised(g)
  PROVE  Rest' /\ Effect(g)
<1> USE DEF BorrowInv, TypeOK, Pcs, SharedPcs, Views, Levels
<1>0. /\ level[g] > 1 /\ pc[g] = "raised" /\ level[g] - 1 \in Levels
      /\ Checked(level[g] - 1) /\ Checked(level[g])
  BY CheckedBase, BorrowAssumption DEF Raised, PlacesOK
<1>1. g \in Holders /\ g \in Twice
  BY <1>0 DEF Holders, Twice, Shared
<1>2. Writers = {} /\ flag \in 1..MaxFlag /\ MaxFlag \in Nat
  BY <1>1, HolderCounts, BorrowAssumption
<1>3. flag' = flag - 1
  BY <1>2, FetchSub DEF Raised
<1>4. TypeOK'
  BY <1>0, <1>2, <1>3 DEF Raised
<1>5. LetGoOnce(g)
  BY <1>0, <1>1, <1>2, <1>3
     DEF Raised, LetGoOnce, Holders, Twice, Writers, Shared, Exclusive, Checked
<1>6. WriterAlone' /\ PlacesOK' /\ IntoSuperSucceeds'
  BY <1>0, <1>2 DEF Raised, WriterAlone, PlacesOK, IntoSuperSucceeds, Shared, Exclusive,
     Checked, Writers
<1>7. QED
  BY <1>4, <1>5, <1>6 DEF Rest, Effect

\* Steps that do not touch the flag: a failed borrow, into_super of a
\* mutable guard, and map.
LEMMA BorrowFailsStep ==
  ASSUME BorrowInv, NEW g \in Guards, BorrowFails(g)
  PROVE  Rest' /\ Effect(g)
<1> USE DEF BorrowInv, TypeOK, Pcs, SharedPcs, Views, Levels
<1>1. TypeOK'
  BY DEF BorrowFails
<1>2. Quiet
  BY DEF BorrowFails, Quiet, SameSets, Holders, Twice, Writers, Shared, Exclusive, Checked
<1>3. WriterAlone' /\ PlacesOK' /\ IntoSuperSucceeds'
  BY DEF BorrowFails, WriterAlone, PlacesOK, IntoSuperSucceeds, Shared, Exclusive, Checked
<1>4. QED
  BY <1>1, <1>2, <1>3 DEF Rest, Effect

LEMMA IntoSuperMutStep ==
  ASSUME BorrowInv, NEW g \in Guards, IntoSuperMut(g)
  PROVE  Rest' /\ Effect(g)
<1> USE DEF BorrowInv, TypeOK, Pcs, SharedPcs, Views, Levels
<1>1. TypeOK'
  BY BorrowAssumption DEF IntoSuperMut
<1>2. Quiet
  BY DEF IntoSuperMut, Quiet, SameSets, Holders, Twice, Writers, Shared, Exclusive, Checked
<1>3. WriterAlone' /\ PlacesOK' /\ IntoSuperSucceeds'
  BY DEF IntoSuperMut, WriterAlone, PlacesOK, IntoSuperSucceeds, Shared, Exclusive, Checked
<1>4. QED
  BY <1>1, <1>2, <1>3 DEF Rest, Effect

LEMMA MapSteps ==
  ASSUME BorrowInv, NEW g \in Guards, Map(g) \/ MapReturns(g) \/ MapPanics(g)
  PROVE  Rest' /\ Effect(g)
<1>1. UNCHANGED <<frozen, flag, pc, level, seen>>
  BY DEF Map, MapReturns, MapPanics
<1>2. view' \in [Guards -> Views]
  BY DEF Map, MapReturns, MapPanics, BorrowInv, TypeOK, Views
<1>3. Quiet
  BY <1>1 DEF Quiet, SameSets, Holders, Twice, Writers, Shared, Exclusive, Checked
<1>4. TypeOK' /\ WriterAlone' /\ PlacesOK' /\ IntoSuperSucceeds'
  BY <1>1, <1>2 DEF BorrowInv, TypeOK, WriterAlone, PlacesOK, IntoSuperSucceeds,
     Shared, Exclusive, Checked
<1>5. QED
  BY <1>3, <1>4 DEF Rest, Effect

-------------------------------------------------------------------------------
LEMMA StepInv ==
  ASSUME BorrowInv, NEW g \in Guards, Step(g)
  PROVE  BorrowInv' /\ [RW!Next]_(RW!vars)
<1>1. Rest' /\ Effect(g)
  BY TryBorrowStep, TryBorrowMutStep, BorrowingStep, RaisingStep, ReleaseStep,
     ReleaseMutStep, IntoSuperStep, RaisedStep, BorrowFailsStep,
     IntoSuperMutStep, MapSteps DEF Step
<1>2. QED
  BY <1>1, EffectKeepsFlag, EffectRefines DEF Rest, BorrowInv

LEMMA InitInv == Init => BorrowInv
<1> SUFFICES ASSUME Init PROVE BorrowInv
  OBVIOUS
<1>1. Holders = {} /\ Twice = {} /\ Writers = {}
  BY DEF Init, Holders, Twice, Writers, Shared, SharedPcs, Exclusive
<1>2. FlagExact
  BY <1>1, FS_EmptySet DEF Init, FlagExact
<1>3. TypeOK
  BY BorrowAssumption DEF Init, TypeOK, Pcs, Views, Levels
<1>4. WriterAlone /\ PlacesOK /\ IntoSuperSucceeds
  BY DEF Init, WriterAlone, PlacesOK, IntoSuperSucceeds, Exclusive
<1>5. QED
  BY <1>2, <1>3, <1>4 DEF BorrowInv

\* The inductive invariant of the borrow checker.
THEOREM BorrowsAreConsistent == Spec => []BorrowInv
<1>1. BorrowInv /\ [Next]_vars => BorrowInv'
  <2> SUFFICES ASSUME BorrowInv, [Next]_vars PROVE BorrowInv'
    OBVIOUS
  <2>1. CASE Next
    BY <2>1, StepInv DEF Next
  <2>2. CASE UNCHANGED vars
    BY <2>2 DEF vars, BorrowInv, TypeOK, WriterAlone, PlacesOK, IntoSuperSucceeds,
       FlagExact, Holders, Twice, Writers, Shared, Exclusive, Checked
  <2>3. QED
    BY <2>1, <2>2
<1>2. QED
  BY <1>1, InitInv, PTL DEF Spec

\* Every variable keeps its type: in particular a guard is never for a class
\* outside the hierarchy and the counter stays within usize (impl_.rs:59).
THEOREM BorrowTypesAreRight == Spec => []TypeOK
BY BorrowsAreConsistent, PTL DEF BorrowInv

\* The flag counts the borrows exactly, so no borrow is lost and none stays
\* behind, whatever guards are raised to base classes (impl_.rs:59).
THEOREM FlagIsExact == Spec => []FlagExact
BY BorrowsAreConsistent, PTL DEF BorrowInv

\* into_super never panics (guard.rs:267, pycell.rs:386).
THEOREM IntoSuperNeverPanics == Spec => []IntoSuperSucceeds
BY BorrowsAreConsistent, PTL DEF BorrowInv

\* No contents are reachable through a mutable guard and another guard at
\* the same time, in any hierarchy of frozen and mutable classes.
THEOREM GuardsDoNotAlias == Spec => []NoAliasing
<1>1. BorrowInv => NoAliasing
  <2> SUFFICES ASSUME BorrowInv, NEW w \in Writers, NEW g \in Guards \ {w}
               PROVE  /\ ~Exclusive(g)
                      /\ Shared(g) => Writes(w) \cap Reads(g) = {}
    BY DEF NoAliasing
  <2>1. ~Exclusive(g) /\ ~(Shared(g) /\ Checked(level[g]))
    BY DEF BorrowInv, WriterAlone, Writers
  <2>2. ASSUME ~Checked(level[g]), NEW k \in Writes(w) PROVE k \notin Reads(g)
    <3>1. level[w] \in Nat /\ k \in 1..level[w] /\ ~frozen[k]
      BY BorrowAssumption DEF BorrowInv, TypeOK, Levels, Writes, Writers
    <3>2. QED
      BY <2>2, <3>1 DEF Checked, Reads
  <2>3. QED
    BY <2>1, <2>2
<1>2. QED
  BY <1>1, BorrowsAreConsistent, PTL

\* The compare-and-swap protocol implements shared-xor-mutable.
THEOREM ImplementsSharedXorMutable == Spec => SharedOrMutable
<1>1. Init => RW!Init
  BY DEF Init, RW!Init, Holders, Writers, Shared, SharedPcs, Exclusive
<1>2. BorrowInv /\ [Next]_vars => [RW!Next]_(RW!vars)
  <2> SUFFICES ASSUME BorrowInv, [Next]_vars PROVE [RW!Next]_(RW!vars)
    OBVIOUS
  <2>1. CASE Next
    BY <2>1, StepInv DEF Next
  <2>2. CASE UNCHANGED vars
    BY <2>2 DEF vars, RW!vars, Holders, Writers, Shared, Exclusive, Checked
  <2>3. QED
    BY <2>1, <2>2
<1>3. QED
  BY <1>1, <1>2, BorrowsAreConsistent, PTL DEF Spec, RW!Spec, SharedOrMutable

-------------------------------------------------------------------------------
(***************************************************************************)
(* The collector.                                                          *)
(***************************************************************************)
\* The attach count with n slots on the stack.
CountAt(o, n) == IF n = 0 THEN Attached ELSE IF o = "traverse" THEN Forbidden ELSE Attached + n

Frames == [level : Levels, saved : Int]

Places ==
  /\ op \in {"traverse", "clear"}
  /\ own \subseteq Levels
  /\ phase \in {"idle", "base", "own", "borrow", "aborted"}
  /\ stack \in Seq(Frames)
  /\ phase = "idle" <=> Len(stack) = 0

Saved ==
  /\ \A i \in 1..Len(stack) : stack[i].saved = CountAt(op, Len(stack) - i)
  /\ phase # "aborted" => attach = CountAt(op, Len(stack))

Nested == Places /\ Saved

-------------------------------------------------------------------------------
LEMMA Pushed ==
  ASSUME NEW S, NEW s \in Seq(S), NEW x \in S
  PROVE  /\ <<x>> \o s \in Seq(S) /\ Len(<<x>> \o s) = Len(s) + 1 /\ Len(s) \in Nat
         /\ (<<x>> \o s)[1] = x
         /\ \A i \in 1..Len(s) : (<<x>> \o s)[i + 1] = s[i]
OBVIOUS

LEMMA Popped ==
  ASSUME NEW S, NEW s \in Seq(S), Len(s) # 0
  PROVE  /\ Tail(s) \in Seq(S) /\ Len(Tail(s)) = Len(s) - 1 /\ Len(s) \in Nat \ {0}
         /\ \A i \in 1..Len(Tail(s)) : Tail(s)[i] = s[i+1]
         /\ Head(s) = s[1] /\ Head(s) \in S
OBVIOUS

\* A slot that is entered nests in those on the stack.
LEMMA Entered ==
  ASSUME Nested, NEW l \in Levels, Enter(op', l), op' \in {"traverse", "clear"},
         own' \subseteq Levels, stack = <<>> \/ op' = op, phase # "aborted"
  PROVE  Nested'
<1> DEFINE frame == [level |-> l, saved |-> attach]
<1>1. attach \in Int /\ frame \in Frames
  BY DEF Nested, Places, Saved, CountAt, Frames, Attached, Forbidden
<1>2. stack' = <<frame>> \o stack /\ stack \in Seq(Frames)
  BY DEF Enter, Nested, Places
<1> HIDE DEF frame
<1>3. /\ stack' \in Seq(Frames) /\ Len(stack') = Len(stack) + 1 /\ Len(stack) \in Nat
      /\ stack'[1] = frame
      /\ \A i \in 1..Len(stack) : stack'[i + 1] = stack[i]
  BY <1>1, <1>2, Pushed
<1>4. Places'
  BY <1>3 DEF Places, Enter
<1>5. ASSUME NEW n \in 0..Len(stack) PROVE n = 0 \/ CountAt(op', n) = CountAt(op, n)
  BY <1>3
<1>6. attach = CountAt(op, Len(stack)) /\ attach = CountAt(op', Len(stack))
  BY <1>3, <1>5 DEF CountAt, Nested, Saved
<1>7. attach' = CountAt(op', Len(stack'))
  BY <1>3, <1>6 DEF Enter, CountAt, Attached
<1>8. ASSUME NEW i \in 1..Len(stack') PROVE stack'[i].saved = CountAt(op', Len(stack') - i)
  <2>1. CASE i = 1
    <3>1. Len(stack') - i = Len(stack) /\ stack'[i].saved = attach
      BY <2>1, <1>3 DEF frame
    <3> QED  BY <3>1, <1>6
  <2>2. CASE i # 1
    <3>1. i - 1 \in 1..Len(stack) /\ (i - 1) + 1 = i
      BY <2>2, <1>3
    <3>2. stack'[i] = stack[i - 1]
      BY <3>1, <1>3
    <3>3. stack[i - 1].saved = CountAt(op, Len(stack) - (i - 1))
      BY <3>1 DEF Nested, Saved
    <3>4. Len(stack) - (i - 1) \in 0..Len(stack) /\ Len(stack') - i = Len(stack) - (i - 1)
      BY <3>1, <1>3
    <3>5. op' = op
      BY <3>1, <1>3
    <3> QED  BY <3>2, <3>3, <3>4, <3>5
  <2> QED  BY <2>1, <2>2
<1> QED  BY <1>4, <1>7, <1>8 DEF Nested, Saved

\* A slot that returns puts back the count of its caller.
LEMMA Returned ==
  ASSUME Nested, NEW r, Return(r), phase \in {"own", "borrow"}
  PROVE  Nested' /\ (phase' = "idle" => stack' = <<>> /\ attach' = Attached)
<1>1. /\ Tail(stack) \in Seq(Frames) /\ Len(Tail(stack)) = Len(stack) - 1
      /\ Len(stack) \in Nat \ {0}
      /\ \A i \in 1..Len(Tail(stack)) : Tail(stack)[i] = stack[i+1]
      /\ Head(stack) = stack[1]
  BY Popped DEF Nested, Places
<1>2. stack' = Tail(stack) /\ op' = op /\ phase' \in {"idle", "own"}
  BY DEF Return
<1>3. phase' = "idle" <=> Len(stack') = 0
  BY <1>1, <1>2 DEF Return
<1>4. Places'
  BY <1>1, <1>2, <1>3 DEF Return, Nested, Places
<1>5. Head(stack).saved = CountAt(op, Len(stack) - 1)
  BY <1>1 DEF Nested, Saved
<1>6. attach = CountAt(op, Len(stack))
  BY DEF Nested, Saved
<1>7. attach' = CountAt(op', Len(stack'))
  BY <1>1, <1>2, <1>5, <1>6 DEF Return, CountAt, Attached, Nested, Places
<1>8. ASSUME NEW i \in 1..Len(stack') PROVE stack'[i].saved = CountAt(op', Len(stack') - i)
  <2>1. i + 1 \in 1..Len(stack) /\ Len(stack') - i = Len(stack) - (i + 1)
    BY <1>1, <1>2
  <2>2. stack'[i] = stack[i + 1]
    BY <1>1, <1>2
  <2>3. stack[i + 1].saved = CountAt(op, Len(stack) - (i + 1))
    BY <2>1 DEF Nested, Saved
  <2> QED  BY <2>1, <2>2, <2>3, <1>2
<1>9. phase' = "idle" => stack' = <<>> /\ attach' = Attached
  BY <1>1, <1>2, <1>3, <1>7 DEF CountAt
<1> QED  BY <1>4, <1>7, <1>8, <1>9 DEF Nested, Saved

\* A step that leaves the stack and its counts alone.
LEMMA Kept ==
  ASSUME Nested, UNCHANGED <<op, own, stack, attach>>,
         phase # "idle", phase' \in {"base", "own", "borrow"}, phase # "aborted"
  PROVE  Nested'
BY DEF Nested, Places, Saved, CountAt

LEMMA NestedStep == Nested /\ [TraversalNext]_traversalVars => Nested'
<1> SUFFICES ASSUME Nested, [TraversalNext]_traversalVars PROVE Nested'
  OBVIOUS
<1>1. CASE Collect
  <2>1. PICK l \in own' : Enter(op', l)
    BY <1>1 DEF Collect
  <2>2. stack = <<>>
    BY <1>1 DEF Collect, Nested, Places
  <2> QED  BY <1>1, <2>1, <2>2, Entered DEF Collect
<1>2. CASE CallSuper
  <2>1. PICK l \in Bases : Enter(op, l)
    BY <1>2 DEF CallSuper
  <2>2. op' = op /\ own' = own /\ phase = "base" /\ l \in Levels
    BY <1>2, <2>1 DEF CallSuper, Bases, Nested, Places
  <2> QED  BY <2>1, <2>2, Entered DEF Nested, Places
<1>3. CASE CallNative  BY <1>3, Kept DEF CallNative
<1>4. CASE ClearFailed  BY <1>4, Returned DEF ClearFailed
<1>5. CASE TrapSprings
  BY <1>5 DEF TrapSprings, Nested, Places, Saved, CountAt
<1>6. CASE WrongThread
  <2>1. Return(0) \/ Return(-1)  BY <1>6 DEF WrongThread
  <2> QED  BY <1>6, <2>1, Returned DEF WrongThread
<1>7. CASE Borrow  BY <1>7, Kept DEF Borrow
<1>8. CASE NotBorrowed
  <2>1. Return(0) \/ Return(-1)  BY <1>8 DEF NotBorrowed
  <2> QED  BY <1>8, <2>1, Returned DEF NotBorrowed
<1>9. CASE NotBorrowedMut  BY <1>9, Returned DEF NotBorrowedMut
<1>10. ASSUME NEW r \in {0, 1, -1}, HandlerReturns(r) PROVE Nested'
  BY <1>10, Returned DEF HandlerReturns, InHandler
<1>11. CASE BorrowTurn \/ OthersStep \/ UNCHANGED traversalVars
  <2>1. UNCHANGED slotVars
    BY <1>11 DEF BorrowTurn, OthersStep, traversalVars
  <2> QED  BY <2>1 DEF slotVars, Nested, Places, Saved, CountAt
<1> QED
  BY <1>1, <1>2, <1>3, <1>4, <1>5, <1>6, <1>7, <1>8, <1>9, <1>10, <1>11 DEF TraversalNext

LEMMA NestedInit == TraversalInit => Nested
BY DEF TraversalInit, Nested, Places, Saved, CountAt

\* The calls of a hierarchy's slots nest, and each saves what its caller had.
THEOREM SlotsNest == TraversalSpec => []Nested
<1> QED  BY NestedInit, NestedStep, PTL DEF TraversalSpec

-------------------------------------------------------------------------------
\* The class at work is one of the hierarchy.
LEMMA HereIsALevel ==
  ASSUME Nested, phase # "idle"
  PROVE  Here \in Levels
<1>1. stack \in Seq(Frames) /\ Len(stack) # 0
  BY DEF Nested, Places
<1>2. Head(stack) \in Frames
  BY <1>1, Popped
<1> QED  BY <1>2 DEF Frames, Here

LEMMA BorrowNext == Nested /\ [TraversalNext]_traversalVars => [Next]_vars
<1> SUFFICES ASSUME Nested, [TraversalNext]_traversalVars PROVE [Next]_vars
  OBVIOUS
<1>1. CASE OthersStep  BY <1>1 DEF OthersStep, Next
<1>2. CASE Borrow
  BY <1>2, CollectorAssumption, HereIsALevel DEF Borrow, Next, Step
<1>3. CASE BorrowTurn  BY <1>3, CollectorAssumption DEF BorrowTurn, Next, Step
<1>4. CASE NotBorrowed  BY <1>4, CollectorAssumption DEF NotBorrowed, Next, Step
<1>5. ASSUME NEW r \in {0, 1, -1}, HandlerReturns(r) PROVE Next
  BY <1>5, CollectorAssumption DEF HandlerReturns, Next, Step
<1>6. CASE UNCHANGED vars  BY <1>6
<1>7. Collect \/ CallSuper \/ CallNative \/ ClearFailed \/ TrapSprings \/ WrongThread
        \/ NotBorrowedMut \/ UNCHANGED traversalVars => UNCHANGED vars
  BY DEF Collect, CallSuper, CallNative, ClearFailed, TrapSprings, WrongThread,
         NotBorrowedMut, traversalVars
<1> QED  BY <1>1, <1>2, <1>3, <1>4, <1>5, <1>6, <1>7 DEF TraversalNext

\* The guards behave as PyClassBorrow says although a collector is one of them.
THEOREM CollectorIsAGuard == TraversalSpec => Spec
<1>1. TraversalInit => Init  BY DEF TraversalInit
<1> QED  BY <1>1, BorrowNext, SlotsNest, PTL DEF TraversalSpec, Spec

\* So the flag is exact and no guard aliases a mutable one, the collector's included.
THEOREM CollectorKeepsTheFlag == TraversalSpec => [](FlagExact /\ NoAliasing)
<1> QED  BY CollectorIsAGuard, FlagIsExact, GuardsDoNotAlias, PTL

-------------------------------------------------------------------------------
\* The collector has no borrow but the one of the handler it runs.
OneBorrow ==
  /\ phase \in {"base", "own"} => pc[gc] = "none"
  /\ phase = "borrow" =>
       /\ OwnThread /\ level[gc] = Here
       /\ pc[gc] \in {"borrowing", "shared", "exclusive"}
       /\ op = "traverse" => pc[gc] # "exclusive"

\* Other guards do not touch the collector's.
LEMMA OthersKeep ==
  ASSUME TypeOK, NEW g \in Guards \ {gc}, Step(g)
  PROVE  pc'[gc] = pc[gc] /\ level'[gc] = level[gc]
BY CollectorAssumption
DEF TypeOK, Step, TryBorrow, TryBorrowMut, Increment, BorrowFails, Raised, Release, ReleaseMut,
    IntoSuper, IntoSuperMut, Map, MapReturns, MapPanics

\* What the collector does to its guard ends without one or goes on with it.
LEMMA OneBorrowStep ==
  TypeOK /\ Nested /\ OneBorrow /\ [TraversalNext]_traversalVars => OneBorrow'
<1> SUFFICES ASSUME TypeOK, Nested, OneBorrow, [TraversalNext]_traversalVars
             PROVE  OneBorrow'
  OBVIOUS
<1> USE CollectorAssumption
<1>1. ASSUME NEW r, Return(r), pc'[gc] = "none" PROVE OneBorrow'
  BY <1>1 DEF Return, OneBorrow
<1>2. CASE Collect
  <2>1. phase' = "base" /\ pc'[gc] = "none"
    BY <1>2 DEF Collect, Enter, vars
  <2> QED  BY <2>1 DEF OneBorrow
<1>3. CASE CallSuper
  BY <1>3 DEF CallSuper, Enter, OneBorrow, vars
<1>4. CASE CallNative
  BY <1>4 DEF CallNative, OneBorrow, vars
<1>5. CASE ClearFailed
  BY <1>5, <1>1 DEF ClearFailed, OneBorrow, vars
<1>6. CASE TrapSprings
  BY <1>6 DEF TrapSprings, OneBorrow
<1>7. CASE WrongThread
  <2>1. \E r : Return(r)  BY <1>7 DEF WrongThread
  <2> QED  BY <1>7, <2>1, <1>1 DEF WrongThread, OneBorrow, vars
<1>8. CASE Borrow
  <2>1. /\ level'[gc] = Here
        /\ pc'[gc] \in {"borrowing", "shared", "exclusive"}
        /\ op = "traverse" => pc'[gc] # "exclusive"
    BY <1>8 DEF Borrow, TryBorrow, TryBorrowMut, TypeOK
  <2>2. Here' = Here /\ OwnThread' /\ phase' = "borrow" /\ op' = op
    BY <1>8 DEF Borrow, Here, OwnThread
  <2> QED  BY <2>1, <2>2 DEF OneBorrow
<1>9. CASE BorrowTurn
  <2>1. level' = level /\ pc'[gc] \in {"borrowing", "shared"}
    BY <1>9 DEF BorrowTurn, Increment, TypeOK
  <2>2. Here' = Here /\ (OwnThread' <=> OwnThread) /\ phase = "borrow" /\ phase' = phase /\ op' = op
    BY <1>9 DEF BorrowTurn, slotVars, Here, OwnThread
  <2> QED  BY <2>1, <2>2 DEF OneBorrow
<1>10. CASE NotBorrowed
  <2>1. \E r : Return(r)  BY <1>10 DEF NotBorrowed
  <2>2. pc'[gc] = "none"  BY <1>10 DEF NotBorrowed, BorrowFails, TypeOK
  <2> QED  BY <2>1, <2>2, <1>1
<1>11. CASE NotBorrowedMut
  BY <1>11, <1>1 DEF NotBorrowedMut, OneBorrow, vars
<1>12. ASSUME NEW r \in {0, 1, -1}, HandlerReturns(r) PROVE OneBorrow'
  <2>1. pc'[gc] = "none"  BY <1>12 DEF HandlerReturns, Release, ReleaseMut, TypeOK
  <2> QED  BY <1>12, <2>1, <1>1 DEF HandlerReturns
<1>13. CASE OthersStep
  <2>1. Here' = Here /\ (OwnThread' <=> OwnThread) /\ phase' = phase /\ op' = op
    BY <1>13 DEF OthersStep, slotVars, Here, OwnThread
  <2>2. CASE phase = "idle"  BY <2>1, <2>2 DEF OneBorrow
  <2>3. CASE phase # "idle"
    <3>1. PICK g \in Guards : g # gc /\ Step(g)
      BY <1>13, <2>3 DEF OthersStep
    <3>2. pc'[gc] = pc[gc] /\ level'[gc] = level[gc]
      BY <3>1, OthersKeep
    <3> QED  BY <2>1, <3>2 DEF OneBorrow
  <2> QED  BY <2>2, <2>3
<1>14. CASE UNCHANGED traversalVars
  BY <1>14 DEF traversalVars, vars, slotVars, OneBorrow, OwnThread, Here
<1> QED
  BY <1>2, <1>3, <1>4, <1>5, <1>6, <1>7, <1>8, <1>9, <1>10, <1>11, <1>12, <1>13, <1>14
  DEF TraversalNext

LEMMA OneBorrowInit == TraversalInit => OneBorrow
BY DEF TraversalInit, OneBorrow

\* The collector's guard, for any hierarchy and any other guards.
THEOREM CollectorInvariant == TraversalSpec => [](TypeOK /\ Nested /\ OneBorrow)
<1>1. TraversalSpec => []TypeOK  BY CollectorIsAGuard, BorrowTypesAreRight, PTL
<1> QED  BY <1>1, SlotsNest, OneBorrowInit, OneBorrowStep, PTL DEF TraversalSpec

\* Handlers of __traverse__ run with attaching forbidden, all handlers on the right
\* thread and with the borrow of their class.
THEOREM HandlersAreConfined == TraversalSpec => []HandlerIsConfined
<1>1. Nested /\ OneBorrow => HandlerIsConfined
  BY DEF Nested, Places, Saved, CountAt, OneBorrow, HandlerIsConfined, InHandler
<1> QED  BY <1>1, CollectorInvariant, PTL

LEMMA LeavesNoTraceStep ==
  ASSUME TypeOK, Nested, OneBorrow, [TraversalNext]_traversalVars, phase # "idle", phase' = "idle"
  PROVE  pc'[gc] = "none" /\ stack' = <<>> /\ attach' = Attached
<1> USE CollectorAssumption
<1>1. CASE ClearFailed
  BY <1>1, Returned DEF ClearFailed, OneBorrow, vars
<1>2. CASE WrongThread
  <2>1. \E r : Return(r)  BY <1>2 DEF WrongThread
  <2> QED  BY <1>2, <2>1, Returned DEF WrongThread, OneBorrow, vars
<1>3. CASE NotBorrowed
  <2>1. \E r : Return(r)  BY <1>3 DEF NotBorrowed
  <2>2. pc'[gc] = "none"  BY <1>3 DEF NotBorrowed, BorrowFails, TypeOK
  <2> QED  BY <1>3, <2>1, <2>2, Returned DEF NotBorrowed
<1>4. CASE NotBorrowedMut
  BY <1>4, Returned DEF NotBorrowedMut, OneBorrow, vars
<1>5. ASSUME NEW r \in {0, 1, -1}, HandlerReturns(r)
      PROVE  pc'[gc] = "none" /\ stack' = <<>> /\ attach' = Attached
  <2>1. pc'[gc] = "none"  BY <1>5 DEF HandlerReturns, Release, ReleaseMut, TypeOK
  <2> QED  BY <1>5, <2>1, Returned DEF HandlerReturns, InHandler
<1>6. ~(Collect \/ CallSuper \/ CallNative \/ TrapSprings \/ Borrow \/ BorrowTurn
         \/ OthersStep \/ UNCHANGED traversalVars)
  BY DEF Collect, CallSuper, Enter, CallNative, TrapSprings, Borrow, BorrowTurn, OthersStep,
         slotVars, traversalVars
<1> QED  BY <1>1, <1>2, <1>3, <1>4, <1>5, <1>6 DEF TraversalNext

\* A collection leaves no borrow and the attach count it found.
THEOREM NoTraceIsLeft == TraversalSpec => CollectorLeavesNoTrace
<1>1. (TypeOK /\ Nested /\ OneBorrow) /\ [TraversalNext]_traversalVars
        => [phase # "idle" /\ phase' = "idle"
              => pc'[gc] = "none" /\ stack' = <<>> /\ attach' = Attached]_traversalVars
  BY LeavesNoTraceStep
<1> QED  BY <1>1, CollectorInvariant, PTL DEF TraversalSpec, CollectorLeavesNoTrace
-------------------------------------------------------------------------------
\* While a slot clears, there is no exception before its base has failed.
ExceptionExact ==
  /\ exc \in BOOLEAN
  /\ op = "clear" =>
       /\ phase \in {"base", "borrow"} => ret = 0 /\ ~exc
       /\ phase = "own" /\ exc => ret # 0
       /\ phase = "idle" => (exc <=> ret # 0)

\* A slot that clears returns what its exception says.
LEMMA ReturnedExact ==
  ASSUME Nested, ExceptionExact, NEW r \in {0, 1, -1}, Return(r),
         op = "clear" /\ r = 0 => ~exc
  PROVE  ExceptionExact'
<1>1. op' = op /\ phase' \in {"idle", "own"} /\ ret' = r
  BY DEF Return
<1>2. exc' = (exc \/ (op = "clear" /\ r # 0))
  BY DEF Return
<1>3. exc' \in BOOLEAN /\ (op = "clear" => (exc' <=> r # 0))
  BY <1>2 DEF ExceptionExact
<1> QED  BY <1>1, <1>3 DEF ExceptionExact

LEMMA ExceptionExactStep ==
  ASSUME Nested, ExceptionExact, [TraversalNext]_traversalVars
  PROVE  ExceptionExact'
<1>1. CASE Collect
  BY <1>1 DEF Collect, Enter, ExceptionExact
<1>2. CASE CallSuper
  BY <1>2 DEF CallSuper, Enter, ExceptionExact
<1>3. CASE CallNative
  <2>1. op' = op /\ phase' = "own"
    BY <1>3 DEF CallNative
  <2>2. exc' = FALSE \/ exc' = (op = "clear" /\ ret' = 1)
    BY <1>3, Zenon DEF CallNative
  <2>3. exc' \in BOOLEAN /\ (exc' => ret' = 1)
    BY <2>2
  <2> QED  BY <2>1, <2>3 DEF ExceptionExact
<1>4. CASE ClearFailed
  BY <1>4, ReturnedExact DEF ClearFailed
<1>5. CASE TrapSprings
  BY <1>5 DEF TrapSprings, ExceptionExact
<1>6. CASE WrongThread
  <2>1. PICK r \in {0, -1} : Return(r) /\ (op = "clear" => r = -1)
    BY <1>6 DEF WrongThread
  <2> QED  BY <2>1, ReturnedExact
<1>7. CASE Borrow
  BY <1>7 DEF Borrow, ExceptionExact
<1>8. CASE NotBorrowed
  <2>1. PICK r \in {0, -1} : Return(r) /\ (op = "clear" => r = -1)
    BY <1>8 DEF NotBorrowed
  <2> QED  BY <2>1, ReturnedExact
<1>9. CASE NotBorrowedMut
  BY <1>9, ReturnedExact DEF NotBorrowedMut
<1>10. ASSUME NEW r \in {0, 1, -1}, HandlerReturns(r) PROVE ExceptionExact'
  <2>1. Return(r) /\ phase = "borrow"
    BY <1>10 DEF HandlerReturns, InHandler
  <2> QED  BY <2>1, ReturnedExact DEF ExceptionExact
<1>11. CASE BorrowTurn \/ OthersStep \/ UNCHANGED traversalVars
  <2>1. UNCHANGED slotVars
    BY <1>11 DEF BorrowTurn, OthersStep, traversalVars
  <2> QED  BY <2>1 DEF slotVars, ExceptionExact
<1> QED
  BY <1>1, <1>2, <1>3, <1>4, <1>5, <1>6, <1>7, <1>8, <1>9, <1>10, <1>11 DEF TraversalNext

LEMMA ExceptionExactInit == TraversalInit => ExceptionExact
BY DEF TraversalInit, ExceptionExact

\* tp_clear fails exactly when it leaves an exception, for any hierarchy.
THEOREM ClearIsReported == TraversalSpec => []ClearReports
<1>1. ExceptionExact => ClearReports
  BY DEF ExceptionExact, ClearReports
<1>2. Nested /\ ExceptionExact /\ [TraversalNext]_traversalVars => ExceptionExact'
  BY ExceptionExactStep
<1> QED  BY <1>1, <1>2, ExceptionExactInit, SlotsNest, PTL DEF TraversalSpec
===============================================================================
