--------------------------- MODULE PyOnceLockProofs ---------------------------
(***************************************************************************)
(* Proofs about PyOnceLock, for any number of threads and cells and any    *)
(* nesting of initialisers.                                                *)
(***************************************************************************)
EXTENDS PyOnceLock, SequenceTheorems, TLAPS

(***************************************************************************)
(* Stacks of calls.  The calls below the newest are in their initialisers, *)
(* and cells are used in ascending order.                                  *)
(***************************************************************************)
In(s, c) == \E i \in 1..Len(s) : s[i].cell = c /\ s[i].at \in Inside

Newest(s) == s[Len(s)]

StackOK(s) ==
  /\ Ascending(s)
  /\ \A i \in 1..Len(s) - 1 : s[i].at = "body"

Below(s, d) == \A i \in 1..Len(s) : s[i].cell < d
Begun(s, d, p) == Append(s, [cell |-> d, at |-> p])
Moved(s, p) == [s EXCEPT ![Len(s)].at = p]
Ended(s) == SubSeq(s, 1, Len(s) - 1)

MayBeAttached(s) == s = <<>> \/ Newest(s).at \in {"body", "setting"}

(***************************************************************************)
(* The inductive invariant.  A cell whose initialiser runs has no value,   *)
(* which is what makes its end write a value for the first time.           *)
(***************************************************************************)
EmptyWhileRunning ==
  \A c \in Cells \ Mutexes : running[c] # Nobody => value[c] = Nobody

OnceInv == TypeOK /\ LockedByInitialiser /\ AttachedRuns /\ EmptyWhileRunning

-------------------------------------------------------------------------------
LEMMA CallFields ==
  ASSUME NEW c \in Call
  PROVE  c.cell \in Cells /\ c.cell \in Nat /\ c.at \in Places
PROOF
  BY OnceAssumption DEF Call

LEMMA StackElements ==
  ASSUME NEW s \in Seq(Call)
  PROVE  /\ Len(s) \in Nat
         /\ \A i \in 1..Len(s) : s[i] \in Call /\ s[i].cell \in Nat /\ s[i].cell \in Cells
         /\ s # <<>> => Len(s) \in 1..Len(s)
PROOF
  <1>1. Len(s) \in Nat /\ (\A i \in 1..Len(s) : s[i] \in Call)
        /\ (s # <<>> => Len(s) \in 1..Len(s))
    OBVIOUS
  <1> QED
    BY <1>1, CallFields

\* No two calls of a stack use the same cell, so the newest one speaks for its own.
LEMMA NewestIn ==
  ASSUME NEW s \in Seq(Call), s # <<>>, StackOK(s)
  PROVE  /\ In(s, Newest(s).cell) <=> Newest(s).at \in Inside
         /\ Newest(s) \in Call
         /\ \A i \in 1..Len(s) : i # Len(s) => s[i].cell # Newest(s).cell
PROOF
  <1> DEFINE n == Len(s)
  <1>1. n \in Nat /\ n \in 1..n /\ \A i \in 1..n : s[i] \in Call /\ s[i].cell \in Nat
    BY StackElements
  <1>2. \A i, j \in 1..n : i < j => s[i].cell < s[j].cell
    BY DEF StackOK, Ascending
  <1> HIDE DEF n
  <1>3. ASSUME NEW i \in 1..n, i # n
        PROVE  s[i].cell # s[n].cell
    <2>1. i < n
      BY <1>1, <1>3
    <2>2. s[i].cell < s[n].cell
      BY <1>1, <1>2, <2>1
    <2> QED
      BY <1>1, <2>2
  <1>4. In(s, s[n].cell) <=> s[n].at \in Inside
    BY <1>1, <1>3 DEF In, n
  <1> QED
    BY <1>1, <1>3, <1>4 DEF Newest, n

LEMMA MoveStack ==
  ASSUME NEW s \in Seq(Call), s # <<>>, StackOK(s), NEW p \in Places
  PROVE  /\ Moved(s, p) \in Seq(Call) /\ Moved(s, p) # <<>> /\ StackOK(Moved(s, p))
         /\ Newest(Moved(s, p)).at = p
         /\ \A c : In(Moved(s, p), c) <=>
                   IF c = Newest(s).cell THEN p \in Inside ELSE In(s, c)
PROOF
  <1> DEFINE n == Len(s)
             r == Moved(s, p)
  <1>1. n \in Nat /\ n \in 1..n /\ \A i \in 1..n : s[i] \in Call
    BY StackElements
  <1>2. s[n] \in [cell : Cells, at : Places]
    BY <1>1 DEF Call
  <1>3. [s[n] EXCEPT !.at = p] = [cell |-> s[n].cell, at |-> p]
    BY <1>2
  <1>4. [cell |-> s[n].cell, at |-> p] \in Call
    BY <1>2 DEF Call
  <1>5. r = [s EXCEPT ![n] = [cell |-> s[n].cell, at |-> p]]
    BY <1>3 DEF Moved
  <1> HIDE DEF r
  <1>6. r \in Seq(Call) /\ Len(r) = n
    BY <1>1, <1>4, <1>5
  <1>7. \A i \in 1..n : r[i] = IF i = n THEN [cell |-> s[n].cell, at |-> p] ELSE s[i]
    BY <1>1, <1>5
  <1>8. r # <<>>
    BY <1>1, <1>6
  <1>9. \A i \in 1..n : r[i].cell = s[i].cell /\ (i # n => r[i].at = s[i].at)
    BY <1>7
  <1>10. r[n].at = p
    BY <1>1, <1>7
  <1>11. StackOK(r)
    BY <1>1, <1>6, <1>9 DEF StackOK, Ascending
  <1>12. ASSUME NEW c
         PROVE  In(r, c) <=> IF c = s[n].cell THEN p \in Inside ELSE In(s, c)
    <2>1. \A i \in 1..n : i # n => s[i].cell # s[n].cell
      BY NewestIn DEF Newest
    <2>2. In(r, c) <=> \E i \in 1..n : s[i].cell = c /\ r[i].at \in Inside
      BY <1>6, <1>9 DEF In
    <2>3. CASE c = s[n].cell
      BY <1>1, <1>10, <2>1, <2>2, <2>3
    <2>4. CASE c # s[n].cell
      <3>1. \A i \in 1..n : s[i].cell = c => r[i].at = s[i].at
        BY <1>9, <2>4
      <3> QED
        BY <2>2, <2>4, <3>1 DEF In
    <2> QED
      BY <2>3, <2>4
  <1> QED
    BY <1>6, <1>8, <1>10, <1>11, <1>12 DEF Newest, r

\* A call is begun outside any other or in an initialiser, on a later cell.
LEMMA PushStack ==
  ASSUME NEW s \in Seq(Call), StackOK(s), s = <<>> \/ Newest(s).at = "body",
         NEW d \in Cells, Below(s, d), NEW p \in Places,
         NEW r, r = Begun(s, d, p)
  PROVE  /\ r \in Seq(Call) /\ r # <<>> /\ StackOK(r)
         /\ Newest(r).at = p
         /\ \A c : In(r, c) <=> In(s, c) \/ (c = d /\ p \in Inside)
PROOF
  <1> USE DEF Below, Begun
  <1> DEFINE n == Len(s)
             x == [cell |-> d, at |-> p]
  <1>0. x \in Call /\ x.cell = d /\ x.at = p
    BY DEF Call
  <1> HIDE DEF x
  <1>1. /\ n \in Nat /\ Len(r) = n + 1 /\ r # <<>>
        /\ r[n + 1] = x
        /\ \A i \in 1..n : r[i] = s[i]
        /\ s # <<>> <=> n # 0
        /\ r \in Seq(Call)
    BY <1>0 DEF x
  <1>2. \A i \in 1..n : s[i].at = "body"
    BY <1>1 DEF StackOK, Newest
  <1>a. \A i, j \in 1..n : i < j => s[i].cell < s[j].cell
    BY DEF StackOK, Ascending
  <1>b. ASSUME NEW i \in 1..n + 1, NEW j \in 1..n + 1, i < j
        PROVE  r[i].cell < r[j].cell
    <2>1. i \in 1..n /\ r[i] = s[i]
      BY <1>1, <1>b
    <2>2. CASE j = n + 1
      BY <1>0, <1>1, <2>1, <2>2
    <2>3. CASE j # n + 1
      BY <1>1, <1>a, <1>b, <2>1, <2>3
    <2> QED
      BY <2>2, <2>3
  <1>3. Ascending(r)
    BY <1>1, <1>b DEF Ascending
  <1>4. StackOK(r)
    BY <1>1, <1>2, <1>3 DEF StackOK
  <1>5. \A c : In(r, c) <=> In(s, c) \/ (c = d /\ p \in Inside)
    BY <1>0, <1>1 DEF In
  <1> QED
    BY <1>0, <1>1, <1>4, <1>5 DEF Newest

LEMMA PopStack ==
  ASSUME NEW s \in Seq(Call), s # <<>>, StackOK(s)
  PROVE  /\ Ended(s) \in Seq(Call) /\ StackOK(Ended(s))
         /\ Ended(s) # <<>> => Newest(Ended(s)).at = "body"
         /\ \A c : In(Ended(s), c) <=> In(s, c) /\ c # Newest(s).cell
PROOF
  <1> DEFINE n == Len(s) - 1
             r == Ended(s)
  <1>1. n \in Nat /\ n \in Int /\ 1 \in Int /\ Len(s) = n + 1 /\ \A i \in 1..n : s[i] \in Call
    OBVIOUS
  <1>2. r = SubSeq(s, 1, n)
    BY DEF Ended
  <1> HIDE DEF n, r
  <1>3. r \in Seq(Call) /\ Len(r) = IF 1 <= n THEN n - 1 + 1 ELSE 0
    BY <1>1, <1>2, SubSeqProperties
  <1>4. Len(r) = n /\ \A i \in 1..n : r[i] = s[i]
    BY <1>1, <1>2, <1>3, SubSeqProperties
  <1>5. \A i \in 1..n : s[i].at = "body"
    BY <1>1 DEF StackOK
  <1>6. StackOK(r)
    BY <1>1, <1>4, <1>5 DEF StackOK, Ascending
  <1>7. r # <<>> => Newest(r).at = "body"
    BY <1>1, <1>3, <1>4, <1>5 DEF Newest
  <1>8. \A i \in 1..n : s[i].cell # s[n + 1].cell
    <2>1. \A i \in 1..Len(s) : i # Len(s) => s[i].cell # s[Len(s)].cell
      BY NewestIn DEF Newest
    <2> QED
      BY <1>1, <2>1
  <1>9. \A c : In(r, c) <=> In(s, c) /\ c # s[n + 1].cell
    BY <1>1, <1>4, <1>8 DEF In
  <1> QED
    BY <1>1, <1>3, <1>6, <1>7, <1>9 DEF Newest, r

-------------------------------------------------------------------------------
\* What the invariant says of a thread's stack.
LEMMA ReadThread ==
  ASSUME OnceInv, NEW t \in Threads
  PROVE  /\ calls[t] \in Seq(Call) /\ StackOK(calls[t])
         /\ \A c \in Cells : running[c] = t <=> In(calls[t], c)
         /\ t \in attached => MayBeAttached(calls[t])
         /\ Top(t) = Newest(calls[t])
PROOF
  <1>1. calls[t] \in Seq(Call) /\ StackOK(calls[t])
    BY DEF OnceInv, TypeOK, StackOK
  <1>2. \A c \in Cells : running[c] = t <=> In(calls[t], c)
    BY DEF OnceInv, LockedByInitialiser, In
  <1>3. Top(t) = Newest(calls[t])
    BY DEF Top, Newest
  <1>4. t \in attached => MayBeAttached(calls[t])
    BY <1>3 DEF OnceInv, AttachedRuns, TopAt, MayBeAttached
  <1> QED
    BY <1>1, <1>2, <1>3, <1>4

\* A step of one thread, given what it does to its stack, its attachment and the locks.
LEMMA OneThread ==
  ASSUME OnceInv, NEW t \in Threads, NEW r \in Seq(Call), StackOK(r),
         calls' = [calls EXCEPT ![t] = r], freeThreaded' = freeThreaded,
         \/ attached' = attached \/ attached' = attached \ {t}
         \/ attached' = attached \cup {t} /\ CanAttach,
         t \in attached' => MayBeAttached(r),
         running' \in [Cells -> Threads \cup {Nobody}],
         \A c \in Cells : running'[c] = t <=> In(r, c),
         \A c \in Cells : \A u \in Threads \ {t} : running'[c] = u <=> running[c] = u,
         value' \in [Cells -> Threads \cup {Nobody}], poisoned' \subseteq Onces,
         failures' \in 0..MaxFailures, locked' \in 0..MaxLocks
  PROVE  TypeOK' /\ LockedByInitialiser' /\ AttachedRuns'
PROOF
  <1>1. /\ freeThreaded \in Builds /\ attached \subseteq Threads
        /\ ~freeThreaded => \A u, v \in attached : u = v
        /\ calls \in [Threads -> Seq(Call)]
    BY DEF OnceInv, TypeOK
  <1>2. calls' \in [Threads -> Seq(Call)] /\ calls'[t] = r
        /\ \A u \in Threads \ {t} : calls'[u] = calls[u]
    BY <1>1
  <1>3. \A u \in Threads : StackOK(calls'[u])
    BY <1>2, ReadThread
  <1>4. attached' \subseteq Threads
    BY <1>1
  <1>5. ~freeThreaded' => \A u, v \in attached' : u = v
    BY <1>1 DEF CanAttach
  <1>6. TypeOK'
    BY <1>1, <1>2, <1>3, <1>4, <1>5 DEF TypeOK, StackOK
  <1>7. \A u \in Threads : \A c \in Cells : running'[c] = u <=> In(calls'[u], c)
    BY <1>2, ReadThread
  <1>8. LockedByInitialiser'
    BY <1>7 DEF LockedByInitialiser, In
  <1>9. \A u \in attached' : MayBeAttached(calls'[u])
    <2> SUFFICES ASSUME NEW u \in attached' PROVE MayBeAttached(calls'[u])
      OBVIOUS
    <2>1. CASE u = t
      BY <1>2, <2>1
    <2>2. CASE u # t
      <3>1. u \in attached /\ u \in Threads
        BY <1>1, <2>2
      <3> QED
        BY <1>2, <2>2, <3>1, ReadThread
    <2> QED
      BY <2>1, <2>2
  <1>10. AttachedRuns'
    BY <1>9 DEF AttachedRuns, MayBeAttached, Newest, TopAt, Top
  <1> QED
    BY <1>6, <1>8, <1>10

-------------------------------------------------------------------------------
(* The actions.                                                            *)

\* What the newest call of a thread is, and the cell it locks.
LEMMA NewestCall ==
  ASSUME OnceInv, NEW t \in Threads, calls[t] # <<>>
  PROVE  /\ Top(t) \in Call /\ Top(t).cell \in Cells
         /\ Top(t).at \in Inside <=> running[Top(t).cell] = t
PROOF
  <1>1. calls[t] \in Seq(Call) /\ StackOK(calls[t]) /\ Top(t) = Newest(calls[t])
        /\ \A c \in Cells : running[c] = t <=> In(calls[t], c)
    BY ReadThread
  <1>2. Newest(calls[t]) \in Call
        /\ (In(calls[t], Newest(calls[t]).cell) <=> Newest(calls[t]).at \in Inside)
    BY <1>1, NewestIn
  <1>3. Newest(calls[t]).cell \in Cells
    BY <1>2, CallFields
  <1> QED
    BY <1>1, <1>2, <1>3

LEMMA Types ==
  ASSUME OnceInv
  PROVE  /\ value \in [Cells -> Threads \cup {Nobody}]
         /\ running \in [Cells -> Threads \cup {Nobody}]
         /\ poisoned \subseteq Onces /\ attached \subseteq Threads
         /\ failures \in 0..MaxFailures /\ locked \in 0..MaxLocks
         /\ calls \in [Threads -> Seq(Call)]
         /\ MaxFailures \in Nat /\ MaxLocks \in Nat /\ Nobody \notin Threads
PROOF
  BY OnceAssumption DEF OnceInv, TypeOK

\* The newest call of t goes on to p, which has the lock if the old place had.
LEMMA Moves ==
  ASSUME OnceInv, NEW t \in Threads, calls[t] # <<>>, NEW p \in Places,
         calls' = Move(t, p), p \in Inside <=> Top(t).at \in Inside,
         UNCHANGED <<freeThreaded, value, running, poisoned, failures, locked>>,
         \/ attached' = attached \/ attached' = attached \ {t}
         \/ attached' = attached \cup {t} /\ CanAttach,
         t \in attached' => p \in {"body", "setting"}
  PROVE  OnceInv'
PROOF
  <1> DEFINE r == Moved(calls[t], p)
  <1>1. calls[t] \in Seq(Call) /\ StackOK(calls[t]) /\ Top(t) = Newest(calls[t])
        /\ \A c \in Cells : running[c] = t <=> In(calls[t], c)
    BY ReadThread
  <1>2. calls' = [calls EXCEPT ![t] = r]
    BY DEF Move, Moved
  <1>3. /\ r \in Seq(Call) /\ StackOK(r) /\ r # <<>> /\ Newest(r).at = p
        /\ \A c : In(r, c) <=> IF c = Newest(calls[t]).cell THEN p \in Inside ELSE In(calls[t], c)
    BY <1>1, MoveStack
  <1> HIDE DEF r
  <1>4. In(calls[t], Newest(calls[t]).cell) <=> Newest(calls[t]).at \in Inside
    BY <1>1, NewestIn
  <1>5. \A c \in Cells : running'[c] = t <=> In(r, c)
    BY <1>1, <1>3, <1>4
  <1>6. TypeOK' /\ LockedByInitialiser' /\ AttachedRuns'
    BY <1>2, <1>3, <1>5, OneThread, Types DEF MayBeAttached
  <1> QED
    BY <1>6 DEF OnceInv, EmptyWhileRunning

\* t begins a call without getting a lock ...
LEMMA Pushes ==
  ASSUME OnceInv, NEW t \in Threads, NEW d \in Cells, HasToken(t), MayUse(t, d),
         NEW p \in Places, p \notin Inside, calls' = Push(t, d, p),
         UNCHANGED <<freeThreaded, value, running, poisoned, failures>>,
         locked' \in 0..MaxLocks,
         attached' = attached \/ attached' = attached \ {t},
         t \in attached' => p \in {"body", "setting"}
  PROVE  OnceInv'
PROOF
  <1> DEFINE r == Begun(calls[t], d, p)
  <1>1. calls[t] \in Seq(Call) /\ StackOK(calls[t]) /\ Top(t) = Newest(calls[t])
        /\ \A c \in Cells : running[c] = t <=> In(calls[t], c)
    BY ReadThread
  <1>2. calls' = [calls EXCEPT ![t] = r]
    BY DEF Push, Begun
  <1>3. calls[t] = <<>> \/ Newest(calls[t]).at = "body"
    BY <1>1 DEF HasToken, TopAt
  <1>4. /\ r \in Seq(Call) /\ StackOK(r) /\ r # <<>> /\ Newest(r).at = p
        /\ \A c : In(r, c) <=> In(calls[t], c) \/ (c = d /\ p \in Inside)
    <2>1. Below(calls[t], d)
      BY DEF MayUse, Below
    <2> QED
      BY <1>1, <1>3, <2>1, PushStack
  <1> HIDE DEF r
  <1>5. \A c \in Cells : running'[c] = t <=> In(r, c)
    BY <1>1, <1>4
  <1>6. TypeOK' /\ LockedByInitialiser' /\ AttachedRuns'
    BY <1>2, <1>4, <1>5, OneThread, Types DEF MayBeAttached
  <1> QED
    BY <1>6 DEF OnceInv, EmptyWhileRunning

\* ... and its newest call ends, which gives up the lock if it has it.
LEMMA Pops ==
  ASSUME OnceInv, NEW t \in Threads, calls[t] # <<>>, calls' = Pop(t),
         freeThreaded' = freeThreaded,
         running' \in [Cells -> Threads \cup {Nobody}],
         NEW d \in Cells, Top(t).cell = d,
         \/ running' = running /\ Top(t).at \notin Inside
         \/ running' = [running EXCEPT ![d] = Nobody] /\ Top(t).at \in Inside,
         \/ attached' = attached
         \/ attached' = attached \cup {t} /\ CanAttach,
         value' \in [Cells -> Threads \cup {Nobody}], poisoned' \subseteq Onces,
         failures' \in 0..MaxFailures, locked' = locked
  PROVE  TypeOK' /\ LockedByInitialiser' /\ AttachedRuns'
PROOF
  <1> DEFINE r == Ended(calls[t])
  <1>1. calls[t] \in Seq(Call) /\ StackOK(calls[t]) /\ Top(t) = Newest(calls[t])
        /\ \A c \in Cells : running[c] = t <=> In(calls[t], c)
    BY ReadThread
  <1>2. calls' = [calls EXCEPT ![t] = r]
    BY DEF Pop, Ended
  <1>3. /\ r \in Seq(Call) /\ StackOK(r) /\ MayBeAttached(r)
        /\ \A c : In(r, c) <=> In(calls[t], c) /\ c # Newest(calls[t]).cell
    <2>1. r \in Seq(Call) /\ StackOK(r) /\ (r # <<>> => Newest(r).at = "body")
          /\ \A c : In(r, c) <=> In(calls[t], c) /\ c # Newest(calls[t]).cell
      BY <1>1, PopStack
    <2> QED
      BY <2>1 DEF MayBeAttached
  <1> HIDE DEF r
  <1>4. Top(t).at \in Inside <=> running[d] = t
    BY NewestCall
  <1>a. /\ \A c \in Cells : c # d => running'[c] = running[c]
        /\ running'[d] # t
        /\ \A u \in Threads \ {t} : running'[d] # u \/ running'[d] = running[d]
    BY <1>4, Types
  <1>5. ASSUME NEW c \in Cells
        PROVE  running'[c] = t <=> In(r, c)
    <2>1. CASE c = d
      BY <1>1, <1>3, <1>a, <2>1
    <2>2. CASE c # d
      BY <1>1, <1>3, <1>a, <2>2
    <2> QED
      BY <2>1, <2>2
  <1>6. \A c \in Cells : \A u \in Threads \ {t} : running'[c] = u <=> running[c] = u
    BY <1>4, <1>a, Types
  <1> QED
    BY <1>2, <1>3, <1>5, <1>6, OneThread, Types

\* t gets the lock of a free cell with p, its newest call or a new one.
LEMMA Locks ==
  ASSUME OnceInv, NEW t \in Threads, NEW d \in Cells, running[d] = Nobody,
         running' = [running EXCEPT ![d] = t],
         NEW r \in Seq(Call), StackOK(r), calls' = [calls EXCEPT ![t] = r],
         \A c : In(r, c) <=> In(calls[t], c) \/ c = d,
         t \in attached => MayBeAttached(r),
         d \in Mutexes \/ value[d] = Nobody,
         UNCHANGED <<freeThreaded, attached, value, poisoned, failures>>,
         locked' \in 0..MaxLocks
  PROVE  OnceInv'
PROOF
  <1>1. \A c \in Cells : running[c] = t <=> In(calls[t], c)
    BY ReadThread
  <1>2. /\ running' \in [Cells -> Threads \cup {Nobody}]
        /\ \A c \in Cells : running'[c] = IF c = d THEN t ELSE running[c]
    BY Types
  <1>3. \A c \in Cells : running'[c] = t <=> In(r, c)
    BY <1>1, <1>2
  <1>4. \A c \in Cells : \A u \in Threads \ {t} : running'[c] = u <=> running[c] = u
    BY <1>2, Types
  <1>5. TypeOK' /\ LockedByInitialiser' /\ AttachedRuns'
    BY <1>2, <1>3, <1>4, OneThread, Types
  <1>6. EmptyWhileRunning'
    BY <1>2 DEF OnceInv, EmptyWhileRunning
  <1> QED
    BY <1>5, <1>6 DEF OnceInv

LEMMA NoCalls == <<>> \in Seq(Call) /\ Len(<<>>) = 0 /\ StackOK(<<>>)
PROOF
  <1>1. \A i \in 1..0 : FALSE
    OBVIOUS
  <1>2. \A i \in 1..0 - 1 : FALSE
    OBVIOUS
  <1> QED
    BY <1>1, <1>2 DEF StackOK, Ascending

LEMMA OnceInitial == Init => OnceInv
PROOF
  <1> SUFFICES ASSUME Init PROVE OnceInv
    OBVIOUS
  <1>a. calls = [t \in Threads |-> <<>>]
    BY DEF Init
  <1>1. \A t \in Threads : calls[t] = <<>>
    BY <1>a
  <1>2. \A t \in Threads : Len(calls[t]) = 0
    BY <1>1, NoCalls
  <1>3. calls \in [Threads -> Seq(Call)]
    BY <1>a, NoCalls
  <1>4. \A t \in Threads : StackOK(calls[t])
    BY <1>1, NoCalls
  <1>5. TypeOK
    BY <1>3, <1>4, OnceAssumption DEF Init, TypeOK, StackOK
  <1>6. LockedByInitialiser
    BY <1>2, OnceAssumption DEF Init, LockedByInitialiser
  <1>7. AttachedRuns /\ EmptyWhileRunning
    BY DEF Init, AttachedRuns, EmptyWhileRunning
  <1> QED
    BY <1>5, <1>6, <1>7 DEF OnceInv

\* Attaching and detaching outside any call.
LEMMA OutsideStep ==
  ASSUME OnceInv, NEW t \in Threads, Attach(t) \/ Detach(t)
  PROVE  OnceInv'
PROOF
  <1>1. calls[t] = <<>> /\ UNCHANGED <<freeThreaded, value, running, poisoned, calls, failures, locked>>
        /\ (attached' = attached \ {t} \/ (attached' = attached \cup {t} /\ CanAttach))
    BY DEF Attach, Detach
  <1>2. calls[t] \in Seq(Call) /\ StackOK(calls[t])
        /\ \A c \in Cells : running[c] = t <=> In(calls[t], c)
    BY ReadThread
  <1>3. calls' = [calls EXCEPT ![t] = calls[t]]
    BY <1>1, Types
  <1>4. MayBeAttached(calls[t])
    BY <1>1 DEF MayBeAttached
  <1>5. \A c \in Cells : running'[c] = t <=> In(calls[t], c)
    BY <1>1, <1>2
  <1>6. TypeOK' /\ LockedByInitialiser' /\ AttachedRuns'
    BY <1>1, <1>2, <1>3, <1>4, <1>5, OneThread, Types
  <1> QED
    BY <1>1, <1>6 DEF OnceInv, EmptyWhileRunning

\* The steps that only move a call on.
LEMMA MoveStep ==
  ASSUME OnceInv, NEW t \in Threads,
         AttachInside(t) \/ Yield(t) \/ Unyield(t) \/ (\E c \in Cells : Leave(t, c))
  PROVE  OnceInv'
PROOF
  <1> USE DEF Places, Inside, TopAt
  <1>1. CASE AttachInside(t) \/ Unyield(t)
    BY <1>1, Moves DEF AttachInside, Unyield
  <1>2. CASE Yield(t)
    BY <1>2, Moves, Types DEF Yield
  <1>3. ASSUME NEW c \in Cells, Leave(t, c)
        PROVE  OnceInv'
    <2>1. t \notin attached
      BY <1>3 DEF Leave, OnceInv, AttachedRuns
    <2> QED
      BY <1>3, <2>1, Moves DEF Leave
  <1> QED
    BY <1>1, <1>2, <1>3

\* The steps that begin a call and take no lock.
LEMMA PushStep ==
  ASSUME OnceInv, NEW t \in Threads, NEW c \in Cells,
         Enter(t, c) \/ LockBlocks(t, c) \/ SetWaits(t, c)
  PROVE  OnceInv'
PROOF
  <1> USE DEF Places, Inside
  <1>1. CASE Enter(t, c)
    BY <1>1, Pushes, Types DEF Enter
  <1>2. CASE LockBlocks(t, c)
    <2>1. locked' \in 0..MaxLocks
      BY <1>2, Types DEF LockBlocks
    <2> QED
      BY <1>2, <2>1, Pushes, Types DEF LockBlocks
  <1>3. CASE SetWaits(t, c)
    BY <1>3, Pushes, Types DEF SetWaits
  <1> QED
    BY <1>1, <1>2, <1>3

\* The cell lets a waiting caller in.
LEMMA BeginStep ==
  ASSUME OnceInv, NEW t \in Threads, NEW c \in Cells, Begin(t, c)
  PROVE  OnceInv'
PROOF
  <1> DEFINE s == calls[t]
             r == Moved(s, "entered")
  <1>1. s \in Seq(Call) /\ StackOK(s) /\ Top(t) = Newest(s) /\ s # <<>>
    BY ReadThread DEF Begin, TopAt
  <1>2. Newest(s).cell = c /\ Newest(s).at = "queued"
    BY <1>1 DEF Begin, TopAt
  <1>3. calls' = [calls EXCEPT ![t] = r]
    BY DEF Begin, Move, Moved
  <1>4. "entered" \in Places /\ "entered" \in Inside
    BY DEF Places, Inside
  <1>5. /\ r \in Seq(Call) /\ StackOK(r)
        /\ \A d : In(r, d) <=> IF d = Newest(s).cell THEN "entered" \in Inside ELSE In(s, d)
    BY <1>1, <1>4, MoveStack
  <1>6. t \notin attached
    BY <1>1, <1>2 DEF OnceInv, AttachedRuns, TopAt
  <1>7. \A d : In(r, d) <=> In(s, d) \/ d = c
    BY <1>2, <1>4, <1>5
  <1>8. locked' \in 0..MaxLocks
    BY Types DEF Begin
  <1> HIDE DEF r, s
  <1>9. \A d : In(r, d) <=> In(calls[t], d) \/ d = c
    BY <1>7 DEF s
  <1> QED
    BY <1>3, <1>5, <1>6, <1>8, <1>9, Locks DEF Begin

\* try_lock gets the Mutex.
LEMMA TryLockStep ==
  ASSUME OnceInv, NEW t \in Threads, NEW c \in Cells, TryLock(t, c)
  PROVE  OnceInv'
PROOF
  <1> DEFINE s == calls[t]
             r == Begun(s, c, "body")
  <1>1. s \in Seq(Call) /\ StackOK(s) /\ Top(t) = Newest(s)
    BY ReadThread
  <1>2. s = <<>> \/ Newest(s).at = "body"
    BY <1>1 DEF TryLock, HasToken, TopAt
  <1>3. Below(s, c)
    BY DEF TryLock, MayUse, Below
  <1>4. "body" \in Places /\ "body" \in Inside
    BY DEF Places, Inside
  <1>5. /\ r \in Seq(Call) /\ StackOK(r) /\ r # <<>> /\ Newest(r).at = "body"
        /\ \A d : In(r, d) <=> In(s, d) \/ (d = c /\ "body" \in Inside)
    BY <1>1, <1>2, <1>3, <1>4, PushStack
  <1>6. calls' = [calls EXCEPT ![t] = r]
    BY DEF TryLock, Push, Begun
  <1>7. locked' \in 0..MaxLocks
    BY Types DEF TryLock
  <1> HIDE DEF r
  <1>8. \A d : In(r, d) <=> In(calls[t], d) \/ d = c
    BY <1>4, <1>5
  <1>9. MayBeAttached(r)
    BY <1>5 DEF MayBeAttached
  <1> QED
    BY <1>5, <1>6, <1>7, <1>8, <1>9, Locks DEF TryLock

\* The steps that end a call.
LEMMA PopStep ==
  ASSUME OnceInv, NEW t \in Threads,
         \/ AttachOutside(t)
         \/ \E c \in Cells : Finish(t, c) \/ Fail(t, c) \/ Unlock(t, c) \/ SetReturns(t, c)
  PROVE  OnceInv'
PROOF
  <1>1. CASE AttachOutside(t)
    <2>a. /\ calls[t] # <<>> /\ Top(t).at \notin Inside /\ calls' = Pop(t)
          /\ attached' = attached \cup {t} /\ CanAttach
          /\ UNCHANGED <<freeThreaded, value, running, poisoned, failures, locked>>
      BY <1>1 DEF AttachOutside, TopAt, Inside
    <2>b. PICK d \in Cells : Top(t).cell = d
      BY <2>a, NewestCall
    <2>1. TypeOK' /\ LockedByInitialiser' /\ AttachedRuns'
      BY <2>a, <2>b, Pops, Types
    <2> QED
      BY <1>1, <2>1 DEF AttachOutside, OnceInv, EmptyWhileRunning
  <1>2. ASSUME NEW c \in Cells, Finish(t, c)
        PROVE  OnceInv'
    <2>1. /\ running' = [running EXCEPT ![c] = Nobody] /\ value' = [value EXCEPT ![c] = t]
          /\ calls[t] # <<>> /\ Top(t).cell = c /\ Top(t).at \in Inside /\ calls' = Pop(t)
          /\ UNCHANGED <<freeThreaded, attached, poisoned, failures, locked>>
      BY <1>2 DEF Finish, TopAt, Inside
    <2>2. /\ running' \in [Cells -> Threads \cup {Nobody}]
          /\ value' \in [Cells -> Threads \cup {Nobody}]
          /\ \A d \in Cells : running'[d] = IF d = c THEN Nobody ELSE running[d]
          /\ \A d \in Cells : value'[d] = IF d = c THEN t ELSE value[d]
      BY <2>1, Types
    <2>c. /\ value' \in [Cells -> Threads \cup {Nobody}] /\ poisoned' \subseteq Onces
          /\ failures' \in 0..MaxFailures /\ locked' = locked
          /\ running' \in [Cells -> Threads \cup {Nobody}]
          /\ attached' = attached /\ freeThreaded' = freeThreaded
      BY <2>1, <2>2, Types
    <2>d. /\ calls[t] # <<>> /\ calls' = Pop(t) /\ Top(t).cell = c
          /\ running' = [running EXCEPT ![c] = Nobody] /\ Top(t).at \in Inside
      BY <2>1
    <2>3. TypeOK' /\ LockedByInitialiser' /\ AttachedRuns'
      BY <2>c, <2>d, Pops
    <2>4. EmptyWhileRunning'
      BY <2>2 DEF OnceInv, EmptyWhileRunning
    <2> QED
      BY <2>3, <2>4 DEF OnceInv
  <1>3. ASSUME NEW c \in Cells, Fail(t, c) \/ Unlock(t, c)
        PROVE  OnceInv'
    <2>1. /\ running' = [running EXCEPT ![c] = Nobody]
          /\ calls[t] # <<>> /\ Top(t).cell = c /\ Top(t).at \in Inside /\ calls' = Pop(t)
          /\ UNCHANGED <<freeThreaded, attached, value, locked>>
      BY <1>3 DEF Fail, Unlock, TopAt, Inside
    <2>2. /\ running' \in [Cells -> Threads \cup {Nobody}]
          /\ \A d \in Cells : running'[d] = IF d = c THEN Nobody ELSE running[d]
      BY <2>1, Types
    <2>3. failures' \in 0..MaxFailures
      BY <1>3, Types DEF Fail, Unlock
    <2>4. poisoned' \subseteq Onces
      BY <1>3, Types DEF Fail, Unlock
    <2>c. /\ value' \in [Cells -> Threads \cup {Nobody}] /\ poisoned' \subseteq Onces
          /\ failures' \in 0..MaxFailures /\ locked' = locked
          /\ running' \in [Cells -> Threads \cup {Nobody}]
          /\ attached' = attached /\ freeThreaded' = freeThreaded
      BY <2>1, <2>2, <2>3, <2>4, Types
    <2>d. /\ calls[t] # <<>> /\ calls' = Pop(t) /\ Top(t).cell = c
          /\ running' = [running EXCEPT ![c] = Nobody] /\ Top(t).at \in Inside
      BY <2>1
    <2>5. TypeOK' /\ LockedByInitialiser' /\ AttachedRuns'
      BY <2>c, <2>d, Pops
    <2>6. EmptyWhileRunning'
      BY <2>1, <2>2 DEF OnceInv, EmptyWhileRunning
    <2> QED
      BY <2>5, <2>6 DEF OnceInv
  <1>4. ASSUME NEW c \in Cells, SetReturns(t, c)
        PROVE  OnceInv'
    <2>1. /\ running' = running /\ running[c] = Nobody
          /\ value' = [value EXCEPT ![c] = IF @ = Nobody THEN t ELSE @]
          /\ calls[t] # <<>> /\ Top(t).cell = c /\ Top(t).at \notin Inside /\ calls' = Pop(t)
          /\ UNCHANGED <<freeThreaded, attached, poisoned, failures, locked>>
      BY <1>4 DEF SetReturns, TopAt, Inside
    <2>2. /\ value' \in [Cells -> Threads \cup {Nobody}]
          /\ \A d \in Cells : d # c => value'[d] = value[d]
      BY <2>1, Types
    <2>c. /\ value' \in [Cells -> Threads \cup {Nobody}] /\ poisoned' \subseteq Onces
          /\ failures' \in 0..MaxFailures /\ locked' = locked
          /\ running' \in [Cells -> Threads \cup {Nobody}]
          /\ attached' = attached /\ freeThreaded' = freeThreaded
      BY <2>1, <2>2, Types
    <2>d. /\ calls[t] # <<>> /\ calls' = Pop(t) /\ Top(t).cell = c
          /\ running' = running /\ Top(t).at \notin Inside
      BY <2>1
    <2>3. TypeOK' /\ LockedByInitialiser' /\ AttachedRuns'
      BY <2>c, <2>d, Pops
    <2>4. EmptyWhileRunning'
      BY <2>1, <2>2 DEF OnceInv, EmptyWhileRunning
    <2> QED
      BY <2>3, <2>4 DEF OnceInv
  <1> QED
    BY <1>1, <1>2, <1>3, <1>4

LEMMA SetStep ==
  ASSUME OnceInv, NEW t \in Threads, NEW c \in Cells, Set(t, c)
  PROVE  OnceInv'
PROOF
  <1>1. /\ value' = [value EXCEPT ![c] = t] /\ running[c] = Nobody
        /\ UNCHANGED <<freeThreaded, attached, running, poisoned, calls, failures, locked>>
    BY DEF Set
  <1>2. /\ value' \in [Cells -> Threads \cup {Nobody}]
        /\ \A d \in Cells : d # c => value'[d] = value[d]
    BY <1>1, Types
  <1>3. TypeOK'
    BY <1>1, <1>2 DEF OnceInv, TypeOK
  <1>4. LockedByInitialiser' /\ AttachedRuns'
    BY <1>1 DEF OnceInv, LockedByInitialiser, AttachedRuns, TopAt, Top
  <1>5. EmptyWhileRunning'
    BY <1>1, <1>2 DEF OnceInv, EmptyWhileRunning
  <1> QED
    BY <1>3, <1>4, <1>5 DEF OnceInv

LEMMA OnceNext == OnceInv /\ [Next]_vars => OnceInv'
PROOF
  <1> SUFFICES ASSUME OnceInv, [Next]_vars PROVE OnceInv'
    OBVIOUS
  <1>1. CASE UNCHANGED vars
    BY <1>1 DEF vars, OnceInv, TypeOK, LockedByInitialiser, AttachedRuns, EmptyWhileRunning,
                TopAt, Top
  <1>2. CASE Next
    BY <1>2, OutsideStep, MoveStep, PushStep, BeginStep, TryLockStep, PopStep, SetStep DEF Next
  <1> QED
    BY <1>1, <1>2

THEOREM OnceInvariant == Spec => []OnceInv
PROOF
  BY OnceInitial, OnceNext, PTL DEF Spec

\* Types; one thread with the GIL at most; calls nest in the order of their cells.
THEOREM OnceTypesAreRight == Spec => []TypeOK
PROOF
  <1>1. OnceInv => TypeOK
    BY DEF OnceInv
  <1> QED
    BY <1>1, OnceInvariant, PTL

\* A cell is locked by exactly the thread that is in its initialiser.
THEOREM InitialisersHoldTheirCells == Spec => []LockedByInitialiser
PROOF
  <1>1. OnceInv => LockedByInitialiser
    BY DEF OnceInv
  <1> QED
    BY <1>1, OnceInvariant, PTL

\* Who waits for a cell or a Mutex has given up the interpreter, set excepted.
THEOREM WaitersAreDetached == Spec => []AttachedRuns
PROOF
  <1>1. OnceInv => AttachedRuns
    BY DEF OnceInv
  <1> QED
    BY <1>1, OnceInvariant, PTL

\* No value is ever replaced.
LEMMA ValuesStay ==
  OnceInv /\ [Next]_vars =>
    [\A c \in Cells : value[c] # Nobody => value'[c] = value[c]]_value
PROOF
  <1> SUFFICES ASSUME OnceInv, [Next]_vars, NEW d \in Cells, value[d] # Nobody
               PROVE  value'[d] = value[d]
    OBVIOUS
  <1>1. CASE value' = value
    BY <1>1
  <1>2. ASSUME NEW t \in Threads, NEW c \in Cells, Finish(t, c)
        PROVE  value'[d] = value[d]
    <2>1. calls[t] # <<>> /\ Top(t).cell = c /\ Top(t).at \in Inside /\ c \notin Mutexes
          /\ value' = [value EXCEPT ![c] = t]
      BY <1>2 DEF Finish, TopAt, Inside
    <2>2. running[c] = t
      BY <2>1, NewestCall
    <2>3. value[c] = Nobody
      BY <2>1, <2>2, Types DEF OnceInv, EmptyWhileRunning
    <2> QED
      BY <2>1, <2>3, Types
  <1>3. ASSUME NEW t \in Threads, NEW c \in Cells, Set(t, c) \/ SetReturns(t, c)
        PROVE  value'[d] = value[d]
    BY <1>3, Types DEF Set, SetReturns
  <1>4. CASE Next
    <2>1. \/ value' = value
          \/ \E t \in Threads : \E c \in Cells : Finish(t, c) \/ Set(t, c) \/ SetReturns(t, c)
      BY <1>4 DEF Next, Attach, Detach, AttachInside, Yield, Unyield, AttachOutside, Enter, Begin,
                  Leave, Fail, TryLock, LockBlocks, Unlock, SetWaits
    <2> QED
      BY <1>1, <1>2, <1>3, <2>1
  <1> QED
    BY <1>1, <1>4 DEF vars

THEOREM ValuesAreWrittenOnce == Spec => WriteOnce
PROOF
  BY ValuesStay, OnceInvariant, PTL DEF Spec, WriteOnce

-------------------------------------------------------------------------------
(***************************************************************************)
(* The cells implement InitOnce.  set is only called on the cells that     *)
(* have it, so that no Mutex is ever filled.                               *)
(***************************************************************************)
Settable == Cells \ (Onces \cup Mutexes)

SetsSettable(s) == s # <<>> /\ Newest(s).at = "setting" => Newest(s).cell \in Settable

KindsKept ==
  /\ \A c \in Mutexes : value[c] = Nobody
  /\ \A t \in Threads : SetsSettable(calls[t])

\* What the steps of t do to its stack.
Keeps(t) ==
  \/ calls' = calls
  \/ calls[t] # <<>> /\ calls' = Pop(t)
  \/ \E p \in Places \ {"setting"} : calls[t] # <<>> /\ calls' = Move(t, p)
  \/ \E c \in Cells : \E p \in Places :
       calls' = Push(t, c, p) /\ (p = "setting" => c \in Settable)

LEMMA SetsStep ==
  ASSUME OnceInv, KindsKept, NEW t \in Threads, Keeps(t)
  PROVE  \A u \in Threads : SetsSettable(calls'[u])
PROOF
  <1> DEFINE s == calls[t]
  <1>1. s \in Seq(Call) /\ StackOK(s)
    BY ReadThread
  <1>2. \A u \in Threads : SetsSettable(calls[u])
    BY DEF KindsKept
  <1>3. ASSUME NEW r, calls' = [calls EXCEPT ![t] = r], SetsSettable(r)
        PROVE  \A u \in Threads : SetsSettable(calls'[u])
    BY <1>2, <1>3, Types
  <1>4. ASSUME NEW p \in Places \ {"setting"}, s # <<>>, calls' = Move(t, p)
        PROVE  \A u \in Threads : SetsSettable(calls'[u])
    <2> DEFINE r == Moved(s, p)
    <2>1. calls' = [calls EXCEPT ![t] = r]
      BY <1>4 DEF Move, Moved
    <2>2. Newest(r).at = p
      BY <1>1, <1>4, MoveStack
    <2>3. SetsSettable(r)
      BY <2>2 DEF SetsSettable
    <2> QED
      BY <1>3, <2>1, <2>3
  <1>5. ASSUME NEW c \in Cells, NEW p \in Places, calls' = Push(t, c, p),
               p = "setting" => c \in Settable
        PROVE  \A u \in Threads : SetsSettable(calls'[u])
    <2> DEFINE r == Begun(s, c, p)
    <2>1. calls' = [calls EXCEPT ![t] = r]
      BY <1>5 DEF Push, Begun
    <2>2. Newest(r) = [cell |-> c, at |-> p]
      BY <1>1 DEF Begun, Newest, Call
    <2>3. SetsSettable(r)
      BY <1>5, <2>2 DEF SetsSettable
    <2> QED
      BY <1>3, <2>1, <2>3
  <1>6. ASSUME calls' = Pop(t), s # <<>>
        PROVE  \A u \in Threads : SetsSettable(calls'[u])
    <2>1. calls' = [calls EXCEPT ![t] = Ended(s)]
      BY <1>6 DEF Pop, Ended
    <2>2. SetsSettable(Ended(s))
      BY <1>1, <1>6, PopStack DEF SetsSettable
    <2> QED
      BY <1>3, <2>1, <2>2
  <1> QED
    BY <1>2, <1>4, <1>5, <1>6 DEF Keeps

LEMMA KindsStep == OnceInv /\ KindsKept /\ [Next]_vars => KindsKept'
PROOF
  <1> SUFFICES ASSUME OnceInv, KindsKept, [Next]_vars PROVE KindsKept'
    OBVIOUS
  <1>1. CASE UNCHANGED vars
    BY <1>1 DEF vars, KindsKept
  <1>2. ASSUME NEW t \in Threads,
               Attach(t) \/ Detach(t) \/ AttachInside(t) \/ Yield(t) \/ Unyield(t) \/ AttachOutside(t)
        PROVE  KindsKept'
    <2>1. value' = value /\ Keeps(t)
      BY <1>2 DEF Attach, Detach, AttachInside, Yield, Unyield, AttachOutside, TopAt, Places, Keeps
    <2>2. \A u \in Threads : SetsSettable(calls'[u])
      BY <2>1, SetsStep
    <2> QED
      BY <2>1, <2>2 DEF KindsKept
  <1>3. ASSUME NEW t \in Threads, NEW c \in Cells,
               \/ Enter(t, c) \/ Begin(t, c) \/ Leave(t, c) \/ Fail(t, c)
               \/ TryLock(t, c) \/ LockBlocks(t, c) \/ Unlock(t, c) \/ SetWaits(t, c)
        PROVE  KindsKept'
    <2>1. value' = value
      BY <1>3 DEF Enter, Begin, Leave, Fail, TryLock, LockBlocks, Unlock, SetWaits
    <2>2. Keeps(t)
      BY <1>3 DEF Enter, Begin, Leave, Fail, TryLock, LockBlocks, Unlock, SetWaits, TopAt,
                  Places, Settable, Keeps
    <2>3. \A u \in Threads : SetsSettable(calls'[u])
      BY <2>2, SetsStep
    <2> QED
      BY <2>1, <2>3 DEF KindsKept
  <1>4. ASSUME NEW t \in Threads, NEW c \in Cells, Finish(t, c) \/ Set(t, c) \/ SetReturns(t, c)
        PROVE  KindsKept'
    <2>1. Keeps(t)
      BY <1>4 DEF Finish, Set, SetReturns, TopAt, Keeps
    <2>2. \A u \in Threads : SetsSettable(calls'[u])
      BY <2>1, SetsStep
    <2>3. c \notin Mutexes
      <3>1. CASE SetReturns(t, c)
        <4>1. SetsSettable(calls[t]) /\ calls[t] # <<>> /\ Newest(calls[t]).at = "setting"
              /\ Newest(calls[t]).cell = c
          BY <3>1, ReadThread DEF KindsKept, SetReturns, TopAt
        <4> QED
          BY <4>1 DEF SetsSettable, Settable
      <3> QED
        BY <1>4, <3>1 DEF Finish, Set
    <2>4. \A d \in Cells : d # c => value'[d] = value[d]
      BY <1>4, Types DEF Finish, Set, SetReturns
    <2> QED
      BY <2>2, <2>3, <2>4, OnceAssumption DEF KindsKept
  <1> QED
    BY <1>1, <1>2, <1>3, <1>4 DEF Next

LEMMA KindsInitial == Init => KindsKept
PROOF
  BY OnceAssumption DEF Init, KindsKept, SetsSettable

\* Each step is a step of InitOnce or does not concern it.
LEMMA StepInitialises ==
  OnceInv /\ KindsKept /\ [Next]_vars => [Initialisation!Next]_(Initialisation!vars)
PROOF
  <1> SUFFICES ASSUME OnceInv, KindsKept, [Next]_vars
               PROVE  [Initialisation!Next]_(Initialisation!vars)
    OBVIOUS
  <1> USE DEF Initialisation!vars, Initialisation!Open, Initialisation!Fill
  <1>1. CASE UNCHANGED <<running, value, poisoned>>
    BY <1>1
  <1>2. ASSUME NEW t \in Threads, NEW c \in Cells, Begin(t, c) \/ TryLock(t, c)
        PROVE  Initialisation!LetIn(t, c)
    <2>1. value[c] = Nobody
      BY <1>2 DEF Begin, TryLock, KindsKept
    <2>2. c \notin poisoned
      BY <1>2, Types, OnceAssumption DEF Begin, TryLock
    <2> QED
      BY <1>2, <2>1, <2>2 DEF Begin, TryLock, Initialisation!LetIn
  <1>3. ASSUME NEW t \in Threads, NEW c \in Cells, Finish(t, c) \/ Fail(t, c) \/ Unlock(t, c)
        PROVE  running[c] = t
    <2>1. calls[t] # <<>> /\ Top(t).cell = c /\ Top(t).at \in Inside
      BY <1>3 DEF Finish, Fail, Unlock, TopAt, Inside
    <2> QED
      BY <2>1, NewestCall
  <1>4. ASSUME NEW t \in Threads, NEW c \in Cells, Finish(t, c)
        PROVE  Initialisation!Complete(t, c)
    <2>1. value[c] = Nobody
      BY <1>3, <1>4, Types DEF Finish, OnceInv, EmptyWhileRunning
    <2> QED
      BY <1>3, <1>4, <2>1 DEF Finish, Initialisation!Complete
  <1>5. ASSUME NEW t \in Threads, NEW c \in Cells, Fail(t, c)
        PROVE  Initialisation!GiveUp(t, c)
    BY <1>3, <1>5 DEF Fail, Initialisation!GiveUp
  <1>6. ASSUME NEW t \in Threads, NEW c \in Cells, Unlock(t, c)
        PROVE  Initialisation!GiveUp(t, c)
    <2>1. c \notin Onces
      BY <1>6, OnceAssumption DEF Unlock
    <2> QED
      BY <1>3, <1>6, <2>1 DEF Unlock, Initialisation!GiveUp
  <1>7. ASSUME NEW t \in Threads, NEW c \in Cells, Set(t, c)
        PROVE  Initialisation!Put(c)
    <2>1. c \notin poisoned
      BY <1>7, Types DEF Set
    <2> QED
      BY <1>7, <2>1 DEF Set, Initialisation!Put
  <1>8. ASSUME NEW t \in Threads, NEW c \in Cells, SetReturns(t, c)
        PROVE  Initialisation!Put(c) \/ UNCHANGED <<running, value, poisoned>>
    <2>1. CASE value[c] # Nobody
      BY <1>8, <2>1, Types DEF SetReturns
    <2>2. CASE value[c] = Nobody
      <3>1. SetsSettable(calls[t]) /\ calls[t] # <<>> /\ Newest(calls[t]).at = "setting"
            /\ Newest(calls[t]).cell = c
        BY <1>8, ReadThread DEF KindsKept, SetReturns, TopAt
      <3>2. c \in Settable /\ c \notin poisoned
        BY <3>1, Types DEF SetsSettable, Settable
      <3>3. value' = [value EXCEPT ![c] = t]
        BY <1>8, <2>2 DEF SetReturns
      <3> QED
        BY <1>8, <2>2, <3>2, <3>3 DEF SetReturns, Settable, Initialisation!Put
    <2> QED
      BY <2>1, <2>2
  <1>9. CASE Next
    <2>1. PICK t \in Threads :
            \/ UNCHANGED <<running, value, poisoned>>
            \/ \E c \in Cells :
                 \/ Begin(t, c) \/ TryLock(t, c) \/ Finish(t, c) \/ Fail(t, c) \/ Unlock(t, c)
                 \/ Set(t, c) \/ SetReturns(t, c)
      BY <1>9 DEF Next, Attach, Detach, AttachInside, Yield, Unyield, AttachOutside, Enter,
                  Leave, LockBlocks, SetWaits
    <2> QED
      BY <1>1, <1>2, <1>4, <1>5, <1>6, <1>7, <1>8, <2>1 DEF Initialisation!Next
  <1> QED
    BY <1>1, <1>9 DEF vars

\* Cells, Onces and Mutexes keep the promise of one-time initialisation.
THEOREM CellsAreInitialisedOnce == Spec => InitialisedOnce
PROOF
  <1>1. Spec => []KindsKept
    BY KindsInitial, KindsStep, OnceInvariant, PTL DEF Spec
  <1>2. Init => Initialisation!Init
    BY DEF Init, Initialisation!Init
  <1> QED
    BY <1>1, <1>2, StepInitialises, OnceInvariant, PTL
       DEF Spec, InitialisedOnce, Initialisation!Spec
===============================================================================
