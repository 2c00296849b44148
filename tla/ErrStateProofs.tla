--------------------------- MODULE ErrStateProofs ---------------------------
(***************************************************************************)
(* Proofs about ErrState, for any number of threads and errors and any     *)
(* nesting of closures.                                                    *)
(***************************************************************************)
EXTENDS ErrState, SequenceTheorems, TLAPS

(***************************************************************************)
(* Stacks of calls: the errors whose closures they are in, and what every  *)
(* stack is like: calls below the newest are in their closures, and no     *)
(* error is normalised twice.                                              *)
(***************************************************************************)
In(s, e) == \E i \in 1..Len(s) : s[i].err = e /\ s[i].at \in Inside

StackOK(s) ==
  /\ \A i \in 1..Len(s) : i # Len(s) => s[i].at = "body"
  /\ \A i, j \in 1..Len(s) :
       i # j /\ s[i].at \in Inside /\ s[j].at \in Inside => s[i].err # s[j].err

Newest(s) == s[Len(s)]

\* Whether e is normalised in s once the newest call has gone on to p.
MovedIn(s, p, e) ==
  IF e = Newest(s).err THEN p \in Inside \/ (In(s, e) /\ Newest(s).at \notin Inside)
                       ELSE In(s, e)

(***************************************************************************)
(* The inductive invariant.  That an error whose Once is new has no        *)
(* normalizer makes the closure find its mutex sound: only a thread that   *)
(* meets a normalizer poisons it.                                          *)
(***************************************************************************)
Untouched == \A e \in Errors : once[e] = "new" => normalizer[e] = Nobody

ErrInv ==
  /\ TypeOK
  /\ \A t \in Threads : StackOK(calls[t])
  /\ Untouched
  /\ ExpectsHold
  /\ RunsInNormalizer
  /\ NoSelfWait

-----------------------------------------------------------------------------
(* Stacks.                                                                 *)

Moved(s, p) == [s EXCEPT ![Len(s)].at = p]

LEMMA MoveStack ==
  ASSUME NEW s \in Seq(Call), s # <<>>, StackOK(s), NEW p \in Places,
         p \in Inside /\ Newest(s).at \notin Inside => ~In(s, Newest(s).err)
  PROVE  LET r == Moved(s, p)
         IN  /\ r \in Seq(Call) /\ r # <<>> /\ StackOK(r)
             /\ Newest(r) = [err |-> Newest(s).err, at |-> p]
             /\ \A e : In(r, e) <=> MovedIn(s, p, e)
<1> DEFINE n == Len(s)
           r == Moved(s, p)
<1>1. /\ n \in Nat \ {0} /\ n \in 1..n
      /\ \A i \in 1..n : s[i] \in Call
      /\ \A i \in 1..n : r[i] = IF i = n THEN [err |-> s[n].err, at |-> p] ELSE s[i]
      /\ r \in Seq(Call) /\ Len(r) = n /\ r # <<>>
  <2>1. n \in Nat \ {0} /\ n \in 1..n /\ \A i \in 1..n : s[i] \in Call
    OBVIOUS
  <2>2. s[n] \in [err : Errors, at : Places]
    BY <2>1 DEF Call
  <2>3. [s[n] EXCEPT !.at = p] = [err |-> s[n].err, at |-> p]
    BY <2>2
  <2>4. [err |-> s[n].err, at |-> p] \in Call
    BY <2>2 DEF Call
  <2>5. r = [s EXCEPT ![n] = [err |-> s[n].err, at |-> p]]
    BY <2>3 DEF Moved
  <2>6. r \in Seq(Call) /\ Len(r) = n
    BY <2>1, <2>4, <2>5
  <2>7. \A i \in 1..n : r[i] = IF i = n THEN [err |-> s[n].err, at |-> p] ELSE s[i]
    BY <2>1, <2>5
  <2>8. r # <<>>
    BY <2>1, <2>6
  <2>9. QED
    BY <2>1, <2>6, <2>7, <2>8
<1> HIDE DEF n, r
<1>2. /\ Len(r) = n /\ r[n].err = s[n].err /\ r[n].at = p
      /\ r[n] = [err |-> s[n].err, at |-> p]
      /\ \A i \in 1..n : r[i].err = s[i].err /\ (i # n => r[i].at = s[i].at)
  BY <1>1
<1>3. StackOK(s) /\ Len(s) = n /\ Newest(s) = s[n] /\ Newest(r) = r[n]
  BY <1>2 DEF Newest, n
<1>4. \A i \in 1..n : i # n => s[i].at = "body"
  BY <1>3 DEF StackOK
<1>5. \A i, j \in 1..n :
        i # j /\ s[i].at \in Inside /\ s[j].at \in Inside => s[i].err # s[j].err
  BY <1>3 DEF StackOK
<1>6. \A e : In(s, e) <=> \E i \in 1..n : s[i].err = e /\ s[i].at \in Inside
  BY <1>3 DEF In
<1>7. \A e : In(r, e) <=> \E i \in 1..n : s[i].err = e /\ r[i].at \in Inside
  BY <1>2 DEF In
<1>8. StackOK(r)
  <2>1. \A i \in 1..n : i # n => r[i].at = "body"
    BY <1>2, <1>4
  <2>2. ASSUME NEW i \in 1..n, NEW j \in 1..n, i # j, r[i].at \in Inside, r[j].at \in Inside
        PROVE  r[i].err # r[j].err
    <3>1. i # n /\ j # n => s[i].err # s[j].err
      BY <1>2, <1>5, <2>2
    <3>2. s[n].at \in Inside => s[i].err # s[j].err
      BY <1>2, <1>5, <2>2
    <3>3. s[n].at \notin Inside /\ i = n => s[i].err # s[j].err
      BY <1>2, <1>3, <1>6, <2>2
    <3>4. s[n].at \notin Inside /\ j = n => s[i].err # s[j].err
      BY <1>2, <1>3, <1>6, <2>2
    <3>5. QED
      BY <1>2, <3>1, <3>2, <3>3, <3>4
  <2>3. QED
    BY <1>2, <2>1, <2>2 DEF StackOK
<1>9. ASSUME NEW e
      PROVE  In(r, e) <=> IF e = s[n].err THEN p \in Inside \/ (In(s, e) /\ s[n].at \notin Inside)
                                          ELSE In(s, e)
  <2>1. CASE e # s[n].err
    <3>1. \A i \in 1..n : s[i].err = e => (r[i].at \in Inside <=> s[i].at \in Inside)
      BY <1>2, <2>1
    <3>2. In(r, e) <=> In(s, e)
      BY <1>6, <1>7, <3>1, Zenon
    <3>3. QED
      BY <2>1, <3>2, Zenon
  <2>2. CASE e = s[n].err /\ p \in Inside
    <3>1. n \in 1..n /\ s[n].err = e /\ r[n].at \in Inside
      BY <1>1, <1>2, <2>2
    <3>2. In(r, e)
      BY <1>7, <3>1, Zenon
    <3>3. QED
      BY <2>2, <3>2, Zenon
  <2>3. CASE e = s[n].err /\ p \notin Inside
    <3>0. \A i \in 1..n : r[i].at \in Inside <=> i # n /\ s[i].at \in Inside
      BY <1>2, <2>3
    <3>1. In(r, e) <=> \E i \in 1..n : i # n /\ s[i].err = e /\ s[i].at \in Inside
      BY <1>7, <3>0, Zenon
    <3>2. QED
      BY <1>1, <1>5, <1>6, <2>3, <3>1
  <2>4. QED
    BY <2>1, <2>2, <2>3
<1>10. QED
  BY <1>1, <1>2, <1>3, <1>8, <1>9 DEF MovedIn, r

\* A call is begun outside any other or in a closure.
LEMMA PushStack ==
  ASSUME NEW s \in Seq(Call), StackOK(s), s = <<>> \/ Newest(s).at = "body",
         NEW c \in Call, c.at = "check", NEW r, r = Append(s, c)
  PROVE  /\ r \in Seq(Call) /\ r # <<>> /\ StackOK(r)
         /\ Newest(r).at = "check"
         /\ \A e : In(r, e) <=> In(s, e)
<1> DEFINE n == Len(s)
<1>1. /\ n \in Nat /\ Len(r) = n + 1 /\ r # <<>>
      /\ r[n + 1] = c
      /\ \A i \in 1..n : r[i] = s[i]
      /\ s # <<>> <=> n # 0
      /\ r \in Seq(Call)
  OBVIOUS
<1>2. \A i \in 1..n : s[i].at = "body"
  BY <1>1 DEF StackOK, Newest
<1>3. r[n + 1].at \notin Inside
  BY <1>1 DEF Inside
<1>4. StackOK(r)
  BY <1>1, <1>2, <1>3 DEF StackOK
<1>5. \A e : In(r, e) <=> In(s, e)
  BY <1>1, <1>3 DEF In
<1>6. QED
  BY <1>1, <1>4, <1>5 DEF Newest

LEMMA PopStack ==
  ASSUME NEW s \in Seq(Call), s # <<>>, StackOK(s), Newest(s).at \notin Inside,
         NEW r, r = SubSeq(s, 1, Len(s) - 1)
  PROVE  /\ r \in Seq(Call) /\ StackOK(r)
         /\ r # <<>> => Newest(r).at = "body"
         /\ \A e : In(r, e) <=> In(s, e)
<1> DEFINE n == Len(s) - 1
<1>1. n \in Nat /\ n \in Int /\ 1 \in Int /\ Len(s) = n + 1 /\ \A i \in 1..n : s[i] \in Call
  OBVIOUS
<1> HIDE DEF n
<1>2. r = SubSeq(s, 1, n)
  BY DEF n
<1>3. r \in Seq(Call) /\ Len(r) = IF 1 <= n THEN n - 1 + 1 ELSE 0
  BY <1>1, <1>2, SubSeqProperties
<1>4. Len(r) = n /\ \A i \in 1..n : r[i] = s[i]
  BY <1>1, <1>2, <1>3, SubSeqProperties
<1>5. s[n + 1].at \notin Inside
  BY <1>1 DEF Newest
<1>6. \A i \in 1..n : s[i].at = "body"
  BY <1>1 DEF StackOK
<1>7. StackOK(r)
  BY <1>1, <1>4, <1>6 DEF StackOK
<1>8. \A e : In(r, e) <=> In(s, e)
  BY <1>1, <1>4, <1>5 DEF In
<1>9. r # <<>> => Newest(r).at = "body"
  BY <1>1, <1>3, <1>4, <1>6 DEF Newest
<1>10. QED
  BY <1>3, <1>7, <1>8, <1>9

LEMMA NewestIn ==
  ASSUME NEW s \in Seq(Call), s # <<>>, Newest(s).at \in Inside
  PROVE  In(s, Newest(s).err)
<1>1. Len(s) \in 1..Len(s)
  OBVIOUS
<1>2. QED
  BY <1>1 DEF In, Newest

-----------------------------------------------------------------------------
(* The invariant in terms of stacks.                                       *)

\* What the invariant says of one error and of one thread's stack.
ErrorOK(e) ==
  /\ once[e] = "new" => inner[e] = "lazy" /\ e \notin lockPoisoned /\ normalizer[e] = Nobody
  /\ once[e] = "done" => inner[e] = "normalized"

ThreadOK(t) ==
  /\ StackOK(calls[t])
  /\ \A e \in Errors : In(calls[t], e) <=> once[e] = "running" /\ normalizer[e] = t
  /\ calls[t] # <<>> =>
       /\ Newest(calls[t]).at = "queued" => ~In(calls[t], Newest(calls[t]).err) /\ t \notin attached
       /\ Newest(calls[t]).at = "leaving" /\ t \notin unwinding
            => once[Newest(calls[t]).err] = "done"

LEMMA Reading ==
  ErrInv <=> TypeOK /\ (\A e \in Errors : ErrorOK(e)) /\ (\A t \in Threads : ThreadOK(t))
<1>1. ASSUME TypeOK
      PROVE  /\ \A t \in Threads : \A e : Normalizes(t, e) <=> In(calls[t], e)
             /\ \A t \in Threads : Top(t) = Newest(calls[t])
             /\ \A t \in Threads : calls[t] # <<>> => Newest(calls[t]).err \in Errors
  <2>1. \A t \in Threads : \A e : Normalizes(t, e) <=> In(calls[t], e)
    BY DEF Normalizes, In
  <2>2. \A t \in Threads : calls[t] \in Seq(Call)
    BY <1>1 DEF TypeOK
  <2>3. \A t \in Threads : calls[t] # <<>> => calls[t][Len(calls[t])] \in Call
    BY <2>2
  <2>4. QED
    BY <2>1, <2>3 DEF Top, Newest, Call
<1>2. ASSUME TypeOK
      PROVE  Untouched /\ ExpectsHold /\ RunsInNormalizer /\ NoSelfWait
               /\ (\A t \in Threads : StackOK(calls[t]))
             <=> (\A e \in Errors : ErrorOK(e)) /\ (\A t \in Threads : ThreadOK(t))
  BY <1>1, <1>2 DEF Untouched, ExpectsHold, RunsInNormalizer, NoSelfWait, ErrorOK, ThreadOK,
                    TopAt
<1>3. QED
  BY <1>2 DEF ErrInv

LEMMA Reading1 ==
  TypeOK' /\ (\A e \in Errors : ErrorOK(e)') /\ (\A t \in Threads : ThreadOK(t)') => ErrInv'
<1>1. ASSUME TypeOK'
      PROVE  /\ \A t \in Threads : \A e : Normalizes(t, e)' <=> In(calls'[t], e)
             /\ \A t \in Threads : Top(t)' = Newest(calls'[t])
             /\ \A t \in Threads : calls'[t] # <<>> => Newest(calls'[t]).err \in Errors
  <2>1. \A t \in Threads : \A e : Normalizes(t, e)' <=> In(calls'[t], e)
    BY DEF Normalizes, In
  <2>2. \A t \in Threads : calls'[t] \in Seq(Call)
    BY <1>1 DEF TypeOK
  <2>3. \A t \in Threads : calls'[t] # <<>> => calls'[t][Len(calls'[t])] \in Call
    BY <2>2
  <2>4. QED
    BY <2>1, <2>3 DEF Top, Newest, Call
<1>2. ASSUME TypeOK', \A e \in Errors : ErrorOK(e)', \A t \in Threads : ThreadOK(t)'
      PROVE  Untouched' /\ ExpectsHold' /\ RunsInNormalizer' /\ NoSelfWait'
               /\ (\A t \in Threads : StackOK(calls'[t]))
  BY <1>1, <1>2 DEF Untouched, ExpectsHold, RunsInNormalizer, NoSelfWait, ErrorOK, ThreadOK,
                    TopAt
<1>3. QED
  BY <1>2 DEF ErrInv

-----------------------------------------------------------------------------
(* What the three changes of a thread's stack do.                          *)

LEMMA Stacks ==
  ASSUME TypeOK, NEW t \in Threads, NEW r \in Seq(Call), calls' = [calls EXCEPT ![t] = r]
  PROVE  /\ calls' \in [Threads -> Seq(Call)]
         /\ calls'[t] = r
         /\ \A u \in Threads : u # t => calls'[u] = calls[u]
BY DEF TypeOK

LEMMA Moves ==
  ASSUME TypeOK, NEW t \in Threads, ThreadOK(t), calls[t] # <<>>, NEW p \in Places,
         p \in Inside /\ Newest(calls[t]).at \notin Inside
           => ~In(calls[t], Newest(calls[t]).err),
         calls' = Move(t, p)
  PROVE  /\ calls' \in [Threads -> Seq(Call)]
         /\ \A u \in Threads : u # t => calls'[u] = calls[u]
         /\ calls'[t] # <<>> /\ StackOK(calls'[t])
         /\ Newest(calls'[t]) = [err |-> Newest(calls[t]).err, at |-> p]
         /\ Newest(calls[t]).err \in Errors
         /\ \A e : In(calls'[t], e) <=> MovedIn(calls[t], p, e)
<1> DEFINE s == calls[t]
           r == Moved(s, p)
<1>1. s \in Seq(Call) /\ s # <<>> /\ StackOK(s)
  BY DEF TypeOK, ThreadOK
<1>2. calls' = [calls EXCEPT ![t] = r]
  BY DEF Move, Moved
<1>3. Newest(s).err \in Errors
  <2>1. s[Len(s)] \in Call
    BY <1>1
  <2>2. QED
    BY <2>1 DEF Newest, Call
<1>4. p \in Inside /\ Newest(s).at \notin Inside => ~In(s, Newest(s).err)
  OBVIOUS
<1> HIDE DEF s
<1>6. /\ r \in Seq(Call) /\ r # <<>> /\ StackOK(r)
      /\ Newest(r) = [err |-> Newest(s).err, at |-> p]
      /\ \A e : In(r, e) <=> MovedIn(s, p, e)
  BY <1>1, <1>4, MoveStack
<1> HIDE DEF r
<1>7. /\ calls' \in [Threads -> Seq(Call)] /\ calls'[t] = r
      /\ \A u \in Threads : u # t => calls'[u] = calls[u]
  BY <1>2, <1>6, Stacks
<1>8. QED
  BY <1>3, <1>6, <1>7 DEF s

LEMMA Pushes ==
  ASSUME TypeOK, NEW t \in Threads, ThreadOK(t),
         calls[t] = <<>> \/ Newest(calls[t]).at = "body",
         NEW x \in Errors, calls' = [calls EXCEPT ![t] = Append(@, [err |-> x, at |-> "check"])]
  PROVE  /\ calls' \in [Threads -> Seq(Call)]
         /\ \A u \in Threads : u # t => calls'[u] = calls[u]
         /\ calls'[t] # <<>> /\ StackOK(calls'[t]) /\ Newest(calls'[t]).at = "check"
         /\ \A e : In(calls'[t], e) <=> In(calls[t], e)
<1> DEFINE s == calls[t]
           c == [err |-> x, at |-> "check"]
           r == Append(s, c)
<1>1. s \in Seq(Call) /\ StackOK(s) /\ (s = <<>> \/ Newest(s).at = "body")
  BY DEF TypeOK, ThreadOK
<1>2. calls' = [calls EXCEPT ![t] = r]
  OBVIOUS
<1>3. c \in Call /\ c.at = "check"
  BY DEF Call, Places
<1> HIDE DEF s, c
<1>4. r = Append(s, c)
  OBVIOUS
<1> HIDE DEF r
<1>5. /\ r \in Seq(Call) /\ r # <<>> /\ StackOK(r)
      /\ Newest(r).at = "check"
      /\ \A e : In(r, e) <=> In(s, e)
  BY <1>1, <1>3, <1>4, PushStack
<1>6. /\ calls' \in [Threads -> Seq(Call)] /\ calls'[t] = r
      /\ \A u \in Threads : u # t => calls'[u] = calls[u]
  BY <1>2, <1>5, Stacks
<1>7. QED
  BY <1>5, <1>6 DEF s

LEMMA Pops ==
  ASSUME TypeOK, NEW t \in Threads, ThreadOK(t), calls[t] # <<>>,
         Newest(calls[t]).at \notin Inside, calls' = Pop(t)
  PROVE  /\ calls' \in [Threads -> Seq(Call)]
         /\ \A u \in Threads : u # t => calls'[u] = calls[u]
         /\ StackOK(calls'[t])
         /\ calls'[t] # <<>> => Newest(calls'[t]).at = "body"
         /\ \A e : In(calls'[t], e) <=> In(calls[t], e)
<1> DEFINE s == calls[t]
           r == SubSeq(s, 1, Len(s) - 1)
<1>1. s \in Seq(Call) /\ s # <<>> /\ StackOK(s) /\ Newest(s).at \notin Inside
  BY DEF TypeOK, ThreadOK
<1>2. calls' = [calls EXCEPT ![t] = r]
  BY DEF Pop
<1> HIDE DEF s
<1>3. r = SubSeq(s, 1, Len(s) - 1)
  OBVIOUS
<1> HIDE DEF r
<1>4. /\ r \in Seq(Call) /\ StackOK(r)
      /\ r # <<>> => Newest(r).at = "body"
      /\ \A e : In(r, e) <=> In(s, e)
  BY <1>1, <1>3, PopStack
<1>5. /\ calls' \in [Threads -> Seq(Call)] /\ calls'[t] = r
      /\ \A u \in Threads : u # t => calls'[u] = calls[u]
  BY <1>2, <1>4, Stacks
<1>6. QED
  BY <1>4, <1>5 DEF s

\* A thread that takes no part in a step.
LEMMA Bystander ==
  ASSUME NEW u \in Threads, TypeOK, ThreadOK(u), calls'[u] = calls[u],
         u \in attached' => u \in attached \/ calls[u] = <<>>,
         u \in unwinding => u \in unwinding',
         \A e \in Errors : once'[e] = "running" /\ normalizer'[e] = u
                             <=> once[e] = "running" /\ normalizer[e] = u,
         \A e \in Errors : once[e] = "done" => once'[e] = "done"
  PROVE  ThreadOK(u)'
<1>1. calls[u] # <<>> => Newest(calls[u]).err \in Errors
  <2>1. calls[u] \in Seq(Call)
    BY DEF TypeOK
  <2>2. calls[u] # <<>> => calls[u][Len(calls[u])] \in Call
    BY <2>1
  <2>3. QED
    BY <2>2 DEF Newest, Call
<1>2. \A e \in Errors : In(calls'[u], e) <=> In(calls[u], e)
  OBVIOUS
<1>3. QED
  BY <1>1, <1>2 DEF ThreadOK

-----------------------------------------------------------------------------
(* Every step keeps the invariant.                                         *)

LEMMA AttachStep ==
  ASSUME ErrInv, NEW t \in Threads, Attach(t)
  PROVE  ErrInv'
<1>0. /\ TypeOK /\ (\A x \in Errors : ErrorOK(x)) /\ (\A u \in Threads : ThreadOK(u))
      /\ Top(t) = Newest(calls[t])
      /\ calls[t] # <<>> /\ Newest(calls[t]).at \in Inside => In(calls[t], Newest(calls[t]).err)
  BY Reading, NewestIn DEF Top, Newest, TypeOK
<1> USE DEF state
<1>1. calls' = calls /\ calls' \in [Threads -> Seq(Call)]
  BY <1>0 DEF Attach, TypeOK
<1>2. TypeOK'
  BY <1>0, <1>1 DEF Attach, TypeOK, CanAttach
<1>3. \A x \in Errors : ErrorOK(x)'
  BY <1>0, <1>1 DEF Attach, ErrorOK, ThreadOK, TopAt, TypeOK
<1>4. ThreadOK(t)'
  BY <1>0, <1>1 DEF Attach, ThreadOK, ErrorOK, TopAt, MovedIn, Inside, TypeOK, CanAttach
<1>5. \A u \in Threads : u # t => ThreadOK(u)'
  BY <1>0, <1>1, Bystander DEF Attach, TypeOK, ErrorOK, ThreadOK, TopAt, MovedIn, Inside
<1>6. QED
  BY <1>2, <1>3, <1>4, <1>5, Reading1

LEMMA DetachStep ==
  ASSUME ErrInv, NEW t \in Threads, Detach(t)
  PROVE  ErrInv'
<1>0. /\ TypeOK /\ (\A x \in Errors : ErrorOK(x)) /\ (\A u \in Threads : ThreadOK(u))
      /\ Top(t) = Newest(calls[t])
      /\ calls[t] # <<>> /\ Newest(calls[t]).at \in Inside => In(calls[t], Newest(calls[t]).err)
  BY Reading, NewestIn DEF Top, Newest, TypeOK
<1> USE DEF state
<1>1. calls' = calls /\ calls' \in [Threads -> Seq(Call)]
  BY <1>0 DEF Detach, TypeOK
<1>2. TypeOK'
  BY <1>0, <1>1 DEF Detach, TypeOK, CanAttach
<1>3. \A x \in Errors : ErrorOK(x)'
  BY <1>0, <1>1 DEF Detach, ErrorOK, ThreadOK, TopAt, TypeOK
<1>4. ThreadOK(t)'
  BY <1>0, <1>1 DEF Detach, ThreadOK, ErrorOK, TopAt, MovedIn, Inside, TypeOK, CanAttach
<1>5. \A u \in Threads : u # t => ThreadOK(u)'
  BY <1>0, <1>1, Bystander DEF Detach, TypeOK, ErrorOK, ThreadOK, TopAt, MovedIn, Inside
<1>6. QED
  BY <1>2, <1>3, <1>4, <1>5, Reading1

LEMMA PanicStep ==
  ASSUME ErrInv, NEW t \in Threads, Panic(t)
  PROVE  ErrInv'
<1>0. /\ TypeOK /\ (\A x \in Errors : ErrorOK(x)) /\ (\A u \in Threads : ThreadOK(u))
      /\ Top(t) = Newest(calls[t])
      /\ calls[t] # <<>> /\ Newest(calls[t]).at \in Inside => In(calls[t], Newest(calls[t]).err)
  BY Reading, NewestIn DEF Top, Newest, TypeOK
<1> USE DEF state
<1>1. calls' = calls /\ calls' \in [Threads -> Seq(Call)]
  BY <1>0 DEF Panic, TypeOK
<1>2. TypeOK'
  BY <1>0, <1>1 DEF Panic, TypeOK, CanAttach
<1>3. \A x \in Errors : ErrorOK(x)'
  BY <1>0, <1>1 DEF Panic, ErrorOK, ThreadOK, TopAt, TypeOK
<1>4. ThreadOK(t)'
  BY <1>0, <1>1 DEF Panic, ThreadOK, ErrorOK, TopAt, MovedIn, Inside, TypeOK, CanAttach
<1>5. \A u \in Threads : u # t => ThreadOK(u)'
  BY <1>0, <1>1, Bystander DEF Panic, TypeOK, ErrorOK, ThreadOK, TopAt, MovedIn, Inside
<1>6. QED
  BY <1>2, <1>3, <1>4, <1>5, Reading1

LEMMA CatchStep ==
  ASSUME ErrInv, NEW t \in Threads, Catch(t)
  PROVE  ErrInv'
<1>0. /\ TypeOK /\ (\A x \in Errors : ErrorOK(x)) /\ (\A u \in Threads : ThreadOK(u))
      /\ Top(t) = Newest(calls[t])
      /\ calls[t] # <<>> /\ Newest(calls[t]).at \in Inside => In(calls[t], Newest(calls[t]).err)
  BY Reading, NewestIn DEF Top, Newest, TypeOK
<1> USE DEF state
<1>1. calls' = calls /\ calls' \in [Threads -> Seq(Call)]
  BY <1>0 DEF Catch, TypeOK
<1>2. TypeOK'
  BY <1>0, <1>1 DEF Catch, TypeOK, CanAttach
<1>3. \A x \in Errors : ErrorOK(x)'
  BY <1>0, <1>1 DEF Catch, ErrorOK, ThreadOK, TopAt, TypeOK
<1>4. ThreadOK(t)'
  BY <1>0, <1>1 DEF Catch, ThreadOK, ErrorOK, TopAt, MovedIn, Inside, TypeOK, CanAttach
<1>5. \A u \in Threads : u # t => ThreadOK(u)'
  BY <1>0, <1>1, Bystander DEF Catch, TypeOK, ErrorOK, ThreadOK, TopAt, MovedIn, Inside
<1>6. QED
  BY <1>2, <1>3, <1>4, <1>5, Reading1

LEMMA LookStep ==
  ASSUME ErrInv, NEW t \in Threads, NEW e \in Errors, Look(t, e)
  PROVE  ErrInv'
<1>0. /\ TypeOK /\ (\A x \in Errors : ErrorOK(x)) /\ (\A u \in Threads : ThreadOK(u))
      /\ Top(t) = Newest(calls[t])
      /\ calls[t] # <<>> /\ Newest(calls[t]).at \in Inside => In(calls[t], Newest(calls[t]).err)
  BY Reading, NewestIn DEF Top, Newest, TypeOK
<1> USE DEF state
<1>1. /\ calls' \in [Threads -> Seq(Call)]
      /\ \A u \in Threads : u # t => calls'[u] = calls[u]
      /\ calls'[t] # <<>> /\ StackOK(calls'[t]) /\ Newest(calls'[t]).at = "check"
      /\ \A x : In(calls'[t], x) <=> In(calls[t], x)
  BY <1>0, Pushes DEF Look, Runs, TopAt
<1>2. TypeOK'
  BY <1>0, <1>1 DEF Look, TypeOK, CanAttach
<1>3. \A x \in Errors : ErrorOK(x)'
  BY <1>0, <1>1 DEF Look, ErrorOK, ThreadOK, TopAt, TypeOK
<1>4. ThreadOK(t)'
  BY <1>0, <1>1 DEF Look, ThreadOK, ErrorOK, TopAt, MovedIn, Inside, TypeOK, CanAttach
<1>5. \A u \in Threads : u # t => ThreadOK(u)'
  BY <1>0, <1>1, Bystander DEF Look, TypeOK, ErrorOK, ThreadOK, TopAt, MovedIn, Inside
<1>6. QED
  BY <1>2, <1>3, <1>4, <1>5, Reading1

LEMMA CheckStep ==
  ASSUME ErrInv, NEW t \in Threads, NEW e \in Errors, Check(t, e)
  PROVE  ErrInv'
<1>0. /\ TypeOK /\ (\A x \in Errors : ErrorOK(x)) /\ (\A u \in Threads : ThreadOK(u))
      /\ Top(t) = Newest(calls[t])
      /\ calls[t] # <<>> /\ Newest(calls[t]).at \in Inside => In(calls[t], Newest(calls[t]).err)
  BY Reading, NewestIn DEF Top, Newest, TypeOK
<1> USE DEF state
<1>1. /\ calls' \in [Threads -> Seq(Call)]
      /\ \A u \in Threads : u # t => calls'[u] = calls[u]
      /\ calls'[t] # <<>> /\ StackOK(calls'[t])
      /\ Newest(calls'[t]) = [err |-> Newest(calls[t]).err, at |-> "queued"]
      /\ Newest(calls[t]).err \in Errors
      /\ \A x : In(calls'[t], x) <=> MovedIn(calls[t], "queued", x)
  BY <1>0, Moves DEF Check, TopAt, Places, Inside, ThreadOK
<1>2. TypeOK'
  BY <1>0, <1>1 DEF Check, TypeOK, CanAttach
<1>3. \A x \in Errors : ErrorOK(x)'
  BY <1>0, <1>1 DEF Check, ErrorOK, ThreadOK, TopAt, TypeOK
<1>4. ThreadOK(t)'
  BY <1>0, <1>1 DEF Check, ThreadOK, ErrorOK, TopAt, MovedIn, Inside, TypeOK, CanAttach
<1>5. \A u \in Threads : u # t => ThreadOK(u)'
  BY <1>0, <1>1, Bystander DEF Check, TypeOK, ErrorOK, ThreadOK, TopAt, MovedIn, Inside
<1>6. QED
  BY <1>2, <1>3, <1>4, <1>5, Reading1

LEMMA CheckPanicsStep ==
  ASSUME ErrInv, NEW t \in Threads, NEW e \in Errors, CheckPanics(t, e)
  PROVE  ErrInv'
<1>0. /\ TypeOK /\ (\A x \in Errors : ErrorOK(x)) /\ (\A u \in Threads : ThreadOK(u))
      /\ Top(t) = Newest(calls[t])
      /\ calls[t] # <<>> /\ Newest(calls[t]).at \in Inside => In(calls[t], Newest(calls[t]).err)
  BY Reading, NewestIn DEF Top, Newest, TypeOK
<1> USE DEF state
<1>1. /\ calls' \in [Threads -> Seq(Call)]
      /\ \A u \in Threads : u # t => calls'[u] = calls[u]
      /\ StackOK(calls'[t])
      /\ calls'[t] # <<>> => Newest(calls'[t]).at = "body"
      /\ \A x : In(calls'[t], x) <=> In(calls[t], x)
  BY <1>0, Pops DEF CheckPanics, TopAt, Inside
<1>2. TypeOK'
  BY <1>0, <1>1 DEF CheckPanics, TypeOK, CanAttach
<1>3. \A x \in Errors : ErrorOK(x)'
  BY <1>0, <1>1, ErrAssumption DEF CheckPanics, ErrorOK, TypeOK
<1>4. ThreadOK(t)'
  BY <1>0, <1>1 DEF CheckPanics, ThreadOK, ErrorOK, TopAt, MovedIn, Inside, TypeOK, CanAttach
<1>5. \A u \in Threads : u # t => ThreadOK(u)'
  BY <1>0, <1>1, Bystander DEF CheckPanics, TypeOK, ErrorOK, ThreadOK, TopAt, MovedIn, Inside
<1>6. QED
  BY <1>2, <1>3, <1>4, <1>5, Reading1

LEMMA BeginStep ==
  ASSUME ErrInv, NEW t \in Threads, NEW e \in Errors, Begin(t, e)
  PROVE  ErrInv'
<1>0. /\ TypeOK /\ (\A x \in Errors : ErrorOK(x)) /\ (\A u \in Threads : ThreadOK(u))
      /\ Top(t) = Newest(calls[t])
      /\ calls[t] # <<>> /\ Newest(calls[t]).at \in Inside => In(calls[t], Newest(calls[t]).err)
  BY Reading, NewestIn DEF Top, Newest, TypeOK
<1> USE DEF state
<1>1. /\ calls' \in [Threads -> Seq(Call)]
      /\ \A u \in Threads : u # t => calls'[u] = calls[u]
      /\ calls'[t] # <<>> /\ StackOK(calls'[t])
      /\ Newest(calls'[t]) = [err |-> Newest(calls[t]).err, at |-> "taken"]
      /\ Newest(calls[t]).err \in Errors
      /\ \A x : In(calls'[t], x) <=> MovedIn(calls[t], "taken", x)
  BY <1>0, Moves DEF Begin, TopAt, Places, Inside, ThreadOK, NoSelfWait, Normalizes
<1>2. TypeOK'
  BY <1>0, <1>1 DEF Begin, TypeOK, CanAttach
<1>3. \A x \in Errors : ErrorOK(x)'
  BY <1>0, <1>1 DEF Begin, ErrorOK, ThreadOK, TopAt, TypeOK
<1>4. ThreadOK(t)'
  BY <1>0, <1>1 DEF Begin, ThreadOK, ErrorOK, TopAt, MovedIn, Inside, TypeOK, CanAttach
<1>5. \A u \in Threads : u # t => ThreadOK(u)'
  BY <1>0, <1>1, Bystander DEF Begin, TypeOK, ErrorOK, ThreadOK, TopAt, MovedIn, Inside
<1>6. QED
  BY <1>2, <1>3, <1>4, <1>5, Reading1

LEMMA AttachInsideStep ==
  ASSUME ErrInv, NEW t \in Threads, AttachInside(t)
  PROVE  ErrInv'
<1>0. /\ TypeOK /\ (\A x \in Errors : ErrorOK(x)) /\ (\A u \in Threads : ThreadOK(u))
      /\ Top(t) = Newest(calls[t])
      /\ calls[t] # <<>> /\ Newest(calls[t]).at \in Inside => In(calls[t], Newest(calls[t]).err)
  BY Reading, NewestIn DEF Top, Newest, TypeOK
<1> USE DEF state
<1>1. /\ calls' \in [Threads -> Seq(Call)]
      /\ \A u \in Threads : u # t => calls'[u] = calls[u]
      /\ calls'[t] # <<>> /\ StackOK(calls'[t])
      /\ Newest(calls'[t]) = [err |-> Newest(calls[t]).err, at |-> "body"]
      /\ Newest(calls[t]).err \in Errors
      /\ \A x : In(calls'[t], x) <=> MovedIn(calls[t], "body", x)
  BY <1>0, Moves DEF AttachInside, TopAt, Places, Inside, ThreadOK
<1>2. TypeOK'
  BY <1>0, <1>1 DEF AttachInside, TypeOK, CanAttach
<1>3. \A x \in Errors : ErrorOK(x)'
  BY <1>0, <1>1 DEF AttachInside, ErrorOK, ThreadOK, TopAt, TypeOK
<1>4. ThreadOK(t)'
  BY <1>0, <1>1 DEF AttachInside, ThreadOK, ErrorOK, TopAt, MovedIn, Inside, TypeOK, CanAttach
<1>5. \A u \in Threads : u # t => ThreadOK(u)'
  BY <1>0, <1>1, Bystander DEF AttachInside, TypeOK, ErrorOK, ThreadOK, TopAt, MovedIn, Inside
<1>6. QED
  BY <1>2, <1>3, <1>4, <1>5, Reading1

LEMMA YieldStep ==
  ASSUME ErrInv, NEW t \in Threads, Yield(t)
  PROVE  ErrInv'
<1>0. /\ TypeOK /\ (\A x \in Errors : ErrorOK(x)) /\ (\A u \in Threads : ThreadOK(u))
      /\ Top(t) = Newest(calls[t])
      /\ calls[t] # <<>> /\ Newest(calls[t]).at \in Inside => In(calls[t], Newest(calls[t]).err)
  BY Reading, NewestIn DEF Top, Newest, TypeOK
<1> USE DEF state
<1>1. /\ calls' \in [Threads -> Seq(Call)]
      /\ \A u \in Threads : u # t => calls'[u] = calls[u]
      /\ calls'[t] # <<>> /\ StackOK(calls'[t])
      /\ Newest(calls'[t]) = [err |-> Newest(calls[t]).err, at |-> "yielded"]
      /\ Newest(calls[t]).err \in Errors
      /\ \A x : In(calls'[t], x) <=> MovedIn(calls[t], "yielded", x)
  BY <1>0, Moves DEF Yield, TopAt, Places, Inside, ThreadOK
<1>2. TypeOK'
  BY <1>0, <1>1 DEF Yield, TypeOK, CanAttach
<1>3. \A x \in Errors : ErrorOK(x)'
  BY <1>0, <1>1 DEF Yield, ErrorOK, ThreadOK, TopAt, TypeOK
<1>4. ThreadOK(t)'
  BY <1>0, <1>1 DEF Yield, ThreadOK, ErrorOK, TopAt, MovedIn, Inside, TypeOK, CanAttach
<1>5. \A u \in Threads : u # t => ThreadOK(u)'
  BY <1>0, <1>1, Bystander DEF Yield, TypeOK, ErrorOK, ThreadOK, TopAt, MovedIn, Inside
<1>6. QED
  BY <1>2, <1>3, <1>4, <1>5, Reading1

LEMMA UnyieldStep ==
  ASSUME ErrInv, NEW t \in Threads, Unyield(t)
  PROVE  ErrInv'
<1>0. /\ TypeOK /\ (\A x \in Errors : ErrorOK(x)) /\ (\A u \in Threads : ThreadOK(u))
      /\ Top(t) = Newest(calls[t])
      /\ calls[t] # <<>> /\ Newest(calls[t]).at \in Inside => In(calls[t], Newest(calls[t]).err)
  BY Reading, NewestIn DEF Top, Newest, TypeOK
<1> USE DEF state
<1>1. /\ calls' \in [Threads -> Seq(Call)]
      /\ \A u \in Threads : u # t => calls'[u] = calls[u]
      /\ calls'[t] # <<>> /\ StackOK(calls'[t])
      /\ Newest(calls'[t]) = [err |-> Newest(calls[t]).err, at |-> "body"]
      /\ Newest(calls[t]).err \in Errors
      /\ \A x : In(calls'[t], x) <=> MovedIn(calls[t], "body", x)
  BY <1>0, Moves DEF Unyield, TopAt, Places, Inside, ThreadOK
<1>2. TypeOK'
  BY <1>0, <1>1 DEF Unyield, TypeOK, CanAttach
<1>3. \A x \in Errors : ErrorOK(x)'
  BY <1>0, <1>1 DEF Unyield, ErrorOK, ThreadOK, TopAt, TypeOK
<1>4. ThreadOK(t)'
  BY <1>0, <1>1 DEF Unyield, ThreadOK, ErrorOK, TopAt, MovedIn, Inside, TypeOK, CanAttach
<1>5. \A u \in Threads : u # t => ThreadOK(u)'
  BY <1>0, <1>1, Bystander DEF Unyield, TypeOK, ErrorOK, ThreadOK, TopAt, MovedIn, Inside
<1>6. QED
  BY <1>2, <1>3, <1>4, <1>5, Reading1

LEMMA FinishStep ==
  ASSUME ErrInv, NEW t \in Threads, NEW e \in Errors, Finish(t, e)
  PROVE  ErrInv'
<1>0. /\ TypeOK /\ (\A x \in Errors : ErrorOK(x)) /\ (\A u \in Threads : ThreadOK(u))
      /\ Top(t) = Newest(calls[t])
      /\ calls[t] # <<>> /\ Newest(calls[t]).at \in Inside => In(calls[t], Newest(calls[t]).err)
  BY Reading, NewestIn DEF Top, Newest, TypeOK
<1> USE DEF state
<1>1. /\ calls' \in [Threads -> Seq(Call)]
      /\ \A u \in Threads : u # t => calls'[u] = calls[u]
      /\ calls'[t] # <<>> /\ StackOK(calls'[t])
      /\ Newest(calls'[t]) = [err |-> Newest(calls[t]).err, at |-> "leaving"]
      /\ Newest(calls[t]).err \in Errors
      /\ \A x : In(calls'[t], x) <=> MovedIn(calls[t], "leaving", x)
  BY <1>0, Moves DEF Finish, TopAt, Places, Inside, ThreadOK
<1>2. TypeOK'
  BY <1>0, <1>1 DEF Finish, TypeOK, CanAttach
<1>3. \A x \in Errors : ErrorOK(x)'
  BY <1>0, <1>1 DEF Finish, ErrorOK, ThreadOK, TopAt, TypeOK
<1>4. ThreadOK(t)'
  BY <1>0, <1>1 DEF Finish, ThreadOK, ErrorOK, TopAt, MovedIn, Inside, TypeOK, CanAttach
<1>5. \A u \in Threads : u # t => ThreadOK(u)'
  BY <1>0, <1>1, Bystander DEF Finish, TypeOK, ErrorOK, ThreadOK, TopAt, MovedIn, Inside
<1>6. QED
  BY <1>2, <1>3, <1>4, <1>5, Reading1

LEMMA UnwindStep ==
  ASSUME ErrInv, NEW t \in Threads, NEW e \in Errors, Unwind(t, e)
  PROVE  ErrInv'
<1>0. /\ TypeOK /\ (\A x \in Errors : ErrorOK(x)) /\ (\A u \in Threads : ThreadOK(u))
      /\ Top(t) = Newest(calls[t])
      /\ calls[t] # <<>> /\ Newest(calls[t]).at \in Inside => In(calls[t], Newest(calls[t]).err)
  BY Reading, NewestIn DEF Top, Newest, TypeOK
<1> USE DEF state
<1>1. /\ calls' \in [Threads -> Seq(Call)]
      /\ \A u \in Threads : u # t => calls'[u] = calls[u]
      /\ calls'[t] # <<>> /\ StackOK(calls'[t])
      /\ Newest(calls'[t]) = [err |-> Newest(calls[t]).err, at |-> "leaving"]
      /\ Newest(calls[t]).err \in Errors
      /\ \A x : In(calls'[t], x) <=> MovedIn(calls[t], "leaving", x)
  BY <1>0, Moves DEF Unwind, TopAt, Places, Inside, ThreadOK
<1>2. TypeOK'
  BY <1>0, <1>1 DEF Unwind, TypeOK, CanAttach
<1>3. \A x \in Errors : ErrorOK(x)'
  BY <1>0, <1>1 DEF Unwind, ErrorOK, ThreadOK, TopAt, TypeOK
<1>4. ThreadOK(t)'
  BY <1>0, <1>1 DEF Unwind, ThreadOK, ErrorOK, TopAt, MovedIn, Inside, TypeOK, CanAttach
<1>5. \A u \in Threads : u # t => ThreadOK(u)'
  BY <1>0, <1>1, Bystander DEF Unwind, TypeOK, ErrorOK, ThreadOK, TopAt, MovedIn, Inside
<1>6. QED
  BY <1>2, <1>3, <1>4, <1>5, Reading1

LEMMA ReturnStep ==
  ASSUME ErrInv, NEW t \in Threads, NEW e \in Errors, Return(t, e)
  PROVE  ErrInv'
<1>0. /\ TypeOK /\ (\A x \in Errors : ErrorOK(x)) /\ (\A u \in Threads : ThreadOK(u))
      /\ Top(t) = Newest(calls[t])
      /\ calls[t] # <<>> /\ Newest(calls[t]).at \in Inside => In(calls[t], Newest(calls[t]).err)
  BY Reading, NewestIn DEF Top, Newest, TypeOK
<1> USE DEF state
<1>1. /\ calls' \in [Threads -> Seq(Call)]
      /\ \A u \in Threads : u # t => calls'[u] = calls[u]
      /\ calls'[t] # <<>> /\ StackOK(calls'[t])
      /\ Newest(calls'[t]) = [err |-> Newest(calls[t]).err, at |-> "leaving"]
      /\ Newest(calls[t]).err \in Errors
      /\ \A x : In(calls'[t], x) <=> MovedIn(calls[t], "leaving", x)
  BY <1>0, Moves DEF Return, TopAt, Places, Inside, ThreadOK
<1>2. TypeOK'
  BY <1>0, <1>1 DEF Return, TypeOK, CanAttach
<1>3. \A x \in Errors : ErrorOK(x)'
  BY <1>0, <1>1 DEF Return, ErrorOK, ThreadOK, TopAt, TypeOK
<1>4. ThreadOK(t)'
  BY <1>0, <1>1 DEF Return, ThreadOK, ErrorOK, TopAt, MovedIn, Inside, TypeOK, CanAttach
<1>5. \A u \in Threads : u # t => ThreadOK(u)'
  BY <1>0, <1>1, Bystander DEF Return, TypeOK, ErrorOK, ThreadOK, TopAt, MovedIn, Inside
<1>6. QED
  BY <1>2, <1>3, <1>4, <1>5, Reading1

LEMMA LeaveStep ==
  ASSUME ErrInv, NEW t \in Threads, Leave(t)
  PROVE  ErrInv'
<1>0. /\ TypeOK /\ (\A x \in Errors : ErrorOK(x)) /\ (\A u \in Threads : ThreadOK(u))
      /\ Top(t) = Newest(calls[t])
      /\ calls[t] # <<>> /\ Newest(calls[t]).at \in Inside => In(calls[t], Newest(calls[t]).err)
  BY Reading, NewestIn DEF Top, Newest, TypeOK
<1> USE DEF state
<1>1. /\ calls' \in [Threads -> Seq(Call)]
      /\ \A u \in Threads : u # t => calls'[u] = calls[u]
      /\ StackOK(calls'[t])
      /\ calls'[t] # <<>> => Newest(calls'[t]).at = "body"
      /\ \A x : In(calls'[t], x) <=> In(calls[t], x)
  BY <1>0, Pops DEF Leave, TopAt, Inside
<1>2. TypeOK'
  BY <1>0, <1>1 DEF Leave, TypeOK, CanAttach
<1>3. \A x \in Errors : ErrorOK(x)'
  BY <1>0, <1>1 DEF Leave, ErrorOK, ThreadOK, TopAt, TypeOK
<1>4. ThreadOK(t)'
  BY <1>0, <1>1 DEF Leave, ThreadOK, ErrorOK, TopAt, MovedIn, Inside, TypeOK, CanAttach
<1>5. \A u \in Threads : u # t => ThreadOK(u)'
  BY <1>0, <1>1, Bystander DEF Leave, TypeOK, ErrorOK, ThreadOK, TopAt, MovedIn, Inside
<1>6. QED
  BY <1>2, <1>3, <1>4, <1>5, Reading1

-----------------------------------------------------------------------------
LEMMA InitInv == Init => ErrInv
<1> SUFFICES ASSUME Init PROVE ErrInv
  OBVIOUS
<1>1. TypeOK
  <2>1. calls \in [Threads -> Seq(Call)]
    BY DEF Init
  <2>2. inner \in [Errors -> {"lazy", "normalized"}]
    BY DEF Init
  <2>3. once \in [Errors -> {"new", "running", "poisoned", "done"}]
    BY DEF Init
  <2>4. QED
    BY <2>1, <2>2, <2>3 DEF Init, TypeOK
<1>2. \A e \in Errors : ErrorOK(e)
  BY DEF Init, ErrorOK
<1>3. ASSUME NEW t \in Threads
      PROVE  ThreadOK(t)
  <2>1. calls[t] = <<>> /\ Len(calls[t]) = 0
    BY DEF Init
  <2>2. StackOK(calls[t]) /\ \A e : ~In(calls[t], e)
    BY <2>1 DEF StackOK, In
  <2>3. QED
    BY <2>1, <2>2 DEF Init, ThreadOK
<1>4. QED
  BY <1>1, <1>2, <1>3, Reading

LEMMA NextInv == ErrInv /\ [Next]_vars => ErrInv'
<1> SUFFICES ASSUME ErrInv, [Next]_vars PROVE ErrInv'
  OBVIOUS
<1>1. CASE UNCHANGED vars
  <2>1. TypeOK /\ (\A e \in Errors : ErrorOK(e)) /\ (\A t \in Threads : ThreadOK(t))
    BY Reading
  <2>2. TypeOK' /\ (\A e \in Errors : ErrorOK(e)') /\ (\A t \in Threads : ThreadOK(t)')
    BY <1>1, <2>1 DEF vars, TypeOK, ErrorOK, ThreadOK
  <2>3. QED
    BY <2>2, Reading1
<1>2. CASE Next
  BY <1>2, AttachStep, DetachStep, PanicStep, CatchStep, LookStep, CheckStep, CheckPanicsStep,
     BeginStep, AttachInsideStep, YieldStep, UnyieldStep, FinishStep, UnwindStep, ReturnStep,
     LeaveStep DEF Next
<1>3. QED
  BY <1>1, <1>2

\* The inductive invariant holds throughout.
THEOREM ErrorsAreConsistent == Spec => []ErrInv
BY InitInv, NextInv, PTL DEF Spec

\* Every variable stays in its type, and only one thread has the GIL.
THEOREM ErrorTypesAreRight == Spec => []TypeOK
<1>1. ErrInv => TypeOK
  BY DEF ErrInv
<1>2. QED
  BY <1>1, ErrorsAreConsistent, PTL

\* The closure always finds its mutex sound and something to take, and who sees
\* the Once completed finds the exception: neither expect of make_normalized
\* fails and neither unreachable! is reached.
THEOREM NormalizationExpects == Spec => []ExpectsHold
<1>1. ErrInv => ExpectsHold
  BY DEF ErrInv
<1>2. QED
  BY <1>1, ErrorsAreConsistent, PTL

\* The closure of an error runs in one thread, which is the one written down.
THEOREM OnceRunsInNormalizer == Spec => []RunsInNormalizer
<1>1. ErrInv => RunsInNormalizer
  BY DEF ErrInv
<1>2. QED
  BY <1>1, ErrorsAreConsistent, PTL

\* The guard against re-entrancy is exact enough: no thread enters a Once that
\* it is running itself, and none waits for one attached.
THEOREM NobodyWaitsForItself == Spec => []NoSelfWait
<1>1. ErrInv => NoSelfWait
  BY DEF ErrInv
<1>2. QED
  BY <1>1, ErrorsAreConsistent, PTL

\* Whose closure a thread runs, it normalises.
LEMMA InClosure ==
  ASSUME ErrInv, NEW t \in Threads, NEW e \in Errors, TopAt(t, "body"), Top(t).err = e
  PROVE  once[e] = "running" /\ normalizer[e] = t
<1>0. TypeOK /\ \A u \in Threads : ThreadOK(u)
  BY Reading
<1>1. calls[t] \in Seq(Call) /\ calls[t] # <<>> /\ Newest(calls[t]).at \in Inside
        /\ Newest(calls[t]).err = e
  BY <1>0 DEF TypeOK, TopAt, Top, Newest, Inside
<1>2. In(calls[t], e)
  BY <1>1, NewestIn
<1>3. QED
  BY <1>0, <1>2 DEF ThreadOK

\* The steps that concern the Once, the closure or what it left.
LEMMA OnceSteps ==
  ASSUME [Next]_vars
  PROVE  \/ UNCHANGED <<once, inner, normalizer>>
         \/ \E t \in Threads : \E e \in Errors : Begin(t, e) \/ Finish(t, e) \/ Unwind(t, e)
<1>1. ASSUME NEW t \in Threads,
             \/ Attach(t) \/ Detach(t) \/ Panic(t) \/ Catch(t)
             \/ AttachInside(t) \/ Yield(t) \/ Unyield(t) \/ Leave(t)
      PROVE  UNCHANGED <<once, inner, normalizer>>
  BY <1>1 DEF state, Attach, Detach, Panic, Catch, AttachInside, Yield, Unyield, Leave
<1>2. ASSUME NEW t \in Threads, NEW e \in Errors,
             Look(t, e) \/ Check(t, e) \/ CheckPanics(t, e) \/ Return(t, e)
      PROVE  UNCHANGED <<once, inner, normalizer>>
  BY <1>2 DEF state, Look, Check, CheckPanics, Return
<1>3. CASE UNCHANGED vars
  BY <1>3 DEF vars
<1>4. CASE Next
  BY <1>1, <1>2, <1>4, Zenon DEF Next
<1>5. QED
  BY <1>3, <1>4

\* What was normalised stays: references into it have been handed out.
LEMMA DoneIsForGood ==
  ErrInv /\ [Next]_vars =>
    [\A e \in Errors : once[e] = "done" => once'[e] = "done" /\ inner'[e] = inner[e]]_<<once, inner>>
<1> SUFFICES ASSUME ErrInv, [Next]_vars, NEW x \in Errors, once[x] = "done",
                    ~UNCHANGED <<once, inner>>
             PROVE  once'[x] = "done" /\ inner'[x] = inner[x]
  OBVIOUS
<1>0. TypeOK
  BY DEF ErrInv
<1>1. ASSUME NEW t \in Threads, NEW e \in Errors, TopAt(t, "body"), Top(t).err = e
      PROVE  e # x
  BY <1>1, InClosure
<1>2. ASSUME NEW t \in Threads, NEW e \in Errors, Begin(t, e)
      PROVE  once'[x] = "done" /\ inner'[x] = inner[x]
  BY <1>0, <1>2 DEF Begin, TypeOK
<1>3. ASSUME NEW t \in Threads, NEW e \in Errors, Finish(t, e)
      PROVE  once'[x] = "done" /\ inner'[x] = inner[x]
  BY <1>0, <1>1, <1>3 DEF Finish, TypeOK
<1>4. ASSUME NEW t \in Threads, NEW e \in Errors, Unwind(t, e)
      PROVE  once'[x] = "done" /\ inner'[x] = inner[x]
  BY <1>0, <1>1, <1>4 DEF Unwind, TypeOK
<1>5. QED
  BY <1>2, <1>3, <1>4, OnceSteps

\* Neither another thread nor a panic takes a normalised exception away.
THEOREM ExceptionIsForGood == Spec => NormalizedForGood
BY DoneIsForGood, ErrorsAreConsistent, PTL DEF Spec, NormalizedForGood

-----------------------------------------------------------------------------
(***************************************************************************)
(* Normalisation implements InitOnce.  An error whose closure was taken    *)
(* holds nothing until it is normalised, and for ever if it is not.        *)
(***************************************************************************)
TakenIsGone == \A e \in Errors : once[e] \in {"running", "poisoned"} => inner[e] = "none"

LEMMA TakenStep == ErrInv /\ TakenIsGone /\ [Next]_vars => TakenIsGone'
<1> SUFFICES ASSUME ErrInv, TakenIsGone, [Next]_vars PROVE TakenIsGone'
  OBVIOUS
<1>0. TypeOK
  BY DEF ErrInv
<1>1. CASE UNCHANGED <<once, inner>>
  BY <1>1 DEF TakenIsGone
<1>2. ASSUME NEW t \in Threads, NEW e \in Errors, Begin(t, e) \/ Finish(t, e)
      PROVE  TakenIsGone'
  BY <1>0, <1>2 DEF Begin, Finish, TakenIsGone, TypeOK
<1>3. ASSUME NEW t \in Threads, NEW e \in Errors, Unwind(t, e)
      PROVE  TakenIsGone'
  BY <1>0, <1>3, InClosure DEF Unwind, TakenIsGone, TypeOK
<1>4. QED
  BY <1>1, <1>2, <1>3, OnceSteps

LEMMA TakenInit == Init => TakenIsGone
BY DEF Init, TakenIsGone

\* Each step is a step of InitOnce or does not concern it.
LEMMA StepInitialises ==
  ErrInv /\ TakenIsGone /\ [Next]_vars => [Initialisation!Next]_(Initialisation!vars)
<1> SUFFICES ASSUME ErrInv, TakenIsGone, [Next]_vars
             PROVE  [Initialisation!Next]_(Initialisation!vars)
  OBVIOUS
<1> DEFINE poisoned == {e \in Errors : once[e] = "poisoned"}
<1>0. /\ once \in [Errors -> {"new", "running", "poisoned", "done"}]
      /\ normalizer \in [Errors -> Threads \cup {Nobody}]
      /\ inner \in [Errors -> {"lazy", "none", "normalized"}]
  BY DEF ErrInv, TypeOK
<1>1. CASE UNCHANGED <<once, inner, normalizer>>
  BY <1>1 DEF Initialisation!vars, Running, Exception
<1>2. ASSUME NEW t \in Threads, NEW e \in Errors, Begin(t, e)
      PROVE  Initialisation!LetIn(t, e)
  <2>1. /\ once[e] = "new" /\ once' = [once EXCEPT ![e] = "running"]
        /\ normalizer' = [normalizer EXCEPT ![e] = t] /\ inner' = [inner EXCEPT ![e] = "none"]
    BY <1>2 DEF Begin
  <2>2. inner[e] = "lazy"
    BY <2>1 DEF ErrInv, ExpectsHold
  <2>3. Running[e] = Nobody /\ Exception[e] = "none" /\ e \notin poisoned
    BY <2>1, <2>2 DEF Running, Exception
  <2>4. Running' = [Running EXCEPT ![e] = t]
    BY <1>0, <2>1 DEF Running
  <2>5. Exception' = Exception
    BY <1>0, <2>1, <2>2 DEF Exception
  <2>6. poisoned' = poisoned
    BY <1>0, <2>1
  <2>7. QED
    BY <2>3, <2>4, <2>5, <2>6 DEF Initialisation!LetIn, Initialisation!Open
<1>3. ASSUME NEW t \in Threads, NEW e \in Errors, Finish(t, e)
      PROVE  Initialisation!Complete(t, e)
  <2>1. /\ once' = [once EXCEPT ![e] = "done"] /\ normalizer' = normalizer
        /\ inner' = [inner EXCEPT ![e] = "normalized"]
    BY <1>3 DEF Finish
  <2>2. once[e] = "running" /\ normalizer[e] = t
    BY <1>3, InClosure DEF Finish
  <2>3. Running[e] = t /\ Exception[e] = "none"
    BY <2>2 DEF Running, Exception, TakenIsGone
  <2>4. Running' = [Running EXCEPT ![e] = Nobody]
    BY <1>0, <2>1 DEF Running
  <2>5. Exception' = [Exception EXCEPT ![e] = "normalized"]
    BY <1>0, <2>1 DEF Exception
  <2>6. poisoned' = poisoned
    BY <1>0, <2>1, <2>2
  <2>7. QED
    BY <2>3, <2>4, <2>5, <2>6 DEF Initialisation!Complete, Initialisation!Fill
<1>4. ASSUME NEW t \in Threads, NEW e \in Errors, Unwind(t, e)
      PROVE  Initialisation!GiveUp(t, e)
  <2>1. /\ once' = [once EXCEPT ![e] = "poisoned"] /\ UNCHANGED <<normalizer, inner>>
    BY <1>4 DEF Unwind
  <2>2. once[e] = "running" /\ normalizer[e] = t
    BY <1>4, InClosure DEF Unwind
  <2>3. Running[e] = t
    BY <2>2 DEF Running
  <2>4. Running' = [Running EXCEPT ![e] = Nobody]
    BY <1>0, <2>1 DEF Running
  <2>5. Exception' = Exception
    BY <2>1 DEF Exception
  <2>6. poisoned' = poisoned \cup {e}
    BY <1>0, <2>1
  <2>7. QED
    BY <2>3, <2>4, <2>5, <2>6 DEF Initialisation!GiveUp
<1>5. QED
  BY <1>1, <1>2, <1>3, <1>4, OnceSteps DEF Initialisation!Next

\* An error is normalised once, by one thread at a time, and for good; a panic
\* in its closure closes it.
THEOREM ErrorsAreNormalisedOnce == Spec => InitialisedOnce
<1>1. Spec => []TakenIsGone
  BY TakenInit, TakenStep, ErrorsAreConsistent, PTL DEF Spec
<1>2. Init => Initialisation!Init
  <2> SUFFICES ASSUME Init PROVE Initialisation!Init
    OBVIOUS
  <2>1. Running = [e \in Errors |-> Nobody]
    BY DEF Init, Running
  <2>2. Exception \in [Errors -> {"normalized"} \cup {"none"}]
    BY DEF Exception
  <2>3. {e \in Errors : once[e] = "poisoned"} = {}
    BY DEF Init
  <2>4. QED
    BY <2>1, <2>2, <2>3 DEF Initialisation!Init
<1>3. QED
  BY <1>1, <1>2, StepInitialises, ErrorsAreConsistent, PTL
     DEF Spec, InitialisedOnce, Initialisation!Spec
=============================================================================
