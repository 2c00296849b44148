--------------------------- MODULE AttachPoolProofs ---------------------------
(***************************************************************************)
(* Proofs about AttachPool, for any number of threads, handles and objects *)
(* and any nesting of guards.                                              *)
(***************************************************************************)
EXTENDS AttachPool, FiniteSetTheorems, SequenceTheorems, TLAPS

(***************************************************************************)
(* What a guard leaves the count at while it is the innermost one.         *)
(***************************************************************************)
CountUnder(f) ==
  CASE f.kind \in CountingKinds -> f.saved + 1
    [] f.kind = "suspend" -> 0
    [] f.kind = "forbid" -> Forbidden
    [] OTHER -> f.saved

(***************************************************************************)
(* A guard that may be at the bottom of a stack, and one that may stand    *)
(* directly on another.                                                    *)
(***************************************************************************)
BottomOK(f) == f.kind \in {"python", "ensured"} /\ f.saved = 0

StandsOn(f, g) ==
  /\ f.saved = CountUnder(g)
  /\ f.kind = "ensured" => g.kind = "suspend"
  /\ f.kind = "locked" => g.kind = "python"
  /\ f.kind # "ensured" => g.kind \in AttachedKinds
  /\ f.kind # "python"
  /\ f.kind \in {"suspend", "restored", "assumed"} => f.saved >= 0
  /\ f.kind \in {"suspend", "restored"} => f.saved > 0

\* Only a guard that attached has references to drop.
BatchOK(f) == f.kind \in {"python", "suspend", "forbid"} => f.batch = {}

StackOK(s) ==
  \A i \in 1..Len(s) :
    /\ BatchOK(s[i])
    /\ IF i = 1 THEN BottomOK(s[i]) ELSE StandsOn(s[i], s[i - 1])

\* What the thread's count and attachment are, given its innermost guard.
ThreadOK(t) ==
  CASE stack[t] = <<>> -> mode[t] = "run" /\ count[t] = 0 /\ t \notin attached
    [] mode[t] = "run" /\ stack[t] # <<>> ->
         /\ count[t] = CountUnder(Top(t))
         /\ t \in attached <=> Top(t).kind \in AttachedKinds
    [] mode[t] = "switched" /\ stack[t] # <<>> ->
         /\ count[t] = CountUnder(Top(t))
         /\ t \notin attached /\ Top(t).kind \in AttachedKinds \ {"forbid"}
         /\ Top(t).batch = {}
    [] mode[t] = "restoring" /\ stack[t] # <<>> ->
         /\ Top(t).kind = "suspend" /\ count[t] = Top(t).saved
         /\ t \notin attached /\ Top(t).batch = {}
    [] mode[t] = "released" /\ stack[t] # <<>> ->
         /\ Top(t).kind = "ensured" /\ count[t] = 1
         /\ t \notin attached /\ Top(t).batch = {}
    [] OTHER -> FALSE


GuardInv == \A t \in Threads : StackOK(stack[t]) /\ ThreadOK(t)

\* Types, with reference counts only known to be integers: that they are
\* never negative takes RefcountExact.
TypeInv ==
  /\ attached \in SUBSET Threads
  /\ count \in [Threads -> Int]
  /\ stack \in [Threads -> Seq(Frame)]
  /\ mode \in [Threads -> Modes]
  /\ owned \in [Threads -> SUBSET Handles]
  /\ pool \in SUBSET Handles
  /\ target \in [Handles -> Objects]
  /\ refcnt \in [Objects -> Int]

-------------------------------------------------------------------------------
(***************************************************************************)
(* Stacks of guards.                                                       *)
(***************************************************************************)

\* A guard pushed on a stack is its last element, above what was there.
LEMMA PushGuard ==
  ASSUME NEW s \in Seq(Frame), NEW f \in Frame
  PROVE  /\ Append(s, f) \in Seq(Frame)
         /\ Append(s, f) # <<>>
         /\ Len(Append(s, f)) = Len(s) + 1
         /\ Append(s, f)[Len(Append(s, f))] = f
         /\ \A i \in 1..Len(s) : Append(s, f)[i] = s[i]
OBVIOUS

LEMMA OneOrMore == ASSUME NEW n \in Nat \ {0} PROVE n = 1 \/ n > 1
OBVIOUS

\* A sequence without its last element.
LEMMA AllButLast ==
  ASSUME NEW S, NEW s \in Seq(S), s # <<>>, NEW n, n = Len(s) - 1
  PROVE  /\ n \in Nat
         /\ SubSeq(s, 1, n) \in Seq(S)
         /\ Len(SubSeq(s, 1, n)) = n
         /\ \A i \in 1..n : SubSeq(s, 1, n)[i] = s[i]
<1>1. n \in Nat /\ n \in Int /\ 1 \in Int /\ \A i \in 1..n : s[i] \in S
  OBVIOUS
<1>2. SubSeq(s, 1, n) \in Seq(S)
  BY <1>1, SubSeqProperties
<1>3. Len(SubSeq(s, 1, n)) = IF 1 <= n THEN n - 1 + 1 ELSE 0
  BY <1>1, SubSeqProperties
<1>4. QED
  BY <1>1, <1>2, <1>3

\* Dropping the last guard leaves the others as they were.
LEMMA PopGuard ==
  ASSUME NEW s \in Seq(Frame), s # <<>>
  PROVE  LET r == SubSeq(s, 1, Len(s) - 1) IN
         /\ r \in Seq(Frame)
         /\ Len(s) \in Nat \ {0}
         /\ Len(r) = Len(s) - 1
         /\ \A i \in 1..Len(r) : r[i] = s[i]
         /\ Len(s) = 1 => r = <<>>
         /\ Len(s) > 1 => r # <<>>
<1> DEFINE n == Len(s) - 1
<1> DEFINE r == SubSeq(s, 1, n)
<1>1. Len(s) \in Nat \ {0} /\ n = Len(s) - 1
  OBVIOUS
<1> HIDE DEF n
<1>2. /\ r \in Seq(Frame) /\ Len(r) = n
      /\ \A i \in 1..n : r[i] = s[i]
  BY <1>1, AllButLast
<1> HIDE DEF r
<1>3. (Len(s) = 1 => r = <<>>) /\ (Len(s) > 1 => r # <<>>)
  <2>1. r = <<>> <=> Len(r) = 0
    BY <1>2, EmptySeq
  <2>2. QED
    BY <1>1, <1>2, <2>1
<1>4. /\ r \in Seq(Frame)
      /\ Len(s) \in Nat \ {0}
      /\ Len(r) = Len(s) - 1
      /\ \A i \in 1..Len(r) : r[i] = s[i]
      /\ Len(s) = 1 => r = <<>>
      /\ Len(s) > 1 => r # <<>>
  BY <1>1, <1>2, <1>3
<1>5. QED
  BY <1>4 DEF r, n

\* Taking a reference out of the innermost batch changes nothing else.
Shrunk(s, h) == [s EXCEPT ![Len(s)].batch = @ \ {h}]

LEMMA ShrinkBatch ==
  ASSUME NEW s \in Seq(Frame), s # <<>>, NEW h
  PROVE  LET r == Shrunk(s, h) IN
         /\ r \in Seq(Frame)
         /\ r # <<>>
         /\ Len(r) = Len(s)
         /\ \A i \in 1..Len(s) :
              /\ r[i].kind = s[i].kind
              /\ r[i].saved = s[i].saved
              /\ i # Len(s) => r[i] = s[i]
         /\ r[Len(s)].batch = s[Len(s)].batch \ {h}
<1>1. Len(s) \in Nat \ {0} /\ s[Len(s)] \in Frame
  OBVIOUS
<1>2. [s[Len(s)] EXCEPT !.batch = @ \ {h}] \in Frame
  BY <1>1 DEF Frame
<1>3. QED
  BY <1>1, <1>2 DEF Frame, Shrunk

LEMMA PushStackOK ==
  ASSUME NEW s \in Seq(Frame), NEW f \in Frame, StackOK(s), BatchOK(f),
         IF s = <<>> THEN BottomOK(f) ELSE StandsOn(f, s[Len(s)])
  PROVE  StackOK(Append(s, f))
<1> SUFFICES ASSUME NEW i \in 1..Len(Append(s, f))
             PROVE  LET a == Append(s, f) IN
                    /\ BatchOK(a[i])
                    /\ IF i = 1 THEN BottomOK(a[i]) ELSE StandsOn(a[i], a[i - 1])
  BY DEF StackOK
<1>1. CASE i = Len(s) + 1
  BY <1>1, PushGuard
<1>2. CASE i \in 1..Len(s)
  BY <1>2, PushGuard DEF StackOK
<1>3. QED
  BY <1>1, <1>2, PushGuard

LEMMA PopStackOK ==
  ASSUME NEW s \in Seq(Frame), s # <<>>, StackOK(s)
  PROVE  /\ StackOK(SubSeq(s, 1, Len(s) - 1))
         /\ Len(s) = 1 => BottomOK(s[Len(s)])
         /\ Len(s) > 1 =>
              LET r == SubSeq(s, 1, Len(s) - 1)
              IN  StandsOn(s[Len(s)], r[Len(r)])
<1> DEFINE r == SubSeq(s, 1, Len(s) - 1)
<1>1. StackOK(r)
  BY PopGuard DEF StackOK
<1>2. QED
  BY <1>1, PopGuard DEF StackOK

LEMMA ShrinkStackOK ==
  ASSUME NEW s \in Seq(Frame), s # <<>>, StackOK(s), NEW h
  PROVE  StackOK(Shrunk(s, h))
<1> DEFINE r == Shrunk(s, h)
<1> SUFFICES ASSUME NEW i \in 1..Len(s)
             PROVE  /\ BatchOK(r[i])
                    /\ IF i = 1 THEN BottomOK(r[i]) ELSE StandsOn(r[i], r[i - 1])
  BY ShrinkBatch DEF StackOK
<1>1. BatchOK(r[i])
  BY ShrinkBatch DEF StackOK, BatchOK
<1>2. r[i].kind = s[i].kind /\ r[i].saved = s[i].saved
  BY ShrinkBatch
<1>3. CASE i = 1
  BY <1>1, <1>2, <1>3 DEF StackOK, BottomOK
<1>4. CASE i # 1
  <2>1. i - 1 \in 1..Len(s)
    BY <1>4
  <2>2. r[i - 1].kind = s[i - 1].kind /\ r[i - 1].saved = s[i - 1].saved
    BY <2>1, ShrinkBatch
  <2>3. StandsOn(s[i], s[i - 1])
    BY <1>4 DEF StackOK
  <2>4. QED
    BY <1>1, <1>2, <1>4, <2>2, <2>3 DEF StandsOn, CountUnder
<1>5. QED
  BY <1>3, <1>4

-------------------------------------------------------------------------------
(***************************************************************************)
(* Types, and the frame of a step: a step of one thread leaves the guards, *)
(* the count, the mode and the attachment of every other thread alone.     *)
(***************************************************************************)
Untouched(u) ==
  /\ stack'[u] = stack[u]
  /\ count'[u] = count[u]
  /\ mode'[u] = mode[u]
  /\ u \in attached' <=> u \in attached

ThreadStep(t) == GuardStep(t) \/ InterpreterStep(t) \/ RefStep(t)

LEMMA InitInv == Init => TypeInv /\ GuardInv
<1> SUFFICES ASSUME Init PROVE TypeInv /\ GuardInv
  OBVIOUS
<1>1. TypeInv
  BY DEF Init, TypeInv, Modes
<1>2. GuardInv
  BY DEF Init, GuardInv, StackOK, ThreadOK
<1>3. QED
  BY <1>1, <1>2

\* The stack is not empty in the middle of a guard operation.
LEMMA MidOperation ==
  ASSUME TypeInv, GuardInv, NEW t \in Threads,
         mode[t] \in {"switched", "restoring", "released"}
  PROVE  stack[t] # <<>>
BY DEF GuardInv, ThreadOK

LEMMA GuardIsFrame ==
  ASSUME NEW k \in Kinds, NEW c \in Int, NEW b \in SUBSET Handles
  PROVE  Guard(k, c, b) \in Frame
BY DEF Guard, Frame

LEMMA TopIsFrame ==
  ASSUME TypeInv, NEW t \in Threads, stack[t] # <<>>
  PROVE  /\ Top(t) \in Frame
         /\ Top(t).saved \in Int
         /\ Top(t).kind \in Kinds
         /\ Top(t).batch \in SUBSET Handles
         /\ Len(stack[t]) \in Nat \ {0}
         /\ Rest(t) \in Seq(Frame)
<1>1. stack[t] \in Seq(Frame)
  BY DEF TypeInv
<1>2. Top(t) \in Frame
  BY <1>1 DEF Top
<1>3. QED
  BY <1>1, <1>2, PopGuard DEF Frame, Rest

LEMMA DecrefTypes ==
  ASSUME TypeInv, NEW t \in Threads, NEW h \in Handles,
         NEW st \in Seq(Frame), Decref(t, h, st)
  PROVE  /\ attached' = attached /\ mode' = mode /\ target' = target
         /\ count' \in [Threads -> Int]
         /\ stack' \in [Threads -> Seq(Frame)]
         /\ pool' \in SUBSET Handles
         /\ refcnt' \in [Objects -> Int]
         /\ \A u \in Threads \ {t} : stack'[u] = stack[u] /\ count'[u] = count[u]
<1> USE DEF TypeInv
<1>1. refcnt' \in [Objects -> Int]
  BY DEF Decref
<1>2. CASE stack' = [stack EXCEPT ![t] = st] /\ UNCHANGED <<count, pool>>
  BY <1>1, <1>2 DEF Decref
<1>3. CASE /\ count' = [count EXCEPT ![t] = @ + 1]
           /\ stack' = [stack EXCEPT ![t] =
                          Append(st, Guard("assumed", count[t], pool))]
           /\ pool' = {}
  <2>1. Guard("assumed", count[t], pool) \in Frame
    BY GuardIsFrame DEF Kinds, AttachedKinds, CountingKinds
  <2>2. Append(st, Guard("assumed", count[t], pool)) \in Seq(Frame)
    BY <2>1, PushGuard
  <2>3. QED
    BY <1>1, <1>3, <2>2 DEF Decref
<1>4. QED
  BY <1>2, <1>3 DEF Decref

LEMMA PushAttachTypes ==
  ASSUME TypeInv, NEW t \in Threads, NEW k \in CountingKinds, PushAttach(t, k)
  PROVE  /\ mode' = mode /\ owned' = owned /\ target' = target /\ refcnt' = refcnt
         /\ count' \in [Threads -> Int]
         /\ stack' \in [Threads -> Seq(Frame)]
         /\ pool' \in SUBSET Handles
         /\ \A u \in Threads \ {t} : stack'[u] = stack[u] /\ count'[u] = count[u]
<1> USE DEF TypeInv
<1>1. Guard(k, count[t], pool) \in Frame
  BY GuardIsFrame DEF Kinds, AttachedKinds
<1>2. Append(stack[t], Guard(k, count[t], pool)) \in Seq(Frame)
  BY <1>1, PushGuard
<1>3. QED
  BY <1>2 DEF PushAttach

LEMMA StepTypes ==
  ASSUME TypeInv, GuardInv, NEW t \in Threads, ThreadStep(t)
  PROVE  TypeInv' /\ \A u \in Threads \ {t} : Untouched(u)
<1> USE DEF TypeInv, Untouched
<1>0. /\ "run" \in Modes /\ "switched" \in Modes /\ "restoring" \in Modes
      /\ "released" \in Modes /\ Forbidden \in Int
  BY DEF Modes, Forbidden
<1>1. CASE AttachAssumed(t)
  BY <1>1, PushAttachTypes DEF AttachAssumed, CountingKinds
<1>2. CASE Trampoline(t)
  BY <1>2, PushAttachTypes DEF Trampoline, CountingKinds
<1>3. CASE AttachEnsure(t)
  BY <1>3, PushAttachTypes DEF AttachEnsure, CountingKinds
<1>4. CASE DropGuard(t)
  BY <1>4, TopIsFrame DEF DropGuard, TopIs, refVars
<1>5. CASE Release(t)
  BY <1>0, <1>5 DEF Release, refVars
<1>6. CASE Decrement(t)
  BY <1>0, <1>6, MidOperation, TopIsFrame DEF Decrement, refVars
<1>7. CASE Suspend(t)
  <2>1. Guard("suspend", count[t], {}) \in Frame
    BY GuardIsFrame DEF Kinds
  <2>2. Append(stack[t], Guard("suspend", count[t], {})) \in Seq(Frame)
    BY <2>1, PushGuard
  <2>3. QED
    BY <1>7, <2>2 DEF Suspend, refVars
<1>8. CASE Resume(t)
  BY <1>0, <1>8, TopIsFrame DEF Resume, TopIs, refVars
<1>9. CASE Restore(t)
  <2>1. Guard("restored", Top(t).saved, pool) \in Frame
    BY <1>9, MidOperation, TopIsFrame, GuardIsFrame
       DEF Restore, Kinds, AttachedKinds
  <2>2. Append(Rest(t), Guard("restored", Top(t).saved, pool)) \in Seq(Frame)
    BY <1>9, <2>1, MidOperation, TopIsFrame, PushGuard DEF Restore
  <2>3. QED
    BY <1>0, <1>9, <2>2 DEF Restore
<1>10. CASE Restored(t)
  BY <1>10, TopIsFrame DEF Restored, TopIs, refVars
<1>11. CASE Forbid(t)
  <2>1. Guard("forbid", count[t], {}) \in Frame
    BY GuardIsFrame DEF Kinds, AttachedKinds
  <2>2. Append(stack[t], Guard("forbid", count[t], {})) \in Seq(Frame)
    BY <2>1, PushGuard
  <2>3. QED
    BY <1>0, <1>11, <2>2 DEF Forbid, refVars
<1>12. CASE Unforbid(t)
  BY <1>12, TopIsFrame DEF Unforbid, TopIs, refVars
<1>13. CASE EnterPython(t)
  <2>1. Guard("python", count[t], {}) \in Frame
    BY GuardIsFrame DEF Kinds, AttachedKinds
  <2>2. QED
    BY <1>13, <2>1 DEF EnterPython, refVars
<1>14. CASE LeavePython(t)
  BY <1>14, TopIsFrame DEF LeavePython, TopIs, refVars
<1>15. CASE SwitchOut(t)
  BY <1>0, <1>15 DEF SwitchOut, refVars
<1>16. CASE SwitchIn(t)
  BY <1>0, <1>16 DEF SwitchIn, refVars
<1>17. CASE RefStep(t)
  <2> PICK h \in Handles :
        \/ \E o \in Objects : Create(t, h, o)
        \/ \E src \in Handles : CloneRef(t, h, src)
        \/ \E u \in Threads : Send(t, u, h)
        \/ DropNow(t, h) \/ DropLater(t, h) \/ DecrefDeferred(t, h)
    BY <1>17 DEF RefStep
  <2>1. CASE \E o \in Objects : Create(t, h, o)
    BY <2>1 DEF Create, guardVars
  <2>2. CASE \E src \in Handles : CloneRef(t, h, src)
    BY <2>2 DEF CloneRef, guardVars
  <2>3. CASE \E u \in Threads : Send(t, u, h)
    <3> PICK v \in Threads : Send(t, v, h)
      BY <2>3
    <3>1. owned' \in [Threads -> SUBSET Handles]
      BY DEF Send
    <3>2. QED
      BY <3>1 DEF Send, guardVars
  <2>4. CASE DropNow(t, h)
    BY <2>4, DecrefTypes DEF DropNow
  <2>5. CASE DropLater(t, h)
    BY <2>5 DEF DropLater, guardVars
  <2>6. CASE DecrefDeferred(t, h)
    <3> DEFINE st == Shrunk(stack[t], h)
    <3>1. st \in Seq(Frame)
      <4>1. stack[t] \in Seq(Frame) /\ stack[t] # <<>>
        BY <2>6 DEF DecrefDeferred
      <4>2. QED
        BY <4>1, ShrinkBatch, Zenon
    <3>2. Decref(t, h, st) /\ owned' = owned
      BY <2>6 DEF DecrefDeferred, Shrunk
    <3> HIDE DEF st
    <3>3. QED
      BY <3>1, <3>2, DecrefTypes
  <2>7. QED
    BY <2>1, <2>2, <2>3, <2>4, <2>5, <2>6
<1>18. QED
  BY <1>1, <1>2, <1>3, <1>4, <1>5, <1>6, <1>7, <1>8, <1>9, <1>10, <1>11,
     <1>12, <1>13, <1>14, <1>15, <1>16, <1>17
     DEF ThreadStep, GuardStep, InterpreterStep

-------------------------------------------------------------------------------
(***************************************************************************)
(* The guard stacks stay well formed, and the count and the attachment of  *)
(* a thread are what its innermost guard says.                             *)
(***************************************************************************)
LEMMA PushStep ==
  ASSUME TypeInv, GuardInv, NEW t \in Threads, NEW f \in Frame, BatchOK(f),
         IF stack[t] = <<>> THEN BottomOK(f) ELSE StandsOn(f, Top(t)),
         stack'[t] = Append(stack[t], f)
  PROVE  StackOK(stack'[t]) /\ stack'[t] # <<>> /\ Top(t)' = f
<1>1. stack[t] \in Seq(Frame) /\ StackOK(stack[t])
  BY DEF TypeInv, GuardInv
<1>2. StackOK(Append(stack[t], f))
  BY <1>1, PushStackOK, Zenon DEF Top
<1>3. QED
  BY <1>1, <1>2, PushGuard DEF Top

LEMMA PopStep ==
  ASSUME TypeInv, GuardInv, NEW t \in Threads, stack[t] # <<>>,
         stack'[t] = Rest(t)
  PROVE  /\ StackOK(stack'[t])
         /\ \/ stack'[t] = <<>> /\ BottomOK(Top(t))
            \/ stack'[t] # <<>> /\ StandsOn(Top(t), Top(t)')
<1>1. stack[t] \in Seq(Frame) /\ StackOK(stack[t])
  BY DEF TypeInv, GuardInv
<1>2. Len(stack[t]) \in Nat \ {0}
  BY <1>1, PopGuard
<1>3. CASE Len(stack[t]) = 1
  BY <1>1, <1>3, PopGuard, PopStackOK DEF Rest, Top
<1>4. CASE Len(stack[t]) > 1
  BY <1>1, <1>4, PopGuard, PopStackOK DEF Rest, Top
<1>5. Len(stack[t]) = 1 \/ Len(stack[t]) > 1
  BY <1>2, OneOrMore, Zenon
<1>6. QED
  BY <1>3, <1>4, <1>5, Zenon

\* What is known of the innermost guard of a thread.
LEMMA TopOK ==
  ASSUME TypeInv, GuardInv, NEW t \in Threads, stack[t] # <<>>
  PROVE  /\ BatchOK(Top(t))
         /\ Top(t).kind \in {"suspend", "restored"} => Top(t).saved > 0
         /\ Top(t).kind \in {"python", "ensured", "locked"} => Top(t).saved = 0
         /\ Top(t).kind = "assumed" => Top(t).saved >= 0
<1>1. stack[t] \in Seq(Frame) /\ StackOK(stack[t])
  BY DEF TypeInv, GuardInv
<1>2. Len(stack[t]) \in Nat \ {0}
  BY <1>1, PopGuard
<1>3. BatchOK(Top(t))
  BY <1>1, <1>2 DEF StackOK, Top
<1>4. CASE Len(stack[t]) = 1
  BY <1>1, <1>3, <1>4 DEF StackOK, Top, BottomOK
<1>5. CASE Len(stack[t]) > 1
  <2> DEFINE n == Len(stack[t])
  <2> DEFINE g == stack[t][n - 1]
  <2>1. g \in Frame /\ StandsOn(Top(t), g) /\ n - 1 \in 1..n
    BY <1>1, <1>2, <1>5 DEF StackOK, Top
  <2>2. CASE Top(t).kind = "locked"
    <3>1. g.kind = "python"
      BY <2>1, <2>2 DEF StandsOn
    <3>2. n - 1 = 1
      BY <1>1, <2>1, <3>1 DEF StackOK, StandsOn
    <3>3. g.saved = 0
      BY <1>1, <2>1, <3>2 DEF StackOK, BottomOK
    <3>4. QED
      BY <1>3, <2>1, <2>2, <3>1, <3>3 DEF StandsOn, CountUnder, CountingKinds
  <2>3. CASE Top(t).kind = "ensured"
    BY <1>3, <2>1, <2>3 DEF StandsOn, CountUnder, CountingKinds
  <2>4. CASE Top(t).kind \notin {"locked", "ensured"}
    BY <1>3, <2>1, <2>4 DEF StandsOn
  <2>5. QED
    BY <2>2, <2>3, <2>4
<1>6. Len(stack[t]) = 1 \/ Len(stack[t]) > 1
  BY <1>2, OneOrMore, Zenon
<1>7. QED
  BY <1>4, <1>5, <1>6, Zenon

\* A running thread believes itself attached only when it is, and then its
\* innermost guard is an AttachGuard or a SuspendAttach being dropped.
LEMMA RunningAttached ==
  ASSUME TypeInv, GuardInv, NEW t \in Threads, mode[t] = "run", count[t] > 0
  PROVE  /\ stack[t] # <<>>
         /\ Top(t).kind \in CountingKinds \cup {"restored"}
         /\ t \in attached
<1>1. stack[t] # <<>>
  BY DEF GuardInv, ThreadOK
<1>2. count[t] = CountUnder(Top(t)) /\ (t \in attached <=> Top(t).kind \in AttachedKinds)
  BY <1>1 DEF GuardInv, ThreadOK
<1>3. Top(t).kind \in Kinds
  BY <1>1, TopIsFrame
<1>4. QED
  BY <1>1, <1>2, <1>3, TopOK
     DEF CountUnder, Kinds, AttachedKinds, CountingKinds, Forbidden

\* A drop of a reference by a thread that is entitled to it keeps the guards
\* well formed, with or without the trampoline of the object's destructor.
LEMMA DecrefGuards ==
  ASSUME TypeInv, GuardInv, NEW t \in Threads, NEW h \in Handles,
         NEW st \in Seq(Frame), Decref(t, h, st), mode[t] = "run",
         stack[t] # <<>>, Top(t).kind \in CountingKinds \cup {"restored"},
         st # <<>>, StackOK(st),
         st[Len(st)].kind = Top(t).kind, st[Len(st)].saved = Top(t).saved
  PROVE  StackOK(stack'[t]) /\ ThreadOK(t)'
<1> DEFINE f == Guard("assumed", count[t], pool)
<1>1. mode' = mode /\ attached' = attached /\ stack \in [Threads -> Seq(Frame)]
      /\ count \in [Threads -> Int]
  BY DEF Decref, TypeInv
<1>2. count[t] = CountUnder(Top(t)) /\ t \in attached
  BY DEF GuardInv, ThreadOK, AttachedKinds
<1>3. CASE stack' = [stack EXCEPT ![t] = st] /\ UNCHANGED <<count, pool>>
  BY <1>1, <1>2, <1>3 DEF ThreadOK, Top, CountUnder, AttachedKinds
<1>4. CASE /\ count' = [count EXCEPT ![t] = @ + 1]
           /\ stack' = [stack EXCEPT ![t] = Append(st, f)]
  <2>1. f \in Frame /\ f.kind = "assumed" /\ f.saved = count[t] /\ BatchOK(f)
    BY GuardIsFrame
       DEF Guard, Kinds, AttachedKinds, CountingKinds, BatchOK, TypeInv
  <2>2. count[t] > 0
    BY <1>2, TopOK, TopIsFrame DEF CountUnder, CountingKinds
  <2>3. StandsOn(f, st[Len(st)])
    BY <1>1, <1>2, <2>1, <2>2 DEF StandsOn, CountUnder, AttachedKinds
  <2>4. StackOK(Append(st, f))
    BY <2>1, <2>3, PushStackOK
  <2> HIDE DEF f
  <2>5. stack'[t] # <<>> /\ Top(t)' = f /\ count'[t] = count[t] + 1
    BY <1>1, <1>4, <2>1, PushGuard DEF Top
  <2>6. QED
    BY <1>1, <1>2, <1>4, <2>1, <2>4, <2>5
       DEF ThreadOK, CountUnder, CountingKinds, AttachedKinds
<1>5. QED
  BY <1>3, <1>4 DEF Decref

LEMMA PushAttachGuards ==
  ASSUME TypeInv, GuardInv, NEW t \in Threads, NEW k \in CountingKinds,
         PushAttach(t, k), mode[t] = "run", t \in attached',
         IF stack[t] = <<>> THEN k = "ensured" /\ count[t] = 0
         ELSE /\ count[t] >= 0
              /\ k = "ensured" => Top(t).kind = "suspend"
              /\ k = "locked" => Top(t).kind = "python"
              /\ k # "ensured" => Top(t).kind \in AttachedKinds
  PROVE  StackOK(stack'[t]) /\ ThreadOK(t)'
<1> DEFINE f == Guard(k, count[t], pool)
<1>1. /\ f \in Frame /\ f.kind = k /\ f.saved = count[t] /\ BatchOK(f)
  BY GuardIsFrame
     DEF Guard, Kinds, AttachedKinds, CountingKinds, BatchOK, TypeInv
<1>2. /\ stack'[t] = Append(stack[t], f) /\ count'[t] = count[t] + 1
      /\ mode'[t] = "run" /\ count[t] \in Int
  BY DEF PushAttach, TypeInv
<1>3. stack[t] # <<>> => count[t] = CountUnder(Top(t))
  BY DEF GuardInv, ThreadOK
<1>4. IF stack[t] = <<>> THEN BottomOK(f) ELSE StandsOn(f, Top(t))
  BY <1>1, <1>3 DEF BottomOK, StandsOn, CountingKinds
<1> HIDE DEF f
<1>5. StackOK(stack'[t]) /\ stack'[t] # <<>> /\ Top(t)' = f
  BY <1>1, <1>2, <1>4, PushStep
<1>6. QED
  BY <1>1, <1>2, <1>5 DEF ThreadOK, CountUnder, AttachedKinds, CountingKinds

\* The guard below one that is dropped takes over.
LEMMA PopGuards ==
  ASSUME TypeInv, GuardInv, NEW t \in Threads, stack[t] # <<>>,
         stack'[t] = Rest(t), mode'[t] = "run", count'[t] = Top(t).saved,
         t \in attached' <=> Top(t).kind \notin {"ensured", "python"}
  PROVE  StackOK(stack'[t]) /\ ThreadOK(t)'
<1>1. StackOK(stack'[t])
  BY PopStep
<1>2. CASE stack'[t] = <<>> /\ BottomOK(Top(t))
  BY <1>1, <1>2 DEF ThreadOK, BottomOK
<1>3. CASE stack'[t] # <<>> /\ StandsOn(Top(t), Top(t)')
  BY <1>1, <1>3 DEF ThreadOK, StandsOn, AttachedKinds, CountingKinds
<1>4. QED
  BY <1>2, <1>3, PopStep

LEMMA StepGuards ==
  ASSUME TypeInv, GuardInv, NEW t \in Threads, ThreadStep(t)
  PROVE  StackOK(stack'[t]) /\ ThreadOK(t)'
<1>0. /\ attached \in SUBSET Threads /\ count \in [Threads -> Int]
      /\ stack \in [Threads -> Seq(Frame)] /\ mode \in [Threads -> Modes]
      /\ StackOK(stack[t]) /\ ThreadOK(t)
  BY DEF TypeInv, GuardInv
<1>a. stack[t] # <<>> /\ mode[t] = "run" =>
        /\ count[t] = CountUnder(Top(t))
        /\ t \in attached <=> Top(t).kind \in AttachedKinds
  BY <1>0 DEF ThreadOK
<1>b. stack[t] = <<>> => mode[t] = "run" /\ count[t] = 0 /\ t \notin attached
  BY <1>0 DEF ThreadOK
<1>1. CASE AttachAssumed(t)
  <2>1. /\ PushAttach(t, "assumed") /\ mode[t] = "run" /\ count[t] > 0
        /\ attached' = attached
    BY <1>1 DEF AttachAssumed, Running, ThreadIsAttached
  <2>2. stack[t] # <<>> /\ Top(t).kind \in AttachedKinds /\ t \in attached
    BY <2>1, RunningAttached DEF AttachedKinds
  <2>3. QED
    BY <1>0, <2>1, <2>2, PushAttachGuards DEF CountingKinds
<1>2. CASE Trampoline(t)
  <2>1. /\ PushAttach(t, "assumed") /\ mode[t] = "run" /\ attached' = attached
        /\ stack[t] # <<>> /\ Top(t).kind \in AttachedKinds \ {"forbid"}
    BY <1>2 DEF Trampoline, Running, TopIs
  <2>2. count[t] >= 0 /\ t \in attached
    BY <1>a, <2>1, TopOK, TopIsFrame DEF CountUnder, AttachedKinds, CountingKinds
  <2>3. QED
    BY <2>1, <2>2, PushAttachGuards DEF CountingKinds
<1>3. CASE AttachEnsure(t)
  <2> DEFINE k == IF t \in attached THEN "locked" ELSE "ensured"
  <2>1. /\ PushAttach(t, k) /\ mode[t] = "run" /\ count[t] = 0 /\ t \in attached'
    BY <1>3 DEF AttachEnsure, Running
  <2>2. k \in CountingKinds /\ k \in {"locked", "ensured"}
    BY DEF CountingKinds
  <2>3. CASE stack[t] = <<>>
    BY <1>b, <2>1, <2>2, <2>3, PushAttachGuards
  <2>4. CASE stack[t] # <<>>
    <3>1. Top(t).kind \in {"suspend", "python"}
      BY <1>a, <2>1, <2>4, TopOK, TopIsFrame
         DEF CountUnder, Kinds, AttachedKinds, CountingKinds, Forbidden
    <3>2. /\ k = "ensured" => Top(t).kind = "suspend"
          /\ k = "locked" => Top(t).kind = "python"
      BY <1>a, <2>1, <2>4, <3>1 DEF AttachedKinds, CountingKinds
    <3> HIDE DEF k
    <3>3. k # "ensured" => Top(t).kind \in AttachedKinds
      BY <2>2, <3>2 DEF AttachedKinds
    <3>4. QED
      BY <2>1, <2>2, <2>4, <3>2, <3>3, PushAttachGuards
  <2>5. QED
    BY <2>3, <2>4
<1>4. CASE DropGuard(t)
  BY <1>0, <1>a, <1>4, PopGuards, TopIsFrame
     DEF DropGuard, Running, TopIs, CountUnder, CountingKinds, AttachedKinds
<1>5. CASE Release(t)
  <2>1. /\ stack' = stack /\ count' = count /\ mode'[t] = "released"
        /\ t \notin attached' /\ mode[t] = "run" /\ stack[t] # <<>>
        /\ Top(t).kind = "ensured" /\ Top(t).batch = {}
    BY <1>0, <1>5 DEF Release, Running, TopIs, Modes
  <2>2. count[t] = 1
    BY <1>a, <2>1, TopOK DEF CountUnder, CountingKinds
  <2>3. QED
    BY <1>0, <2>1, <2>2 DEF ThreadOK, Top
<1>6. CASE Decrement(t)
  <2>1. /\ stack[t] # <<>> /\ Top(t).kind = "ensured" /\ count[t] = 1
        /\ t \notin attached
    BY <1>0, <1>6 DEF Decrement, ThreadOK
  <2>2. Top(t).saved = 0
    BY <2>1, TopOK
  <2>3. QED
    BY <1>0, <1>6, <2>1, <2>2, PopGuards DEF Decrement, Modes
<1>7. CASE Suspend(t)
  <2> DEFINE f == Guard("suspend", count[t], {})
  <2>1. /\ mode'[t] = "run" /\ stack'[t] = Append(stack[t], f) /\ count'[t] = 0
        /\ t \notin attached' /\ stack[t] # <<>> /\ mode[t] = "run"
        /\ Top(t).kind \in CountingKinds \cup {"restored"}
    BY <1>0, <1>7 DEF Suspend, HasToken, Running, TopIs
  <2>2. f \in Frame /\ f.kind = "suspend" /\ f.saved = count[t] /\ BatchOK(f)
    BY <1>0, GuardIsFrame DEF Guard, Kinds, BatchOK
  <2>3. count[t] > 0
    BY <1>a, <2>1, TopOK, TopIsFrame DEF CountUnder, CountingKinds
  <2>4. StandsOn(f, Top(t))
    BY <1>0, <1>a, <2>1, <2>2, <2>3 DEF StandsOn, AttachedKinds
  <2> HIDE DEF f
  <2>5. StackOK(stack'[t]) /\ stack'[t] # <<>> /\ Top(t)' = f
    BY <2>1, <2>2, <2>4, PushStep
  <2>6. QED
    BY <2>1, <2>2, <2>5
       DEF ThreadOK, CountUnder, AttachedKinds, CountingKinds
<1>8. CASE Resume(t)
  <2>1. /\ stack' = stack /\ count'[t] = Top(t).saved /\ mode'[t] = "restoring"
        /\ attached' = attached /\ mode[t] = "run" /\ stack[t] # <<>>
        /\ Top(t).kind = "suspend" /\ Top(t).batch = {}
    BY <1>0, <1>8 DEF Resume, Running, TopIs, Modes
  <2>2. t \notin attached
    BY <1>a, <2>1 DEF AttachedKinds, CountingKinds
  <2>3. QED
    BY <1>0, <2>1, <2>2 DEF ThreadOK, Top
<1>9. CASE Restore(t)
  <2> DEFINE f == Guard("restored", Top(t).saved, pool)
  <2>1. /\ stack[t] # <<>> /\ Top(t).kind = "suspend"
        /\ count[t] = Top(t).saved
    BY <1>0, <1>9 DEF Restore, ThreadOK
  <2>2. /\ stack'[t] = Append(Rest(t), f) /\ mode'[t] = "run"
        /\ count'[t] = Top(t).saved /\ t \in attached'
    BY <1>0, <1>9, <2>1 DEF Restore, Modes
  <2>3. /\ f \in Frame /\ f.kind = "restored" /\ f.saved = Top(t).saved
        /\ BatchOK(f) /\ f.saved > 0
    BY <2>1, GuardIsFrame, TopIsFrame, TopOK
       DEF Guard, Kinds, AttachedKinds, BatchOK, TypeInv
  <2>4. Rest(t) \in Seq(Frame) /\ StackOK(Rest(t))
    BY <1>0, <2>1, PopGuard, PopStackOK DEF Rest
  <2>5. IF Rest(t) = <<>> THEN BottomOK(f)
        ELSE StandsOn(f, Rest(t)[Len(Rest(t))])
    <3>1. stack[t] \in Seq(Frame) /\ Len(stack[t]) \in Nat \ {0}
      BY <1>0, <2>1, TopIsFrame
    <3>2. CASE Len(stack[t]) = 1
      BY <1>0, <2>1, <3>1, <3>2, PopStackOK DEF Top, BottomOK
    <3>3. CASE Len(stack[t]) > 1
      <4>1. Rest(t) # <<>> /\ StandsOn(Top(t), Rest(t)[Len(Rest(t))])
        BY <1>0, <2>1, <3>1, <3>3, PopGuard, PopStackOK DEF Rest, Top
      <4>2. QED
        BY <2>1, <2>3, <4>1 DEF StandsOn
    <3>4. QED
      BY <3>1, <3>2, <3>3, OneOrMore, Zenon
  <2> HIDE DEF f
  <2>6. StackOK(Append(Rest(t), f))
    BY <2>3, <2>4, <2>5, PushStackOK
  <2>7. stack'[t] # <<>> /\ Top(t)' = f
    BY <2>2, <2>3, <2>4, PushGuard DEF Top
  <2>8. QED
    BY <2>2, <2>3, <2>6, <2>7
       DEF ThreadOK, CountUnder, AttachedKinds, CountingKinds
<1>10. CASE Restored(t)
  BY <1>0, <1>a, <1>10, PopGuards
     DEF Restored, Running, TopIs, CountUnder, CountingKinds, AttachedKinds
<1>11. CASE Forbid(t)
  <2> DEFINE f == Guard("forbid", count[t], {})
  <2>1. /\ mode'[t] = "run" /\ stack'[t] = Append(stack[t], f)
        /\ count'[t] = Forbidden /\ attached' = attached
        /\ stack[t] # <<>> /\ mode[t] = "run" /\ Top(t).kind \in AttachedKinds
    BY <1>0, <1>11 DEF Forbid, Running, TopIs
  <2>2. f \in Frame /\ f.kind = "forbid" /\ f.saved = count[t] /\ BatchOK(f)
    BY <1>0, GuardIsFrame DEF Guard, Kinds, AttachedKinds, BatchOK
  <2>3. StandsOn(f, Top(t))
    BY <1>a, <2>1, <2>2 DEF StandsOn
  <2> HIDE DEF f
  <2>4. StackOK(stack'[t]) /\ stack'[t] # <<>> /\ Top(t)' = f
    BY <2>1, <2>2, <2>3, PushStep
  <2>5. QED
    BY <1>a, <2>1, <2>2, <2>4
       DEF ThreadOK, CountUnder, AttachedKinds, CountingKinds
<1>12. CASE Unforbid(t)
  BY <1>0, <1>a, <1>12, PopGuards
     DEF Unforbid, Running, TopIs, CountUnder, CountingKinds, AttachedKinds
<1>13. CASE EnterPython(t)
  <2> DEFINE f == Guard("python", count[t], {})
  <2>1. /\ mode'[t] = "run" /\ stack'[t] = <<f>> /\ count' = count
        /\ t \in attached' /\ count[t] = 0
    BY <1>0, <1>b, <1>13 DEF EnterPython
  <2>2. f.kind = "python" /\ f.saved = 0 /\ BatchOK(f)
    BY <2>1 DEF Guard, BatchOK
  <2> HIDE DEF f
  <2>3. StackOK(<<f>>)
    BY <2>2 DEF StackOK, BottomOK
  <2>4. QED
    BY <2>1, <2>2, <2>3 DEF ThreadOK, Top, CountUnder, AttachedKinds, CountingKinds
<1>14. CASE LeavePython(t)
  BY <1>0, <1>a, <1>14, PopGuards
     DEF LeavePython, Running, TopIs, CountUnder, CountingKinds
<1>15. CASE SwitchOut(t)
  <2>1. /\ stack' = stack /\ count' = count /\ mode'[t] = "switched"
        /\ t \notin attached' /\ mode[t] = "run" /\ t \in attached
        /\ ~TopIs(t, {"forbid"}) /\ (stack[t] # <<>> => Top(t).batch = {})
    BY <1>0, <1>15 DEF SwitchOut, Running, Modes
  <2>2. stack[t] # <<>>
    BY <1>b, <2>1
  <2>3. QED
    BY <1>0, <1>a, <2>1, <2>2 DEF ThreadOK, Top, TopIs
<1>16. CASE SwitchIn(t)
  BY <1>0, <1>16 DEF SwitchIn, ThreadOK, Top, Modes
<1>17. CASE RefStep(t)
  <2> PICK h \in Handles :
        \/ \E o \in Objects : Create(t, h, o)
        \/ \E src \in Handles : CloneRef(t, h, src)
        \/ \E u \in Threads : Send(t, u, h)
        \/ DropNow(t, h) \/ DropLater(t, h) \/ DecrefDeferred(t, h)
    BY <1>17 DEF RefStep
  <2>1. CASE UNCHANGED guardVars
    BY <1>0, <2>1 DEF guardVars, ThreadOK, Top
  <2>2. CASE DropNow(t, h)
    <3>1. /\ Decref(t, h, stack[t]) /\ mode[t] = "run" /\ count[t] > 0
      BY <2>2 DEF DropNow, Running, ThreadIsAttached
    <3>2. stack[t] # <<>> /\ Top(t).kind \in CountingKinds \cup {"restored"}
      BY <3>1, RunningAttached
    <3>3. QED
      BY <1>0, <3>1, <3>2, DecrefGuards DEF Top
  <2>3. CASE DecrefDeferred(t, h)
    <3> DEFINE st == Shrunk(stack[t], h)
    <3>1. /\ Decref(t, h, st) /\ mode[t] = "run" /\ stack[t] # <<>>
          /\ h \in Top(t).batch /\ stack[t] \in Seq(Frame)
      BY <1>0, <2>3 DEF DecrefDeferred, Shrunk
    <3>2. Top(t).kind \in CountingKinds \cup {"restored"}
      BY <3>1, TopOK, TopIsFrame DEF BatchOK, Kinds, AttachedKinds
    <3>3. /\ st \in Seq(Frame) /\ st # <<>> /\ Len(st) = Len(stack[t])
          /\ \A i \in 1..Len(stack[t]) :
               st[i].kind = stack[t][i].kind /\ st[i].saved = stack[t][i].saved
      <4>1. /\ st \in Seq(Frame) /\ st # <<>> /\ Len(st) = Len(stack[t])
            /\ \A i \in 1..Len(stack[t]) :
                 /\ st[i].kind = stack[t][i].kind
                 /\ st[i].saved = stack[t][i].saved
                 /\ i # Len(stack[t]) => st[i] = stack[t][i]
        BY <3>1, ShrinkBatch
      <4>2. QED
        BY <4>1, Zenon
    <3>4. StackOK(st)
      BY <1>0, <3>1, ShrinkStackOK, Zenon
    <3> HIDE DEF st
    <3>5. st[Len(st)].kind = Top(t).kind /\ st[Len(st)].saved = Top(t).saved
      BY <3>1, <3>3, TopIsFrame DEF Top
    <3>6. QED
      BY <3>1, <3>2, <3>3, <3>4, <3>5, DecrefGuards
  <2>4. QED
    BY <2>1, <2>2, <2>3 DEF Create, CloneRef, Send, DropLater
<1>18. QED
  BY <1>1, <1>2, <1>3, <1>4, <1>5, <1>6, <1>7, <1>8, <1>9, <1>10, <1>11,
     <1>12, <1>13, <1>14, <1>15, <1>16, <1>17
     DEF ThreadStep, GuardStep, InterpreterStep

\* The invariant of the guards, for every behaviour.
THEOREM GuardsAreConsistent == Spec => [](TypeInv /\ GuardInv)
<1>1. Init => TypeInv /\ GuardInv
  BY InitInv
<1>2. TypeInv /\ GuardInv /\ [Next]_vars => TypeInv' /\ GuardInv'
  <2> SUFFICES ASSUME TypeInv, GuardInv, [Next]_vars
               PROVE  TypeInv' /\ GuardInv'
    OBVIOUS
  <2>1. CASE UNCHANGED vars
    BY <2>1 DEF vars, stateVars, TypeInv, GuardInv, ThreadOK, Top
  <2>2. CASE Next
    <3> PICK t \in Threads : ThreadStep(t)
      BY <2>2 DEF Next, ThreadStep
    <3>1. TypeInv' /\ \A u \in Threads \ {t} : Untouched(u)
      BY StepTypes
    <3>2. StackOK(stack'[t]) /\ ThreadOK(t)'
      BY StepGuards
    <3>3. ASSUME NEW u \in Threads \ {t}
          PROVE  StackOK(stack'[u]) /\ ThreadOK(u)'
      BY <3>1, <3>3 DEF Untouched, GuardInv, ThreadOK, Top
    <3>4. QED
      BY <3>1, <3>2, <3>3 DEF GuardInv
  <2>3. QED
    BY <2>1, <2>2
<1>3. QED
  BY <1>1, <1>2, PTL DEF Spec

\* A running thread that ClaraX counts as attached is attached, so the fast
\* paths that consult only ATTACH_COUNT (try_attach, Py::drop) are right.
THEOREM AttachedWhenCounted == Spec => []CountImpliesAttached
<1>1. TypeInv /\ GuardInv => CountImpliesAttached
  BY RunningAttached DEF CountImpliesAttached, ThreadIsAttached
<1>2. QED
  BY <1>1, GuardsAreConsistent, PTL

\* A step that takes a guard off the stack is the end of that guard.
LEMMA PopsRestore ==
  ASSUME TypeInv, GuardInv, NEW t \in Threads, ThreadStep(t),
         Len(stack'[t]) < Len(stack[t])
  PROVE  count'[t] = Top(t).saved
<1>0. /\ count \in [Threads -> Int] /\ stack \in [Threads -> Seq(Frame)]
      /\ stack[t] \in Seq(Frame) /\ ThreadOK(t)
  BY DEF TypeInv, GuardInv
<1>1. stack'[t] # stack[t]
  BY <1>0
<1>2. ASSUME NEW f, stack' = [stack EXCEPT ![t] = Append(@, f)] PROVE FALSE
  BY <1>0, <1>2
<1>3. ASSUME NEW st \in Seq(Frame), NEW h \in Handles, Decref(t, h, st),
             Len(st) = Len(stack[t])
      PROVE  FALSE
  BY <1>0, <1>3 DEF Decref
<1>4. CASE UNCHANGED stack
  BY <1>1, <1>4
<1>5. CASE \E k \in CountingKinds : PushAttach(t, k)
  BY <1>2, <1>5 DEF PushAttach
<1>6. CASE Suspend(t) \/ Forbid(t)
  BY <1>2, <1>6 DEF Suspend, Forbid
<1>7. CASE EnterPython(t)
  BY <1>0, <1>7 DEF EnterPython
<1>8. CASE DropGuard(t)
  <2>1. /\ stack[t] # <<>> /\ Top(t).kind \in {"assumed", "locked"}
        /\ mode[t] = "run" /\ count'[t] = count[t] - 1
    BY <1>0, <1>8 DEF DropGuard, Running, TopIs
  <2>2. count[t] = Top(t).saved + 1 /\ Top(t).saved \in Int
    BY <1>0, <2>1, TopIsFrame DEF ThreadOK, CountUnder, CountingKinds
  <2>3. QED
    BY <2>1, <2>2
<1>9. CASE Decrement(t)
  <2>1. stack[t] # <<>> /\ Top(t).kind = "ensured" /\ count[t] = 1
    BY <1>0, <1>9 DEF Decrement, ThreadOK
  <2>2. QED
    BY <1>0, <1>9, <2>1, TopOK DEF Decrement
<1>10. CASE Restore(t)
  <2>1. stack[t] # <<>>
    BY <1>0, <1>10 DEF Restore, ThreadOK
  <2>2. Rest(t) \in Seq(Frame) /\ Len(Rest(t)) = Len(stack[t]) - 1
    BY <1>0, <2>1, PopGuard DEF Rest
  <2>3. QED
    BY <1>0, <1>10, <2>2 DEF Restore
<1>11. CASE Restored(t) \/ LeavePython(t)
  <2>1. /\ stack[t] # <<>> /\ Top(t).kind \in {"restored", "python"}
        /\ mode[t] = "run" /\ count' = count
    BY <1>11 DEF Restored, LeavePython, Running, TopIs
  <2>2. QED
    BY <1>0, <2>1 DEF ThreadOK, CountUnder, CountingKinds
<1>12. CASE Unforbid(t)
  BY <1>0, <1>12 DEF Unforbid
<1>13. CASE \E h \in Handles : DropNow(t, h)
  BY <1>0, <1>3, <1>13 DEF DropNow
<1>14. CASE \E h \in Handles : DecrefDeferred(t, h)
  <2> PICK h \in Handles : DecrefDeferred(t, h)
    BY <1>14
  <2> DEFINE st == Shrunk(stack[t], h)
  <2>1. st \in Seq(Frame) /\ Len(st) = Len(stack[t])
    BY <1>0, ShrinkBatch DEF DecrefDeferred
  <2>2. Decref(t, h, st)
    BY DEF DecrefDeferred, Shrunk
  <2> HIDE DEF st
  <2>3. QED
    BY <1>3, <2>1, <2>2
<1>15. QED
  BY <1>4, <1>5, <1>6, <1>7, <1>8, <1>9, <1>10, <1>11, <1>12, <1>13, <1>14
     DEF ThreadStep, GuardStep, InterpreterStep, RefStep, AttachAssumed,
         Trampoline, AttachEnsure, Release, Resume, SwitchOut, SwitchIn,
         Create, CloneRef, Send, DropLater, guardVars, CountingKinds

\* Each guard's drop puts ATTACH_COUNT back to what it was before the guard,
\* whatever was nested inside.
THEOREM CountIsRestored == Spec => GuardRestoresCount
<1>1. TypeInv /\ GuardInv /\ [Next]_vars =>
        [\A t \in Threads : Len(stack'[t]) < Len(stack[t]) =>
           count'[t] = Top(t).saved]_vars
  <2> SUFFICES ASSUME TypeInv, GuardInv, NEW t \in Threads, ThreadStep(t),
                      NEW u \in Threads, Len(stack'[u]) < Len(stack[u])
               PROVE  count'[u] = Top(u).saved
    BY DEF Next, ThreadStep
  <2>0. stack[u] \in Seq(Frame)
    BY DEF TypeInv
  <2>1. u = t
    <3>1. u # t => stack'[u] = stack[u]
      BY StepTypes, Zenon DEF Untouched
    <3>2. QED
      BY <2>0, <3>1
  <2>2. count'[t] = Top(t).saved
    BY <2>1, PopsRestore
  <2>3. QED
    BY <2>1, <2>2
<1>2. QED
  BY <1>1, GuardsAreConsistent, PTL DEF Spec, GuardRestoresCount

-------------------------------------------------------------------------------
(***************************************************************************)
(* References: every owned reference is in one place and every count is    *)
(* exact, whatever destructors run.                                        *)
(***************************************************************************)
\* The batch of t's i-th guard, empty where there is no such guard: a total
\* function makes pushing and popping guards invisible to the references.
Batch(t, i) == IF i \in 1..Len(stack[t]) THEN stack[t][i].batch ELSE {}

Disjoint ==
  /\ \A t, u \in Threads : t # u => owned[t] \cap owned[u] = {}
  /\ \A t \in Threads : owned[t] \cap pool = {}
  /\ \A t \in Threads : \A i \in Nat :
       /\ Batch(t, i) \cap pool = {}
       /\ \A u \in Threads : Batch(t, i) \cap owned[u] = {}
       /\ \A u \in Threads : \A j \in Nat :
            t # u \/ i # j => Batch(t, i) \cap Batch(u, j) = {}

IsLive(h) ==
  \/ h \in pool
  \/ \E t \in Threads : h \in owned[t]
  \/ \E t \in Threads : \E i \in Nat : h \in Batch(t, i)

RefInv == Disjoint /\ RefcountExact

\* The step lets go of no reference but those in S.
Spares(S) == \A x \in Handles : IsLive(x) => IsLive(x)' \/ x \in S

LEMMA LiveIsLive ==
  ASSUME TypeInv, NEW h \in Handles
  PROVE  h \in Live <=> IsLive(h)
<1>1. \A t \in Threads : Len(stack[t]) \in Nat
  BY DEF TypeInv
<1>2. \A t \in Threads : h \in Batched(t) <=> \E i \in Nat : h \in Batch(t, i)
  BY <1>1 DEF Batched, Batch
<1>3. QED
  BY <1>2 DEF Live, IsLive

LEMMA DisjointOnePlace ==
  ASSUME TypeInv, Disjoint
  PROVE  OnePlace
<1>1. \A t \in Threads : \A i \in 1..Len(stack[t]) :
        i \in Nat /\ Batch(t, i) = stack[t][i].batch
  BY DEF Batch
<1>2. QED
  BY <1>1 DEF OnePlace, Disjoint

LEMMA RefsFinite ==
  ASSUME TypeInv, NEW o \in Objects
  PROVE  IsFiniteSet(Refs(o)) /\ Cardinality(Refs(o)) \in Nat
<1>1. Refs(o) \subseteq Handles
  BY DEF Refs, Live
<1>2. QED
  BY <1>1, AttachAssumption, FS_Subset, FS_CardinalityType

-------------------------------------------------------------------------------
(***************************************************************************)
(* What happens to the batches: pushing an empty one or popping one that   *)
(* is empty changes nothing, a drain moves the whole pool into a fresh one.*)
(***************************************************************************)
SameBatches == \A u \in Threads : \A i \in Nat : Batch(u, i)' = Batch(u, i)

Drained(t, n) ==
  /\ pool' = {}
  /\ Batch(t, n) = {}
  /\ \A u \in Threads : \A i \in Nat :
       Batch(u, i)' = IF u = t /\ i = n THEN pool ELSE Batch(u, i)

Pushed(t, f) == stack' = [stack EXCEPT ![t] = Append(@, f)]

\* The nth guard of t gets the batch b, and had none.
Gains(t, n, b) ==
  /\ n \in Nat /\ Batch(t, n) = {}
  /\ \A u \in Threads : \A i \in Nat :
       Batch(u, i)' = IF u = t /\ i = n THEN b ELSE Batch(u, i)

LEMMA PushBatch ==
  ASSUME TypeInv, NEW t \in Threads, NEW f \in Frame, Pushed(t, f)
  PROVE  Gains(t, Len(stack[t]) + 1, f.batch)
<1>1. stack[t] \in Seq(Frame) /\ Len(stack[t]) \in Nat
  BY DEF TypeInv
<1>2. stack'[t] = Append(stack[t], f)
  BY DEF TypeInv, Pushed
<1>3. /\ Len(stack'[t]) = Len(stack[t]) + 1
      /\ stack'[t][Len(stack[t]) + 1] = f
      /\ \A i \in 1..Len(stack[t]) : stack'[t][i] = stack[t][i]
  BY <1>1, <1>2, PushGuard
<1>4. \A u \in Threads : u # t => stack'[u] = stack[u]
  BY DEF TypeInv, Pushed
<1>5. ASSUME NEW i \in Nat
      PROVE  Batch(t, i)' = IF i = Len(stack[t]) + 1 THEN f.batch ELSE Batch(t, i)
  BY <1>1, <1>3 DEF Batch
<1>6. ASSUME NEW u \in Threads, u # t, NEW i \in Nat PROVE Batch(u, i)' = Batch(u, i)
  BY <1>4, <1>6 DEF Batch
<1>7. Batch(t, Len(stack[t]) + 1) = {}
  BY <1>1 DEF Batch
<1>8. QED
  BY <1>1, <1>5, <1>6, <1>7 DEF Gains

LEMMA PopBatch ==
  ASSUME TypeInv, NEW t \in Threads, stack[t] # <<>>, Top(t).batch = {},
         stack' = [stack EXCEPT ![t] = Rest(t)]
  PROVE  SameBatches
<1>1. stack[t] \in Seq(Frame) /\ stack'[t] = Rest(t)
  BY DEF TypeInv
<1>2. /\ Len(stack[t]) \in Nat \ {0}
      /\ Len(stack'[t]) = Len(stack[t]) - 1
      /\ \A i \in 1..Len(stack'[t]) : stack'[t][i] = stack[t][i]
  BY <1>1, PopGuard DEF Rest
<1>3. ASSUME NEW i \in Nat PROVE Batch(t, i)' = Batch(t, i)
  <2>1. CASE i = Len(stack[t])
    BY <1>2, <2>1 DEF Batch, Top
  <2>2. CASE i # Len(stack[t])
    BY <1>2, <2>2 DEF Batch
  <2>3. QED
    BY <2>1, <2>2
<1>4. ASSUME NEW u \in Threads, u # t, NEW i \in Nat PROVE Batch(u, i)' = Batch(u, i)
  BY <1>4 DEF Batch, TypeInv
<1>5. QED
  BY <1>3, <1>4 DEF SameBatches

-------------------------------------------------------------------------------
(***************************************************************************)
(* What a step does to the references, in terms of the batches.            *)
(***************************************************************************)
LEMMA LiveIsLiveNext ==
  ASSUME TypeInv', NEW h \in Handles
  PROVE  h \in Live' <=> IsLive(h)'
<1>1. \A t \in Threads : Len(stack'[t]) \in Nat
  BY DEF TypeInv
<1>2. \A t \in Threads : h \in Batched(t)' <=> \E i \in Nat : h \in Batch(t, i)'
  BY <1>1 DEF Batched, Batch
<1>3. QED
  BY <1>2 DEF Live, IsLive

LEMMA LiveAsSets ==
  ASSUME TypeInv, TypeInv', NEW S,
         \A h \in Handles : IsLive(h)' <=> IsLive(h) /\ h \notin S
  PROVE  Live' = Live \ S
<1>1. \A h \in Handles : h \in Live' <=> h \in Live \ S
  BY LiveIsLive, LiveIsLiveNext
<1>2. Live \subseteq Handles /\ Live' \subseteq Handles
  BY DEF Live
<1>3. QED
  BY <1>1, <1>2

\* The same references are live, wherever they went.
LEMMA SameCounts ==
  ASSUME TypeInv, TypeInv', RefcountExact, target' = target, refcnt' = refcnt,
         \A h \in Handles : IsLive(h)' <=> IsLive(h)
  PROVE  RefcountExact'
<1>1. Live' = Live
  <2>1. \A h \in Handles : IsLive(h)' <=> IsLive(h) /\ h \notin {}
    OBVIOUS
  <2>2. Live' = Live \ {}
    BY <2>1, LiveAsSets
  <2>3. QED
    BY <2>2
<1>2. \A o \in Objects : Refs(o)' = Refs(o)
  BY <1>1 DEF Refs
<1>3. QED
  BY <1>2 DEF RefcountExact

\* One reference is gone and its object's count is one less.
LEMMA OneLess ==
  ASSUME TypeInv, TypeInv', RefcountExact, NEW h \in Handles, IsLive(h),
         target' = target,
         refcnt' = [refcnt EXCEPT ![target[h]] = @ - 1],
         \A x \in Handles : IsLive(x)' <=> IsLive(x) /\ x # h
  PROVE  RefcountExact'
<1>1. Live' = Live \ {h} /\ h \in Live
  BY LiveAsSets, LiveIsLive
<1>2. ASSUME NEW o \in Objects PROVE refcnt'[o] = Cardinality(Refs(o)')
  <2>1. Refs(o)' = Refs(o) \ {h}
    BY <1>1 DEF Refs
  <2>2. /\ Cardinality(Refs(o) \ {h}) =
             IF h \in Refs(o) THEN Cardinality(Refs(o)) - 1 ELSE Cardinality(Refs(o))
    BY RefsFinite, FS_RemoveElement
  <2>3. h \in Refs(o) <=> o = target[h]
    BY <1>1 DEF Refs
  <2>4. refcnt[o] = Cardinality(Refs(o)) /\ refcnt[o] \in Int
    BY DEF RefcountExact, TypeInv
  <2>5. refcnt'[o] = IF o = target[h] THEN refcnt[o] - 1 ELSE refcnt[o]
    BY DEF TypeInv
  <2>6. QED
    BY <2>1, <2>2, <2>3, <2>4, <2>5
<1>3. QED
  BY <1>2 DEF RefcountExact

\* A reference that was nowhere is made to an object, whose count is one more.
LEMMA OneMore ==
  ASSUME TypeInv, TypeInv', RefcountExact, NEW h \in Handles, ~IsLive(h),
         NEW o \in Objects, target' = [target EXCEPT ![h] = o],
         refcnt' = [refcnt EXCEPT ![o] = @ + 1],
         \A x \in Handles : IsLive(x)' <=> IsLive(x) \/ x = h
  PROVE  RefcountExact'
<1>1. h \notin Live
  BY LiveIsLive
<1>2. Live' = Live \cup {h}
  <2>1. \A x \in Handles : x \in Live' <=> x \in Live \cup {h}
    BY LiveIsLive, LiveIsLiveNext
  <2>2. QED
    BY <2>1 DEF Live
<1>3. ASSUME NEW p \in Objects PROVE refcnt'[p] = Cardinality(Refs(p)')
  <2>1. Refs(p)' = IF p = o THEN Refs(p) \cup {h} ELSE Refs(p)
    BY <1>1, <1>2 DEF Refs, TypeInv, Live
  <2>2. h \notin Refs(p)
    BY <1>1 DEF Refs
  <2>3. Cardinality(Refs(p) \cup {h}) = Cardinality(Refs(p)) + 1
    BY <2>2, RefsFinite, FS_AddElement
  <2>4. refcnt[p] = Cardinality(Refs(p)) /\ refcnt[p] \in Int
    BY DEF RefcountExact, TypeInv
  <2>5. refcnt'[p] = IF p = o THEN refcnt[p] + 1 ELSE refcnt[p]
    BY DEF TypeInv
  <2>6. QED
    BY <2>1, <2>3, <2>4, <2>5
<1>4. QED
  BY <1>3 DEF RefcountExact

LEMMA KeepRefs ==
  ASSUME TypeInv, TypeInv', RefInv, SameBatches, UNCHANGED refVars
  PROVE  RefInv' /\ Spares({})
<1>1. Disjoint'
  BY DEF Disjoint, SameBatches, RefInv, refVars
<1>2. \A h \in Handles : IsLive(h)' <=> IsLive(h)
  BY DEF IsLive, SameBatches, refVars
<1>3. QED
  BY <1>1, <1>2, SameCounts DEF RefInv, refVars, Spares

LEMMA DrainRefs ==
  ASSUME TypeInv, TypeInv', RefInv, NEW t \in Threads, NEW n \in Nat,
         Drained(t, n), owned' = owned, target' = target, refcnt' = refcnt
  PROVE  RefInv' /\ Spares({})
<1>1. Disjoint'
  BY DEF Disjoint, Drained, RefInv
<1>2. \A h \in Handles : IsLive(h)' <=> IsLive(h)
  BY DEF IsLive, Drained
<1>3. QED
  BY <1>1, <1>2, SameCounts DEF RefInv, Spares

\* h is decremented, and in nobody's hands; in no batch; in no batch but one
\* that takes the pool.
Decremented(h) ==
  /\ target' = target
  /\ refcnt' = [refcnt EXCEPT ![target[h]] = @ - 1]
  /\ \A u \in Threads : owned'[u] = owned[u] \ {h}

BatchesWithout(h) == \A u \in Threads : \A i \in Nat : Batch(u, i)' = Batch(u, i) \ {h}

DrainedWithout(h, t, n) ==
  \A u \in Threads : \A i \in Nat :
    Batch(u, i)' = IF u = t /\ i = n THEN pool ELSE Batch(u, i) \ {h}

\* The reference h leaves the batch or the Py<T> it was in; unless the
\* object's destructor enters a trampoline, nothing else moves.
LEMMA RemoveRef ==
  ASSUME TypeInv, TypeInv', RefInv, NEW h \in Handles, IsLive(h), h \notin pool,
         pool' = pool, Decremented(h), BatchesWithout(h)
  PROVE  RefInv' /\ Spares({h})
<1>1. Disjoint'
  BY DEF Disjoint, RefInv, Decremented, BatchesWithout
<1>2. \A x \in Handles : IsLive(x)' <=> IsLive(x) /\ x # h
  BY DEF IsLive, Decremented, BatchesWithout
<1>3. QED
  BY <1>1, <1>2, OneLess DEF RefInv, Spares, Decremented

LEMMA RemoveRefAndDrain ==
  ASSUME TypeInv, TypeInv', RefInv, NEW h \in Handles, IsLive(h), h \notin pool,
         NEW t \in Threads, NEW n \in Nat, Batch(t, n) = {},
         pool' = {}, Decremented(h), DrainedWithout(h, t, n)
  PROVE  RefInv' /\ Spares({h})
<1>1. Disjoint'
  BY DEF Disjoint, RefInv, Decremented, DrainedWithout
<1>2. \A x \in Handles : IsLive(x)' <=> IsLive(x) /\ x # h
  BY DEF IsLive, Decremented, DrainedWithout
<1>3. QED
  BY <1>1, <1>2, OneLess DEF RefInv, Spares, Decremented

-------------------------------------------------------------------------------
(***************************************************************************)
(* Every step.                                                             *)
(***************************************************************************)

\* A guard that attaches takes the pool into its batch.
LEMMA PushAttachDrains ==
  ASSUME TypeInv, NEW t \in Threads, NEW k \in CountingKinds, PushAttach(t, k)
  PROVE  \E n \in Nat : Drained(t, n)
<1> DEFINE f == Guard(k, count[t], pool)
<1>1. f \in Frame /\ f.batch = pool
  BY GuardIsFrame DEF Guard, Kinds, AttachedKinds, TypeInv
<1>2. Pushed(t, f) /\ pool' = {}
  BY DEF PushAttach, Pushed
<1> HIDE DEF f
<1>3. Gains(t, Len(stack[t]) + 1, pool)
  BY <1>1, <1>2, PushBatch
<1>4. QED
  BY <1>2, <1>3 DEF Gains, Drained

LEMMA PushEmpty ==
  ASSUME TypeInv, NEW t \in Threads, NEW f \in Frame, f.batch = {},
         stack' = [stack EXCEPT ![t] = Append(@, f)]
  PROVE  SameBatches
<1>1. Gains(t, Len(stack[t]) + 1, {})
  BY PushBatch DEF Pushed
<1>2. QED
  BY <1>1 DEF Gains, SameBatches

\* SuspendAttach::drop turns its own guard into one that drains the pool.
LEMMA RestoreDrains ==
  ASSUME TypeInv, GuardInv, NEW t \in Threads, Restore(t)
  PROVE  \E n \in Nat : Drained(t, n)
<1> DEFINE f == Guard("restored", Top(t).saved, pool)
<1> DEFINE n == Len(stack[t])
<1>1. /\ stack[t] # <<>> /\ Top(t).batch = {} /\ stack[t] \in Seq(Frame)
      /\ n \in Nat \ {0}
  BY TopIsFrame DEF Restore, GuardInv, ThreadOK, TypeInv
<1>2. f \in Frame /\ f.batch = pool
  BY <1>1, TopIsFrame, GuardIsFrame DEF Guard, Kinds, AttachedKinds, TypeInv
<1>3. stack'[t] = Append(Rest(t), f) /\ pool' = {}
  BY DEF Restore, TypeInv
<1>4. /\ Rest(t) \in Seq(Frame) /\ Len(Rest(t)) = n - 1
      /\ \A i \in 1..(n - 1) : Rest(t)[i] = stack[t][i]
  BY <1>1, PopGuard DEF Rest
<1> HIDE DEF f, n
<1>5. /\ Len(stack'[t]) = n /\ stack'[t][n] = f
      /\ \A i \in 1..(n - 1) : stack'[t][i] = stack[t][i]
  BY <1>1, <1>2, <1>3, <1>4, PushGuard
<1>6. ASSUME NEW i \in Nat
      PROVE  Batch(t, i)' = IF i = n THEN pool ELSE Batch(t, i)
  BY <1>1, <1>2, <1>5 DEF Batch, n
<1>7. ASSUME NEW u \in Threads, u # t, NEW i \in Nat
      PROVE  Batch(u, i)' = Batch(u, i)
  BY <1>7 DEF Restore, Batch, TypeInv
<1>8. Batch(t, n) = {}
  BY <1>1 DEF Batch, Top, n
<1>9. Drained(t, n)
  BY <1>3, <1>6, <1>7, <1>8 DEF Drained
<1>10. QED
  BY <1>1, <1>9

\* Py_DECREF of a reference that the rest of the step takes out of its place.
LEMMA DecrefRefs ==
  ASSUME TypeInv, TypeInv', RefInv, NEW t \in Threads, NEW h \in Handles,
         NEW st \in Seq(Frame), Decref(t, h, st), IsLive(h), h \notin pool,
         Len(st) = Len(stack[t]),
         \A i \in 1..Len(st) : st[i].batch = stack[t][i].batch \ {h},
         \A u \in Threads : owned'[u] = owned[u] \ {h},
         \A u \in Threads \ {t} : \A i \in Nat : h \notin Batch(u, i)
  PROVE  RefInv' /\ Spares({h})
<1> DEFINE f == Guard("assumed", count[t], pool)
<1>1. /\ target' = target
      /\ refcnt' = [refcnt EXCEPT ![target[h]] = @ - 1]
      /\ stack[t] \in Seq(Frame)
      /\ Len(st) \in Nat
  BY DEF Decref, TypeInv
<1>a. Decremented(h)
  BY <1>1 DEF Decremented
<1>2. CASE stack' = [stack EXCEPT ![t] = st] /\ UNCHANGED <<count, pool>>
  <2>1. \A u \in Threads : \A i \in Nat : Batch(u, i)' = Batch(u, i) \ {h}
    <3>1. \A i \in Nat : Batch(t, i)' = Batch(t, i) \ {h}
      BY <1>2 DEF Batch, TypeInv
    <3>2. ASSUME NEW u \in Threads, u # t, NEW i \in Nat
          PROVE  Batch(u, i)' = Batch(u, i) \ {h}
      BY <1>2, <3>2 DEF Batch, TypeInv
    <3>3. QED
      BY <3>1, <3>2
  <2>2. QED
    BY <1>2, <1>a, <2>1, RemoveRef DEF BatchesWithout
<1>3. CASE stack' = [stack EXCEPT ![t] = Append(st, f)] /\ pool' = {}
  <2> DEFINE n == Len(st) + 1
  <2>1. f \in Frame /\ f.batch = pool
    BY GuardIsFrame
       DEF Guard, Kinds, AttachedKinds, CountingKinds, TypeInv
  <2> HIDE DEF f
  <2>2. /\ Len(Append(st, f)) = n /\ Append(st, f)[n] = f /\ n \in Nat
        /\ \A i \in 1..Len(st) : Append(st, f)[i] = st[i]
    <3>1. /\ Len(Append(st, f)) = Len(st) + 1 /\ Append(st, f)[Len(Append(st, f))] = f
          /\ \A i \in 1..Len(st) : Append(st, f)[i] = st[i]
      BY <2>1, PushGuard, Zenon
    <3>2. QED
      BY <1>1, <3>1
  <2>3. \A i \in Nat : Batch(t, i)' = IF i = n THEN pool ELSE Batch(t, i) \ {h}
    <3>1. stack'[t] = Append(st, f)
      BY <1>3 DEF TypeInv
    <3>2. /\ Len(stack'[t]) = n /\ stack'[t][n] = f
          /\ \A i \in 1..Len(st) : stack'[t][i] = st[i]
      BY <2>2, <3>1
    <3>3. ASSUME NEW i \in 1..Len(st) PROVE Batch(t, i)' = Batch(t, i) \ {h}
      BY <1>1, <3>2 DEF Batch
    <3>4. ASSUME NEW i \in Nat, i # n, i \notin 1..Len(st)
          PROVE  Batch(t, i)' = Batch(t, i) \ {h}
      BY <1>1, <3>2, <3>4 DEF Batch
    <3>5. Batch(t, n)' = pool
      BY <1>1, <2>1, <3>2 DEF Batch
    <3>6. QED
      BY <3>3, <3>4, <3>5
  <2>4. ASSUME NEW u \in Threads, u # t, NEW i \in Nat
        PROVE  Batch(u, i)' = Batch(u, i) \ {h}
    BY <1>3, <2>4 DEF Batch, TypeInv
  <2>5. Batch(t, n) = {}
    BY <1>1 DEF Batch
  <2>6. \A u \in Threads : \A i \in Nat :
          Batch(u, i)' = IF u = t /\ i = n THEN pool ELSE Batch(u, i) \ {h}
    BY <2>3, <2>4
  <2>7. DrainedWithout(h, t, n)
    BY <2>6 DEF DrainedWithout
  <2> HIDE DEF n
  <2>8. QED
    BY <1>3, <1>a, <2>2, <2>5, <2>7, RemoveRefAndDrain
<1>4. QED
  BY <1>2, <1>3 DEF Decref

\* Steps that push a guard without references, or that touch no guard.
LEMMA QuietSteps ==
  ASSUME TypeInv, TypeInv', GuardInv, RefInv, NEW t \in Threads,
         \/ Release(t) \/ Resume(t) \/ SwitchOut(t) \/ SwitchIn(t)
         \/ Suspend(t) \/ Forbid(t) \/ EnterPython(t)
  PROVE  RefInv' /\ Spares({})
<1>0. count[t] \in Int /\ {"suspend", "forbid", "python"} \subseteq Kinds
  BY DEF TypeInv, Kinds, AttachedKinds
<1>1. ASSUME NEW k \in {"suspend", "forbid", "python"}
      PROVE  /\ Guard(k, count[t], {}) \in Frame
             /\ Guard(k, count[t], {}).batch = {}
  BY <1>0, GuardIsFrame DEF Guard
<1>2. CASE Release(t) \/ Resume(t) \/ SwitchOut(t) \/ SwitchIn(t)
  <2>1. UNCHANGED stack /\ UNCHANGED refVars
    BY <1>2 DEF Release, Resume, SwitchOut, SwitchIn
  <2>2. SameBatches
    BY <2>1 DEF SameBatches, Batch
  <2>3. QED
    BY <2>1, <2>2, KeepRefs
<1>3. CASE Suspend(t)
  BY <1>1, <1>3, PushEmpty, KeepRefs DEF Suspend
<1>4. CASE Forbid(t)
  BY <1>1, <1>4, PushEmpty, KeepRefs DEF Forbid
<1>5. CASE EnterPython(t)
  <2>1. stack' = [stack EXCEPT ![t] = Append(@, Guard("python", count[t], {}))]
    BY <1>5 DEF EnterPython, TypeInv
  <2>2. QED
    BY <1>1, <1>5, <2>1, PushEmpty, KeepRefs DEF EnterPython
<1>6. QED
  BY <1>2, <1>3, <1>4, <1>5

\* A guard that goes away has dropped all it took from the pool.
LEMMA PopSteps ==
  ASSUME TypeInv, TypeInv', GuardInv, RefInv, NEW t \in Threads,
         \/ DropGuard(t) \/ Decrement(t) \/ Restored(t) \/ Unforbid(t)
         \/ LeavePython(t)
  PROVE  RefInv' /\ Spares({})
<1>1. stack[t] # <<>> /\ Top(t).batch = {}
  <2>1. CASE Decrement(t)
    BY <2>1, MidOperation DEF Decrement, GuardInv, ThreadOK
  <2>2. CASE ~Decrement(t)
    BY <2>2 DEF DropGuard, Restored, Unforbid, LeavePython, Running, TopIs
  <2>3. QED
    BY <2>1, <2>2
<1>2. /\ stack' = [stack EXCEPT ![t] = Rest(t)]
      /\ UNCHANGED refVars
  BY DEF DropGuard, Decrement, Restored, Unforbid, LeavePython
<1>3. SameBatches
  BY <1>1, <1>2, PopBatch
<1>4. QED
  BY <1>2, <1>3, KeepRefs

\* The three ways of attaching, and re-attaching, take the whole pool.
LEMMA DrainSteps ==
  ASSUME TypeInv, TypeInv', GuardInv, RefInv, NEW t \in Threads,
         AttachAssumed(t) \/ Trampoline(t) \/ AttachEnsure(t) \/ Restore(t)
  PROVE  RefInv' /\ Spares({})
<1>1. CASE \E k \in CountingKinds : PushAttach(t, k)
  <2> PICK n \in Nat : Drained(t, n)
    BY <1>1, PushAttachDrains
  <2>1. owned' = owned /\ target' = target /\ refcnt' = refcnt
    BY <1>1 DEF PushAttach
  <2>2. QED
    BY <2>1, DrainRefs
<1>2. CASE Restore(t)
  <2> PICK n \in Nat : Drained(t, n)
    BY <1>2, RestoreDrains
  <2>1. owned' = owned /\ target' = target /\ refcnt' = refcnt
    BY <1>2 DEF Restore
  <2>2. QED
    BY <2>1, DrainRefs
<1>3. QED
  BY <1>1, <1>2 DEF AttachAssumed, Trampoline, AttachEnsure, CountingKinds

\* A Py<T> that comes into being, for a new object or as a clone.
LEMMA NewReference ==
  ASSUME TypeInv, TypeInv', RefInv, NEW t \in Threads, NEW h \in Handles,
         NEW o \in Objects, h \notin Live,
         target' = [target EXCEPT ![h] = o],
         refcnt' = [refcnt EXCEPT ![o] = @ + 1],
         owned' = [owned EXCEPT ![t] = @ \cup {h}],
         UNCHANGED <<guardVars, pool>>
  PROVE  RefInv' /\ Spares({})
<1>1. ~IsLive(h)
  BY LiveIsLive
<1>2. /\ pool' = pool
      /\ \A u \in Threads :
           owned'[u] = IF u = t THEN owned[u] \cup {h} ELSE owned[u]
      /\ \A u \in Threads : \A i \in Nat : Batch(u, i)' = Batch(u, i)
  BY DEF guardVars, TypeInv, Batch
<1>3. Disjoint'
  BY <1>1, <1>2 DEF Disjoint, RefInv, IsLive
<1>4. \A x \in Handles : IsLive(x)' <=> IsLive(x) \/ x = h
  BY <1>1, <1>2 DEF IsLive
<1>5. QED
  BY <1>1, <1>3, <1>4, OneMore DEF RefInv, Spares

\* A Py<T> that changes hands: to another thread, or into the pool.
LEMMA MovedReference ==
  ASSUME TypeInv, TypeInv', RefInv, NEW t \in Threads, NEW h \in Handles,
         (\E u \in Threads : Send(t, u, h)) \/ DropLater(t, h)
  PROVE  RefInv' /\ Spares({})
<1>0. h \in owned[t] /\ target' = target /\ refcnt' = refcnt
  BY DEF Send, DropLater
<1>1. \A u \in Threads : \A i \in Nat :
        Batch(u, i)' = Batch(u, i) /\ h \notin Batch(u, i)
  BY <1>0 DEF Send, DropLater, guardVars, Batch, RefInv, Disjoint
<1>11. /\ \A u \in Threads : h \in owned[u] <=> u = t
       /\ h \notin pool
  BY <1>0 DEF RefInv, Disjoint
<1>2. CASE DropLater(t, h)
  <2>1. /\ pool' = pool \cup {h}
        /\ \A u \in Threads :
             \A x : x \in owned'[u] <=> x \in owned[u] /\ x # h
    BY <1>2, <1>11 DEF DropLater, TypeInv
  <2>2. Disjoint'
    <3>1. \A u, w \in Threads : u # w => owned'[u] \cap owned'[w] = {}
      BY <1>11, <2>1 DEF Disjoint, RefInv
    <3>2. \A u \in Threads : owned'[u] \cap pool' = {}
      BY <1>11, <2>1 DEF Disjoint, RefInv
    <3>3. \A u \in Threads : \A i \in Nat :
            /\ Batch(u, i)' \cap pool' = {}
            /\ \A w \in Threads : Batch(u, i)' \cap owned'[w] = {}
            /\ \A w \in Threads : \A j \in Nat :
                 u # w \/ i # j => Batch(u, i)' \cap Batch(w, j)' = {}
      BY <1>1, <1>11, <2>1 DEF Disjoint, RefInv
    <3>4. QED
      BY <3>1, <3>2, <3>3 DEF Disjoint
  <2>3. \A x \in Handles : IsLive(x)' <=> IsLive(x)
    BY <1>0, <1>1, <2>1 DEF IsLive
  <2>4. QED
    BY <1>0, <2>2, <2>3, SameCounts DEF RefInv, Spares
<1>3. CASE \E u \in Threads : Send(t, u, h)
  <2> PICK v \in Threads : Send(t, v, h)
    BY <1>3
  <2>1. /\ pool' = pool /\ v # t
        /\ \A u \in Threads :
             \A x : x \in owned'[u] <=>
                    IF x = h THEN u = v ELSE x \in owned[u]
    BY <1>11 DEF Send, TypeInv
  <2>2. Disjoint'
    <3>1. \A u, w \in Threads : u # w => owned'[u] \cap owned'[w] = {}
      BY <1>11, <2>1 DEF Disjoint, RefInv
    <3>2. \A u \in Threads : owned'[u] \cap pool' = {}
      BY <1>11, <2>1 DEF Disjoint, RefInv
    <3>3. \A u \in Threads : \A i \in Nat :
            /\ Batch(u, i)' \cap pool' = {}
            /\ \A w \in Threads : Batch(u, i)' \cap owned'[w] = {}
            /\ \A w \in Threads : \A j \in Nat :
                 u # w \/ i # j => Batch(u, i)' \cap Batch(w, j)' = {}
      BY <1>1, <1>11, <2>1 DEF Disjoint, RefInv
    <3>4. QED
      BY <3>1, <3>2, <3>3 DEF Disjoint
  <2>3. \A x \in Handles : IsLive(x)' <=> IsLive(x)
    BY <1>0, <1>1, <2>1 DEF IsLive
  <2>4. QED
    BY <1>0, <2>2, <2>3, SameCounts DEF RefInv, Spares
<1>4. QED
  BY <1>2, <1>3

\* A Py<T> dropped while attached.
LEMMA DroppedReference ==
  ASSUME TypeInv, TypeInv', RefInv, NEW t \in Threads, NEW h \in Handles,
         DropNow(t, h)
  PROVE  RefInv' /\ Spares({h})
<1>1. /\ Decref(t, h, stack[t]) /\ h \in owned[t]
      /\ owned' = [owned EXCEPT ![t] = @ \ {h}]
      /\ stack[t] \in Seq(Frame)
  BY DEF DropNow, TypeInv
<1>2. /\ IsLive(h) /\ h \notin pool
      /\ \A u \in Threads \ {t} : h \notin owned[u]
      /\ \A u \in Threads : \A i \in Nat : h \notin Batch(u, i)
  BY <1>1 DEF IsLive, RefInv, Disjoint
<1>3. \A u \in Threads : owned'[u] = owned[u] \ {h}
  BY <1>1, <1>2 DEF TypeInv
<1>4. \A i \in 1..Len(stack[t]) : stack[t][i].batch = stack[t][i].batch \ {h}
  <2>1. \A i \in 1..Len(stack[t]) :
          i \in Nat /\ Batch(t, i) = stack[t][i].batch
    BY <1>1 DEF Batch
  <2>2. QED
    BY <1>2, <2>1
<1>5. QED
  BY <1>1, <1>2, <1>3, <1>4, DecrefRefs

\* A reference dropped by the loop of drop_deferred_references.
LEMMA DeferredReference ==
  ASSUME TypeInv, TypeInv', RefInv, NEW t \in Threads, NEW h \in Handles,
         DecrefDeferred(t, h)
  PROVE  RefInv' /\ Spares({h})
<1> DEFINE st == Shrunk(stack[t], h)
<1> DEFINE n == Len(stack[t])
<1>1. /\ stack[t] \in Seq(Frame) /\ stack[t] # <<>> /\ h \in stack[t][n].batch
      /\ n \in Nat \ {0} /\ owned' = owned
  BY DEF DecrefDeferred, TypeInv, Top
<1>2. /\ st \in Seq(Frame) /\ Len(st) = n
      /\ \A i \in 1..n : i # n => st[i] = stack[t][i]
      /\ st[n].batch = stack[t][n].batch \ {h}
  <2>1. /\ st \in Seq(Frame)
        /\ st # <<>>
        /\ Len(st) = Len(stack[t])
        /\ \A i \in 1..Len(stack[t]) :
             /\ st[i].kind = stack[t][i].kind
             /\ st[i].saved = stack[t][i].saved
             /\ i # Len(stack[t]) => st[i] = stack[t][i]
        /\ st[Len(stack[t])].batch = stack[t][Len(stack[t])].batch \ {h}
    <3>1. stack[t] \in Seq(Frame) /\ stack[t] # <<>>
      BY <1>1
    <3>2. QED
      BY <3>1, ShrinkBatch, Zenon
  <2> HIDE DEF st
  <2>2. QED
    BY <2>1
<1>3. Decref(t, h, st)
  BY DEF DecrefDeferred, Shrunk
<1> HIDE DEF st
<1>4. Batch(t, n) = stack[t][n].batch
  BY <1>1 DEF Batch
<1>5. /\ IsLive(h) /\ h \notin pool
      /\ \A u \in Threads : h \notin owned[u]
      /\ \A u \in Threads : \A i \in Nat : u # t \/ i # n => h \notin Batch(u, i)
  BY <1>1, <1>4 DEF IsLive, RefInv, Disjoint
<1>6. \A u \in Threads : owned'[u] = owned[u] \ {h}
  BY <1>1, <1>5
<1>7. \A i \in 1..Len(st) : st[i].batch = stack[t][i].batch \ {h}
  <2> SUFFICES ASSUME NEW i \in 1..n PROVE st[i].batch = stack[t][i].batch \ {h}
    BY <1>2
  <2>1. CASE i = n
    BY <1>2, <2>1
  <2>2. CASE i # n
    <3>1. i \in Nat /\ Batch(t, i) = stack[t][i].batch
      BY <1>1 DEF Batch
    <3>2. QED
      BY <1>2, <1>5, <2>2, <3>1
  <2>3. QED
    BY <2>1, <2>2
<1> HIDE DEF n
<1>8. Len(st) = Len(stack[t])
  BY <1>2 DEF n
<1>9. \A u \in Threads \ {t} : \A i \in Nat : h \notin Batch(u, i)
  BY <1>5
<1>10. QED
  BY <1>2, <1>3, <1>5, <1>6, <1>7, <1>8, <1>9, DecrefRefs

LEMMA StepRefs ==
  ASSUME TypeInv, TypeInv', GuardInv, RefInv, NEW t \in Threads, ThreadStep(t)
  PROVE  /\ RefInv'
         /\ \/ Spares({})
            \/ \E h \in Handles :
                 Spares({h}) /\ (DropNow(t, h) \/ DecrefDeferred(t, h))
<1>1. CASE GuardStep(t) \/ InterpreterStep(t)
  BY <1>1, QuietSteps, PopSteps, DrainSteps DEF GuardStep, InterpreterStep
<1>2. CASE RefStep(t)
  <2> PICK h \in Handles :
        \/ \E o \in Objects : Create(t, h, o)
        \/ \E src \in Handles : CloneRef(t, h, src)
        \/ \E u \in Threads : Send(t, u, h)
        \/ DropNow(t, h) \/ DropLater(t, h) \/ DecrefDeferred(t, h)
    BY <1>2 DEF RefStep
  <2>1. CASE \E o \in Objects : Create(t, h, o)
    <3> PICK o \in Objects : Create(t, h, o)
      BY <2>1
    <3>1. refcnt' = [refcnt EXCEPT ![o] = @ + 1]
      BY DEF Create, TypeInv
    <3>2. QED
      BY <3>1, NewReference DEF Create
  <2>2. CASE \E src \in Handles : CloneRef(t, h, src)
    <3> PICK src \in Handles : CloneRef(t, h, src)
      BY <2>2
    <3>1. target[src] \in Objects
      BY DEF TypeInv
    <3>2. QED
      BY <3>1, NewReference DEF CloneRef
  <2>3. QED
    BY <2>1, <2>2, MovedReference, DroppedReference, DeferredReference
<1>3. QED
  BY <1>1, <1>2 DEF ThreadStep

LEMMA InitRefs == Init => RefInv
<1> SUFFICES ASSUME Init PROVE RefInv
  OBVIOUS
<1>1. \A t \in Threads : \A i \in Nat : Batch(t, i) = {}
  BY DEF Init, Batch
<1>2. Disjoint
  BY <1>1 DEF Init, Disjoint
<1>3. Live = {}
  BY DEF Init, Live, Batched
<1>4. \A o \in Objects : Refs(o) = {}
  BY <1>3 DEF Refs
<1>5. RefcountExact
  BY <1>4, FS_EmptySet DEF Init, RefcountExact
<1>6. QED
  BY <1>2, <1>5 DEF RefInv

-------------------------------------------------------------------------------
(***************************************************************************)
(* The theorems.                                                           *)
(***************************************************************************)
LEMMA RefsAreConsistent == Spec => [](TypeInv /\ GuardInv /\ RefInv)
<1>1. Init => RefInv
  BY InitRefs
<1>2. TypeInv /\ TypeInv' /\ GuardInv /\ RefInv /\ [Next]_vars => RefInv'
  <2> SUFFICES ASSUME TypeInv, TypeInv', GuardInv, RefInv, [Next]_vars
               PROVE  RefInv'
    OBVIOUS
  <2>1. CASE \E t \in Threads : ThreadStep(t)
    BY <2>1, StepRefs
  <2>2. CASE UNCHANGED vars
    <3>1. UNCHANGED stack /\ UNCHANGED refVars
      BY <2>2 DEF vars, stateVars, refVars
    <3>2. SameBatches
      BY <3>1 DEF SameBatches, Batch
    <3>3. QED
      BY <3>1, <3>2, KeepRefs
  <2>3. QED
    BY <2>1, <2>2 DEF Next, ThreadStep
<1>3. QED
  BY <1>1, <1>2, GuardsAreConsistent, PTL DEF Spec

\* The reference count of an object is the number of Py<T> that are owned,
\* parked in the pool or waiting in some drain: nothing leaks while it is
\* parked and nothing is freed while it is referenced, however destructors,
\* drains and guards nest (state.rs:204, instance.rs:2272).
THEOREM RefcountsAreExact == Spec => []RefcountExact
BY RefsAreConsistent, PTL DEF RefInv

\* A reference is never both owned and parked, nor in two drains at once, so
\* no reference is decremented twice.
THEOREM ReferencesHaveOnePlace == Spec => []OnePlace
<1>1. TypeInv /\ RefInv => OnePlace
  BY DisjointOnePlace DEF RefInv
<1>2. QED
  BY <1>1, RefsAreConsistent, PTL

\* The type invariant; that a count is not negative is a consequence of its
\* being the number of references.
THEOREM TypesAreRight == Spec => []TypeOK
<1>1. Init => freeThreaded \in BOOLEAN
  BY AttachAssumption DEF Init, AttachAssumption
<1>2. freeThreaded \in BOOLEAN /\ [Next]_vars => (freeThreaded \in BOOLEAN)'
  BY DEF Next, vars
<1>3. freeThreaded \in BOOLEAN /\ TypeInv /\ RefInv => TypeOK
  BY RefsFinite DEF TypeInv, RefInv, RefcountExact, TypeOK
<1>4. QED
  BY <1>1, <1>2, <1>3, RefsAreConsistent, PTL DEF Spec

\* A thread in the loop of drop_deferred_references is attached.
LEMMA Draining ==
  ASSUME TypeInv, GuardInv, NEW t \in Threads, NEW h, DecrefDeferred(t, h)
  PROVE  t \in attached
<1>1. stack[t] # <<>> /\ h \in Top(t).batch /\ mode[t] = "run"
  BY DEF DecrefDeferred
<1>2. BatchOK(Top(t))
  BY <1>1 DEF GuardInv, StackOK, Top, TypeInv
<1>3. Top(t).kind \in AttachedKinds
  BY <1>1, <1>2, TopIsFrame DEF BatchOK, Kinds
<1>4. QED
  BY <1>1, <1>3 DEF GuardInv, ThreadOK

\* Only a thread that is attached decrements a reference count.
THEOREM DecrefsAreAttached == Spec => DecrefWhileAttached
<1>1. TypeInv /\ TypeInv' /\ GuardInv /\ RefInv /\ [Next]_vars =>
        [\A h \in Live : h \notin Live' =>
           \E t \in attached : h \in owned[t] \cup Batched(t)]_vars
  <2> SUFFICES ASSUME TypeInv, TypeInv', GuardInv, RefInv,
                      NEW t \in Threads, ThreadStep(t),
                      NEW h \in Live, h \notin Live'
               PROVE  \E u \in attached : h \in owned[u] \cup Batched(u)
    BY DEF Next, ThreadStep
  <2>1. h \in Handles /\ IsLive(h) /\ ~IsLive(h)'
    BY LiveIsLive, LiveIsLiveNext DEF Live
  <2>2. DropNow(t, h) \/ DecrefDeferred(t, h)
    BY <2>1, StepRefs DEF Spares
  <2>3. h \in owned[t] \cup Batched(t)
    <3>1. CASE DropNow(t, h)
      BY <3>1 DEF DropNow
    <3>2. CASE DecrefDeferred(t, h)
      <4>1. stack[t] # <<>> /\ h \in Top(t).batch
        BY <3>2 DEF DecrefDeferred
      <4>2. Len(stack[t]) \in 1..Len(stack[t])
        BY <4>1, TopIsFrame
      <4>3. QED
        BY <4>1, <4>2 DEF Batched, Top
    <3>3. QED
      BY <2>2, <3>1, <3>2
  <2>4. t \in attached
    <3>1. CASE DropNow(t, h)
      BY <3>1, RunningAttached DEF DropNow, ThreadIsAttached, Running
    <3>2. CASE DecrefDeferred(t, h)
      BY <3>2, Draining
    <3>3. QED
      BY <2>2, <3>1, <3>2
  <2>5. QED
    BY <2>3, <2>4
<1>2. QED
  BY <1>1, RefsAreConsistent, PTL DEF Spec, DecrefWhileAttached
===============================================================================
