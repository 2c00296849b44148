--------------------------- MODULE CoroutineProofs ---------------------------
(***************************************************************************)
(* Proofs about Coroutine, for any number of waking threads, polls and     *)
(* thrown exceptions.                                                      *)
(***************************************************************************)
EXTENDS Coroutine, TLAPS

(***************************************************************************)
(* Where the coroutine is: the cell of the current waker is open in the    *)
(* body and locked while the future is made; a task that waits does so for *)
(* the future in it.  Another poll may follow unless the task is done.     *)
(***************************************************************************)
PollInv ==
  /\ phase = "body" => cell[current] \in {Empty, WokenEarly}
  /\ phase = "creating" => cell[current] = Creating /\ polls < MaxPolls
  /\ phase = "idle" /\ task # "done" => polls < MaxPolls
  /\ task = "waiting" => current # 0 /\ cell[current] = polls /\ awaited = polls

\* A clone of the current waker, during a poll, is of this poll.
CloneInv ==
  /\ \A h \in Holders : clone[h].waker \in 0..current
  /\ phase # "idle" =>
       \A h \in Holders : clone[h].waker = current => clone[h].poll = polls
  /\ CloneOfItsPoll

(***************************************************************************)
(* What becomes of the registration of an event that was found pending:    *)
(* the source has the waker and nothing happened; it was woken before its  *)
(* future was made; a worker has the waker and has not looked into it; or  *)
(* the future is on its way to be done.                                    *)
(***************************************************************************)
Registered == clone["source"].waker = current /\ ~fired
InHand == \E b \in Workers : clone[b].waker = current /\ handing[b] = 0
OnItsWay ==
  /\ task = "waiting"
  /\ awaited \in posted \cup done \/ \E b \in Workers : handing[b] = awaited
EventInv ==
  (phase # "idle" \/ task = "waiting") /\ Pending("event") =>
    Registered \/ cell[current] = WokenEarly \/ InHand \/ OnItsWay

CoInv == TypeOK /\ PollInv /\ CloneInv /\ CancelNotMissed /\ EventInv

CellType == [Wakers -> Futures \cup {Empty, Creating, WokenEarly}]
CloneType == [Holders -> [waker : 0..MaxPolls, poll : 0..MaxPolls]]

-----------------------------------------------------------------------------
(* The beginning of a poll.                                                *)

\* Waking a waker fills an empty cell and leaves any other as it is.
LEMMA WokenCells ==
  ASSUME TypeOK, NEW w \in Wakers
  PROVE  /\ Woken(w) \in CellType
         /\ \A v \in Wakers : Woken(w)[v] # cell[v] =>
              v = w /\ cell[v] = Empty /\ Woken(w)[v] = WokenEarly
  BY DEF TypeOK, CellType, Woken, Empty, WokenEarly

\* A clone is dropped.
LEMMA ClonesLeft ==
  ASSUME CoroutineAssumption, TypeOK, NEW h \in Holders,
         clone' = [clone EXCEPT ![h] = NoClone]
  PROVE  /\ clone' \in CloneType
         /\ clone'[h] = NoClone
         /\ \A g \in Holders : g # h => clone'[g] = clone[g]
<1>1. clone \in CloneType
  BY DEF TypeOK, CloneType
<1>2. NoClone \in [waker : 0..MaxPolls, poll : 0..MaxPolls]
  BY DEF NoClone, CoroutineAssumption
<1> HIDE DEF NoClone
<1> QED
  BY <1>1, <1>2 DEF CloneType

\* A new poll finds the waker's cell empty and no clone of the waker out, and
\* nothing has been asked in it; clones of other wakers are as they were.
LEMMA EnterStep ==
  ASSUME CoroutineAssumption, CoInv, Runnable, alive,
         NEW cells \in CellType,
         \A v \in Wakers : cells[v] \in Futures => cells[v] = cell[v],
         clone' \in CloneType,
         \A h \in Holders : clone'[h] \in {clone[h], NoClone},
         exception' \in BOOLEAN, posted' \in SUBSET Futures,
         EnterBody(cells)
  PROVE  CoInv'
<1> USE DEF Empty, Creating, WokenEarly, Wakers, Futures, Holders, CellType, CloneType
<1> DEFINE w == IF Unique THEN current ELSE polls + 1
<1>1. /\ polls \in 0..MaxPolls /\ MaxPolls \in Nat /\ polls < MaxPolls
      /\ current \in 0..polls
  BY DEF CoInv, TypeOK, PollInv, Runnable, CoroutineAssumption
<1>2. /\ w \in 1..polls + 1 /\ w >= current
      /\ \A h \in Holders : clone'[h].waker # w
  <2>1. \A h \in Holders : clone'[h].waker \in 0..current
    BY <1>1 DEF CoInv, CloneInv, NoClone
  <2> QED
    BY <1>1, <2>1 DEF Unique
<1>3. /\ polls' = polls + 1 /\ current' = w
      /\ cell' = [cells EXCEPT ![w] = 0]
      /\ phase' = "body" /\ asked' = Unasked
      /\ task' = "ready" /\ awaited' = 0 /\ throwing' = FALSE
      /\ UNCHANGED <<hasHandle, alive, fired, handing, done, throws>>
  BY DEF EnterBody, Enter
<1> HIDE DEF w
<1>4. TypeOK'
  <2>1. cell' \in CellType /\ clone' \in CloneType
    BY <1>3
  <2>2. asked' \in [Sources -> {"no", "pending", "ready"}]
    BY <1>3 DEF Unasked
  <2>3. polls' \in 0..MaxPolls /\ current' \in 0..polls' /\ current' # 0
    BY <1>1, <1>2, <1>3
  <2>4. throwing' \in BOOLEAN /\ alive'
    BY <1>3
  <2> QED
    BY <1>1, <1>3, <2>1, <2>2, <2>3, <2>4 DEF CoInv, TypeOK
<1>5. PollInv'
  BY <1>1, <1>2, <1>3 DEF PollInv
<1>6. CloneInv'
  <2>1. \A h \in Holders : clone'[h].waker \in 0..current'
    BY <1>1, <1>2, <1>3 DEF CoInv, CloneInv, NoClone
  <2>2. CloneOfItsPoll'
    <3> SUFFICES ASSUME NEW h \in Holders,
                        clone'[h].waker # 0, cell'[clone'[h].waker] \in 1..MaxPolls
                 PROVE  cell'[clone'[h].waker] = clone'[h].poll
      BY DEF CloneOfItsPoll
    <3>1. clone'[h] = clone[h] /\ clone[h].waker \in 1..MaxPolls /\ clone[h].waker # w
      BY <1>2 DEF NoClone
    <3>2. cell'[clone[h].waker] = cell[clone[h].waker]
      BY <1>3, <3>1
    <3> QED
      BY <3>1, <3>2 DEF CoInv, CloneInv, CloneOfItsPoll
  <2> QED
    BY <1>2, <1>3, <2>1, <2>2 DEF CloneInv
<1>7. CancelNotMissed'
  BY <1>3 DEF CancelNotMissed, Pending, Unasked, Sources
<1>8. EventInv'
  BY <1>3 DEF EventInv, Pending, Unasked, Sources
<1> QED
  BY <1>4, <1>5, <1>6, <1>7, <1>8 DEF CoInv

LEMMA SendStep ==
  ASSUME CoroutineAssumption, CoInv, Send
  PROVE  CoInv'
<1>1. cell \in CellType /\ clone \in CloneType /\ exception \in BOOLEAN /\ posted \in SUBSET Futures
  BY DEF CoInv, TypeOK, CellType, CloneType
<1> QED
  BY <1>1, EnterStep DEF Send

LEMMA ThrowStep ==
  ASSUME CoroutineAssumption, CoInv, Throw
  PROVE  CoInv'
<1>1. /\ cell \in CellType /\ clone \in CloneType /\ posted \in SUBSET Futures
      /\ Runnable /\ alive /\ exception' = TRUE
      /\ clone' = [clone EXCEPT !["handle"] = NoClone]
  BY DEF CoInv, TypeOK, CellType, CloneType, Throw
<1>2. /\ clone' \in CloneType
      /\ \A h \in Holders : clone'[h] \in {clone[h], NoClone}
  BY <1>1 DEF CloneType, Holders, NoClone, CoroutineAssumption
<1>3. CASE clone["handle"].waker = 0
  <2>1. posted' = posted /\ EnterBody(cell)
    BY <1>3 DEF Throw
  <2> QED
    BY <1>1, <1>2, <2>1, EnterStep
<1>4. CASE clone["handle"].waker # 0
  <2> DEFINE w == clone["handle"].waker
  <2>1. posted' = posted \cup Completes(w) /\ EnterBody(Woken(w))
    BY <1>4 DEF Throw
  <2>2. w \in Wakers
    BY <1>1, <1>4 DEF CloneType, Holders, Wakers
  <2>3. /\ Woken(w) \in CellType
        /\ \A v \in Wakers : Woken(w)[v] \in Futures => Woken(w)[v] = cell[v]
    BY <2>2, WokenCells DEF CoInv, WokenEarly, Futures
  <2>4. posted' \in SUBSET Futures
    BY <1>1, <2>1 DEF Completes
  <2> HIDE DEF w
  <2> QED
    BY <1>1, <1>2, <2>1, <2>3, <2>4, EnterStep
<1> QED
  BY <1>3, <1>4

-----------------------------------------------------------------------------
(* The body, and the end of a poll.                                        *)

LEMMA ReraiseStep ==
  ASSUME CoroutineAssumption, CoInv, Reraise
  PROVE  CoInv'
<1> USE DEF Empty, Creating, WokenEarly, NoClone
<1>1. TypeOK'
  <2>1. /\ phase' = "idle" /\ task' = "done" /\ awaited' = 0
        /\ alive' \in BOOLEAN /\ throwing' \in BOOLEAN
        /\ UNCHANGED <<hasHandle, polls, current, asked, cell, clone, fired,
                       exception, handing, posted, done, throws>>
    BY DEF CoInv, TypeOK, Reraise, Runnable, Returns, sharedVars
  <2> QED
    BY <2>1 DEF CoInv, TypeOK, CoroutineAssumption
<1>2. PollInv'
  BY DEF CoInv, TypeOK, PollInv, Futures, Wakers, Holders, Reraise, Runnable, Returns, sharedVars
<1>3. CloneInv'
  BY DEF CoInv, TypeOK, PollInv, CloneInv, CloneOfItsPoll, Futures, Wakers, Holders, Reraise, Runnable, Returns, sharedVars
<1>4. CancelNotMissed'
  BY DEF CoInv, TypeOK, CancelNotMissed, Pending, Sources, Reraise, Runnable, Returns, sharedVars
<1>5. EventInv'
  BY DEF CoInv, TypeOK, PollInv, CloneInv, EventInv, Registered, InHand, OnItsWay, Pending,
         Sources, Futures, Wakers, Holders, Reraise, Runnable, Returns, sharedVars
<1> QED
  BY <1>1, <1>2, <1>3, <1>4, <1>5 DEF CoInv

LEMMA FinishStep ==
  ASSUME CoroutineAssumption, CoInv, Finish
  PROVE  CoInv'
<1> USE DEF Empty, Creating, WokenEarly, NoClone
<1>1. TypeOK'
  <2>1. /\ phase' = "idle" /\ task' = "done" /\ awaited' = 0
        /\ alive' \in BOOLEAN /\ throwing' \in BOOLEAN
        /\ UNCHANGED <<hasHandle, polls, current, asked, cell, clone, fired,
                       exception, handing, posted, done, throws>>
    BY DEF CoInv, TypeOK, Finish, Returns, sharedVars
  <2> QED
    BY <2>1 DEF CoInv, TypeOK, CoroutineAssumption
<1>2. PollInv'
  BY DEF CoInv, TypeOK, PollInv, Futures, Wakers, Holders, Finish, Returns, sharedVars
<1>3. CloneInv'
  BY DEF CoInv, TypeOK, PollInv, CloneInv, CloneOfItsPoll, Futures, Wakers, Holders, Finish, Returns, sharedVars
<1>4. CancelNotMissed'
  BY DEF CoInv, TypeOK, CancelNotMissed, Pending, Sources, Finish, Returns, sharedVars
<1>5. EventInv'
  BY DEF CoInv, TypeOK, PollInv, CloneInv, EventInv, Registered, InHand, OnItsWay, Pending,
         Sources, Futures, Wakers, Holders, Finish, Returns, sharedVars
<1> QED
  BY <1>1, <1>2, <1>3, <1>4, <1>5 DEF CoInv

LEMMA AskEventStep ==
  ASSUME CoroutineAssumption, CoInv, AskEvent
  PROVE  CoInv'
<1> USE DEF Empty, Creating, WokenEarly, NoClone
<1>1. TypeOK'
  <2>1. Clone \in [waker : 0..MaxPolls, poll : 0..MaxPolls]
    BY DEF CoInv, TypeOK, Clone, CoroutineAssumption
  <2>2. asked' \in [Sources -> {"no", "pending", "ready"}]
    BY DEF CoInv, TypeOK, Sources, AskEvent, Answer, Leave
  <2>3. clone' \in [Holders -> [waker : 0..MaxPolls, poll : 0..MaxPolls]]
    BY <2>1 DEF CoInv, TypeOK, AskEvent, Leave
  <2>4. /\ fired' \in BOOLEAN /\ exception' \in BOOLEAN
        /\ UNCHANGED <<hasHandle, alive, polls, current, phase, cell, handing,
                       posted, done, task, awaited, throwing, throws>>
    BY DEF CoInv, TypeOK, AskEvent, BodyStep, loopVars
  <2> QED
    BY <2>2, <2>3, <2>4 DEF CoInv, TypeOK
<1>2. PollInv'
  BY DEF CoInv, TypeOK, PollInv, Futures, Wakers, Holders, AskEvent, BodyStep, Answer, Leave, Clone, loopVars
<1>3. CloneInv'
  BY DEF CoInv, TypeOK, PollInv, CloneInv, CloneOfItsPoll, Futures, Wakers, Holders, AskEvent, BodyStep, Answer, Leave, Clone, loopVars
<1>4. CancelNotMissed'
  BY DEF CoInv, TypeOK, CancelNotMissed, Pending, Sources, AskEvent, BodyStep, Answer, Leave, Clone, loopVars
<1>5. EventInv'
  BY DEF CoInv, TypeOK, PollInv, CloneInv, EventInv, Registered, InHand, OnItsWay, Pending,
         Sources, Futures, Wakers, Holders, AskEvent, BodyStep, Answer, Leave, Clone, loopVars
<1> QED
  BY <1>1, <1>2, <1>3, <1>4, <1>5 DEF CoInv

LEMMA AskCancelStep ==
  ASSUME CoroutineAssumption, CoInv, AskCancel
  PROVE  CoInv'
<1> USE DEF Empty, Creating, WokenEarly, NoClone
<1>1. TypeOK'
  <2>1. Clone \in [waker : 0..MaxPolls, poll : 0..MaxPolls]
    BY DEF CoInv, TypeOK, Clone, CoroutineAssumption
  <2>2. asked' \in [Sources -> {"no", "pending", "ready"}]
    BY DEF CoInv, TypeOK, Sources, AskCancel, Answer, Leave
  <2>3. clone' \in [Holders -> [waker : 0..MaxPolls, poll : 0..MaxPolls]]
    BY <2>1 DEF CoInv, TypeOK, AskCancel, Leave
  <2>4. /\ fired' \in BOOLEAN /\ exception' \in BOOLEAN
        /\ UNCHANGED <<hasHandle, alive, polls, current, phase, cell, handing,
                       posted, done, task, awaited, throwing, throws>>
    BY DEF CoInv, TypeOK, AskCancel, BodyStep, loopVars
  <2> QED
    BY <2>2, <2>3, <2>4 DEF CoInv, TypeOK
<1>2. PollInv'
  BY DEF CoInv, TypeOK, PollInv, Futures, Wakers, Holders, AskCancel, BodyStep, Answer, Leave, Clone, loopVars
<1>3. CloneInv'
  BY DEF CoInv, TypeOK, PollInv, CloneInv, CloneOfItsPoll, Futures, Wakers, Holders, AskCancel, BodyStep, Answer, Leave, Clone, loopVars
<1>4. CancelNotMissed'
  BY DEF CoInv, TypeOK, CancelNotMissed, Pending, Sources, AskCancel, BodyStep, Answer, Leave, Clone, loopVars
<1>5. EventInv'
  BY DEF CoInv, TypeOK, PollInv, CloneInv, EventInv, Registered, InHand, OnItsWay, Pending,
         Sources, Futures, Wakers, Holders, AskCancel, BodyStep, Answer, Leave, Clone, loopVars
<1> QED
  BY <1>1, <1>2, <1>3, <1>4, <1>5 DEF CoInv

LEMMA WakeSelfStep ==
  ASSUME CoroutineAssumption, CoInv, WakeSelf
  PROVE  CoInv'
<1> USE DEF Empty, Creating, WokenEarly, NoClone
<1>1. TypeOK'
  BY DEF CoInv, TypeOK, PollInv, CoroutineAssumption, Futures, Wakers, Holders, Sources, WakeSelf, Woken, BodyStep, Answer, Leave, Clone, loopVars
<1>2. PollInv'
  BY DEF CoInv, TypeOK, PollInv, Futures, Wakers, Holders, WakeSelf, Woken, BodyStep, Answer, Leave, Clone, loopVars
<1>3. CloneInv'
  BY DEF CoInv, TypeOK, PollInv, CloneInv, CloneOfItsPoll, Futures, Wakers, Holders, WakeSelf, Woken, BodyStep, Answer, Leave, Clone, loopVars
<1>4. CancelNotMissed'
  BY DEF CoInv, TypeOK, CancelNotMissed, Pending, Sources, WakeSelf, Woken, BodyStep, Answer, Leave, Clone, loopVars
<1>5. EventInv'
  BY DEF CoInv, TypeOK, PollInv, CloneInv, EventInv, Registered, InHand, OnItsWay, Pending,
         Sources, Futures, Wakers, Holders, WakeSelf, Woken, BodyStep, Answer, Leave, Clone, loopVars
<1> QED
  BY <1>1, <1>2, <1>3, <1>4, <1>5 DEF CoInv

LEMMA SuspendStep ==
  ASSUME CoroutineAssumption, CoInv, Suspend
  PROVE  CoInv'
<1> USE DEF Empty, Creating, WokenEarly, NoClone
<1>1. TypeOK'
  <2>1. current \in Wakers /\ cell \in [Wakers -> Futures \cup {Empty, Creating, WokenEarly}]
    BY DEF CoInv, TypeOK, Wakers, Suspend, CoroutineAssumption
  <2>2. /\ cell' \in [Wakers -> Futures \cup {Empty, Creating, WokenEarly}]
        /\ phase' \in {"idle", "body", "creating"}
    BY <2>1 DEF Suspend
  <2>3. phase' # "idle" => alive' /\ task' = "ready" /\ current' # 0
    BY DEF CoInv, TypeOK, Suspend, loopVars
  <2>4. UNCHANGED <<hasHandle, alive, polls, current, asked, clone, fired, exception, handing,
                    posted, done, task, awaited, throwing, throws>>
    BY DEF Suspend, loopVars
  <2> QED
    BY <2>2, <2>3, <2>4 DEF CoInv, TypeOK
<1>2. PollInv'
  BY DEF CoInv, TypeOK, PollInv, Futures, Wakers, Holders, Suspend, loopVars
<1>3. CloneInv'
  <2>1. \A w \in Wakers : cell'[w] \in Futures => cell[w] = cell'[w]
    BY CoroutineAssumption DEF CoInv, TypeOK, Futures, Wakers, Suspend
  <2>2. (phase' # "idle" => phase # "idle") /\ UNCHANGED <<current, polls, clone>>
    BY DEF Suspend
  <2>3. CloneOfItsPoll'
    <3>1. \A h \in Holders : clone[h].waker # 0 => clone[h].waker \in Wakers
      BY DEF CoInv, TypeOK, Wakers
    <3> QED
      BY <2>1, <2>2, <3>1 DEF CoInv, CloneInv, CloneOfItsPoll
  <2> QED
    BY <2>2, <2>3 DEF CoInv, CloneInv
<1>4. CancelNotMissed'
  BY DEF CoInv, TypeOK, CancelNotMissed, Pending, Sources, Suspend, loopVars
<1>5. EventInv'
  BY DEF CoInv, TypeOK, PollInv, CloneInv, EventInv, Registered, InHand, OnItsWay, Pending,
         Sources, Futures, Wakers, Holders, Suspend, loopVars
<1> QED
  BY <1>1, <1>2, <1>3, <1>4, <1>5 DEF CoInv

LEMMA CreateStep ==
  ASSUME CoroutineAssumption, CoInv, Create
  PROVE  CoInv'
<1> USE DEF Empty, Creating, WokenEarly, NoClone
<1>1. TypeOK'
  BY DEF CoInv, TypeOK, PollInv, CoroutineAssumption, Futures, Wakers, Holders, Sources, Create
<1>2. PollInv'
  BY DEF CoInv, TypeOK, PollInv, Futures, Wakers, Holders, Create
<1>3. CloneInv'
  BY DEF CoInv, TypeOK, PollInv, CloneInv, CloneOfItsPoll, Futures, Wakers, Holders, Create
<1>4. CancelNotMissed'
  BY DEF CoInv, TypeOK, CancelNotMissed, Pending, Sources, Create
<1>5. EventInv'
  BY DEF CoInv, TypeOK, PollInv, CloneInv, EventInv, Registered, InHand, OnItsWay, Pending,
         Sources, Futures, Wakers, Holders, Create
<1> QED
  BY <1>1, <1>2, <1>3, <1>4, <1>5 DEF CoInv

LEMMA CreateFailsStep ==
  ASSUME CoroutineAssumption, CoInv, CreateFails
  PROVE  CoInv'
<1> USE DEF Empty, Creating, WokenEarly, NoClone
<1>1. TypeOK'
  BY DEF CoInv, TypeOK, PollInv, CoroutineAssumption, Futures, Wakers, Holders, Sources, CreateFails
<1>2. PollInv'
  BY DEF CoInv, TypeOK, PollInv, Futures, Wakers, Holders, CreateFails
<1>3. CloneInv'
  BY DEF CoInv, TypeOK, PollInv, CloneInv, CloneOfItsPoll, Futures, Wakers, Holders, CreateFails
<1>4. CancelNotMissed'
  BY DEF CoInv, TypeOK, CancelNotMissed, Pending, Sources, CreateFails
<1>5. EventInv'
  BY DEF CoInv, TypeOK, PollInv, CloneInv, EventInv, Registered, InHand, OnItsWay, Pending,
         Sources, Futures, Wakers, Holders, CreateFails
<1> QED
  BY <1>1, <1>2, <1>3, <1>4, <1>5 DEF CoInv

-----------------------------------------------------------------------------
(* The workers and the loop.                                               *)

LEMMA FireStep ==
  ASSUME CoroutineAssumption, CoInv, NEW b \in Workers, Fire(b)
  PROVE  CoInv'
<1> USE DEF Empty, Creating, WokenEarly, NoClone
<1>1. TypeOK'
  BY DEF CoInv, TypeOK, PollInv, CoroutineAssumption, Futures, Wakers, Holders, Sources, Fire, WorkerStep, coroutineVars
<1>2. PollInv'
  BY DEF CoInv, TypeOK, PollInv, Futures, Wakers, Holders, Fire, WorkerStep, coroutineVars
<1>3. CloneInv'
  BY DEF CoInv, TypeOK, PollInv, CloneInv, CloneOfItsPoll, Futures, Wakers, Holders, Fire, WorkerStep, coroutineVars
<1>4. CancelNotMissed'
  BY DEF CoInv, TypeOK, CancelNotMissed, Pending, Sources, Fire, WorkerStep, coroutineVars
<1>5. EventInv'
  <2>1. /\ clone'[b] = clone["source"] /\ handing'[b] = 0
        /\ \A c \in Workers \ {b} : clone'[c] = clone[c] /\ handing'[c] = handing[c]
    BY DEF CoInv, TypeOK, Fire, Holders, CoroutineAssumption
  <2>2. Registered => InHand'
    BY <2>1 DEF Registered, InHand, Fire, WorkerStep, coroutineVars
  <2>3. current # 0 /\ InHand => InHand'
    <3> SUFFICES ASSUME current # 0,
                        NEW c \in Workers, clone[c].waker = current, handing[c] = 0
                 PROVE  InHand'
      BY DEF InHand
    <3>1. c # b
      BY DEF Fire
    <3> QED
      BY <2>1, <3>1 DEF InHand, Fire, WorkerStep, coroutineVars
  <2>4. OnItsWay => OnItsWay'
    BY DEF OnItsWay, Fire, WorkerStep, coroutineVars
  <2>5. phase # "idle" \/ task = "waiting" => current # 0
    BY DEF CoInv, TypeOK, PollInv
  <2> QED
    BY <2>2, <2>3, <2>4, <2>5 DEF CoInv, EventInv, Pending, Fire, WorkerStep, coroutineVars
<1> QED
  BY <1>1, <1>2, <1>3, <1>4, <1>5 DEF CoInv

LEMMA WakeStep ==
  ASSUME CoroutineAssumption, CoInv, NEW b \in Workers, Wake(b)
  PROVE  CoInv'
<1> USE DEF Empty, Creating, WokenEarly, NoClone
<1> DEFINE w == clone[b].waker
<1>1. /\ w \in Wakers /\ cell[w] \in Futures \cup {Empty, WokenEarly}
      /\ handing[b] = 0
  BY DEF CoInv, TypeOK, Holders, Wakers, Wake, TakeFuture
<1>2. /\ cell' = Woken(w)
      /\ UNCHANGED <<hasHandle, alive, polls, current, phase, asked, fired,
                     exception, posted, done, task, awaited, throwing, throws>>
  BY DEF Wake, TakeFuture, WorkerStep, coroutineVars
<1>3. cell' \in CellType /\ \A v \in Wakers : v # w => cell'[v] = cell[v]
  BY <1>1, <1>2, WokenCells DEF CoInv
<1>4. CASE cell[w] \in Futures
  <2>1. /\ clone' = clone /\ handing' = [handing EXCEPT ![b] = cell[w]]
        /\ cell' = cell
    BY <1>2, <1>4 DEF CoInv, TypeOK, Wake, TakeFuture, Woken, Futures
  <2>2. handing' \in [Workers -> 0..MaxPolls] /\ handing'[b] = cell[w]
    BY <1>4, <2>1 DEF CoInv, TypeOK, Futures
  <2>3. TypeOK'
    BY <1>2, <2>1, <2>2 DEF CoInv, TypeOK
  <2>4. PollInv' /\ CloneInv' /\ CancelNotMissed'
    BY <1>2, <2>1 DEF CoInv, PollInv, CloneInv, CloneOfItsPoll, CancelNotMissed, Pending
  <2>5. EventInv'
    <3>1. ASSUME phase # "idle" \/ task = "waiting", InHand
          PROVE  InHand' \/ OnItsWay'
      <4>1. PICK c \in Workers : clone[c].waker = current /\ handing[c] = 0
        BY <3>1 DEF InHand
      <4>2. CASE c = b
        BY <1>1, <1>2, <1>4, <2>2, <3>1, <4>1, <4>2
           DEF CoInv, TypeOK, PollInv, OnItsWay, Futures
      <4>3. CASE c # b
        BY <1>2, <2>1, <4>1, <4>3 DEF CoInv, TypeOK, InHand
      <4> QED
        BY <4>2, <4>3
    <3>2. OnItsWay => OnItsWay'
      BY <1>1, <1>2, <2>1 DEF CoInv, TypeOK, PollInv, OnItsWay
    <3> QED
      BY <1>2, <2>1, <3>1, <3>2 DEF CoInv, EventInv, Registered, Pending
  <2> QED
    BY <2>3, <2>4, <2>5 DEF CoInv
<1>5. CASE cell[w] \in {Empty, WokenEarly}
  <2>1. /\ clone' = [clone EXCEPT ![b] = NoClone] /\ handing' = handing
        /\ cell'[w] = WokenEarly
    BY <1>1, <1>2, <1>5 DEF CoInv, TypeOK, Wake, TakeFuture, Woken, Futures
  <2>2. /\ clone' \in CloneType
        /\ \A h \in Holders : clone'[h] \in {clone[h], NoClone}
        /\ \A h \in Holders : h # b => clone'[h] = clone[h]
    <3>1. b \in Holders
      BY DEF Holders
    <3> QED
      BY <2>1, <3>1, ClonesLeft DEF CoInv
  <2>3. TypeOK'
    BY <1>2, <1>3, <2>1, <2>2 DEF CoInv, TypeOK, CellType, CloneType
  <2>4. PollInv'
    BY <1>1, <1>2, <1>3, <1>5, <2>1 DEF CoInv, TypeOK, PollInv, Futures, Wakers
  <2>5. CloneInv'
    <3>1. \A h \in Holders : clone'[h].waker # 0 => clone'[h] = clone[h]
      BY <2>2
    <3>2. \A h \in Holders : clone[h].waker \in 0..MaxPolls
      BY DEF CoInv, TypeOK
    <3>3. CloneOfItsPoll'
      BY <1>1, <1>3, <2>1, <3>1, <3>2 DEF CoInv, CloneInv, CloneOfItsPoll, Futures, Wakers
    <3>4. current \in Nat /\ (phase # "idle" => current # 0)
      BY DEF CoInv, TypeOK, CoroutineAssumption
    <3> QED
      BY <1>2, <2>2, <3>1, <3>3, <3>4 DEF CoInv, CloneInv
  <2>6. CancelNotMissed'
    BY <1>2 DEF CoInv, CancelNotMissed, Pending
  <2>7. EventInv'
    <3>1. ASSUME phase # "idle" \/ task = "waiting", InHand
          PROVE  InHand' \/ cell'[current] = WokenEarly
      <4>1. PICK c \in Workers : clone[c].waker = current /\ handing[c] = 0
        BY <3>1 DEF InHand
      <4>2. CASE c = b
        BY <2>1, <4>1, <4>2
      <4>3. CASE c # b
        BY <1>2, <2>1, <2>2, <4>1, <4>3 DEF InHand, Holders
      <4> QED
        BY <4>2, <4>3
    <3>2. OnItsWay => OnItsWay'
      BY <1>2, <2>1 DEF OnItsWay
    <3>3. Registered => Registered'
      BY <1>2, <2>2 DEF Registered, Holders, CoroutineAssumption
    <3>4. cell[current] = WokenEarly /\ current # 0 => cell'[current] = WokenEarly
      BY <1>2, <1>3, <2>1 DEF CoInv, TypeOK, Wakers
    <3>5. phase # "idle" \/ task = "waiting" => current # 0
      BY DEF CoInv, TypeOK, PollInv
    <3> QED
      BY <1>2, <3>1, <3>2, <3>3, <3>4, <3>5 DEF CoInv, EventInv, Pending
  <2> QED
    BY <2>3, <2>4, <2>5, <2>6, <2>7 DEF CoInv
<1> QED
  BY <1>1, <1>4, <1>5

LEMMA PostStep ==
  ASSUME CoroutineAssumption, CoInv, NEW b \in Workers, Post(b)
  PROVE  CoInv'
<1> USE DEF Empty, Creating, WokenEarly, NoClone
<1>1. TypeOK'
  <2>1. clone' \in [Holders -> [waker : 0..MaxPolls, poll : 0..MaxPolls]]
    BY ClonesLeft DEF CoInv, Post, Holders, CloneType
  <2>2. /\ handing \in [Workers -> 0..MaxPolls] /\ posted \in SUBSET Futures
        /\ MaxPolls \in Nat
    BY DEF CoInv, TypeOK, CoroutineAssumption
  <2>4. handing' \in [Workers -> 0..MaxPolls] /\ posted' \in SUBSET Futures
    <3>1. handing[b] \in 1..MaxPolls
      <4>1. handing[b] \in 0..MaxPolls /\ handing[b] # 0
        BY <2>2 DEF Post
      <4> QED
        BY <2>2, <4>1
    <3>2. handing' = [handing EXCEPT ![b] = 0] /\ 0 \in 0..MaxPolls
      BY <2>2 DEF Post
    <3>3. handing' \in [Workers -> 0..MaxPolls]
      BY <2>2, <3>2
    <3>4. posted' \in SUBSET Futures
      BY <2>2, <3>1 DEF Post, Futures
    <3> QED
      BY <3>3, <3>4
  <2>3. UNCHANGED <<hasHandle, alive, polls, current, phase, asked, cell, fired,
                    exception, done, task, awaited, throwing, throws>>
    BY DEF Post, WorkerStep, coroutineVars
  <2> QED
    BY <2>1, <2>3, <2>4 DEF CoInv, TypeOK
<1>2. PollInv'
  BY DEF CoInv, TypeOK, PollInv, Futures, Wakers, Holders, Post, WorkerStep, coroutineVars
<1>3. CloneInv'
  BY DEF CoInv, TypeOK, PollInv, CloneInv, CloneOfItsPoll, Futures, Wakers, Holders, Post, WorkerStep, coroutineVars
<1>4. CancelNotMissed'
  BY DEF CoInv, TypeOK, CancelNotMissed, Pending, Sources, Post, WorkerStep, coroutineVars
<1>5. EventInv'
  BY DEF CoInv, TypeOK, PollInv, CloneInv, EventInv, Registered, InHand, OnItsWay, Pending,
         Sources, Futures, Wakers, Holders, Post, WorkerStep, coroutineVars
<1> QED
  BY <1>1, <1>2, <1>3, <1>4, <1>5 DEF CoInv

LEMMA ReleaseWaiterStep ==
  ASSUME CoroutineAssumption, CoInv, NEW f \in Futures, ReleaseWaiter(f)
  PROVE  CoInv'
<1> USE DEF Empty, Creating, WokenEarly, NoClone
<1>1. TypeOK'
  BY DEF CoInv, TypeOK, PollInv, CoroutineAssumption, Futures, Wakers, Holders, Sources, ReleaseWaiter, LoopStep, coroutineVars, sharedVars
<1>2. PollInv'
  BY DEF CoInv, TypeOK, PollInv, Futures, Wakers, Holders, ReleaseWaiter, LoopStep, coroutineVars, sharedVars
<1>3. CloneInv'
  BY DEF CoInv, TypeOK, PollInv, CloneInv, CloneOfItsPoll, Futures, Wakers, Holders, ReleaseWaiter, LoopStep, coroutineVars, sharedVars
<1>4. CancelNotMissed'
  BY DEF CoInv, TypeOK, CancelNotMissed, Pending, Sources, ReleaseWaiter, LoopStep, coroutineVars, sharedVars
<1>5. EventInv'
  BY DEF CoInv, TypeOK, PollInv, CloneInv, EventInv, Registered, InHand, OnItsWay, Pending,
         Sources, Futures, Wakers, Holders, ReleaseWaiter, LoopStep, coroutineVars, sharedVars
<1> QED
  BY <1>1, <1>2, <1>3, <1>4, <1>5 DEF CoInv

LEMMA CancelStep ==
  ASSUME CoroutineAssumption, CoInv, Cancel
  PROVE  CoInv'
<1> USE DEF Empty, Creating, WokenEarly, NoClone
<1>1. TypeOK'
  BY DEF CoInv, TypeOK, PollInv, CoroutineAssumption, Futures, Wakers, Holders, Sources, Cancel, LoopStep, coroutineVars, sharedVars
<1>2. PollInv'
  BY DEF CoInv, TypeOK, PollInv, Futures, Wakers, Holders, Cancel, LoopStep, coroutineVars, sharedVars
<1>3. CloneInv'
  BY DEF CoInv, TypeOK, PollInv, CloneInv, CloneOfItsPoll, Futures, Wakers, Holders, Cancel, LoopStep, coroutineVars, sharedVars
<1>4. CancelNotMissed'
  BY DEF CoInv, TypeOK, CancelNotMissed, Pending, Sources, Cancel, LoopStep, coroutineVars, sharedVars
<1>5. EventInv'
  BY DEF CoInv, TypeOK, PollInv, CloneInv, EventInv, Registered, InHand, OnItsWay, Pending,
         Sources, Futures, Wakers, Holders, Cancel, LoopStep, coroutineVars, sharedVars
<1> QED
  BY <1>1, <1>2, <1>3, <1>4, <1>5 DEF CoInv

-----------------------------------------------------------------------------
(* All together.                                                           *)

LEMMA InitInv ==
  ASSUME CoroutineAssumption, Init
  PROVE  CoInv
<1> USE DEF Empty, Creating, WokenEarly
<1>1. TypeOK
  <2>1. NoClone \in [waker : 0..MaxPolls, poll : 0..MaxPolls]
    BY DEF NoClone, CoroutineAssumption
  <2>2. clone \in CloneType
    BY <2>1 DEF Init, CloneType
  <2>3. asked \in [Sources -> {"no", "pending", "ready"}]
    BY DEF Init, Unasked
  <2>4. /\ cell \in [Wakers -> Futures \cup {Empty, Creating, WokenEarly}]
        /\ handing \in [Workers -> 0..MaxPolls]
    BY DEF Init, CoroutineAssumption
  <2>5. /\ hasHandle \in BOOLEAN /\ alive \in BOOLEAN /\ fired \in BOOLEAN
        /\ exception \in BOOLEAN /\ throwing \in BOOLEAN
    BY DEF Init
  <2> QED
    BY <2>2, <2>3, <2>4, <2>5 DEF Init, TypeOK, CloneType, CoroutineAssumption
<1>2. PollInv
  BY DEF Init, PollInv, CoroutineAssumption
<1>3. CloneInv
  BY DEF Init, CloneInv, CloneOfItsPoll, NoClone
<1>4. CancelNotMissed /\ EventInv
  BY DEF Init, CancelNotMissed, EventInv
<1> QED
  BY <1>1, <1>2, <1>3, <1>4 DEF CoInv

LEMMA NextInv ==
  ASSUME CoroutineAssumption, CoInv, [Next]_vars
  PROVE  CoInv'
<1>1. CASE Poll
  BY <1>1, SendStep, ThrowStep, ReraiseStep DEF Poll
<1>2. CASE Body
  BY <1>2, FinishStep, AskEventStep, AskCancelStep, WakeSelfStep, SuspendStep
     DEF Body, EndOfPoll
<1>3. CASE Created
  BY <1>3, CreateStep, CreateFailsStep DEF Created
<1>4. CASE Loop
  BY <1>4, ReleaseWaiterStep, CancelStep DEF Loop
<1>5. CASE \E b \in Workers : Worker(b)
  BY <1>5, FireStep, WakeStep, PostStep DEF Worker
<1>6. CASE UNCHANGED vars
  BY <1>6 DEF vars, coroutineVars, sharedVars, loopVars, CoInv, TypeOK, PollInv, CloneInv,
              CloneOfItsPoll, CancelNotMissed, EventInv, Registered, InHand, OnItsWay, Pending
<1> QED
  BY <1>1, <1>2, <1>3, <1>4, <1>5, <1>6 DEF Next

\* The wait of a task for a future is never in vain.
LEMMA NothingLost ==
  ASSUME CoroutineAssumption, CoInv
  PROVE  NoLostWake
<1> SUFFICES ASSUME task = "waiting", fired, Pending("event"), awaited \notin done
             PROVE  UnderWay(awaited)
  BY DEF NoLostWake
<1>1. current # 0 /\ cell[current] = awaited /\ awaited = polls /\ polls \in Nat
  BY DEF CoInv, TypeOK, PollInv, CoroutineAssumption
<1>2. InHand \/ OnItsWay
  BY <1>1 DEF CoInv, EventInv, Registered, WokenEarly
<1>3. CASE InHand
  BY <1>1, <1>3 DEF InHand, UnderWay, NoClone
<1>4. CASE OnItsWay
  BY <1>4 DEF OnItsWay, UnderWay
<1> QED
  BY <1>2, <1>3, <1>4

\* Coroutine::poll, the waker and the cancel handle keep what they know of
\* each other consistent, for any number of wakers, polls and exceptions.
THEOREM CoroutineIsConsistent == Spec => []CoInv
<1>1. Init => CoInv
  BY CoroutineAssumption, InitInv
<1>2. CoInv /\ [Next]_vars => CoInv'
  BY CoroutineAssumption, NextInv
<1> QED
  BY <1>1, <1>2, PTL DEF Spec

\* Every variable stays in its type, and the body runs only with a waker.
THEOREM CoroutineTypesAreRight == Spec => []TypeOK
<1>1. CoInv => TypeOK
  BY DEF CoInv
<1> QED
  BY <1>1, CoroutineIsConsistent, PTL

\* wake_by_ref and initialize_future race for the cell of the waker: whoever
\* comes first, while the task waits and the event it asked about happened,
\* the future it waits for is done or about to be.
THEOREM WakesAreNotLost == Spec => []NoLostWake
<1>1. CoInv => NoLostWake
  BY CoroutineAssumption, NothingLost
<1> QED
  BY <1>1, CoroutineIsConsistent, PTL

\* ThrowCallback::throw and CancelHandle::poll_cancelled: the body never
\* sleeps on a handle that holds an exception.
THEOREM CancelsAreNotMissed == Spec => []CancelNotMissed
<1>1. CoInv => CancelNotMissed
  BY DEF CoInv
<1> QED
  BY <1>1, CoroutineIsConsistent, PTL

\* Arc::get_mut guards AsyncioWaker::reset: no clone ever completes the
\* future of a poll other than its own.
THEOREM ClonesStayInTheirPoll == Spec => []CloneOfItsPoll
<1>1. CoInv => CloneOfItsPoll
  BY DEF CoInv, CloneInv
<1> QED
  BY <1>1, CoroutineIsConsistent, PTL
==============================================================================
