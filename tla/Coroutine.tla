------------------------------ MODULE Coroutine ------------------------------
(***************************************************************************)
(* A Rust future as a Python coroutine: Coroutine (src/coroutine.rs), the  *)
(* waker that stands for an asyncio.Future (src/coroutine/waker.rs) and    *)
(* the cancel handle (src/coroutine/cancel.rs).                            *)
(*                                                                         *)
(* A task of the event loop drives the coroutine: each send or throw polls *)
(* the Rust future once.  If that is pending, the coroutine yields an      *)
(* asyncio.Future which the poll's waker completes, or None when the waker *)
(* was woken before there was a future to complete.  Wake-ups come from    *)
(* threads of their own, at any time, through clones of the waker; a clone *)
(* of an earlier poll may be woken during a later one.                     *)
(*                                                                         *)
(* Polls are numbered.  A waker is named by the poll that made it (it may  *)
(* be reset and used again) and an asyncio.Future by the poll it is for.   *)
(* Threads interleave freely, as on a build without a GIL; how threads     *)
(* that share a once cell wait for each other and for the GIL is           *)
(* PyOnceLock's subject.                                                   *)
(***************************************************************************)
EXTENDS Integers

CONSTANTS
  Workers,    \* threads that fire the awaited event and wake
  MaxPolls,   \* bound: the body finishes in this poll at the latest
  MaxThrows   \* bound on the exceptions thrown in

ASSUME CoroutineAssumption ==
  /\ MaxPolls \in Nat \ {0}
  /\ MaxThrows \in Nat
  /\ Workers \cap {"source", "handle"} = {}

VARIABLES
  hasHandle,  \* throw_callback is Some
  alive,      \* the coroutine's future is Some
  polls,      \* polls begun
  current,    \* the waker the coroutine keeps, 0 if none
  phase,      \* what the coroutine is doing
  asked,      \* what the body polled in this poll, and the answer
  cell,       \* the once cell of each waker
  clone,      \* who holds a clone of a waker, and of which poll
  fired,      \* the awaited event happened and was not seen yet
  exception,  \* the cancel handle's exception is Some
  handing,    \* the future each worker is about to post
  posted,     \* futures with release_waiter in the loop's queue
  done,       \* futures that are done
  task,       \* the task: ready to step, waiting for a future, done
  awaited,    \* the future it waits for
  throwing,   \* its next step is a throw
  throws      \* exceptions thrown so far

coroutineVars == <<hasHandle, alive, polls, current, phase, asked>>
sharedVars == <<cell, clone, fired, exception, handing>>
loopVars == <<posted, done, task, awaited, throwing, throws>>
vars == <<coroutineVars, sharedVars, loopVars>>

Futures == 1..MaxPolls
Wakers == 1..MaxPolls
Sources == {"event", "cancel"}

\* Contents of a waker's cell: not written; being written by
\* initialize_future; None; or else Some, with a future.
Empty == 0
Creating == -1
WokenEarly == -2

\* A clone is kept by the source of the event, by the cancel handle, or by
\* the worker that is waking it.
Holders == Workers \cup {"source", "handle"}
NoClone == [waker |-> 0, poll |-> 0]
Clone == [waker |-> current, poll |-> polls]
Unasked == [s \in Sources |-> "no"]
Pending(s) == asked[s] = "pending"

-------------------------------------------------------------------------------
Init ==
  /\ hasHandle \in BOOLEAN
  /\ alive = TRUE
  /\ polls = 0
  /\ current = 0
  /\ phase = "idle"
  /\ asked = Unasked
  /\ cell = [w \in Wakers |-> Empty]
  /\ clone = [h \in Holders |-> NoClone]
  /\ fired = FALSE
  /\ exception = FALSE
  /\ handing = [b \in Workers |-> 0]
  /\ posted = {}
  /\ done = {}
  /\ task = "ready"
  /\ awaited = 0
  /\ throwing = FALSE
  /\ throws = 0

(***************************************************************************)
(* The coroutine, called by its task.                                      *)
(***************************************************************************)
Runnable == phase = "idle" /\ (task = "ready" \/ (task = "waiting" /\ awaited \in done))

\* What AsyncioWaker::wake_by_ref leaves in the cell and hands to the loop.
Woken(w) == [cell EXCEPT ![w] = IF @ = Empty THEN WokenEarly ELSE @]
Completes(w) == {cell[w]} \cap Futures

\* Arc::get_mut succeeds: nobody else has a clone.
Unique == current # 0 /\ \A h \in Holders : clone'[h].waker # current

\* The body is entered with the waker w, its cell empty.
Enter(cells, w) ==
  /\ polls' = polls + 1
  /\ current' = w
  /\ cell' = [cells EXCEPT ![w] = Empty]
  /\ phase' = "body"
  /\ asked' = Unasked
  /\ task' = "ready"
  /\ awaited' = 0
  /\ throwing' = FALSE
  /\ UNCHANGED <<hasHandle, alive, fired, handing, done, throws>>

\* Mutant: the waker is reset although somebody has a clone.
EnterBodyResets(cells) == Enter(cells, IF current # 0 THEN current ELSE polls + 1)

\* The waker is reset in place or replaced.
EnterBody(cells) == Enter(cells, IF Unique THEN current ELSE polls + 1)

Send ==
  /\ Runnable /\ alive /\ ~throwing
  /\ UNCHANGED <<clone, exception, posted>>
  /\ EnterBody(cell)

\* ThrowCallback::throw stores the exception and wakes the waker it finds;
\* then the body is polled.
Throw ==
  /\ Runnable /\ alive /\ throwing /\ hasHandle
  /\ exception' = TRUE
  /\ clone' = [clone EXCEPT !["handle"] = NoClone]
  /\ LET w == clone["handle"].waker IN
       IF w = 0 THEN posted' = posted /\ EnterBody(cell)
       ELSE posted' = posted \cup Completes(w) /\ EnterBody(Woken(w))

\* The coroutine returns to its task for good: by StopIteration, a panic or
\* an error.  close() drops the future; the waker and its clones stay.
Returns ==
  /\ phase' = "idle"
  /\ task' = "done"
  /\ awaited' = 0
  /\ UNCHANGED <<hasHandle, polls, current, asked, sharedVars, posted, done, throws>>

\* Without a cancel handle the exception ends the coroutine.
Reraise ==
  /\ Runnable /\ alive /\ throwing /\ ~hasHandle
  /\ alive' = FALSE
  /\ throwing' = FALSE
  /\ Returns

\* The body is ready, or panics.
Finish == phase = "body" /\ alive' = FALSE /\ UNCHANGED throwing /\ Returns

-------------------------------------------------------------------------------
(***************************************************************************)
(* The body: asks each source once in a poll at most, and by the contract  *)
(* of Future is pending only if it left its waker with one that is, or     *)
(* woke it.                                                                *)
(***************************************************************************)
BodyStep == UNCHANGED <<hasHandle, alive, polls, current, phase, handing, loopVars>>

Answer(s, a) == phase = "body" /\ asked[s] = "no" /\ asked' = [asked EXCEPT ![s] = a]
Leave(s, holder) == Answer(s, "pending") /\ clone' = [clone EXCEPT ![holder] = Clone]

AskEvent ==
  /\ \/ fired /\ fired' = FALSE /\ Answer("event", "ready") /\ UNCHANGED clone
     \/ ~fired /\ UNCHANGED fired /\ Leave("event", "source")
  /\ UNCHANGED <<cell, exception>> /\ BodyStep

\* Mutant: the waker is left behind without a look at the exception.
AskCancelBlind ==
  /\ hasHandle /\ Leave("cancel", "handle")
  /\ UNCHANGED <<cell, fired, exception>> /\ BodyStep

\* CancelHandle::poll_cancelled.
AskCancel ==
  /\ hasHandle
  /\ \/ exception /\ exception' = FALSE /\ Answer("cancel", "ready") /\ UNCHANGED clone
     \/ ~exception /\ UNCHANGED exception /\ Leave("cancel", "handle")
  /\ UNCHANGED <<cell, fired>> /\ BodyStep

\* The body wakes its own waker, as a future that yields does.
WakeSelf ==
  /\ phase = "body" /\ cell[current] = Empty
  /\ cell' = Woken(current)
  /\ UNCHANGED <<asked, clone, fired, exception>>
  /\ BodyStep

Yields == (\E s \in Sources : Pending(s)) \/ cell[current] = WokenEarly

\* Pending: initialize_future enters the cell, or finds it written.
Suspend ==
  /\ phase = "body" /\ polls < MaxPolls /\ Yields
  /\ IF cell[current] = Empty
       THEN phase' = "creating" /\ cell' = [cell EXCEPT ![current] = Creating]
       ELSE phase' = "idle" /\ UNCHANGED cell
  /\ UNCHANGED <<hasHandle, alive, polls, current, asked, clone, fired,
                 exception, handing, loopVars>>

\* The future is made and the task waits for it.
Create ==
  /\ phase = "creating"
  /\ cell' = [cell EXCEPT ![current] = polls]
  /\ phase' = "idle"
  /\ task' = "waiting"
  /\ awaited' = polls
  /\ UNCHANGED <<hasHandle, alive, polls, current, asked, clone, fired,
                 exception, handing, posted, done, throwing, throws>>

\* get_running_loop or create_future fails: the coroutine raises, its cell
\* is empty again, and its future stays.
CreateFails ==
  /\ phase = "creating"
  /\ cell' = [cell EXCEPT ![current] = Empty]
  /\ phase' = "idle"
  /\ task' = "done"
  /\ UNCHANGED <<hasHandle, alive, polls, current, asked, clone, fired,
                 exception, handing, posted, done, awaited, throwing, throws>>

-------------------------------------------------------------------------------
(***************************************************************************)
(* Workers.  An event happens, and the worker takes the waker its source   *)
(* has; get_or_init(None) waits while initialize_future is in the cell;    *)
(* a future found there is handed to the loop by call_soon_threadsafe.     *)
(***************************************************************************)
WorkerStep == UNCHANGED <<coroutineVars, exception, done, task, awaited, throwing, throws>>

Fire(b) ==
  /\ ~fired /\ clone[b] = NoClone /\ handing[b] = 0
  /\ fired' = TRUE
  /\ clone' = [clone EXCEPT ![b] = clone["source"], !["source"] = NoClone]
  /\ UNCHANGED <<cell, handing, posted>>
  /\ WorkerStep

\* The future found in the waker is kept for call_soon_threadsafe; without
\* one the clone is dropped.
TakeFuture(b, w) ==
  /\ w # 0 /\ handing[b] = 0
  /\ IF cell[w] \in Futures
       THEN handing' = [handing EXCEPT ![b] = cell[w]] /\ UNCHANGED clone
       ELSE clone' = [clone EXCEPT ![b] = NoClone] /\ UNCHANGED handing
  /\ UNCHANGED <<fired, posted>> /\ WorkerStep

\* Mutants: a waker without a future is left as it is; the worker does not
\* wait for initialize_future, and gives up.
WakeOnlyFuture(b) ==
  LET w == clone[b].waker IN
  TakeFuture(b, w) /\ cell[w] # Creating /\ UNCHANGED cell
WakeGivesUp(b) ==
  LET w == clone[b].waker IN TakeFuture(b, w) /\ cell' = Woken(w)

Wake(b) ==
  LET w == clone[b].waker IN
  TakeFuture(b, w) /\ cell[w] # Creating /\ cell' = Woken(w)

\* set_result, and the worker drops its clone.
Post(b) ==
  /\ handing[b] # 0
  /\ posted' = posted \cup {handing[b]}
  /\ handing' = [handing EXCEPT ![b] = 0]
  /\ clone' = [clone EXCEPT ![b] = NoClone]
  /\ UNCHANGED <<cell, fired>>
  /\ WorkerStep

-------------------------------------------------------------------------------
(***************************************************************************)
(* The event loop.  release_waiter completes a future that is not done;    *)
(* Task.cancel cancels the awaited future and makes the next step a throw. *)
(***************************************************************************)
LoopStep == phase = "idle" /\ UNCHANGED <<coroutineVars, sharedVars, task, awaited>>

ReleaseWaiter(f) ==
  /\ f \in posted
  /\ posted' = posted \ {f}
  /\ done' = done \cup {f}
  /\ UNCHANGED <<throwing, throws>>
  /\ LoopStep

Cancel ==
  /\ task # "done" /\ ~throwing /\ throws < MaxThrows
  /\ throwing' = TRUE
  /\ throws' = throws + 1
  /\ done' = IF task = "waiting" THEN done \cup {awaited} ELSE done
  /\ UNCHANGED posted
  /\ LoopStep

-------------------------------------------------------------------------------
Poll == Send \/ Throw \/ Reraise
EndOfPoll == Finish \/ Suspend
Body == AskEvent \/ AskCancel \/ WakeSelf \/ EndOfPoll
Created == Create \/ CreateFails
Worker(b) == Fire(b) \/ Wake(b) \/ Post(b)
Loop == Cancel \/ \E f \in Futures : ReleaseWaiter(f)

Next == Poll \/ Body \/ Created \/ Loop \/ \E b \in Workers : Worker(b)

Spec == Init /\ [][Next]_vars

(***************************************************************************)
(* Fairness: the loop runs every callback and steps a task that is ready;  *)
(* the body returns from each poll (it asks finitely often); a worker that *)
(* took a waker wakes it.  Nothing obliges an event to happen.             *)
(***************************************************************************)
FairSpec ==
  /\ Spec
  /\ WF_vars(Poll)
  /\ WF_vars(Body)
  /\ WF_vars(Created)
  /\ \A f \in Futures : WF_vars(ReleaseWaiter(f))
  /\ \A b \in Workers : WF_vars(Wake(b) \/ Post(b))

-------------------------------------------------------------------------------
TypeOK ==
  /\ hasHandle \in BOOLEAN /\ alive \in BOOLEAN /\ fired \in BOOLEAN
  /\ exception \in BOOLEAN /\ throwing \in BOOLEAN
  /\ polls \in 0..MaxPolls /\ current \in 0..polls
  /\ phase \in {"idle", "body", "creating"}
  /\ asked \in [Sources -> {"no", "pending", "ready"}]
  /\ cell \in [Wakers -> Futures \cup {Empty, Creating, WokenEarly}]
  /\ clone \in [Holders -> [waker : 0..MaxPolls, poll : 0..MaxPolls]]
  /\ handing \in [Workers -> 0..MaxPolls]
  /\ posted \in SUBSET Futures /\ done \in SUBSET Futures
  /\ task \in {"ready", "waiting", "done"}
  /\ awaited \in 0..MaxPolls
  /\ throws \in 0..MaxThrows
  /\ phase # "idle" => alive /\ task = "ready" /\ current # 0

\* A wake-up is on its way to the future f: in the loop's queue, about to be
\* posted, or held by a worker in a clone of f's waker.
UnderWay(f) ==
  \/ f \in posted
  \/ \E b \in Workers : handing[b] = f
  \/ \E b \in Workers : clone[b] # NoClone /\ cell[clone[b].waker] = f

\* No lost wake-up: while the task waits, either the event its last poll
\* found pending has not happened, or a wake-up is on its way to the very
\* future it waits for, even when the event came during the poll, before
\* there was a future, or raced with its creation.
NoLostWake ==
  task = "waiting" /\ fired /\ Pending("event") /\ awaited \notin done
    => UnderWay(awaited)

\* An exception that was thrown in is never left in the handle while the
\* body sleeps on cancelled(): throw polls in the same call, and the body
\* finds it then.
CancelNotMissed == exception => ~Pending("cancel")

\* The waker is only reset when no clone of it is out: a clone wakes the
\* future of the poll it was registered in, never that of a later poll.
CloneOfItsPoll ==
  \A h \in Holders : clone[h].waker # 0 /\ cell[clone[h].waker] \in Futures
    => cell[clone[h].waker] = clone[h].poll

\* Once the event that a pending body asked about has happened the body is
\* polled again (or the task is over), whatever was woken, cancelled or
\* reset in between.
EventIsSeen ==
  \A n \in Futures :
    (polls = n /\ phase = "idle" /\ fired /\ Pending("event") /\ alive)
      ~> (polls > n \/ ~alive \/ task = "done")
===============================================================================
