---------------------------- MODULE MCAttachPool ----------------------------
(***************************************************************************)
(* AttachPool for TLC, with the threads that keep attaching.  Their guards *)
(* nest four deep (attach, a destructor inside the drain, detach, attach   *)
(* again), which is what it takes to interrupt a drain and have another    *)
(* one start and end inside it; those of the other threads do not nest.    *)
(***************************************************************************)
EXTENDS AttachPool

CONSTANTS Pollers

MCMaxDepth == [t \in Threads |-> IF t \in Pollers THEN 4 ELSE 1]

\* With a GIL at most one thread runs.  Without, two threads have three guards
\* between them; no step that ends a guard, and no first one, is held up.
Bounds ==
  freeThreaded =>
    \A t \in Threads \ Pollers, u \in Pollers : Len(stack'[t]) + Len(stack'[u]) <= 3

FairSpec == Init /\ [][Next /\ Bounds]_vars /\ Fairness(Pollers)
=============================================================================
