----------------------------- MODULE MCPyOnceLock -----------------------------
(***************************************************************************)
(* PyOnceLock for TLC, with the fairness of the threads.                   *)
(***************************************************************************)
EXTENDS PyOnceLock

FairSpec == Spec /\ Fairness
===============================================================================
