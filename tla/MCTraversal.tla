------------------------------ MODULE MCTraversal ------------------------------
(***************************************************************************)
(* Traversal, and PyClassBorrow inside it, for TLC, with the fairness of   *)
(* the threads.                                                            *)
(***************************************************************************)
EXTENDS Traversal

FairSpec == TraversalSpec /\ Fairness
================================================================================
