----------------------------- MODULE MCErrState -----------------------------
(***************************************************************************)
(* ErrState for TLC, with the fairness of the threads.                     *)
(***************************************************************************)
EXTENDS ErrState

FairSpec == Spec /\ Fairness
=============================================================================
