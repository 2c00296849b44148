--------------------------- MODULE SharedXorMutable ---------------------------
(***************************************************************************)
(* What dynamic borrow checking promises (doc of PyClassGuard,             *)
(* src/pyclass/guard.rs): a value has any number of shared references or   *)
(* one mutable reference, at any time.                                     *)
(***************************************************************************)
CONSTANT Guards  \* whatever can hold a reference

VARIABLES
  readers,  \* holders of a shared reference
  writers   \* holders of a mutable reference

vars == <<readers, writers>>

Init == readers = {} /\ writers = {}

Read(g) ==
  /\ writers = {} /\ g \notin readers
  /\ readers' = readers \cup {g}
  /\ UNCHANGED writers

Write(g) ==
  /\ readers = {} /\ writers = {}
  /\ writers' = {g}
  /\ UNCHANGED readers

EndRead(g) ==
  /\ g \in readers
  /\ readers' = readers \ {g}
  /\ UNCHANGED writers

EndWrite(g) ==
  /\ g \in writers
  /\ writers' = writers \ {g}
  /\ UNCHANGED readers

Next == \E g \in Guards : Read(g) \/ Write(g) \/ EndRead(g) \/ EndWrite(g)

Spec == Init /\ [][Next]_vars
===============================================================================
