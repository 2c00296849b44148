------------------------------- MODULE InitOnce -------------------------------
(***************************************************************************)
(* What one-time initialisation promises (docs of PyOnceLock,              *)
(* src/sync/once_lock.rs, and of the OnceExt traits, src/sync.rs): a cell  *)
(* is filled by at most one thread at a time and for good.  A thread that  *)
(* was let in fills the cell or gives it up; some cells have one chance    *)
(* only and are closed when it is missed.  Some may be filled directly,    *)
(* but not beside an initialiser.                                          *)
(***************************************************************************)
CONSTANTS
  Threads,    \* who initialises cells
  Nobody,     \* no thread
  Cells,
  Values,     \* what a cell may be filled with
  Empty,      \* what it holds before
  OneChance,  \* the cells closed by a failed initialisation
  Settable    \* the cells that may be filled without an initialiser

VARIABLES
  initialiser,  \* the thread that was let in to each cell
  content,      \* what each cell holds
  closed        \* the cells that will never be filled

vars == <<initialiser, content, closed>>

Open(c) == content[c] = Empty /\ initialiser[c] = Nobody /\ c \notin closed

Fill(c) == \E v \in Values : content' = [content EXCEPT ![c] = v]

-------------------------------------------------------------------------------
\* A cell may be born filled.
Init ==
  /\ initialiser = [c \in Cells |-> Nobody]
  /\ content \in [Cells -> Values \cup {Empty}]
  /\ closed = {}

LetIn(t, c) ==
  /\ Open(c)
  /\ initialiser' = [initialiser EXCEPT ![c] = t]
  /\ UNCHANGED <<content, closed>>

Complete(t, c) ==
  /\ initialiser[c] = t /\ content[c] = Empty
  /\ Fill(c)
  /\ initialiser' = [initialiser EXCEPT ![c] = Nobody]
  /\ UNCHANGED closed

GiveUp(t, c) ==
  /\ initialiser[c] = t
  /\ initialiser' = [initialiser EXCEPT ![c] = Nobody]
  /\ closed' = IF c \in OneChance THEN closed \cup {c} ELSE closed
  /\ UNCHANGED content

Put(c) ==
  /\ c \in Settable /\ Open(c)
  /\ Fill(c)
  /\ UNCHANGED <<initialiser, closed>>

Next ==
  \E c \in Cells :
    \/ Put(c)
    \/ \E t \in Threads : LetIn(t, c) \/ Complete(t, c) \/ GiveUp(t, c)

Spec == Init /\ [][Next]_vars
===============================================================================
