-------------------------- MODULE SequenceIteration --------------------------
(***************************************************************************)
(* The double-ended iterators over Python lists (BoundListIterator in      *)
(* src/types/list.rs) and tuples (BoundTupleIterator in src/types/tuple.rs)*)
(*                                                                         *)
(* An iterator keeps the positions still to come, index up to length, and  *)
(* reads the container without a check of its bounds.  A list may become   *)
(* shorter or longer between two calls, by the loop's own body or another  *)
(* thread, so every call measures it again; nothing may change it between  *)
(* the measurement and the read.  With a GIL the calling thread keeps the  *)
(* GIL there; on a free-threaded build it holds the list's critical section*)
(* which fold and its like keep while they run the caller's closure, and   *)
(* which is suspended when the closure detaches.                           *)
(*                                                                         *)
(* A container is its size; an item is the position it was read from.      *)
(***************************************************************************)
EXTENDS Integers, Sequences

CONSTANTS
  MaxSize,  \* bound on the size of the container
  Strides,  \* the arguments of nth and advance_by
  Word      \* the number of usize values

ASSUME SequenceAssumption ==
  /\ MaxSize \in Nat /\ Word \in Nat /\ MaxSize < Word
  /\ Strides \subseteq 0..Word - 1 /\ 0 \in Strides

VARIABLES
  tuple,         \* a tuple, whose size is fixed; or else a list
  freeThreaded,  \* the build
  nightly,       \* the feature that replaces nth by advance_by
  overflowChecks,\* whether usize additions panic when they overflow, as in a
                 \* debug build; in a release build they wrap
  size,          \* the container's size
  index,         \* BoundListIterator::index
  length,        \* BoundListIterator::length
  first,         \* the size the container had when the iterator was made
  calling,       \* the call under way: where it is, its end, its stride
  limit,         \* the end of the items to come, as this call measured it
  section,       \* whether the list's critical section is held
  given,         \* positions yielded, in order
  passed,        \* positions that were passed over
  wrapped        \* history: an addition has wrapped and an item was found

build == <<tuple, freeThreaded, nightly, overflowChecks, first>>
sequenceVars ==
  <<build, size, index, length, calling, limit, section, given, passed, wrapped>>

(***************************************************************************)
(* A call is over; is between measuring and reading; or runs the closure of*)
(* a loop (fold, all, any, find, find_map, position, rfold).               *)
(***************************************************************************)
Ends == {"front", "back"}
Call == [at : {"over", "measured", "closure"}, end : Ends, stride : Strides, loop : BOOLEAN]

Shorter(a, b) == IF a < b THEN a ELSE b

\* index + n, which every call compares with the limit.
Overflows == index + calling.stride >= Word
Reached == IF Overflows THEN index + calling.stride - Word ELSE index + calling.stride
Found == Reached < limit /\ (Overflows => ~overflowChecks)

\* The position a call reads, if it finds one.
Target ==
  IF calling.end = "front" THEN Reached
  ELSE LET t == limit - calling.stride - 1 IN IF t < 0 THEN t + Word ELSE t

-------------------------------------------------------------------------------
SequenceInit ==
  /\ tuple \in BOOLEAN /\ freeThreaded \in BOOLEAN /\ nightly \in BOOLEAN
  /\ overflowChecks \in BOOLEAN
  /\ size \in 0..MaxSize
  /\ index = 0 /\ length = size /\ first = size
  /\ calling = [at |-> "over", end |-> "front", stride |-> 0, loop |-> FALSE]
  /\ limit = 0 /\ section = FALSE
  /\ given = <<>> /\ passed = {} /\ wrapped = FALSE

\* next and next_back of a tuple go by the length alone.
Limits(c) ==
  {Shorter(length, size)} \cup (IF tuple /\ c.stride = 0 THEN {length} ELSE {})

\* A slip: the list is measured and read outside the critical section.
MeasureUnlocked(c) ==
  /\ limit' \in Limits(c)
  /\ section' = FALSE
  /\ calling' = c

\* next, next_back, nth, nth_back and the head of a loop, in the list's
\* critical section.
Measure(c) ==
  /\ limit' \in Limits(c)
  /\ section' = (freeThreaded /\ ~tuple)
  /\ calling' = c

\* The bound on the items yielded is one that only wrapping could pass.
Begin(e, n, loop) ==
  /\ calling.at = "over"
  /\ n > 0 => ~nightly /\ ~loop
  /\ Len(given) <= MaxSize
  /\ loop => freeThreaded /\ ~tuple
  /\ Measure([at |-> "measured", end |-> e, stride |-> n, loop |-> loop])
  /\ UNCHANGED <<build, size, index, length, given, passed, wrapped>>

\* A slip: the back end is lowered by one, without the items that are gone.
NarrowByOne(p) ==
  IF calling.end = "front"
  THEN /\ index' = p + 1 /\ passed' = passed \cup (index..p - 1)
       /\ UNCHANGED length
  ELSE /\ length' = length - 1 - calling.stride
       /\ passed' = passed \cup (p + 1..length - 1)
       /\ UNCHANGED index

\* The end an item is taken from moves past it.
Narrow(p) ==
  IF calling.end = "front"
  THEN /\ index' = p + 1 /\ passed' = passed \cup (index..p - 1)
       /\ UNCHANGED length
  ELSE /\ length' = p /\ passed' = passed \cup (p + 1..length - 1)
       /\ UNCHANGED index

\* get_item_unchecked, and the iterator moves on.
Read ==
  /\ calling.at = "measured" /\ Found
  /\ given' = Append(given, Target)
  /\ Narrow(Target)
  /\ wrapped' = (wrapped \/ Overflows)
  /\ calling' = [calling EXCEPT !.at = IF calling.loop THEN "closure" ELSE "over"]
  /\ section' = (section /\ calling.loop)
  /\ UNCHANGED <<build, size, limit>>

\* None; or an addition that is checked panics.  The iterator stays as it is.
Nothing ==
  /\ calling.at = "measured" /\ ~Found
  /\ calling' = [calling EXCEPT !.at = "over"]
  /\ section' = FALSE
  /\ UNCHANGED <<build, size, index, length, limit, given, passed, wrapped>>

\* The closure detaches, which suspends the critical section ...
Suspend ==
  /\ calling.at = "closure" /\ section
  /\ section' = FALSE
  /\ UNCHANGED <<build, size, index, length, calling, limit, given, passed, wrapped>>

\* ... and returns, back in the section: the loop goes on with next_unchecked ...
GoOn ==
  /\ calling.at = "closure"
  /\ Measure([calling EXCEPT !.at = "measured"])
  /\ UNCHANGED <<build, size, index, length, given, passed, wrapped>>

\* ... or is left with the iterator where it is.
LeaveLoop ==
  /\ calling.at = "closure"
  /\ calling' = [calling EXCEPT !.at = "over"]
  /\ section' = FALSE
  /\ UNCHANGED <<build, size, index, length, limit, given, passed, wrapped>>

\* advance_by and advance_back_by, in one critical section.
Advance(e, n) ==
  /\ nightly /\ calling.at = "over"
  /\ LET end == Shorter(length, size)
         by == Shorter(n, end - index)
     IN /\ index < end
        /\ IF e = "front"
           THEN /\ index' = index + by
                /\ passed' = passed \cup (index..index + by - 1)
                /\ UNCHANGED length
           ELSE /\ length' = end - by
                /\ passed' = passed \cup (end - by..length - 1)
                /\ UNCHANGED index
  /\ UNCHANGED <<build, size, calling, limit, section, given, wrapped>>

\* The list grows or shrinks: by the program between two calls, by the closure,
\* or by a thread that has the critical section.
Mutate(s) ==
  /\ ~tuple /\ s # size
  /\ calling.at # "measured" \/ (freeThreaded /\ ~section)
  /\ size' = s
  /\ UNCHANGED <<build, index, length, calling, limit, section, given, passed, wrapped>>

SequenceNext ==
  \/ \E e \in Ends, n \in Strides, loop \in BOOLEAN : Begin(e, n, loop)
  \/ Read \/ Nothing \/ Suspend \/ GoOn \/ LeaveLoop
  \/ \E e \in Ends, n \in Strides : Advance(e, n)
  \/ \E s \in 0..MaxSize : Mutate(s)

SequenceSpec == SequenceInit /\ [][SequenceNext]_sequenceVars

-------------------------------------------------------------------------------
Usize == 0..Word - 1

SequenceTypeOK ==
  /\ tuple \in BOOLEAN /\ freeThreaded \in BOOLEAN /\ nightly \in BOOLEAN
  /\ overflowChecks \in BOOLEAN /\ wrapped \in BOOLEAN
  /\ size \in 0..MaxSize /\ first \in 0..MaxSize
  /\ index \in Usize /\ length \in Usize /\ limit \in Usize
  /\ calling \in Call /\ section \in BOOLEAN
  /\ given \in Seq(Usize) /\ passed \subseteq Usize

\* "Caller must verify that the index is within the bounds of the list"
\* (get_item_unchecked, list.rs:280): whenever an item is read the container
\* still has it.
ReadsInBounds == calling.at = "measured" /\ Found => Target \in 0..size - 1

\* The same although the container may have changed since the iterator last
\* looked, at every read but these: nth_back with a stride that makes the addition
\* wrap, and in a tuple whatever follows such a call (list.rs:598, tuple.rs).
ReadsInBoundsUnlessWrapped ==
  calling.at = "measured" /\ Found /\ Target \notin 0..size - 1 =>
    /\ ~overflowChecks
    /\ (calling.end = "back" /\ Overflows) \/ (tuple /\ wrapped)

Yielded == {given[i] : i \in DOMAIN given}

\* However the list changes and the two ends are mixed, no position is yielded
\* twice, or after it was passed over, the ends never cross, and what was
\* neither yielded nor passed over is what len() counts, the items to come; until
\* an addition wraps, which takes a build without overflow checks.
Once ==
  /\ \A i, j \in DOMAIN given : given[i] = given[j] => i = j
  /\ Yielded \cap passed = {}
  /\ (Yielded \cup passed) \cap (index..length - 1) = {}
  /\ Yielded \cup passed \cup (index..length - 1) = 0..first - 1
  /\ index <= length
EachPositionOnce == (overflowChecks => ~wrapped) /\ (~wrapped => Once)
===============================================================================
