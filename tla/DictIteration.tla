---------------------------- MODULE DictIteration ----------------------------
(***************************************************************************)
(* The iterator over a Python dict (BoundDictIterator in src/types/dict.rs)*)
(*                                                                         *)
(* A dict is its entries in the order they were inserted, some of them     *)
(* deleted since; inserting into a full table throws the deleted ones out, *)
(* which moves the others.  Each call of next looks at the size, at a count*)
(* of the items still expected and then calls PyDict_Next, in the dict's   *)
(* critical section or with the GIL.  Between two calls the dict may change*)
(* in any way.                                                             *)
(***************************************************************************)
EXTENDS Integers, Sequences, FiniteSets

CONSTANTS
  MaxSlots  \* the entries a table has room for

ASSUME DictAssumption == MaxSlots \in Nat

VARIABLES
  slots,      \* for each entry, whether it is there still
  ppos,       \* entries PyDict_Next has gone past
  diUsed,     \* the size the dict should have, -1 after a panic
  remaining,  \* items still expected, -1 when there was one too many
  items,      \* entries yielded, by their place in the table then
  panicked,   \* next has panicked (and the caller has gone on)
  changed,    \* an entry has come or gone since the iterator was made
  atFirst     \* the size the dict had when the iterator was made

dictVars == <<slots, ppos, diUsed, remaining, items, panicked, changed, atFirst>>

Present == {i \in DOMAIN slots : slots[i]}
Used == Cardinality(Present)
Ahead == {i \in Present : i > ppos}

-------------------------------------------------------------------------------
DictInit ==
  /\ slots \in UNION {[1..n -> BOOLEAN] : n \in 0..MaxSlots}
  /\ ppos = 0 /\ diUsed = Used /\ remaining = Used
  /\ items = <<>> /\ panicked = FALSE /\ changed = FALSE /\ atFirst = Used

\* The dict "changed size" or "keys changed" during iteration.
Refuses == diUsed # Used \/ remaining = -1

\* A slip: the iterator does not remember that it has panicked.
PanicForgets ==
  /\ Refuses
  /\ panicked' = TRUE
  /\ UNCHANGED <<slots, ppos, diUsed, remaining, items, changed, atFirst>>

Panic ==
  /\ Refuses
  /\ diUsed' = -1 /\ panicked' = TRUE
  /\ UNCHANGED <<slots, ppos, remaining, items, changed, atFirst>>

\* A slip: the position is counted up, deleted entries or not.
YieldOneOn(i) ==
  /\ ~Refuses
  /\ i \in Ahead /\ \A j \in Ahead : i <= j
  /\ ppos' = ppos + 1 /\ remaining' = remaining - 1
  /\ items' = Append(items, i)
  /\ UNCHANGED <<slots, diUsed, panicked, changed, atFirst>>

\* PyDict_Next finds the next entry; when there is none, nothing changes.
Yield(i) ==
  /\ ~Refuses
  /\ i \in Ahead /\ \A j \in Ahead : i <= j
  /\ ppos' = i /\ remaining' = remaining - 1
  /\ items' = Append(items, i)
  /\ UNCHANGED <<slots, diUsed, panicked, changed, atFirst>>

Insert ==
  /\ Used < MaxSlots
  /\ slots' = IF Len(slots) < MaxSlots THEN Append(slots, TRUE)
              ELSE [i \in 1..Used + 1 |-> TRUE]
  /\ changed' = TRUE
  /\ UNCHANGED <<ppos, diUsed, remaining, items, panicked, atFirst>>

Delete(i) ==
  /\ slots[i]
  /\ slots' = [slots EXCEPT ![i] = FALSE]
  /\ changed' = TRUE
  /\ UNCHANGED <<ppos, diUsed, remaining, items, panicked, atFirst>>

DictNext ==
  \/ Panic \/ Insert
  \/ \E i \in DOMAIN slots : Yield(i) \/ Delete(i)

DictSpec == DictInit /\ [][DictNext]_dictVars

-------------------------------------------------------------------------------
\* Iteration ends whatever the loop's body does to the dict, after one item more
\* than there were at most, and an iterator that has panicked yields nothing more
\* even when the dict gets its size back.
DictEnds ==
  [][/\ Len(items') <= atFirst + 1
     /\ panicked => items' = items]_dictVars

\* As long as no entry comes or goes, every entry is yielded once, in order,
\* deleted ones are skipped, and len() is the number of those to come.
DictFaithful ==
  ~changed =>
    /\ {items[i] : i \in DOMAIN items} = Present \ Ahead
    /\ \A i, j \in DOMAIN items : i < j => items[i] < items[j]
    /\ remaining = Cardinality(Ahead)
===============================================================================
