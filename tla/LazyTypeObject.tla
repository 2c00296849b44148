---------------------------- MODULE LazyTypeObject ----------------------------
(***************************************************************************)
(* The lazily created type object of a #[pyclass]                          *)
(* (src/impl_/pyclass/lazy_type_object.rs) and the two GILOnceCells it is  *)
(* made of (src/sync.rs).                                                  *)
(*                                                                         *)
(* A GILOnceCell runs its initialiser without a lock and keeps the value   *)
(* of whichever thread sets it first.  The first cell holds the type; then *)
(* the class attributes are computed, by user code that may hand over the  *)
(* GIL or ask for the type itself, and put into the type's dict; the second*)
(* cell says that this is done.  initializing_threads tells a thread that  *)
(* asks again while it computes attributes.                                *)
(***************************************************************************)
EXTENDS Integers, Sequences

CONSTANTS
  Threads,   \* threads that use the class
  Nobody,    \* no thread
  NumAttrs,  \* number of class attributes
  Builds,    \* the builds considered: TRUE is free-threaded
  MaxNest    \* bound on calls a thread has open at one time

ASSUME LazyAssumption ==
  /\ Nobody \notin Threads
  /\ NumAttrs \in Nat \ {0} /\ MaxNest \in Nat \ {0}
  /\ Builds \subseteq BOOLEAN

VARIABLES
  freeThreaded,  \* the build
  immutable,     \* is_immutable_type
  gil,           \* the attached thread, on a build with a GIL
  value,         \* whose type object the class has
  full,          \* whether fully_initialized_type is set
  list,          \* initializing_threads
  dict,          \* whose object each class attribute is
  frozen,        \* whether the type has been made immutable
  calls,         \* get_or_try_init calls of each thread, innermost first
  result         \* what the last outermost call of each thread returned

cells == <<value, full, list, dict, frozen>>
vars == <<freeThreaded, immutable, gil, cells, calls, result>>

Attrs == 1..NumAttrs
NoResult == [ok |-> FALSE, type |-> Nobody, filled |-> FALSE]

(***************************************************************************)
(* A call [at, k, type]: creating the type; before the check of            *)
(* fully_initialized_type and before the list; computing attribute k + 1;  *)
(* setting attribute k + 1; about to clear the list; about to set the cell.*)
(***************************************************************************)
Places == {"create", "ensure", "enter", "attrs", "fill", "clear", "publish"}

At(t, p) == calls[t] # <<>> /\ Head(calls[t]).at = p
Now(t) == Head(calls[t])
Move(t, c) == calls' = [calls EXCEPT ![t] = <<c>> \o Tail(@)]
Attached(t) == freeThreaded \/ gil = t

\* The call is over; what an outermost one says is kept.
Leave(t, ok) ==
  /\ calls' = [calls EXCEPT ![t] = Tail(@)]
  /\ result' = IF Len(calls[t]) > 1 THEN result
               ELSE [result EXCEPT ![t] =
                       [ok |-> ok, type |-> Now(t).type,
                        filled |-> \A a \in Attrs : dict[a] # Nobody]]

-------------------------------------------------------------------------------
Init ==
  /\ freeThreaded \in Builds /\ immutable \in BOOLEAN
  /\ gil \in Threads
  /\ value = Nobody /\ full = FALSE /\ list = {} /\ frozen = FALSE
  /\ dict = [a \in Attrs |-> Nobody]
  /\ calls = [t \in Threads |-> <<>>]
  /\ result = [t \in Threads |-> NoResult]

\* User code runs in init and in the functions of class attributes.
InUserCode(t) == calls[t] = <<>> \/ At(t, "create") \/ At(t, "attrs")

HandOver(u) ==
  /\ ~freeThreaded /\ gil # u /\ InUserCode(gil)
  /\ gil' = u
  /\ UNCHANGED <<freeThreaded, immutable, cells, calls, result>>

\* get_or_try_init, the fast path and the first cell's check.
GetOrTryInit(t) ==
  /\ Attached(t) /\ InUserCode(t) /\ Len(calls[t]) < MaxNest
  /\ IF full
     THEN /\ UNCHANGED calls
          /\ result' = IF calls[t] # <<>> THEN result
                       ELSE [result EXCEPT ![t] =
                               [ok |-> TRUE, type |-> value,
                                filled |-> \A a \in Attrs : dict[a] # Nobody]]
     ELSE /\ calls' = [calls EXCEPT ![t] =
                         <<[at |-> IF value = Nobody THEN "create" ELSE "ensure",
                            k |-> 0, type |-> value]>> \o @]
          /\ UNCHANGED result
  /\ UNCHANGED <<freeThreaded, immutable, gil, cells>>

\* A slip: the type just made is used, whether or not it was kept.
CreatedOwn(t) ==
  /\ Attached(t) /\ At(t, "create")
  /\ value' = IF value = Nobody THEN t ELSE value
  /\ Move(t, [at |-> "ensure", k |-> 0, type |-> t])
  /\ UNCHANGED <<freeThreaded, immutable, gil, full, list, dict, frozen, result>>

\* init returns: set keeps the first value, and get reads the one kept.
Created(t) ==
  /\ Attached(t) /\ At(t, "create")
  /\ value' = IF value = Nobody THEN t ELSE value
  /\ Move(t, [at |-> "ensure", k |-> 0, type |-> value'])
  /\ UNCHANGED <<freeThreaded, immutable, gil, full, list, dict, frozen, result>>

CreateFails(t) ==
  /\ Attached(t) /\ At(t, "create")
  /\ Leave(t, FALSE)
  /\ UNCHANGED <<freeThreaded, immutable, gil, cells>>

Ensure(t) ==
  /\ Attached(t) /\ At(t, "ensure")
  /\ IF full THEN Leave(t, TRUE)
             ELSE Move(t, [Now(t) EXCEPT !.at = "enter"]) /\ UNCHANGED result
  /\ UNCHANGED <<freeThreaded, immutable, gil, cells>>

\* A re-entrant call returns the type as it is.
EnterList(t) ==
  /\ Attached(t) /\ At(t, "enter")
  /\ IF t \in list
     THEN Leave(t, TRUE) /\ UNCHANGED list
     ELSE /\ list' = list \cup {t}
          /\ Move(t, [Now(t) EXCEPT !.at = "attrs"])
          /\ UNCHANGED result
  /\ UNCHANGED <<freeThreaded, immutable, gil, value, full, dict, frozen>>

Attribute(t) ==
  /\ Attached(t) /\ At(t, "attrs") /\ Now(t).k < NumAttrs
  /\ Move(t, [Now(t) EXCEPT !.k = @ + 1])
  /\ UNCHANGED <<freeThreaded, immutable, gil, cells, result>>

\* A slip: a failing attribute leaves its thread on the list.
AttributeFailsListed(t) ==
  /\ Attached(t) /\ At(t, "attrs") /\ Now(t).k < NumAttrs
  /\ Leave(t, FALSE)
  /\ UNCHANGED <<freeThreaded, immutable, gil, cells>>

\* The InitializationGuard takes the thread off the list.
AttributeFails(t) ==
  /\ Attached(t) /\ At(t, "attrs") /\ Now(t).k < NumAttrs
  /\ list' = list \ {t}
  /\ Leave(t, FALSE)
  /\ UNCHANGED <<freeThreaded, immutable, gil, value, full, dict, frozen>>

\* A slip: what was computed is put in although another thread was faster.
ComputedAnyway(t) ==
  /\ Attached(t) /\ At(t, "attrs") /\ Now(t).k = NumAttrs
  /\ Move(t, [Now(t) EXCEPT !.at = "fill", !.k = 0])
  /\ UNCHANGED <<freeThreaded, immutable, gil, cells, result>>

\* The second cell's check: a late thread's objects are thrown away.
Computed(t) ==
  /\ Attached(t) /\ At(t, "attrs") /\ Now(t).k = NumAttrs
  /\ IF full
     THEN list' = list \ {t} /\ Leave(t, TRUE)
     ELSE /\ Move(t, [Now(t) EXCEPT !.at = "fill", !.k = 0])
          /\ UNCHANGED <<list, result>>
  /\ UNCHANGED <<freeThreaded, immutable, gil, value, full, dict, frozen>>

\* initialize_tp_dict, one attribute at a time.
Fill(t) ==
  /\ Attached(t) /\ At(t, "fill") /\ Now(t).k < NumAttrs /\ ~frozen
  /\ dict' = [dict EXCEPT ![Now(t).k + 1] = t]
  /\ Move(t, [Now(t) EXCEPT !.k = @ + 1])
  /\ UNCHANGED <<freeThreaded, immutable, gil, value, full, list, frozen, result>>

\* No memory, or the type takes no more attributes; or all are set and
\* PyType_Freeze fails.
FillFails(t) ==
  /\ Attached(t) /\ At(t, "fill") /\ (Now(t).k = NumAttrs => immutable)
  /\ list' = list \ {t}
  /\ Leave(t, FALSE)
  /\ UNCHANGED <<freeThreaded, immutable, gil, value, full, dict, frozen>>

\* The type is frozen if it is to be, and the guard dropped.
Freeze(t) ==
  /\ Attached(t) /\ At(t, "fill") /\ Now(t).k = NumAttrs
  /\ frozen' = (frozen \/ immutable)
  /\ list' = list \ {t}
  /\ Move(t, [Now(t) EXCEPT !.at = "clear"])
  /\ UNCHANGED <<freeThreaded, immutable, gil, value, full, dict, result>>

ClearList(t) ==
  /\ Attached(t) /\ At(t, "clear")
  /\ list' = {}
  /\ Move(t, [Now(t) EXCEPT !.at = "publish"])
  /\ UNCHANGED <<freeThreaded, immutable, gil, value, full, dict, frozen, result>>

Publish(t) ==
  /\ Attached(t) /\ At(t, "publish")
  /\ full' = TRUE
  /\ Leave(t, TRUE)
  /\ UNCHANGED <<freeThreaded, immutable, gil, value, list, dict, frozen>>

Next ==
  \E t \in Threads :
    \/ HandOver(t) \/ GetOrTryInit(t) \/ Created(t) \/ CreateFails(t)
    \/ Ensure(t) \/ EnterList(t) \/ Attribute(t) \/ AttributeFails(t) \/ Computed(t)
    \/ Fill(t) \/ FillFails(t) \/ Freeze(t) \/ ClearList(t) \/ Publish(t)

Spec == Init /\ [][Next]_vars

-------------------------------------------------------------------------------
\* However many threads create a type object at once, all calls that succeed
\* return the same one, and go on doing so.
OneType ==
  \A t, u \in Threads : result[t].ok /\ result[u].ok => result[t].type = result[u].type

\* Only a call from within a thread's own initialisation sees the type before its
\* class attributes are there, whatever attributes failed in between.
OutsidersGetAFilledType == \A t \in Threads : result[t].ok => result[t].filled

\* "Multiple threads may try to fill it at the same time, but only one of them
\* will succeed" (lazy_type_object.rs:119): with a GIL that is so; a late thread
\* does not fail on a frozen type either, and a thread never computes attributes
\* inside its own computation.
WithGilOneFills ==
  [][freeThreaded \/
      /\ full => dict' = dict
      /\ \A t \in Threads :
           /\ At(t, "fill") /\ Now(t).k < NumAttrs => ~frozen
           /\ \A i, j \in DOMAIN calls[t] :
                calls[t][i].at = "attrs" /\ calls[t][j].at = "attrs" => i = j]_vars
===============================================================================
