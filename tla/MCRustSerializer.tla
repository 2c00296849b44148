--------------------------- MODULE MCRustSerializer ---------------------------
(***************************************************************************)
(* RustSerializer for TLC: the model `order`, one of whose columns is      *)
(* written otherwise than by DRF, and a model that cannot be compiled and  *)
(* shares a column's name but not its type.                                *)
(***************************************************************************)
EXTENDS RustSerializer

MCColumns ==
  [order |-> [a |-> "IntegerField", b |-> "CharField", c |-> "DateTimeField",
              d |-> "DateField", id |-> "AutoField", customer |-> "ForeignKey"],
   broken |-> [a |-> "FloatField"]]
MCKind ==
  [a |-> "column", b |-> "column", c |-> "column", d |-> "column",
   id |-> "key", customer |-> "relation"]

\* Four fields out of five are columns, and one out of two.
MCShapes == {{"a", "b", "c", "d", "id"}, {"a", "customer"}}
MCLists == {<<"good">>, <<"bad", "good">>}
MCStreams == {<<"good", "bad", "good", "good">>}

\* A model with a foreign key whose object is serialised by a nested
\* serializer, and a computed field.
NestedKind == [a |-> "column", author |-> "nested", total |-> "method"]
NestedShapes == {{"a", "author"}, {"a", "total"}}

Symmetry == Permutations(Threads)
===============================================================================
