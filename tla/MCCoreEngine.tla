---------------------------- MODULE MCCoreEngine ----------------------------
(***************************************************************************)
(* Instances of the core engine for TLC: every field type alone with one   *)
(* row; batches of two fields and two rows, dicts and objects mixed; and   *)
(* buffers of FieldValues from a Rust caller, of wrong kinds and with an   *)
(* incomplete last record among them.                                      *)
(***************************************************************************)
EXTENDS CoreSerialization

V(cls, n) == [cls |-> cls, n |-> n, exp |-> 0, like |-> "plain"]
D(n, exp) == [cls |-> "Decimal", n |-> n, exp |-> exp, like |-> "plain"]
Like(v, what) == [v EXCEPT !.like = what]

Field(name, type, min, max, places, nullable, default) ==
  [name |-> name, type |-> type, min |-> min, max |-> max, places |-> places,
   nullable |-> nullable, default |-> default]
Plainly(name, type) == Field(name, type, NoBound, NoBound, NoBound, FALSE, FALSE)

\* One of each type, with the tightest interesting bounds.
OneField ==
  {Field("a", "str", 2, 3, NoBound, FALSE, FALSE), Field("a", "str", 3, 2, NoBound, TRUE, FALSE),
   Field("a", "int", 1, 2, NoBound, FALSE, TRUE), Field("a", "float", 1, 2, NoBound, FALSE, FALSE),
   Field("a", "Decimal", NoBound, 3, 2, FALSE, FALSE),
   Field("a", "Decimal", NoBound, 1, 7, TRUE, FALSE),
   Field("a", "bytes", NoBound, 2, NoBound, FALSE, FALSE)}
    \cup {Plainly("a", t) : t \in {"bool", "UUID", "list", "dict"} \cup Temporal}

Values ==
  {V("str", n) : n \in {0, 2, 4}} \cup {V("int", n) : n \in 0..3} \cup {V("float", n) : n \in {0, 3}}
    \cup {V(c, n) : c \in {"list", "dict", "tuple", "bytes"}, n \in {2, 3}}
    \cup {V(c, 1) : c \in {"bool", "UUID", "object"} \cup Temporal}
    \cup {Like(V("str", 36), w) : w \in {"uuid", "surrogate"}}
    \cup {Like(V("int", 100), "wide"), Like(V("float", 1), "nan"), Like(V("list", 1), "octets"),
          Like(V("list", 1), "opaque"), Like(V("list", 1), "lossy"), Like(V("dict", 1), "lossy"),
          Like(V("int", 70000), "wide"), Like(V("time", 1), "aware"), Like(V("time", 1), "millis"), Like(D(1, 0), "nan")}
    \cup {D(0, 0), D(0, -2), D(5, -2), D(12, -1), D(123, -2), D(1000, 0), D(100, -2),
          D(1, 2), D(1, 3), D(12, 3), D(0, 3), D(1, -7), D(15, -8), D(0, -7), D(100, -1),
          D(70000, 0), D(123, -8)}
    \cup {Absent}

Single ==
  {[call |-> c, schema |-> <<f>>, rows |-> <<[kind |-> k, vals |-> <<v>>]>>, buf |-> <<>>] :
     c \in (ReportCalls \cup SerializeCalls) \ {"chunked"}, f \in OneField, k \in {"dict", "object"}, v \in Values}

\* Two fields, b optional; of each good values, bad ones (one that breaks two rules) and none.
TwoFields == <<Field("a", "str", 3, 2, NoBound, FALSE, FALSE),
               Field("b", "Decimal", NoBound, 3, 1, TRUE, FALSE)>>
GoodBad == <<{V("str", 2), V("str", 3), Absent}, {D(15, -1), D(1, 3), D(1234, -2), Absent}>>
TwoRows ==
  {[call |-> c, schema |-> TwoFields, buf |-> <<>>,
    rows |-> <<[kind |-> k1, vals |-> <<x1, y1>>], [kind |-> k2, vals |-> <<x2, y2>>]>>] :
     c \in ListCalls, k1, k2 \in {"dict", "object"}, x1, x2 \in GoodBad[1], y1, y2 \in GoodBad[2]}
OneRow ==
  {[call |-> "validate", schema |-> TwoFields \o <<Plainly("c", "bool")>>, buf |-> <<>>,
    rows |-> <<[kind |-> "dict", vals |-> <<x, y, z>>]>>] :
     x \in GoodBad[1], y \in GoodBad[2], z \in {V("bool", 1), V("int", 1)}}

Buffers ==
  LET f == TwoFields
      values(i) == {Convert(f[i], v) : v \in (GoodBad[i] \ {Absent}) \ {D(1, 3)}} \cup {Null}
      wrong == [kind |-> "int", of |-> V("int", 3)]
  IN {[call |-> "chunked", schema |-> f, rows |-> <<>>, buf |-> b] :
        b \in {<<>>} \cup {<<x>> : x \in values(1)}
              \cup {<<x, y, z>> : x, z \in values(1), y \in values(2) \cup {wrong}}
              \cup {<<x, y, z, w>> : x, z \in values(1) \cup {wrong}, y, w \in values(2)}
              \cup {<<x, y, z, w, x, y, z>> : x, z \in values(1), y, w \in values(2)}}
    \cup {[call |-> "chunked", schema |-> <<>>, rows |-> <<>>, buf |-> <<Null>>],
          [call |-> "validate_many", schema |-> <<>>, buf |-> <<>>,
           rows |-> <<[kind |-> "dict", vals |-> <<>>]>>]}

\* Lists of Decimals of at most five digits, some written with an exponent.
DecimalInputs ==
  {[call |-> "validate_many", schema |-> <<Field("a", "Decimal", NoBound, 5, 2, FALSE, FALSE)>>,
    buf |-> <<>>, rows |-> [r \in 1..2 |-> [kind |-> "dict", vals |-> <<row[r]>>]]] :
     row \in [1..2 -> {D(5, -2), D(100, 0), D(1, 3), D(12, 3), D(12345, -1)}]}

MCInputs == Single \cup TwoRows \cup OneRow \cup Buffers
=============================================================================
