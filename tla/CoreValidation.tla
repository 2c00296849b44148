--------------------------- MODULE CoreValidation ---------------------------
(***************************************************************************)
(* Validation in clarax-core: validate and validate_many, called from      *)
(* Python, and validate_batch and validate_batch_chunked under them.       *)
(*                                                                         *)
(* A value is checked along one of two code paths.  validate, and          *)
(* validate_many for rows that are not dicts, extract it into a FieldValue *)
(* (convert_py_to_field_value) and check that (validate_single);           *)
(* validate_many checks the values of a dict where they are                *)
(* (validate_py_value_inline).  From Threshold entries on Rayon checks the *)
(* entries of a batch in any order.                                        *)
(*                                                                         *)
(* A Python value is a record [cls, n, exp, like]: its class, the number   *)
(* that matters about it (length of a sized one, number, coefficient of a  *)
(* Decimal), a Decimal's exponent, and a peculiarity that decides what can *)
(* be made of it ("plain" for none; "lossy" for a list or dict from which  *)
(* JSON makes another one: keys that are not strings, tuples inside, ints  *)
(* from 2^63 on, floats in their last digit).                              *)
(***************************************************************************)
EXTENDS Integers, Sequences, FiniteSetsExt, SequencesExt

CONSTANTS
  Inputs,     \* calls: records [call, schema, rows, buf]
  Threshold,  \* batch size from which Rayon is used
  Mantissas,  \* the coefficients rust_decimal has room for, 2^96
  MaxScale    \* the decimal places it has room for, 28

\* The calls that report on data and those that serialise it (CoreSerialization);
\* some of either go through a Python list.
ReportCalls == {"validate", "validate_many", "chunked"}
SerializeCalls == {"serialize", "serialize_many"}
ListCalls == {"validate_many", "serialize_many"}
NoBound == -1
Absent == [cls |-> "None", n |-> 0, exp |-> 0, like |-> "plain"]
Null == [kind |-> "None", of |-> Absent]

Sized == {"str", "list", "tuple", "dict", "bytes"}
Temporal == {"datetime", "date", "time"}
FieldTypes ==
  Temporal \cup {"str", "int", "float", "bool", "Decimal", "UUID", "list", "dict", "bytes"}

PyClasses == FieldTypes \cup {"None", "tuple", "object"}
Likes ==
  {"plain", "nan", "wide", "uuid", "surrogate", "octets", "opaque", "lossy", "aware", "millis"}

\* Decimal digits of a natural number; zero has one.
NumDigits[n \in Nat] == IF n < 10 THEN 1 ELSE 1 + NumDigits[n \div 10]

\* A float is a whole number that Python writes without an exponent.
PyValues ==
  {v \in [cls : PyClasses, n : Nat, exp : Int, like : Likes] :
     /\ v.cls = "None" => v = Absent
     /\ v.exp # 0 => v.cls = "Decimal"
     /\ v.cls = "float" => NumDigits[v.n] <= 16}
FieldDescriptors ==
  [name : STRING, type : FieldTypes, min : Nat \cup {NoBound}, max : Nat \cup {NoBound},
   places : Nat \cup {NoBound}, nullable : BOOLEAN, default : BOOLEAN]
FieldValues == [kind : PyClasses \cup {"JSON"}, of : PyValues]

\* The constraints a field of each type may carry: length in min and max for str
\* (max for bytes), value for int and float, max_digits in max and
\* decimal_places in places for Decimal.
Constructible(f) ==
  /\ f.min # NoBound => f.type \in {"str", "int", "float"}
  /\ f.max # NoBound => f.type \in {"str", "int", "float", "Decimal", "bytes"}
  /\ f.places # NoBound => f.type = "Decimal"

\* A number that rust_decimal has room for; one from a float has a place more.
FitsDecimal(v) ==
  /\ (IF v.cls = "float" THEN 10 * v.n ELSE v.n) < Mantissas
  /\ -v.exp <= MaxScale

\* A schema is compiled from a dict, so its names differ; a row has a value, or
\* None, for every field; a Rust caller's FieldValue is of the variant of its
\* value, and a rust_decimal has no positive exponent and fits.
ASSUME InputsAssumption ==
  /\ Threshold \in Nat \ {0}
  /\ Mantissas \in Nat /\ MaxScale \in Nat \ {0}
  /\ \A i \in Inputs :
       /\ i \in [call : ReportCalls \cup SerializeCalls, schema : Seq(FieldDescriptors),
                 rows : Seq([kind : {"dict", "object"}, vals : Seq(PyValues)]),
                 buf : Seq(FieldValues)]
       /\ \A k \in DOMAIN i.schema : Constructible(i.schema[k])
       /\ \A j, k \in DOMAIN i.schema : j # k => i.schema[j].name # i.schema[k].name
       /\ \A r \in DOMAIN i.rows : Len(i.rows[r].vals) = Len(i.schema)
       /\ i.call \in {"validate", "serialize"} => Len(i.rows) = 1
       /\ i.call # "chunked" => i.buf = <<>>
       /\ \A k \in DOMAIN i.buf :
            /\ i.buf[k].kind = i.buf[k].of.cls /\ i.buf[k].of.exp <= 0
            /\ i.buf[k].kind = "Decimal" => FitsDecimal(i.buf[k].of)

-----------------------------------------------------------------------------
(* Decimals and their text.                                                *)

\* str(Decimal): plain for small exponents, else d.dddE+x.
Plain(d) == d.exp <= 0 /\ d.exp + NumDigits[d.n] > -6

\* The text of a value, as far as digits are counted in it: characters other
\* than sign and point, how many of them are leading zeros, those behind the
\* point, the exponent behind an E.  "True" and "False" have an e with no number
\* behind it; any other object counts with all n characters of its text.
TextOf(v) ==
  LET digits == NumDigits[v.n]
      left   == v.exp + digits
  IN IF v.like = "nan" THEN [chars |-> 3, lead |-> 0, places |-> 0, exp |-> 0]
     ELSE CASE v.cls = "Decimal" /\ Plain(v) ->
                 [chars  |-> IF left <= 0 THEN 1 - left + digits ELSE digits,
                  lead   |-> (IF left <= 0 THEN 1 - left ELSE 0) + (IF v.n = 0 THEN 1 ELSE 0),
                  places |-> -v.exp, exp |-> 0]
            [] v.cls = "Decimal" /\ ~Plain(v) ->
                 [chars |-> digits, lead |-> IF v.n = 0 THEN 1 ELSE 0,
                  places |-> digits - 1, exp |-> left - 1]
            [] v.cls = "int" -> [chars |-> digits, lead |-> 0, places |-> 0, exp |-> 0]
            [] v.cls = "float" ->
                 [chars |-> digits + 1, lead |-> IF v.n = 0 THEN 2 ELSE 0, places |-> 1, exp |-> 0]
            [] v.cls = "bool" -> [chars |-> 4 - v.n, lead |-> 0, places |-> 0, exp |-> 0]
            [] OTHER -> [chars |-> v.n, lead |-> 0, places |-> 0, exp |-> 0]

\* <<digits, places>> counted in the text.
count_decimal_digits(t) ==
  LET m == Max({t.chars - t.lead, 1})
  IN <<Max({m + Max({t.exp, 0}), 1}), Max({t.places - t.exp, 0})>>

-----------------------------------------------------------------------------
(* The error codes of one present value, on either path, in the order in   *)
(* which the code pushes them.                                             *)

If(cond, code) == IF cond THEN <<code>> ELSE <<>>
Above(x, bound) == bound # NoBound /\ x > bound
Below(x, bound) == bound # NoBound /\ x < bound

LengthCodes(f, n) == If(Above(n, f.max), "max_length") \o If(Below(n, f.min), "min_length")
DigitCodes(f, count) ==
  If(Above(count[1], f.max), "max_digits") \o If(Above(count[2], f.places), "max_decimal_places")

\* v against a bound, both scaled to integers when v has decimal places
Scaled(v, bound) == IF bound = NoBound THEN NoBound ELSE bound * 10^Max({-v.exp, 0})
Number(v) == v.n * 10^Max({v.exp, 0})
BoundCodes(f, v) ==
  IF v.like = "nan" THEN <<>>
  ELSE If(Below(Number(v), Scaled(v, f.min)), "min_value")
       \o If(Above(Number(v), Scaled(v, f.max)), "max_value")

IsI64(v) == v.cls \in {"int", "bool"} /\ v.like # "wide"
IsF64(v) == v.cls \in {"float", "int", "bool", "Decimal"}
ReadsAsUuid(v) == v.cls = "UUID" \/ v.like = "uuid"

\* Decimal::from_str_exact of the text: no exponent, and room for every digit.
ReadsAsDecimal(v) ==
  /\ v.cls \in {"Decimal", "int", "float"} /\ v.like # "nan"
  /\ v.cls = "Decimal" => Plain(v)
  /\ FitsDecimal(v)

\* What validate_many finds in the value of a dict.
InlineCodes(f, v) ==
  LET typed ==
        CASE f.type \in {"str", "bytes"}  -> v.cls \in Sized
          [] f.type = "int"               -> IsI64(v)
          [] f.type = "float"             -> IsF64(v)
          [] f.type = "Decimal"           -> TRUE
          [] f.type \in Temporal          -> v.cls \in Temporal
          [] f.type = "UUID"              -> ReadsAsUuid(v)
          [] f.type \in {"bool", "list", "dict"} -> v.cls = f.type
  IN IF ~typed THEN <<"invalid">>
     ELSE CASE f.type = "str"              -> LengthCodes(f, v.n)
            [] f.type = "bytes"            -> If(Above(v.n, f.max), "max_length")
            [] f.type \in {"int", "float"} -> BoundCodes(f, v)
            [] f.type = "Decimal"          -> DigitCodes(f, count_decimal_digits(TextOf(v)))
            [] OTHER                       -> <<>>

\* Whether the value becomes a FieldValue of the field's type; otherwise the
\* call raises.
Extracts(f, v) ==
  CASE f.type = "str"     -> v.cls = "str" /\ v.like # "surrogate"
    [] f.type = "int"     -> IsI64(v)
    [] f.type = "float"   -> IsF64(v)
    [] f.type = "Decimal" -> ReadsAsDecimal(v)
    [] f.type = "UUID"    -> ReadsAsUuid(v)
    [] f.type \in {"list", "dict"} ->
         v.cls \in {"list", "dict", "tuple", "str", "int", "float", "bool"}
           /\ v.like \notin {"opaque", "nan"}
    [] f.type = "bytes"   -> v.cls = "bytes" \/ v.like = "octets"
    [] f.type = "time"    -> v.cls = "time" /\ v.like # "aware"
    [] OTHER              -> v.cls = f.type

\* The FieldValue: its variant and the value.
Convert(f, v) ==
  [kind |-> IF f.type \in {"list", "dict"}
              THEN CASE v.cls \in {"list", "tuple"} -> "list"
                     [] v.cls = "dict"              -> "dict"
                     [] OTHER                       -> "JSON"
              ELSE f.type,
   of |-> v]

\* rust_decimal keeps what the text says: coefficient and scale; the text of
\* a float has one more digit than its whole part.
RustDecimal(v) ==
  IF v.cls = "float" THEN <<NumDigits[v.n * 10], 1>> ELSE <<NumDigits[v.n], -v.exp>>

\* validate_single: the errors of one FieldValue.
SingleCodes(f, fv) ==
  CASE fv.kind = "None"   -> If(~f.nullable /\ ~f.default, "required")
    [] fv.kind # "None" /\ fv.kind # f.type -> <<"invalid">>
    [] fv.kind = f.type   ->
         CASE f.type = "str"     -> LengthCodes(f, fv.of.n)
           [] f.type = "bytes"   -> If(Above(fv.of.n, f.max), "max_length")
           [] f.type \in {"int", "float"} -> BoundCodes(f, fv.of)
           [] f.type = "Decimal" -> DigitCodes(f, RustDecimal(fv.of))
           [] OTHER              -> <<>>

-----------------------------------------------------------------------------
VARIABLES
  input,   \* the call: [call, schema, rows, buf]
  pc,      \* "check" (row by row), "batch" (Rayon), "report", "done",
           \* "written" (serialised), "raised"
  at,      \* entries looked at, row by row
  len,     \* validate_many: length of the list now; Python code may pop rows
  buf,     \* FieldValues extracted, or handed in by a Rust caller
  checked, \* validate_batch*: <<chunk, errors>> in the order they were finished
  errors,  \* [field, code] in the order of the report
  report   \* valid_count, error_count and is_valid

vars == <<input, pc, at, len, buf, checked, errors, report>>

call == input.call
schema == input.schema
width == Len(schema)
Total == IF width = 0 THEN 0
         ELSE IF call = "chunked" THEN Len(input.buf) ELSE width * Len(input.rows)
NoReport == [valid_count |-> 0, error_count |-> 0, is_valid |-> TRUE]

\* Entry i of the row-major order: its row, its field and its value.
RowOf(i) == ((i - 1) \div width) + 1
FieldOf(i) == schema[((i - 1) % width) + 1]
ValueOf(i) == input.rows[RowOf(i)].vals[((i - 1) % width) + 1]
Errs(f, codes) == [k \in DOMAIN codes |-> [field |-> f.name, code |-> codes[k]]]
Required(f) == ~f.nullable /\ ~f.default

\* extract_single_value: a FieldValue, or the call raises.
Extractable(f, v) == IF v = Absent THEN ~Required(f) ELSE Extracts(f, v)
Extracted(f, v) == IF v = Absent THEN Null ELSE Convert(f, v)

Init ==
  /\ input \in Inputs
  /\ pc = IF input.call = "chunked" THEN "batch" ELSE "check"
  /\ at = 0
  /\ len = Len(input.rows)
  /\ buf = input.buf
  /\ checked = <<>>
  /\ errors = <<>>
  /\ report = NoReport

\* The next entry to look at.  A list iterator compares with the length of the
\* list at each new row, never in the middle of one.
Next1 == at + 1
MoreEntries ==
  /\ at < Total
  /\ call \in ListCalls /\ at % width = 0 => at \div width < len

Raise == pc' = "raised" /\ errors' = <<>> /\ UNCHANGED <<input, at, len, buf, checked, report>>

\* Mutant: the dict path treats an absent value as extract_single_value does.
CheckDictRaises ==
  /\ pc = "check" /\ call = "validate_many" /\ MoreEntries
  /\ input.rows[RowOf(Next1)].kind = "dict"
  /\ LET f == FieldOf(Next1)
         v == ValueOf(Next1)
     IN IF v = Absent /\ Required(f)
          THEN Raise
          ELSE /\ errors' = errors \o Errs(f, IF v = Absent THEN <<>> ELSE InlineCodes(f, v))
               /\ at' = at + 1
               /\ UNCHANGED <<input, pc, len, buf, checked, report>>

\* validate_many, a row that is a dict: an absent required value is an error.
CheckDict ==
  /\ pc = "check" /\ call = "validate_many" /\ MoreEntries
  /\ input.rows[RowOf(Next1)].kind = "dict"
  /\ LET f == FieldOf(Next1)
         v == ValueOf(Next1)
     IN errors' = errors \o Errs(f, IF v = Absent THEN If(Required(f), "required")
                                                  ELSE InlineCodes(f, v))
  /\ at' = at + 1
  /\ UNCHANGED <<input, pc, len, buf, checked, report>>

\* validate_many, any other row: extract, then validate_single.
CheckObject ==
  /\ pc = "check" /\ call = "validate_many" /\ MoreEntries
  /\ input.rows[RowOf(Next1)].kind = "object"
  /\ LET f == FieldOf(Next1)
         v == ValueOf(Next1)
     IN IF Extractable(f, v)
          THEN /\ errors' = errors \o Errs(f, SingleCodes(f, Extracted(f, v)))
               /\ at' = at + 1
               /\ UNCHANGED <<input, pc, len, buf, checked, report>>
          ELSE Raise

\* validate extracts every value first.
Extract ==
  /\ pc = "check" /\ call = "validate" /\ MoreEntries
  /\ LET f == FieldOf(Next1)
         v == ValueOf(Next1)
     IN IF Extractable(f, v)
          THEN /\ buf' = Append(buf, Extracted(f, v))
               /\ at' = at + 1
               /\ UNCHANGED <<input, pc, len, checked, errors, report>>
          ELSE Raise

\* Checking a value or reading an attribute runs Python code, and other threads
\* run too: rows may be popped off the end of the list.  (A row that is replaced
\* before its turn makes the call one on other input, and appended rows are not
\* looked at; rows that move up because one before them goes are left out.)
PopRow ==
  /\ pc = "check" /\ call \in ListCalls /\ len > 0 /\ at > 0
  /\ len' = len - 1
  /\ UNCHANGED <<input, pc, at, buf, checked, errors, report>>

EndOfRows ==
  /\ pc = "check" /\ call \in ReportCalls /\ ~MoreEntries
  /\ pc' = IF call = "validate" THEN "batch" ELSE "report"
  /\ UNCHANGED <<input, at, len, buf, checked, errors, report>>

-----------------------------------------------------------------------------
(* validate_batch works on entries, validate_batch_chunked on records.     *)

Size == IF call = "chunked" THEN width ELSE 1
\* a buffer that does not end with a whole record has a short last chunk
Chunks == IF Total = 0 THEN 0 ELSE (Len(buf) + Size - 1) \div Size
Parallel == Total # 0 /\ Len(buf) \div Size >= Threshold

ChunkErrors(c) ==
  FlattenSeq([k \in 1..(Min({c * Size, Len(buf)}) - (c - 1) * Size) |->
    LET i == (c - 1) * Size + k
    IN Errs(FieldOf(i), SingleCodes(FieldOf(i), buf[i]))])

\* One chunk is checked: any of those left when Rayon runs them.
Work(c) ==
  /\ pc = "batch"
  /\ \A k \in DOMAIN checked : checked[k][1] # c
  /\ ~Parallel => c = Len(checked) + 1
  /\ checked' = Append(checked, <<c, ChunkErrors(c)>>)
  /\ UNCHANGED <<input, pc, at, len, buf, errors, report>>

\* Mutant: the errors as the chunks were finished.
CollectUnsorted ==
  /\ pc = "batch" /\ Len(checked) = Chunks
  /\ errors' = FlattenSeq([k \in DOMAIN checked |-> checked[k][2]])
  /\ pc' = "report"
  /\ UNCHANGED <<input, at, len, buf, checked, report>>

\* The errors of the chunks, sorted back into input order: the chunks are
\* numbered from 1 and each was checked once.
Collect ==
  /\ pc = "batch" /\ Len(checked) = Chunks
  /\ LET sorted == [c \in DOMAIN checked |-> CHOOSE r \in ToSet(checked) : r[1] = c]
     IN errors' = FlattenSeq([k \in DOMAIN sorted |-> sorted[k][2]])
  /\ pc' = "report"
  /\ UNCHANGED <<input, at, len, buf, checked, report>>

\* Mutants: every error is taken off the count, with saturation and without.
ReportPerError ==
  /\ pc = "report"
  /\ report' = [valid_count |-> Max({Total - Len(errors), 0}),
                error_count |-> Len(errors),
                is_valid    |-> errors = <<>>]
  /\ pc' = "done"
  /\ UNCHANGED <<input, at, len, buf, checked, errors>>
\* The number of entries less the number of field names with errors.
Report ==
  /\ pc = "report"
  /\ report' = [valid_count |-> Max({Total - Cardinality({e.field : e \in ToSet(errors)}), 0}),
                error_count |-> Len(errors),
                is_valid    |-> errors = <<>>]
  /\ pc' = "done"
  /\ UNCHANGED <<input, at, len, buf, checked, errors>>

Next ==
  \/ CheckDict \/ CheckObject \/ Extract \/ PopRow \/ EndOfRows
  \/ \E c \in 1..Chunks : Work(c)
  \/ Collect \/ Report

Spec == Init /\ [][Next]_vars
FairSpec == Spec /\ WF_vars(Next)

-----------------------------------------------------------------------------
(* What the report must say.                                               *)

\* Digits and places of a Decimal, whatever its text looks like.
DecimalDigits(v) ==
  <<IF v.n = 0 THEN 1 ELSE NumDigits[v.n] + Max({v.exp, 0}), Max({-v.exp, 0})>>

\* The constraints of a field that a value of its own class breaks.
Breaks(f, v) ==
  {code \in {"max_length", "min_length", "max_value", "min_value", "max_digits",
             "max_decimal_places"} :
     CASE code = "max_length" -> f.type \in {"str", "bytes"} /\ Above(v.n, f.max)
       [] code = "min_length" -> f.type = "str" /\ Below(v.n, f.min)
       [] code = "max_value"  -> f.type \in {"int", "float"} /\ Above(v.n, f.max)
       [] code = "min_value"  -> f.type \in {"int", "float"} /\ Below(v.n, f.min)
       [] code = "max_digits" -> f.type = "Decimal" /\ Above(DecimalDigits(v)[1], f.max)
       [] code = "max_decimal_places" ->
            f.type = "Decimal" /\ Above(DecimalDigits(v)[2], f.places)}

\* The entries that were looked at, the Python value of each (Absent for None)
\* and whether that is of the class the field declares (an int of 64 bits).
Seen == IF call = "chunked" THEN 1..Total ELSE 1..at
Value(i) == IF call = "chunked" THEN buf[i].of ELSE ValueOf(i)
Declared(f, v) == v = Absent \/ (v.cls = f.type /\ v.like \notin {"nan", "wide"})
\* and without the one mistake that is made about such values (DigitsOfDecimals):
\* digits before the point of a mantissa count again in the exponent.
Counted(f, v) ==
  Declared(f, v) /\ (v.exp > 0 => v.n # 0 /\ NumDigits[v.n] = 1)

\* Required values that are missing, and constraints that are broken.
Demands(f, v) ==
  IF v = Absent THEN IF f.nullable \/ f.default THEN {} ELSE {"required"}
  ELSE Breaks(f, v)

\* On data of the declared classes (Counted) every call reports the same, whichever way
\* its values were checked and in whatever order Rayon ran: exactly what the
\* constraints say, entry by entry in input order.  ("Results are always
\* returned in input order regardless of parallelism", engine_validate.rs.)
SameReport ==
  pc = "done" /\ (\A i \in Seen : Counted(FieldOf(i), Value(i))) =>
    LET demands(i) == Demands(FieldOf(i), Value(i))
        last[i \in 0..Cardinality(Seen)] ==
          IF i = 0 THEN 0 ELSE last[i-1] + Cardinality(demands(i))
    IN /\ Len(errors) = last[Cardinality(Seen)]
       /\ \A i \in Seen :
            {errors[k] : k \in last[i-1] + 1 .. last[i]}
              = {[field |-> FieldOf(i).name, code |-> c] : c \in demands(i)}

\* Data whose values all are of the declared classes, with nothing peculiar
\* about them, is never refused with an exception; nor is any list of dicts.  A
\* Decimal written with an exponent, or with more digits or places than
\* rust_decimal has room for, is peculiar (lib.rs:1150).
Ordinary(f, v) ==
  IF v = Absent THEN ~Required(f)
  ELSE /\ Declared(f, v) /\ v.like \in {"plain", "lossy"}
       /\ v.cls = "Decimal" => Plain(v) /\ FitsDecimal(v)
OrdinaryDataGetsAReport ==
  pc = "raised" =>
    /\ \E i \in 1..Total : ~Ordinary(FieldOf(i), ValueOf(i))
    /\ call = "validate_many" => \E r \in DOMAIN input.rows : input.rows[r].kind # "dict"

\* How many of the entries looked at break nothing.
Clean ==
  Cardinality({i \in Seen : Demands(FieldOf(i), Value(i)) = {}})

\* A single record is counted right, a batch never too low; and is_valid agrees
\* with the count and with the list of errors.
ValidCountBounds ==
  pc = "done" =>
    /\ report.is_valid <=> report.valid_count = Total
    /\ report.is_valid <=> report.error_count = 0
    /\ (\A i \in Seen : Counted(FieldOf(i), Value(i))) => report.valid_count >= Clean
    /\ (\A i \in Seen : Counted(FieldOf(i), Value(i))) /\ Total = width
         => report.valid_count = Clean

\* "Counts total significant digits and decimal places from a Decimal's string
\* representation", "1E+2" having three (count_decimal_digits, lib.rs:754): the
\* list of dicts is reported to have too many digits in a field exactly if one of
\* its Decimals has, whatever notation their text is in.
DigitsOfDecimals ==
  pc = "done" /\ call = "validate_many"
      /\ (\A i \in Seen : Declared(FieldOf(i), Value(i))) =>
    \A k \in DOMAIN schema :
      [field |-> schema[k].name, code |-> "max_digits"] \in ToSet(errors)
        <=> \E i \in Seen : FieldOf(i) = schema[k] /\ "max_digits" \in Breaks(schema[k], Value(i))

=============================================================================
