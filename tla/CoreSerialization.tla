-------------------------- MODULE CoreSerialization --------------------------
(***************************************************************************)
(* serialize and serialize_many of clarax-core, next to the validation of  *)
(* CoreValidation: a caller makes one call of either kind.                 *)
(*                                                                         *)
(* serialize, and serialize_many for rows that are not dicts, extract each *)
(* value into a FieldValue and write that as JSON; serialize_many copies a *)
(* dict and overwrites the values of the fields that need it, with what    *)
(* Python makes of them.  A serialised value is [form, of]: the value it   *)
(* is made from and how it is written ("same" when it is that value).      *)
(***************************************************************************)
EXTENDS CoreValidation

VARIABLE out   \* the serialised entries, row by row

engineVars == <<vars, out>>

Written(form, v) == [form |-> form, of |-> v]

\* Fields whose values serialize_many overwrites.
NeedsConversion(f) == f.type \in Temporal \cup {"Decimal", "UUID", "bytes"}

\* What Python writes for a value of any class: str, isoformat, b64encode.
PythonWrites(f, v) ==
  CASE f.type \in Temporal -> v.cls \in Temporal
    [] f.type = "bytes"    -> v.cls = "bytes"
    [] OTHER               -> TRUE

PythonForm(f) ==
  CASE f.type \in {"Decimal", "UUID"} -> "text"
    [] f.type \in Temporal            -> "iso"
    [] f.type = "bytes"               -> "base64"
    [] OTHER                          -> "same"

\* field_value_to_json and json_to_py: NaN is no JSON, datetimes come in UTC,
\* a time of whole milliseconds with three places, a value of another class as
\* the field's, and a list or dict as json.dumps and serde_json pass it on.
HasJson(fv) == ~(fv.kind = "float" /\ fv.of.like = "nan")
JsonForm(fv) ==
  CASE fv.kind = "None"                        -> "same"
    [] fv.kind # "None" /\ fv.of.cls # fv.kind -> "converted"
    [] fv.kind \in {"list", "dict"} /\ fv.of.cls = fv.kind ->
         IF fv.of.like = "lossy" THEN "converted" ELSE "same"
    [] fv.kind \in {"Decimal", "UUID"}         -> "text"
    [] fv.kind \in {"date", "time"}            ->
         IF fv.of.like = "millis" THEN "short" ELSE "iso"
    [] fv.kind = "datetime"                    -> "utc"
    [] fv.kind = "bytes"                       -> "base64"
    [] OTHER                                   -> "same"

EngineInit == Init /\ out = <<>>

WriteEntry(w) ==
  /\ out' = Append(out, w)
  /\ at' = at + 1
  /\ UNCHANGED <<input, pc, len, buf, checked, errors, report>>

\* An exception throws away the rows that were done.
RaiseOut == Raise /\ out' = <<>>

\* A slip: bytes are left as they are.
SerializeDictBytes ==
  /\ pc = "check" /\ call = "serialize_many" /\ MoreEntries
  /\ input.rows[RowOf(Next1)].kind = "dict"
  /\ LET f == FieldOf(Next1)
         v == ValueOf(Next1)
     IN IF v = Absent
        THEN IF NeedsConversion(f) /\ Required(f) THEN RaiseOut
             ELSE WriteEntry(Written("same", Absent))
        ELSE IF PythonWrites(f, v) /\ f.type # "bytes" THEN WriteEntry(Written(PythonForm(f), v))
        ELSE IF f.type = "bytes" THEN WriteEntry(Written("same", v))
        ELSE RaiseOut

\* serialize_many, a row that is a dict: a missing value stays missing unless
\* its field needs conversion.
SerializeDict ==
  /\ pc = "check" /\ call = "serialize_many" /\ MoreEntries
  /\ input.rows[RowOf(Next1)].kind = "dict"
  /\ LET f == FieldOf(Next1)
         v == ValueOf(Next1)
     IN IF v = Absent
        THEN IF NeedsConversion(f) /\ Required(f) THEN RaiseOut
             ELSE WriteEntry(Written("same", Absent))
        ELSE IF PythonWrites(f, v) THEN WriteEntry(Written(PythonForm(f), v))
        ELSE RaiseOut

\* serialize, and serialize_many for any other row.
SerializeObject ==
  /\ pc = "check" /\ call \in SerializeCalls /\ MoreEntries
  /\ call = "serialize_many" => input.rows[RowOf(Next1)].kind = "object"
  /\ LET f == FieldOf(Next1)
         v == ValueOf(Next1)
     IN IF Extractable(f, v) /\ HasJson(Extracted(f, v))
        THEN WriteEntry(Written(JsonForm(Extracted(f, v)), v))
        ELSE RaiseOut

EndOfOutput ==
  /\ pc = "check" /\ call \in SerializeCalls /\ ~MoreEntries
  /\ pc' = "written"
  /\ UNCHANGED <<input, at, len, buf, checked, errors, report, out>>

EngineNext ==
  \/ Next /\ UNCHANGED out
  \/ SerializeDict \/ SerializeObject \/ EndOfOutput

EngineSpec == EngineInit /\ [][EngineNext]_engineVars

-----------------------------------------------------------------------------
\* Not a list or dict that JSON changes.
Kept(v) == v.like # "lossy"

\* What is written of an ordinary value of the declared class.
Expected(f, v) ==
  Written(CASE v = Absent                   -> "same"
            [] f.type \in {"Decimal", "UUID"} /\ v # Absent -> "text"
            [] f.type = "bytes" /\ v # Absent -> "base64"
            [] f.type \in {"date", "time"} /\ v # Absent -> "iso"
            [] OTHER -> "same", v)

\* A list of dicts and objects comes out whole or not at all, rows in input order,
\* though each kind of row goes through code of its own and Python code run by
\* one row may shorten the list: every record that is begun is finished, no
\* row of a list that kept its length is missing, ordinary values are written the
\* same in either kind of row, and an exception keeps nothing of the rows before
\* it.  (Datetimes are not written the same: Python's text and UTC.  Nor are lists
\* and dicts that JSON changes: a dict's are left, an object's go through JSON.)
SerializedAlike ==
  call \in SerializeCalls =>
    /\ pc = "raised" => out = <<>>
    /\ pc = "written" =>
         /\ width > 0 => Len(out) % width = 0
         /\ len = Len(input.rows) => Len(out) = Total
         /\ \A i \in DOMAIN out :
              /\ out[i].of = ValueOf(i)
              /\ Ordinary(FieldOf(i), ValueOf(i)) /\ Kept(ValueOf(i))
                   /\ FieldOf(i).type # "datetime"
                   => out[i] = Expected(FieldOf(i), ValueOf(i))

=============================================================================
