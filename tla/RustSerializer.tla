---------------------------- MODULE RustSerializer ----------------------------
(***************************************************************************)
(* RustSerializerMixin of clarax-django (django_clarax/serializers.py and  *)
(* middleware.py over serialize_instance of src/lib.rs).                   *)
(*                                                                         *)
(* Serializer classes come and go; each is at an address (its id) that a   *)
(* later class may get.  A class keeps the schema compiled from its model  *)
(* in _clarax_schema, where subclasses find it too, and the classification *)
(* of its fields in the module's _field_cache under its id.  Threads of    *)
(* the web server serialise instances one by one (to_representation), in   *)
(* lists (many_init and _ClaraXListSerializer) or as a stream, inside a    *)
(* request that ClaraXMetricsMiddleware measures or outside of one.        *)
(*                                                                         *)
(* A row maps the names of its fields to what their value is: "value" for  *)
(* the one Django REST framework (DRF) gives, and otherwise what was put   *)
(* there instead.  An instance is "good", or "bad" when a column holds a   *)
(* value that serialize_instance cannot convert and DRF can.               *)
(***************************************************************************)
EXTENDS Integers, SequencesExt

CONSTANTS
  Threads,     \* threads of the web server
  Ids,         \* addresses a class may have
  Mixin,       \* the address of RustSerializerMixin
  Columns,     \* [model -> [name -> get_internal_type()]], none of them nullable
  Uncompiled,  \* the models whose ModelSchema cannot be built
  Kind,        \* what a serializer field of a name is
  Shapes,      \* the sets of fields that classes declare
  Lists,       \* the sequences of instances that are serialised together
  Streams,     \* those that are streamed
  ChunkSize,   \* chunk_size of serialize_stream
  MaxCalls     \* bound on the list serialisations in one request

Models == DOMAIN Columns
Fields == DOMAIN Kind
Kinds == {"column", "key", "relation", "method", "nested", "renamed", "write_only"}

\* What _clarax_schema is before it is looked for, and when there is none.
Uninitialized == "uninitialized"
NoSchema == "none"

ASSUME SerializerAssumption ==
  /\ Models \cap {Uninitialized, NoSchema} = {}
  /\ Mixin \notin Ids
  /\ Kind \in [Fields -> Kinds]
  /\ \A fields \in Shapes : fields \subseteq Fields /\ IsFiniteSet(fields)
  /\ Lists \cup Streams \subseteq Seq({"good", "bad"})
  /\ ChunkSize \in Nat \ {0}

VARIABLES
  class,     \* the class at each address
  ownSchema, \* the _clarax_schema attribute each class has itself
  cache,     \* _field_cache
  job,       \* what each thread is serialising
  metrics,   \* _thread_local.clarax_metrics
  request    \* whether the middleware is measuring, and what it should find

mixinVars == <<class, ownSchema, cache, job, metrics, request>>
classVars == <<class, ownSchema, cache>>
jobVars == <<job, metrics, request>>

Free == [model |-> "free"]
Miss == [rust |-> {}, python |-> {"miss"}]

Live == {c \in Ids : class[c] # Free}
Idle == [kind |-> "idle"]
Using(c) == {t \in Threads : job[t].kind \in {"single", "list"} /\ job[t].class = c}

\* cls._clarax_schema: the class's own attribute, or one its bases have.
SchemaOf[c \in Ids \cup {Mixin}] ==
  IF c = Mixin THEN Uninitialized
  ELSE IF ownSchema[c] # Uninitialized \/ class[c] = Free THEN ownSchema[c]
  ELSE SchemaOf[class[c].parent]

-------------------------------------------------------------------------------
(***************************************************************************)
(* Rows.                                                                   *)
(***************************************************************************)

\* The Django types that ModelSchema knows, by the Rust type their values go
\* through; keys (AutoField) and relations get no descriptor.
Text == {"CharField", "TextField", "EmailField", "URLField", "SlugField"}
Integer ==
  {"IntegerField", "SmallIntegerField", "PositiveIntegerField",
   "PositiveSmallIntegerField", "BigIntegerField", "PositiveBigIntegerField"}
Boolean == {"BooleanField", "NullBooleanField"}
Own ==
  {"FloatField", "DecimalField", "DateField", "TimeField", "DateTimeField", "UUIDField",
   "JSONField", "BinaryField"}
RustType ==
  [d \in Text \cup Integer \cup Boolean \cup Own |->
     CASE d \in Text    -> "text"
       [] d \in Integer -> "int"
       [] d \in Boolean -> "bool"
       [] d \in Own     -> d]
RustTypes == Own \cup {"text", "int", "bool"}

\* ModelSchema(model): a descriptor for every column of a type it knows.
Compile[m \in Models] ==
  LET known == {f \in DOMAIN Columns[m] : Columns[m][f] \in DOMAIN RustType}
  IN [f \in known |-> RustType[Columns[m][f]]]

\* Types whose values may be written otherwise than by DRF: datetimes come as UTC
\* with +00:00, times of whole milliseconds with three places, Decimals with the
\* places they have, and JSON as it is after json.dumps and serde_json.
OwnWay == {"DateTimeField", "TimeField", "DecimalField", "JSONField"}

\* A value of the first type converts to the second, and reads the same as DRF's
\* or (perhaps) differently.
Alike ==
  {<<r, r>> : r \in RustTypes \ OwnWay}
    \cup {<<"text", "JSONField">>, <<"int", "JSONField">>, <<"bool", "JSONField">>}
Coerces ==
  {<<r, r>> : r \in OwnWay}
    \cup {<<"int", "FloatField">>, <<"int", "DecimalField">>, <<"FloatField", "DecimalField">>,
          <<"FloatField", "JSONField">>, <<"DecimalField", "FloatField">>, <<"bool", "int">>,
          <<"bool", "FloatField">>}

\* The classification of the fields of a class against a schema.
Classify(fields, s) ==
  LET rust == IF s = NoSchema THEN {}
              ELSE {f \in fields \cap DOMAIN Compile[s] :
                      Kind[f] \in {"column", "write_only"}}
  IN [rust |-> rust, python |-> fields \ rust]

\* What DRF gives: every field that is not write-only.
DRFRow(fields) ==
  [f \in {g \in fields : Kind[g] # "write_only"} |-> "value"]

\* serialize_instance with schema s, for an instance of model m: every
\* descriptor's attribute must be there and convert.
Converts(s, m, instance) ==
  /\ instance = "good"
  /\ \A f \in DOMAIN Compile[s] :
       f \in DOMAIN Compile[m]
         /\ <<Compile[m][f], Compile[s][f]>> \in Alike \cup Coerces

RustValue(s, m, f) == IF <<Compile[m][f], Compile[s][f]>> \in Alike THEN "value" ELSE "other"

\* A delegated field: the key and everything whose name with "_id" is an
\* attribute of the instance by that attribute, the others by the DRF field
\* in to_representation and by getattr in the list.
PythonValue(f, k) ==
  CASE Kind[f] \in {"key", "relation"} -> "value"
    [] Kind[f] = "nested" -> "id"
    [] Kind[f] \in {"method", "renamed"} /\ k = "list" -> "attribute"
    [] OTHER -> "value"

MixedRow(c, s, classes, k) ==
  [f \in (classes.rust \cap DOMAIN Compile[s]) \cup classes.python |->
     IF f \in classes.rust THEN RustValue(s, class[c].model, f)
     ELSE PythonValue(f, k)]

\* to_representation, and the body of the loop of _ClaraXListSerializer.data,
\* which goes back to a serializer of its own for a row that fails.
Row(c, s, classes, k, instance) ==
  IF classes.rust # {} /\ Converts(s, class[c].model, instance)
  THEN MixedRow(c, s, classes, k)
  ELSE DRFRow(class[c].fields)

\* many_init takes the fast path from four fields out of five.
Fast(classes) ==
  classes.rust # {} /\ 5 * Cardinality(classes.rust)
    >= 4 * (Cardinality(classes.rust) + Cardinality(classes.python))

-------------------------------------------------------------------------------
Zero == [rust |-> 0, python |-> 0, calls |-> 0]

MixinInit ==
  /\ class = [c \in Ids |-> Free]
  /\ ownSchema = [c \in Ids |-> Uninitialized]
  /\ cache = [c \in Ids |-> Miss]
  /\ job = [t \in Threads |-> Idle]
  /\ metrics = [t \in Threads |-> Zero]
  /\ request = [t \in Threads |-> [open |-> FALSE, work |-> Zero]]

\* The fields a class of model m may have: a column is one of m's.
Declares(m, fields) ==
  \A f \in fields : Kind[f] \in {"column", "write_only"} => f \in DOMAIN Compile[m]

\* A slip: the cache is not cleared.
DefineKeepsCache(c, parent, m, fields) ==
  /\ class[c] = Free /\ parent \in Live \cup {Mixin} /\ Declares(m, fields)
  /\ class' = [class EXCEPT ![c] = [model |-> m, fields |-> fields, parent |-> parent]]
  /\ ownSchema' = [ownSchema EXCEPT ![c] = Uninitialized]
  /\ UNCHANGED <<cache, jobVars>>

\* A class statement: __init_subclass__ drops what was cached under its id.
Define(c, parent, m, fields) ==
  /\ class[c] = Free /\ parent \in Live \cup {Mixin} /\ Declares(m, fields)
  /\ class' = [class EXCEPT ![c] = [model |-> m, fields |-> fields, parent |-> parent]]
  /\ ownSchema' = [ownSchema EXCEPT ![c] = Uninitialized]
  /\ cache' = [cache EXCEPT ![c] = Miss]
  /\ UNCHANGED jobVars

\* A class nobody uses is collected; _field_cache knows nothing of it.
CollectClass(c) ==
  /\ c \in Live /\ Using(c) = {} /\ \A d \in Live : class[d].parent # c
  /\ class' = [class EXCEPT ![c] = Free]
  /\ UNCHANGED <<ownSchema, cache, jobVars>>

\* Serializer(instance).data, or Serializer(instances, many=True).data.
Start(t, k, c, list) ==
  /\ job[t] = Idle /\ c \in Live
  /\ IF k = "single" THEN Len(list) = 1 ELSE metrics[t].calls < MaxCalls
  /\ job' = [job EXCEPT ![t] =
       [kind |-> k, class |-> c, pc |-> "schema", classes |-> Miss,
        todo |-> list, total |-> Len(list), rows |-> <<>>]]
  /\ UNCHANGED <<classVars, metrics, request>>

At(t, pc) == job[t].kind \in {"single", "list"} /\ job[t].pc = pc

\* _init_clarax_schema; without a schema DRF does the rest.
InitSchema(t) ==
  /\ At(t, "schema")
  /\ LET c == job[t].class
         m == class[c].model IN
     /\ ownSchema' = [ownSchema EXCEPT ![c] =
          IF SchemaOf[c] # Uninitialized THEN @
          ELSE IF m \in Uncompiled THEN NoSchema ELSE m]
     /\ job' = [job EXCEPT ![t].pc =
          IF NoSchema \in {SchemaOf[c], ownSchema'[c]} THEN "drf" ELSE "classify"]
  /\ UNCHANGED <<class, cache, metrics, request>>

\* _get_field_classification: the cached one, if any.
Chosen(t, classes) ==
  [job[t] EXCEPT
     !.classes = classes,
     !.kind = IF @ = "list" /\ Fast(classes) THEN "list" ELSE "single",
     !.pc = "rows"]

Hit(t) ==
  /\ At(t, "classify") /\ cache[job[t].class] # Miss
  /\ job' = [job EXCEPT ![t] = Chosen(t, cache[job[t].class])]
  /\ UNCHANGED <<classVars, metrics, request>>

\* Otherwise it is worked out, while other threads run, and then stored.
WorkOut(t) ==
  /\ At(t, "classify") /\ cache[job[t].class] = Miss
  /\ job' = [job EXCEPT ![t].pc = "store"]
  /\ UNCHANGED <<classVars, metrics, request>>

Store(t) ==
  /\ At(t, "store")
  /\ LET c == job[t].class
         classes == Classify(class[c].fields, SchemaOf[c]) IN
     /\ cache' = [cache EXCEPT ![c] = classes]
     /\ job' = [job EXCEPT ![t] = Chosen(t, classes)]
  /\ UNCHANGED <<class, ownSchema, metrics, request>>

\* The next row, by whichever path.
NextRow(t) ==
  LET j == job[t] IN
  IF j.pc = "drf" THEN DRFRow(class[j.class].fields)
  ELSE Row(j.class, SchemaOf[j.class], j.classes, j.kind, Head(j.todo))

\* A slip: a row that fails is left out.
EmitConverted(t) ==
  /\ At(t, "rows") \/ At(t, "drf")
  /\ job[t].todo # <<>>
  /\ job' = [job EXCEPT
       ![t].rows = IF Head(job[t].todo) = "good" THEN Append(@, NextRow(t)) ELSE @,
       ![t].todo = Tail(@)]
  /\ UNCHANGED <<classVars, metrics, request>>

Emit(t) ==
  /\ At(t, "rows") \/ At(t, "drf")
  /\ job[t].todo # <<>>
  /\ job' = [job EXCEPT ![t].rows = Append(@, NextRow(t)), ![t].todo = Tail(@)]
  /\ UNCHANGED <<classVars, metrics, request>>

\* What one list serialisation adds to the counts.
Plus(m, classes, n) ==
  [rust |-> m.rust + Cardinality(classes.rust) * n,
   python |-> m.python + Cardinality(classes.python) * n,
   calls |-> m.calls + 1]

\* The rows are returned; the fast list tells the middleware about them.
Return(t) ==
  /\ At(t, "rows") \/ At(t, "drf")
  /\ job[t].todo = <<>>
  /\ job' = [job EXCEPT ![t] = Idle]
  /\ IF job[t].kind = "list" /\ job[t].pc = "rows"
     THEN /\ metrics' = [metrics EXCEPT
               ![t] = Plus(@, job[t].classes, Len(job[t].rows))]
          /\ request' = [request EXCEPT ![t].work =
               IF request[t].open THEN Plus(@, job[t].classes, Len(job[t].rows)) ELSE @]
     ELSE UNCHANGED <<metrics, request>>
  /\ UNCHANGED classVars

-------------------------------------------------------------------------------
\* ClaraXMetricsMiddleware.__call__ before and after the view.  `work` is
\* history: what the view has serialised.
BeginRequestKeeps(t) ==
  /\ job[t] = Idle /\ ~request[t].open
  /\ request' = [request EXCEPT ![t] = [open |-> TRUE, work |-> Zero]]
  /\ UNCHANGED <<classVars, job, metrics>>

BeginRequest(t) ==
  /\ job[t] = Idle /\ ~request[t].open
  /\ request' = [request EXCEPT ![t] = [open |-> TRUE, work |-> Zero]]
  /\ metrics' = [metrics EXCEPT ![t] = Zero]
  /\ UNCHANGED <<classVars, job>>

EndRequest(t) ==
  /\ job[t] = Idle /\ request[t].open
  /\ request' = [request EXCEPT ![t].open = FALSE]
  /\ UNCHANGED <<classVars, job, metrics>>

-------------------------------------------------------------------------------
\* serialize_stream, a generator: `chunk` is filled from `todo` and handed
\* out in `chunks`; `read` is history, the instances read so far.
StartStream(t, list) ==
  /\ job[t] = Idle
  /\ job' = [job EXCEPT ![t] =
       [kind |-> "stream", todo |-> list, chunk |-> <<>>, chunks |-> <<>>,
        read |-> <<>>]]
  /\ UNCHANGED <<classVars, metrics, request>>

\* Slip: one too many in a chunk.
FullLate(chunk) == Len(chunk) > ChunkSize

Full(chunk) == Len(chunk) >= ChunkSize

\* One turn of the loop, up to the yield: an instance that cannot be
\* converted is dropped.
Pull(t) ==
  /\ job[t].kind = "stream" /\ job[t].todo # <<>>
  /\ LET i == Head(job[t].todo)
         chunk == IF i = "good" THEN Append(job[t].chunk, Len(job[t].read) + 1)
                  ELSE job[t].chunk IN
     job' = [job EXCEPT ![t] =
       [job[t] EXCEPT
          !.todo = Tail(@), !.read = Append(@, i),
          !.chunk = IF i = "good" /\ Full(chunk) THEN <<>> ELSE chunk,
          !.chunks = IF i = "good" /\ Full(chunk) THEN Append(@, chunk) ELSE @]]
  /\ UNCHANGED <<classVars, metrics, request>>

\* The queryset is at its end: what is left is the last chunk.
LastChunk(t) ==
  /\ job[t].kind = "stream" /\ job[t].todo = <<>> /\ job[t].chunk # <<>>
  /\ job' = [job EXCEPT ![t].chunk = <<>>, ![t].chunks = Append(@, job[t].chunk)]
  /\ UNCHANGED <<classVars, metrics, request>>

EndStream(t) ==
  /\ job[t].kind = "stream" /\ job[t].todo = <<>> /\ job[t].chunk = <<>>
  /\ job' = [job EXCEPT ![t] = Idle]
  /\ UNCHANGED <<classVars, metrics, request>>

-------------------------------------------------------------------------------
Serialize(t) ==
  \/ \E k \in {"single", "list"}, c \in Ids, list \in Lists : Start(t, k, c, list)
  \/ InitSchema(t) \/ Hit(t) \/ WorkOut(t) \/ Store(t) \/ Emit(t) \/ Return(t)

Stream(t) ==
  (\E list \in Streams : StartStream(t, list)) \/ Pull(t) \/ LastChunk(t) \/ EndStream(t)

MixinNext ==
  \/ \E c \in Ids : CollectClass(c) \/ \E parent \in Ids \cup {Mixin}, m \in Models,
                                      fields \in Shapes : Define(c, parent, m, fields)
  \/ \E t \in Threads : Serialize(t) \/ Stream(t) \/ BeginRequest(t) \/ EndRequest(t)

MixinSpec == MixinInit /\ [][MixinNext]_mixinVars

-------------------------------------------------------------------------------
\* What is cached under the id of a class is the classification of that
\* class's fields against the schema it uses, though ids are used again and
\* threads store what they worked out earlier: _field_cache is keyed by
\* id(cls) and never holds the class itself (serializers.py:154).
CacheFitsClass ==
  \A c \in Live :
    cache[c] # Miss =>
      /\ SchemaOf[c] # Uninitialized
      /\ cache[c] = Classify(class[c].fields, SchemaOf[c])

\* The rows of a class whose fields are columns, keys and relations of a model it
\* compiled itself have the fields of DRF's rows, and DRF's value in each of them,
\* except for columns of the types that are written in a way of their own; there is
\* one for each instance, in their order, whichever path each of them took.
PlainClass(c) ==
  /\ \A f \in class[c].fields : Kind[f] \in {"column", "key", "relation"}
  /\ SchemaOf[c] \in {class[c].model, NoSchema}

\* The fields of model m whose values need not be DRF's.
Differing(m) == {f \in DOMAIN Compile[m] : Compile[m][f] \in OwnWay}

LikeDRF(row, fields, m) ==
  /\ DOMAIN row = DOMAIN DRFRow(fields)
  /\ \A f \in DOMAIN row \ Differing(m) : row[f] = DRFRow(fields)[f]

PlainRowsAreDRFs ==
  \A t \in Threads :
    (At(t, "rows") \/ At(t, "drf")) /\ job[t].todo = <<>> =>
      LET c == class[job[t].class] IN
      /\ Len(job[t].rows) = job[t].total
      /\ PlainClass(job[t].class) =>
           \A i \in DOMAIN job[t].rows : LikeDRF(job[t].rows[i], c.fields, c.model)

\* A stream hands out every instance that converts once, in the order of the
\* queryset, in chunks of chunk_size of which only the last may be smaller.
StreamInOrder ==
  \A t \in Threads : job[t].kind = "stream" =>
    LET out == job[t].chunks
        given == FlattenSeq(out) \o job[t].chunk IN
    /\ ToSet(given) = {i \in DOMAIN job[t].read : job[t].read[i] = "good"}
    /\ \A i, j \in DOMAIN given : i < j => given[i] < given[j]
    /\ \A i \in DOMAIN out : i < Len(out) \/ job[t].todo # <<>> => Len(out[i]) = ChunkSize
    /\ Len(job[t].chunk) < ChunkSize

\* When the middleware writes its header the thread's counts are those of
\* this request, though the thread served others and worked between them.
StatsAreOfTheRequest ==
  \A t \in Threads : request[t].open => metrics[t] = request[t].work

\* "Works with existing DRF ModelSerializer - just add the mixin"
\* (serializers.py:6): a row of a single instance is the row DRF would give.
RowsAreDRFs ==
  \A t \in Threads : At(t, "rows") =>
    \A i \in DOMAIN job[t].rows :
      job[t].rows[i] = DRFRow(class[job[t].class].fields)
==============================================================================
