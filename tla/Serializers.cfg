\* Every call of the core engine; two threads and two classes at a time, one of
\* them perhaps derived from the other, for the bridge; containers of up to four
\* items, every build and a stride at usize::MAX.  A call to the engine ends, and
\* an iterator may be left where it is.
SPECIFICATION SerializersSpec
CONSTANTS
  Inputs <- MCInputs
  Threshold = 2
  Mantissas = 65536
  MaxScale = 7
  Threads = {t1, t2}
  Ids = {1, 2}
  Mixin = 0
  Columns <- MCColumns
  Uncompiled = {"broken"}
  Kind <- MCKind
  Shapes <- MCShapes
  Lists <- MCLists
  Streams <- MCStreams
  ChunkSize = 2
  MaxCalls = 1
  MaxSize = 4
  Strides = {0, 1, 2, 15}
  Word = 16
  MaxSlots = 4
SYMMETRY Symmetry
INVARIANTS
  SameReport OrdinaryDataGetsAReport ValidCountBounds SerializedAlike
    StreamInOrder StatsAreOfTheRequest
  ReadsInBoundsUnlessWrapped EachPositionOnce DictFaithful
PROPERTIES DictEnds
CHECK_DEADLOCK FALSE
