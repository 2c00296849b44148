\* A nested serializer on a foreign key, without and with the mixin.
SPECIFICATION MixinSpec
CONSTANTS
  Threads = {t1}
  Ids = {1}
  Mixin = 0
  Columns <- MCColumns
  Uncompiled = {"broken"}
  Kind <- NestedKind
  Shapes <- NestedShapes
  Lists <- MCLists
  Streams <- MCStreams
  ChunkSize = 2
  MaxCalls = 1
INVARIANT RowsAreDRFs
