\* Strides near usize::MAX, with the builds among which additions wrap.
SPECIFICATION SequenceSpec
CONSTANTS
  MaxSize = 4
  Strides = {0, 1, 15}
  Word = 16
INVARIANT ReadsInBounds
CHECK_DEADLOCK FALSE
