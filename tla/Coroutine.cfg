\* Two workers, four polls, two cancellations, with and without a handle.
SPECIFICATION FairSpec
CONSTANTS
  Workers = {b1, b2}
  MaxPolls = 4
  MaxThrows = 2
INVARIANTS NoLostWake CancelNotMissed CloneOfItsPoll
PROPERTY EventIsSeen
\* A task that is done, or whose event never happens, stops.
CHECK_DEADLOCK FALSE
