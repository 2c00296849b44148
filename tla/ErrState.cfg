\* Both builds, two threads, two errors of which each may be born normalised.
SPECIFICATION FairSpec
CONSTANTS
  Threads = {t1, t2}
  Nobody = Nobody
  Errors = {1, 2}
  Builds = {TRUE, FALSE}
INVARIANTS ExpectsHold RunsInNormalizer
PROPERTIES InitialisedOnce CallsReturn
