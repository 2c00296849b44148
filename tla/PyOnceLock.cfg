\* Both builds; two cells, a Once and a Mutex; initialisers nested and failing.  set
\* is left to the build without a GIL: PyOnceLock_set.cfg shows why.
SPECIFICATION FairSpec
CONSTANTS
  Threads = {t1, t2}
  Nobody = Nobody
  Cells = {1, 2, 3, 4}
  Onces = {3}
  Mutexes = {2}
  Builds = {TRUE, FALSE}
  SetOn = {TRUE}
  MaxFailures = 2
  MaxLocks = 2
INVARIANTS AttachedRuns
PROPERTIES InitialisedOnce CallsReturn
