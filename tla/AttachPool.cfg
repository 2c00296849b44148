\* Both builds, two threads, two references to up to two objects; one of the
\* threads keeps attaching, and everything parked is dropped.
SPECIFICATION FairSpec
CONSTANTS
  Threads = {t1, t2}
  Handles = {h1, h2}
  Objects = {o1, o2}
  Builds = {TRUE, FALSE}
  MaxDepth <- MCMaxDepth
  Pollers = {t1}
INVARIANTS CountImpliesAttached OnePlace RefcountExact
PROPERTIES DecrefWhileAttached GuardRestoresCount ParkedIsDropped
