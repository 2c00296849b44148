\* With a GIL, one thread initialises while another one calls set.
SPECIFICATION Spec
CONSTANTS
  Threads = {t1, t2}
  Nobody = Nobody
  Cells = {1}
  Onces = {}
  Mutexes = {}
  Builds = {FALSE}
  SetOn = {FALSE}
  MaxFailures = 1
  MaxLocks = 0
INVARIANTS NoInterpreterDeadlock
