\* Two guards, one of them the collector's at times, over every hierarchy of
\* three classes.
SPECIFICATION FairSpec
CONSTANTS
  Guards = {g1, g2}
  gc = g1
  Depth = 3
  MaxFlag = 5
INVARIANTS FlagExact NoAliasing IntoSuperSucceeds HandlerIsConfined ClearReports
PROPERTIES SharedOrMutable LockFree CollectorLeavesNoTrace
\* When every guard has leaked, or the process has aborted, nothing more happens.
CHECK_DEADLOCK FALSE
