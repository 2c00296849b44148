\* Two threads on either build, two class attributes, calls from within them.
SPECIFICATION Spec
CONSTANTS
  Threads = {t1, t2}
  Nobody = Nobody
  NumAttrs = 2
  Builds = {TRUE, FALSE}
  MaxNest = 3
INVARIANTS OneType OutsidersGetAFilledType
PROPERTIES WithGilOneFills
