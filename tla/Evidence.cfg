SPECIFICATION Spec
CONSTANTS
  App = {a1, a2}
  Pid = {p1, p2}
  NoPid = nopid
  MaxLaunches = 3
  MaxDrops = 2
INVARIANTS
  NothingLeftRunning
PROPERTIES
  FiledIsOwn
  NothingDroppedUnseen
SYMMETRY Symmetry
CHECK_DEADLOCK FALSE
