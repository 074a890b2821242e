CONSTANTS
  p1 = p1
  p2 = p2
  p3 = p3
  a = a
  b = b
  Proc = {p1, p2, p3}
  Byte = {a, b}
  PIPESIZE = 2
  Wrap = 4
  Worlds <- MCWorlds
SPECIFICATION FairSpec
INVARIANTS
  NoMissedWakeup
  NoUseAfterFree
PROPERTIES
  Fifo
  CloseReleases
CHECK_DEADLOCK FALSE
