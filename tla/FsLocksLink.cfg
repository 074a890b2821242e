CONSTANTS
  p1 = p1
  p2 = p2
  NoProc = NoProc
  b1 = b1
  Proc = {p1, p2}
  NBlock = 2
  Bit = {b1}
  RescueMax = 1
  DupMax = 1
  Parts = {"locks"}
  Worlds <- DecayOnly
  LockWorlds <- LinkUnlink
  Transactions <- DittoWrites
SPECIFICATION FsSpec
INVARIANTS
  NoDeadlock
CHECK_DEADLOCK FALSE
