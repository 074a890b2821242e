CONSTANTS
  p1 = p1
  p2 = p2
  NoProc = NoProc
  b1 = b1
  Proc = {p1, p2}
  NBlock = 3
  Bit = {b1}
  RescueMax = 3
  DupMax = 2
  Parts = {"ditto", "locks", "budget"}
  Worlds <- DecayOrNot
  LockWorlds <- CleanOrRepair
  Transactions <- Fitting
SPECIFICATION FsSpec
INVARIANTS
  ReadsAreTrue
  HonestChecksums
  Mirrored
  NoDeadlock
  NothingKept
  PanicOnlyIfLost
  TransactionsFit
PROPERTIES
  GoodCopySurvives
  NoFalseAlarm
CHECK_DEADLOCK FALSE
