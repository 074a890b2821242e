CONSTANTS
  Proc = {1, 2}
  NPage = 12
  NPT = 2
  KERN = 5
  KPT = 1
  Images <- MCImages
  Deltas <- MCDeltas
SPECIFICATION MemSpec
INVARIANTS
  PagesExclusive
  NothingLost
  SizeIsMapped
  HeapSound
CHECK_DEADLOCK FALSE
