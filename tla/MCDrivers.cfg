\* Two buffers are enough for a queue of two requests and fewer than the
\* sectors, so that bget recycles; when one is pinned it may panic.  Two readers
\* share a ring of three characters, between which the indices wrap.
CONSTANTS
  p1 = p1
  p2 = p2
  Proc = {p1, p2}
  NBUF = 2
  s1 = s1
  s2 = s2
  s3 = s3
  Sector = {s1, s2, s3}
  NoSector = NoSector
  MaxData = 1
  MaxPinned = 1
  DiskErrors = FALSE
  c1 = c1
  c2 = c2
  lockA = lockA
  lockB = lockB
  NoCPU = NoCPU
  CPU = {c1, c2}
  Lock = {lockA, lockB}
  Codes <- SmallCodes
  Handlers <- SmallHandlers
  letter = letter
  Reader = {1, 2}
  INPUT_BUF = 3
  Wrap = 6
  Letter = {letter}
  Sizes = {0, 2}
  MaxTyped = 4
SPECIFICATION DriversSpec
INVARIANTS BuffersShared NothingLost PanicsOnlyWhenFull InputIntact LocksSound
PROPERTY DiskRequestsEnd
CHECK_DEADLOCK FALSE
