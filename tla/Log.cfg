\* One process in a transaction and two that sleep for it; two of the three
\* sectors fill the log, and the next log_write panics.
CONSTANTS
  p1 = p1
  p2 = p2
  p3 = p3
  s1 = s1
  s2 = s2
  s3 = s3
  d1 = d1
  d2 = d2
  NoBuf = NoBuf
  Proc = {p1, p2, p3}
  Sector = {s1, s2, s3}
  Data = {d1, d2}
  LOGSIZE = 2
  Size = 4
SPECIFICATION FairSpec
INVARIANTS
  LogConsistent
PROPERTIES
  Atomic
  SleepersWoken
