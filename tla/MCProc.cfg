CONSTANTS
  c1 = c1
  c2 = c2
  NPROC = 3
  MaxSleep = 1
  Worlds <- MCWorlds
SPECIFICATION FairSpec
INVARIANTS
  StacksExclusive
  NoOrphans
  NoMissedWakeup
  KilledWasAsked
PROPERTIES
  SmallKilledExits
  SmallOrphansReaped
