SPECIFICATION Spec
CONSTANTS
  Proc = {1, 2}
  NInum = 8
  SIZE = 20
  META = 2
  EPB = 4
  NDIRECT = 1
  MAXFILE = 2
  NINODE = 7
  DITTO_LOWER = 1
  DITTO_HIGHER = 2
  RefMax = 2
  MaxCrash = 1
  Menus <- MCMenus
INVARIANTS NamesSound HeldStays BlocksOwned NothingLost
CHECK_DEADLOCK FALSE
