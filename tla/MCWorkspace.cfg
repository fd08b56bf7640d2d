CONSTANTS
  Scans <- MCScans
  HiddenName <- MCHiddenName
  Order <- MCOrder
  NoVersion = "-"
SPECIFICATION Spec
INVARIANTS TypeOK LinksReadBack LockedIsReached DeclaredIsCounted ResolvedOnce CleanSawEverything NothingUnaccounted
PROPERTY NothingLeftOut
CHECK_DEADLOCK FALSE
