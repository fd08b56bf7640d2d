CONSTANTS
  Scans <- MCRings
  HiddenName <- MCHiddenName
  Order <- MCOrder
  NoVersion = "-"
SPECIFICATION Spec
INVARIANT OrphansAreUnreached
CHECK_DEADLOCK FALSE
