CONSTANTS
  Scans <- MCTwins
  HiddenName <- MCHiddenName
  Order <- MCOrder
  NoVersion = "-"
SPECIFICATION Spec
INVARIANT UnresolvedIsTotal
CHECK_DEADLOCK FALSE
