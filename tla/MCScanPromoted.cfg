SPECIFICATION Spec
CONSTANTS
    MaxBatch = 1
    Scans = 1
    Package <- MCPackage
    Locks <- MCLocks
    Bundle <- MCBundle
    Feeds <- MCFeeds
INVARIANT NeverPromotedToClean
CHECK_DEADLOCK FALSE
