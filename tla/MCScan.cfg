SPECIFICATION FairSpec
CONSTANTS
    MaxBatch = 1
    Scans = 2
    Package <- MCPackage
    Locks <- MCLocks
    Bundle <- MCBundle
    Feeds <- MCFeeds
INVARIANTS IInv ReportCountsEveryGap PinnedGapsGate StoresAreHonest SnapshotReplays
PROPERTIES AnswersStand ScansEnd
CHECK_DEADLOCK FALSE
