SPECIFICATION FairSpec
CONSTANTS
    strict = strict
    tolerant = tolerant
    None = None
    Absent = Absent
    N = 2
    Limit = 1
    Call <- MCCall
    Tolerant <- MCTolerant
    Offline <- MCOffline
    Faulty <- MCFaulty
    Published <- MCPublished
    Rank <- MCRank
INVARIANTS IInv FatesAreCounted
PROPERTIES ImplementsContract Returns
CHECK_DEADLOCK FALSE
