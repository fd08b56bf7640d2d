SPECIFICATION ReplaySpec
CONSTANTS
    online = online
    offline = offline
    None = None
    Absent = Absent
    N = 2
    Limit = 2
    Call <- MCCall
    Tolerant <- MCTolerant
    Offline <- MCOffline
    Faulty <- MCFaulty
    Published <- MCPublished
    Rank <- MCRank
INVARIANTS ReplayInv AnsweredReplays
CHECK_DEADLOCK FALSE
