SPECIFICATION Spec
CONSTANTS
    Module = {"mod"}
    Version <- MCVersion
    NoVersion = "none"
    Rank <- MCRank
    Account <- MCAccount
    NoAccount = "unrecorded"
    Calendar <- MCCalendar
    Sources <- MCSources
    Timeline <- MCTimeline
    ModFile <- MCModFile
    BuildDeps <- MCBuildDeps
    Hostile <- MCHostile
    Hook = {"postinstall", "build.rs", "proc-macro"}
    Dangerous = {"network"}
    Harmless = {"env"}
    Bump <- MCBump
    Tree <- MCTree
    MaxFailures = 2
INVARIANTS NothingApprovedIsNew DriftIsJudged ClaimsHold UnansweredStaysCounted IInv
