CONSTANTS
    Node <- MCNode
    Package <- MCPackage
    Root <- MCPackage
    f1 = f1
    f2 = f2
    Finding <- MCFinding
    Filings <- MCFilings
    NoVerdict = NoVerdict
    NoPackage = NoPackage
    EdgeSets <- MCEdgeSets
    Truths <- MCTruths
    Policies <- MCPolicies
SPECIFICATION FairSpec
INVARIANT
    IInv
PROPERTIES
    ImplementsContract
    RiskNeverSoftened
    Terminates
