SPECIFICATION FairSpec
CONSTANTS
    Module <- MCModule
    Version <- MCVersion
    Rank <- MCRank
    NoVersion = 0
    World <- MCWorld
    Text <- MCText
    Query <- MCQuery
    Main = "main"
INVARIANTS IInv BuildListIsMinimal UnreadIsReported EdgesAreMet
PROPERTIES Resolves
CHECK_DEADLOCK FALSE
