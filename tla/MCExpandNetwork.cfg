SPECIFICATION Spec
CONSTANTS
    NoNode = NoNode
    Name <- MCName
    Version <- MCVersion
    Root <- MCRoot
    World <- MCWorld
    Locked <- MCLocked
    Declared <- MCDeclared
    Requires <- MCRequires
    Published <- MCPublished
    Subtree <- MCSubtree
    BuildList <- MCBuildList
    Bounds <- MCBounds
    PrefersLowest = FALSE
INVARIANT NetworkBoundDegrades
