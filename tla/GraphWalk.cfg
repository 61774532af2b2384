\* Every graph, start and excluded set over a five-path store.
CONSTANTS
    top = top   left = left   right = right   base = base   other = other
    Paths <- MCPaths
    Refs <- MCRefs
SPECIFICATION WalkSpec
INVARIANTS
    WalkTypeOK
    WalkCorrect
    WalkIsClosure
PROPERTIES
    WalkEnds
CHECK_DEADLOCK FALSE
