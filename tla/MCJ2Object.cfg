SPECIFICATION Spec
CONSTANTS
    n1 = n1
    n2 = n2
    n3 = n3
    n4 = n4
    n5 = n5
    v1 = v1
    v2 = v2
    v3 = v3
    v4 = v4
    v5 = v5
    NULL = NULL
    Keys <- MCKeys
    Home <- MCHome
    Names <- MCNames
    Hash <- MCHash
    Vals <- MCVals
    ICap = 1
    WordWidth = 3
SYMMETRY Symmetry
INVARIANTS TypeOK WalkIsSafe NamesUnique OwnsWhatItHolds NoBlockLeaks IterationComplete
PROPERTY ImplementsMap
