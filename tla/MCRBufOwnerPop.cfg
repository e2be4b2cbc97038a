SPECIFICATION PoppingSpec
CONSTANTS
    v1 = v1
    v2 = v2
    v3 = v3
    NULL = NULL
    Vals <- MCVals
    Caps <- MCCaps
SYMMETRY Symmetry
INVARIANT FreesOnlyItsOwn
