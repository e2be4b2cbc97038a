SPECIFICATION Spec
CONSTANTS
    v1 = v1
    v2 = v2
    NULL = NULL
    Vals <- MCVals
    Caps <- MCCaps
SYMMETRY Symmetry
INVARIANT SingleFrontIsBack
