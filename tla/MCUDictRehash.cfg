SPECIFICATION Spec
CONSTANTS
    a = a
    b = b
    NULL = NULL
    Keys <- MCKeys
    Values <- MCValues
    Caps <- MCCaps
    Home <- MCHome
SYMMETRY Symmetry
INVARIANT RehashKeepsGet
