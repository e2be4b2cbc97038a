SPECIFICATION Spec
CONSTANTS
    a = a
    b = b
    NULL = NULL
    Keys <- MCKeys
    Values <- MCValues
    Caps <- MCCaps
    Home <- MCHome
SYMMETRY Symmetry
INVARIANTS TypeOK EveryPairReachable SizeIsExact DuplicatesEnumerated EverythingFits HandleNamesPair
PROPERTIES ItemsStay DeepCleansAll ImplementsMultimap CallsKeepTheirPromise
