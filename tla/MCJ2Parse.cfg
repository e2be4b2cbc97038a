SPECIFICATION Spec
CONSTANTS
    Texts <- ManyTexts
    Ends <- Two
    MayFail <- Allocations
    Strings <- TwoStrings
    ArrayCap = 2
CHECK_DEADLOCK FALSE
INVARIANTS TypeOK NothingLeaks LineIsExact ZeroMeansError SilentlyAcceptedIsJson ParsesOtherJson
PROPERTY Terminates
