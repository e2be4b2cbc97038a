SPECIFICATION Spec
CONSTANTS
    Texts <- ObjectTexts
    Ends <- NulOnly
    MayFail = {}
    Strings <- TwoStrings
    ArrayCap = 2
CHECK_DEADLOCK FALSE
INVARIANT ParsesJson
