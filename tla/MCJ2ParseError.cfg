SPECIFICATION Spec
CONSTANTS
    Texts <- ArrayTexts
    Ends <- NulOnly
    MayFail = {}
    Strings <- TwoStrings
    ArrayCap = 2
CHECK_DEADLOCK FALSE
INVARIANT ErrorMeansZero
