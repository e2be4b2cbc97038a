SPECIFICATION TextSpec
CONSTANTS
    Texts <- MCTexts
    Ends <- Both
    MayFail = {}
    Strings <- StringsHere
    ArrayCap = 7
    DsInitialLen = 2
    Contents <- ContentsHere
    DsMayFail = TRUE
    NumberText <- OneDigit
    Paths <- PathsHere
    Printed <- PrintedHere
    FileDocs <- FileDocsHere
    Printouts <- PrintoutsHere
    BufSizes <- BufSizesHere
    MaxErrors = 1
CHECK_DEADLOCK FALSE
INVARIANTS TerminatorFits LeavesReadWhole RoundTrip TruncationOnlyEmpties PathsFind
