SPECIFICATION Spec
CONSTANTS
    Bits <- TwoBits
    KeyLen = 2
    PairLists <- MCPairLists
    Memory = 9
    MaxLost = 1
INVARIANTS LeavesHoldPairs NothingElseLeaks SearchAnswers
