SPECIFICATION Spec
CONSTANTS
    v1 = v1
    v2 = v2
    NULL = NULL
    Vals <- MCVals
    Caps <- MCCaps
SYMMETRY Symmetry
INVARIANTS TypeOK WalkInOrder StaleHandleDetected
PROPERTIES DriftOnlyByDrainedPush PushKeepsYounger AlignedStepsAreFifo
