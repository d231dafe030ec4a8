SPECIFICATION WritingSpec
CONSTANTS
    Names = {"a"}
    Sizes = {1}
    Declared = {1}
    Limits = {6}
    MaxInt = 6
    MaxEntries = 1
    MaxDepth = 1
INVARIANT SuccessIsWhole
CHECK_DEADLOCK FALSE
