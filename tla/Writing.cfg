SPECIFICATION WritingSpec
CONSTANTS
    Names = {"a", "b", ".."}
    Sizes = {1, 2}
    Declared = {0, 2, 4}
    Limits <- MCLimits
    MaxInt = 6
    MaxEntries = 3
    MaxDepth = 2
INVARIANTS
    SuccessIsWhole
    WritingInv
CHECK_DEADLOCK FALSE
