SPECIFICATION ProseSpec
CONSTANTS
    a = a
    p = p
    b = b
    c = c
    Sentence = {a, p, b, c}
    Hash <- MCHash
    Ratio <- MCRatio
    MaxBase = 2
    MaxSide = 3
    MaxSides = 5
INVARIANTS AlignmentIsOptimal MergeKeepsBothSides OneSidedMergeHasOurWords ResolutionIsExact ShiftIsNoMove
