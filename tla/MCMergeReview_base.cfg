SPECIFICATION Spec
CONSTANTS
    c1 = c1
    c2 = c2
    Client = {c1}
    Branch = {main, dev, old}
    Main = main
    Payload = {p1}
    Conflict = {k1}
    Choice = {ours, theirs}
    None = None
    BlindCommits = FALSE
    MaxCommits = 6
    MaxMerges = 0
INVARIANTS MergeBaseIsLowest
CHECK_DEADLOCK FALSE
SYMMETRY Symmetry
