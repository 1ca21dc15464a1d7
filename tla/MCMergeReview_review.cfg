SPECIFICATION Spec
CONSTANTS
    c1 = c1
    c2 = c2
    Client = {c1, c2}
    Branch = {main, dev}
    Main = main
    Payload = {p1, p2}
    Conflict = {k1}
    Choice = {ours, theirs}
    None = None
    BlindCommits = FALSE
    MaxCommits = 4
    MaxMerges = 1
INVARIANTS MergesAreFinal ReviewIsRecorded HistoryIsComplete
CHECK_DEADLOCK FALSE
SYMMETRY Symmetry
