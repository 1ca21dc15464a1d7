SPECIFICATION Spec
CONSTANTS
    Thread = {t1, t2}
    Artifact = {a1, a2}
    Branch = {main, dev}
    Main = main
    Content = {x}
    Stamp = {s}
    NoCommit = NoCommit
    Deletable = {a1}
    BlindCommits = FALSE
    MaxCommits = 3
INVARIANTS DeletedStaysHidden
PROPERTIES AllOrNothing
