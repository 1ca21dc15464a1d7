SPECIFICATION Spec
CONSTANTS
    Thread = {t1, t2}
    Artifact = {a1}
    Branch = {main, dev}
    Main = main
    Content = {x, y}
    Stamp = {s}
    NoCommit = NoCommit
    Deletable = {}
    BlindCommits = TRUE
    MaxCommits = 3
PROPERTIES FastForward
