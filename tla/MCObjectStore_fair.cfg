SPECIFICATION FairSpec
CONSTANTS
    Thread = {t1, t2}
    Artifact = {a1}
    Branch = {main}
    Main = main
    Content = {x, y}
    Stamp = {s}
    NoCommit = NoCommit
    Deletable = {a1}
    BlindCommits = TRUE
    MaxCommits = 2
INVARIANTS TypeOK StoredRootIsRegistered
PROPERTIES LockIsReleased
