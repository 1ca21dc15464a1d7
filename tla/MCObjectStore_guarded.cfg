SPECIFICATION Spec
CONSTANTS
    Thread = {t1, t2}
    Artifact = {a1}
    Branch = {main, dev}
    Main = main
    Content = {x}
    Stamp = {s}
    NoCommit = NoCommit
    Deletable = {}
    BlindCommits = FALSE
    MaxCommits = 3
SYMMETRY Symmetry
INVARIANTS HistoryClosed HeadsResolve
PROPERTIES ImplementsVersionedRefs
