SPECIFICATION Spec
CONSTANTS
    Thread = {t1, t2}
    Artifact = {a1, a2}
    Branch = {main}
    Main = main
    Content = {x}
    Stamp = {s}
    NoCommit = NoCommit
    Deletable = {}
    BlindCommits = FALSE
    MaxCommits = 4
SYMMETRY Symmetry
INVARIANTS CommitsAreWhole AcknowledgedIsDurable
PROPERTIES AllOrNothing
