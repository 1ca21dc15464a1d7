SPECIFICATION Spec
CONSTANTS
    Thread = {t1, t2}
    chats = chats
    empty = empty
    note = note
    torn = torn
    x = x
    File = {chats, empty, note, torn}
    Unreadable = {torn}
    Units <- MCUnits
    Text = {x}
    Path <- MCPath
    Name <- MCName
    None = None
    MaxFiles = 1
    MaxSources = 2
    MaxArtifacts = 2
    MaxCommits = 2
SYMMETRY Symmetry
INVARIANTS CommitsAreExplained ChainsEndAtTheirSource EveryUnitIsCommitted
CHECK_DEADLOCK FALSE
