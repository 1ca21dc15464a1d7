SPECIFICATION Spec
CONSTANTS
    Thread = {t1}
    chats = chats
    empty = empty
    note = note
    torn = torn
    x = x
    File = {note, torn}
    Unreadable = {torn}
    Units <- MCUnits
    Text = {x}
    Path <- MCPath
    Name <- MCName
    None = None
    MaxFiles = 1
    MaxSources = 1
    MaxArtifacts = 1
    MaxCommits = 1
SYMMETRY Symmetry
INVARIANTS
    NoOrphanClaims
    FoldersAreKept
CHECK_DEADLOCK FALSE
