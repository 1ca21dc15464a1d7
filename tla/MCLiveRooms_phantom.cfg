SPECIFICATION Spec
CONSTANTS
    Client = {alice}
    Erasers = {}
    Slot = {s1}
    NoSlot = NoSlot
    Room = {r1}
    NoRoom = NoRoom
    Word = {x}
    InitialText = {}
    Overlap = FALSE
    Rollbacks = TRUE
    BrokenReset = FALSE
    Faults = TRUE
    MaxCommits = 2
    MaxWrites = 2
    MaxQueue = 1
SYMMETRY Symmetry
INVARIANTS DraftIsPersisted DraftBaseExists
