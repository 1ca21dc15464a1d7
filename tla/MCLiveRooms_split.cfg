SPECIFICATION Spec
CONSTANTS
    Client = {alice, bob}
    Erasers = {}
    Slot = {s1, s2, s3}
    NoSlot = NoSlot
    Room = {r1, r2}
    NoRoom = NoRoom
    Word = {x}
    InitialText = {}
    Overlap = TRUE
    Rollbacks = FALSE
    BrokenReset = FALSE
    Faults = FALSE
    MaxCommits = 1
    MaxWrites = 1
    MaxQueue = 1
SYMMETRY Symmetry
INVARIANTS OneRoom
