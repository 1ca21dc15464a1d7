SPECIFICATION FairSpec
CONSTANTS
    Client = {alice, bob}
    Erasers = {}
    Slot = {s1, s2}
    NoSlot = NoSlot
    Room = {r1, r2}
    NoRoom = NoRoom
    Word = {x}
    InitialText = {x}
    Overlap = FALSE
    Rollbacks = FALSE
    BrokenReset = TRUE
    Faults = TRUE
    MaxCommits = 1
    MaxWrites = 2
    MaxQueue = 1
INVARIANTS OneRoom
PROPERTIES LockIsFreed
