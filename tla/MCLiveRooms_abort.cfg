SPECIFICATION Spec
CONSTANTS
    Client = {alice, bob}
    Erasers = {}
    Slot = {s1, s2}
    NoSlot = NoSlot
    Room = {r1}
    NoRoom = NoRoom
    Word = {x}
    InitialText = {x}
    Overlap = FALSE
    Rollbacks = FALSE
    BrokenReset = TRUE
    Faults = FALSE
    MaxCommits = 1
    MaxWrites = 2
    MaxQueue = 1
SYMMETRY Symmetry
INVARIANTS QuietMeansConverged
