SPECIFICATION Spec
CONSTANTS
    Client = {alice, bob}
    Erasers = {alice}
    Slot = {s1, s2}
    NoSlot = NoSlot
    Room = {r1}
    NoRoom = NoRoom
    Word = {x}
    InitialText = {}
    Overlap = FALSE
    Rollbacks = FALSE
    BrokenReset = FALSE
    Faults = FALSE
    MaxCommits = 2
    MaxWrites = 2
    MaxQueue = 1
SYMMETRY Symmetry
INVARIANTS NoDuplicates DraftExtendsBase NothingShownIsLost QuietMeansConverged
