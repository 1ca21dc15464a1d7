SPECIFICATION Spec
CONSTANTS
    dev = dev
    Client = {u1}
    Branch = {main, dev}
    Main = main
    Path <- MCPath
    BinaryPath <- MCBinary
    None = None
    BlindCommits = TRUE
    MaxTrees = 4
    MaxVersions = 4
    MaxBatch = 2
INVARIANTS PublishedIsReachable StaleWritersConflict
CHECK_DEADLOCK FALSE
