SPECIFICATION Spec
CONSTANTS
    Worker = {w1, w2}
    Script = script
    Branch = {main, dev}
    Main = main
    c1 = c1
    c2 = c2
    h = h
    g = g
    s = s
    t = t
    Content = {c1, c2}
    Sentence = {h, g, s, t}
    Heading = {h, g}
    Size <- MCSize
    Slug <- MCSlug
    MdMax = 3
    MdOverlap = 10
    PdfMax = 3
    CodeMax = 3
    Line = {}
    ChunksOf <- MCChunksOf
    None = None
    Faults = FALSE
    MaxCommits = 3
    MaxRebuilds = 1
    MaxBusy = 2
SYMMETRY Symmetry
INVARIANTS DeterministicByContract SidsAreCurrent IndexFollowsHead CitationsAreInHistory
CHECK_DEADLOCK FALSE
