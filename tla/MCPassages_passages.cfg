SPECIFICATION Spec
CONSTANTS
    h = h
    g = g
    s = s
    l = l
    Sentence = {h, g, s, l}
    Heading = {h, g}
    Size <- MCSize
    Slug <- MCSlug
    MdMax = 6
    MdOverlap = 50
    PdfMax = 6
    CodeMax = 3
    Line <- MCLine
    Name = {f1, f2}
    MaxSentences = 5
    MaxNodes = 4
    MaxDefs = 3
    MaxBytes = 16
    ChunkId = {1, 2, 3}
    Artifact = {a1, a2, gone}
    Branch = {main, dev}
    Deleted = {gone}
    Exact = 1
    Bm25 <- MCBm25
    VectorsOn = TRUE
    KeywordMax = 2
    MaxResults = 2
INVARIANTS EverySentenceIsIndexed ThreadsAreWhole ResultsSpanArtifacts CodeIsIndexed
PROPERTIES SectionsKeepTheirChunks
CHECK_DEADLOCK FALSE
