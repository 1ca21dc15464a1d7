------------------------------ MODULE Chunking ------------------------------
(***************************************************************************)
(* retrieval/chunkers.py: how a payload is cut into the chunks the search  *)
(* index holds.  A document is a sequence of paragraphs, a paragraph a     *)
(* sequence of sentences; of a sentence the chunkers use its length, its   *)
(* slug and whether it is a heading.  Source code is where its lines end   *)
(* and what tree-sitter reports of it: the top-level definitions and their *)
(* lines.  The prefix artifact:branch of an id is the index's (Retrieval). *)
(***************************************************************************)
EXTENDS Naturals, Sequences, FiniteSets, SequencesExt, FiniteSetsExt

CONSTANTS
    Sentence,   \* raw sentences
    Heading,    \* those that make the paragraph they begin a heading
    Size,       \* their lengths in characters
    Slug,       \* their part of a section path
    MdMax,      \* MD_MAX_CHARS
    MdOverlap,  \* MD_OVERLAP, in percent
    PdfMax,     \* PDF_MAX_CHARS
    CodeMax,    \* CODE_MAX_LINES
    Line        \* lines of code, none blank: characters and UTF-8 bytes, newline included

ASSUME ChunkingAssumption ==
    /\ Heading \subseteq Sentence
    /\ Size \in [Sentence -> Nat \ {0}]
    /\ DOMAIN Slug = Sentence
    /\ MdOverlap \in 0..100
    /\ {MdMax, PdfMax, CodeMax} \subseteq Nat \ {0}
    /\ Line \subseteq [chars : Nat \ {0, 1}, bytes : Nat]
    /\ \A line \in Line : line.chars <= line.bytes

Chunk(id, text, sids) == [id |-> id, text |-> text, sids |-> sids]

\* _sentence_grid: the sentences of a text, each with its coordinates.
GridOf(doc, p) == [i \in DOMAIN doc[p] |-> [sid |-> <<p, i>>, text |-> doc[p][i]]]
Grid(doc) == FlattenSeq([p \in DOMAIN doc |-> GridOf(doc, p)])

\* The length of sentences first..last joined by spaces.
Joined(sents, first, last) ==
    FoldLeft(LAMBDA n, s : n + Size[s], last - first, SubSeq(sents, first, last))

-----------------------------------------------------------------------------
(* _windows: overlapping runs of sentences.                                *)

\* A window takes sentences while they fit, and one that does not fit alone.
WindowEnd(sents, first, max) ==
    Max({first} \cup {last \in first..Len(sents) : Joined(sents, first, last) <= max})

\* Python's round(): half to even.
Rounded(percent, n) ==
    LET floor == (percent * n) \div 100
        rest == (percent * n) % 100 IN
    IF rest > 50 \/ (rest = 50 /\ floor % 2 = 1) THEN floor + 1 ELSE floor

\* Sentences a window shares with the next one: at least one, fewer than it has.
Shared(length, percent) == Min({Max({1, Rounded(percent, length)}), length - 1})

\* Mutant of Windows: the next window starts one sentence late.
WindowsSkipping(sents, max, percent) ==
    LET from[i \in 1..Len(sents) + 2] ==
            IF i > Len(sents) THEN <<>>
            ELSE LET last == WindowEnd(sents, i, max) IN
                 <<<<i, last>>>> \o IF last = Len(sents) THEN <<>>
                                    ELSE from[last + 2 - Shared(last + 1 - i, percent)]
    IN from[1]

Windows(sents, max, percent) ==
    LET from[i \in 1..Len(sents) + 1] ==
            IF i > Len(sents) THEN <<>>
            ELSE LET last == WindowEnd(sents, i, max) IN
                 <<<<i, last>>>> \o IF last = Len(sents) THEN <<>>
                                    ELSE from[last + 1 - Shared(last + 1 - i, percent)]
    IN from[1]

WindowChunk(path, number, part) ==
    Chunk(<<path, number>>, [i \in DOMAIN part |-> part[i].text], [i \in DOMAIN part |-> part[i].sid])

\* _split_windows: windows are numbered when there are several.
SplitWindows(path, grid, max, percent) ==
    LET windows == Windows([i \in DOMAIN grid |-> grid[i].text], max, percent) IN
    [k \in DOMAIN windows |->
        WindowChunk(path, IF Len(windows) > 1 THEN k ELSE 0,
                    SubSeq(grid, windows[k][1], windows[k][2]))]

-----------------------------------------------------------------------------
(* The chunkers.                                                           *)

IsHeading(paragraph) == paragraph[1] \in Heading

\* Mutant of SectionPath: a section is known by its position.
SectionNumber(doc, p) == <<Cardinality({q \in 1..p : IsHeading(doc[q])})>>

\* A section's id is the slug of its heading PARAGRAPH, not its position.
SectionPath(doc, p) ==
    IF IsHeading(doc[p]) THEN [i \in DOMAIN doc[p] |-> Slug[doc[p][i]]]
    ELSE IF \E q \in DOMAIN doc : IsHeading(doc[q]) THEN <<"preamble">> ELSE <<"doc">>

\* Where sections start: at each heading, and at the top.
SectionStarts(doc) == {p \in DOMAIN doc : p = 1 \/ IsHeading(doc[p])}

\* A section goes on to the paragraph before the next heading.
SectionEnd(doc, p) == Min({q \in p..Len(doc) : q = Len(doc) \/ IsHeading(doc[q + 1])})

SectionGrid(doc, p) ==
    FlattenSeq([k \in 1..SectionEnd(doc, p) + 1 - p |-> GridOf(doc, p + k - 1)])

ChunkMarkdown(doc) ==
    FlattenSeq([p \in DOMAIN doc |->
        IF p \in SectionStarts(doc)
        THEN SplitWindows(SectionPath(doc, p), SectionGrid(doc, p), MdMax, MdOverlap)
        ELSE <<>>])

\* One message is one chunk; the role is part of its text.
ChunkChat(messages) ==
    [k \in DOMAIN messages |->
        LET m == messages[k] IN
        Chunk(<<m.role, m.ord>>, <<m.role, m.text>>, <<<<m.role, m.ord>>>>)]

\* A page is a sequence of paragraphs; windows do not cross a paragraph.
PageGrid(pages, n, p) ==
    [i \in DOMAIN pages[n][p] |-> [sid |-> <<n, p, i>>, text |-> pages[n][p][i]]]

ChunkPdf(pages) ==
    LET ofPage(n) == FlattenSeq([p \in DOMAIN pages[n] |->
                         SplitWindows(<<n, p>>, PageGrid(pages, n, p), PdfMax, 0)])
    IN FlattenSeq([n \in DOMAIN pages |-> ofPage(n)])

\* Where line i of a file ends, in characters and in bytes; the file starts at 0.
CharEnd(ends, i) == IF i = 0 THEN 0 ELSE ends[i].char
ByteEnd(ends, i) == IF i = 0 THEN 0 ELSE ends[i].byte

\* How many lines end by a position; source.find("\n") finds the end of the next one.
LineAt(ends, position) == Cardinality({i \in DOMAIN ends : ends[i].char <= position})

\* A definition's spans: whole if it fits, else cut after every CodeMax line ends found
\* from its start (tree-sitter puts a class's methods under its body, so it has no inner
\* definitions).  A block is numbered with the line ends in it: the last line's lies
\* beyond the definition.  tree-sitter counts in bytes and the text is cut by
\* characters: start and stop are the one, taken for the other.
Spans(ends, def) ==
    LET start == ByteEnd(ends, def.first - 1)
        stop == ByteEnd(ends, def.last) - 1
        before == LineAt(ends, start)
        found == LineAt(ends, stop) - before
        full == found \div CodeMax
        cut(k) == IF k = 0 THEN start
                  ELSE IF k > full THEN stop ELSE CharEnd(ends, before + k * CodeMax)
        mark(k) == IF k > full THEN found % CodeMax ELSE CodeMax
        blocks == IF cut(full) < stop THEN full + 1 ELSE full IN
    IF def.last + 1 - def.first <= CodeMax
    THEN <<[id |-> <<def.name>>, from |-> start, to |-> stop]>>
    ELSE [k \in 1..blocks |-> [id |-> <<def.name, mark(k)>>, from |-> cut(k - 1), to |-> cut(k)]]

\* Mutant of Emit: an id given out twice stays as it is.
EmitPlain(chunks, span) ==
    Append(chunks, Chunk(span.id, <<span.from, span.to>>, <<span.id>>))

\* emit: an id already given out gets the number of ids so far.
Emit(chunks, span) ==
    LET ids == {c.id : c \in ToSet(chunks)}
        id == IF span.id \in ids THEN Append(span.id, Cardinality(ids)) ELSE span.id IN
    Append(chunks, Chunk(id, <<span.from, span.to>>, <<span.id>>))

\* _code_chunks_from_tree: only definitions are indexed.
ChunkCode(file) ==
    FoldLeft(Emit, <<>>, FlattenSeq([k \in DOMAIN file.defs |-> Spans(file.ends, file.defs[k])]))

ChunkDocument(kind, payload) ==
    CASE kind = "md" -> ChunkMarkdown(payload)
      [] kind = "chat" -> ChunkChat(payload)
      [] kind = "pdf" -> ChunkPdf(payload)
      [] kind = "code" -> ChunkCode(payload)

\* The planner's dict of chunks: of two chunks with one id the later one stays.
ById(chunks) ==
    [id \in {c.id : c \in ToSet(chunks)} |->
        chunks[Max({k \in DOMAIN chunks : chunks[k].id = id})]]
=============================================================================
