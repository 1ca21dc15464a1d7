------------------------------ MODULE Passages ------------------------------
(***************************************************************************)
(* What the search index holds of each kind of payload, while the payload  *)
(* grows: a writer edits a Markdown document, a PDF is printed, a chat is  *)
(* continued and regenerated before it is exported, a source file is typed *)
(* line by line; and what a query is answered as the index matches it.     *)
(***************************************************************************)
EXTENDS Chunking, ChatImport, Ranking

CONSTANTS
    Name,            \* names of code definitions
    MaxSentences, MaxNodes, MaxDefs, MaxBytes   \* bounds on a payload

ASSUME PassagesAssumption == {MaxSentences, MaxNodes, MaxDefs, MaxBytes} \subseteq Nat

VARIABLES kind, payload

vars == <<kind, payload, matches>>

Paragraph(n) == SeqOf(Sentence, n) \ {<<>>}
Room(doc) == MaxSentences - Len(FlattenSeq(doc))

Init ==
    /\ kind \in {"md", "pdf", "chat", "code", "query"}
    /\ matches = {}
    /\ payload = CASE kind = "chat" -> [nodes |-> <<>>, keys |-> <<>>]
                    [] kind = "code" -> [defs |-> <<>>, ends |-> <<>>]
                    [] OTHER -> <<>>

\* A commit that writes, rewrites or deletes one paragraph.
EditParagraph ==
    /\ kind = "md"
    /\ \/ \E p \in 1..Len(payload) + 1 : \E new \in Paragraph(Room(payload)) :
             payload' = InsertAt(payload, p, new)
       \/ \E p \in DOMAIN payload : \E s \in Sentence : payload' = ReplaceAt(payload, p, <<s>>)
       \/ \E p \in DOMAIN payload : payload' = RemoveAt(payload, p)
    /\ UNCHANGED <<kind, matches>>

\* A PDF's text ends in one more paragraph, on the last page or on a new one.
PrintParagraph ==
    /\ kind = "pdf"
    /\ \E new \in Paragraph(MaxSentences - Len(FlattenSeq(FlattenSeq(payload)))) :
          \/ payload' = Append(payload, <<new>>)
          \/ /\ payload # <<>>
             /\ payload' = [payload EXCEPT ![Len(payload)] = Append(@, new)]
    /\ UNCHANGED <<kind, matches>>

\* Another node: a root, a reply or an alternative reply; its key is anywhere.
Reply ==
    /\ kind = "chat"
    /\ Len(payload.nodes) < MaxNodes
    /\ \E parent \in 0..Len(payload.nodes), k \in NodeKind, i \in 1..Len(payload.keys) + 1 :
          payload' = [nodes |-> Append(payload.nodes, [parent |-> parent, kind |-> k]),
                      keys |-> InsertAt(payload.keys, i, Len(payload.nodes) + 1)]
    /\ UNCHANGED <<kind, matches>>

\* The file gets one more line, and these definitions.
Written(defs) ==
    LET ends == payload.ends
        length == Len(ends) IN
    \E line \in Line :
       /\ ByteEnd(ends, length) + line.bytes <= MaxBytes
       /\ payload' = [defs |-> defs,
                      ends |-> Append(ends, [char |-> CharEnd(ends, length) + line.chars,
                                             byte |-> ByteEnd(ends, length) + line.bytes])]

\* A line outside definitions, the first line of a definition, or one more of the last.
WriteLine ==
    LET defs == payload.defs
        here == Len(payload.ends) + 1 IN
    /\ kind = "code"
    /\ \/ Written(defs)
       \/ /\ Len(defs) < MaxDefs
          /\ \E n \in Name : Written(Append(defs, [name |-> n, first |-> here, last |-> here]))
       \/ \E k \in DOMAIN defs :
             /\ k = Len(defs) /\ defs[k].last + 1 = here
             /\ Written([defs EXCEPT ![k].last = here])
    /\ UNCHANGED <<kind, matches>>

\* Another row of the index matches the query.
Match ==
    /\ kind = "query"
    /\ Found
    /\ UNCHANGED <<kind, payload>>

Next == EditParagraph \/ PrintParagraph \/ Reply \/ WriteLine \/ Match

Spec == Init /\ [][Next]_vars

-----------------------------------------------------------------------------
(* Properties.                                                             *)

Messages == ChatgptMessages(payload.nodes, payload.keys)

Chunks == ChunkDocument(kind, IF kind = "chat" THEN Messages ELSE payload)

TypeOK ==
    /\ kind \in {"md", "pdf", "chat", "code", "query"}
    /\ kind = "md" => payload \in Seq(Seq(Sentence) \ {<<>>})

DistinctPaths(doc) ==
    \A p, q \in SectionStarts(doc) : SectionPath(doc, p) = SectionPath(doc, q) => p = q

\* What a document or a PDF says, with the coordinates of each sentence.
Sentences ==
    IF kind = "md" THEN Grid(payload)
    ELSE FlattenSeq([n \in DOMAIN payload |->
             FlattenSeq([p \in DOMAIN payload[n] |-> PageGrid(payload, n, p)])])

\* Every sentence of a document or a PDF is in a chunk that reaches the index,
\* under its own coordinates, provided no two sections have one path.
EverySentenceIsIndexed ==
    LET indexed == Range(ById(Chunks))
        holds(c, g) == \E i \in DOMAIN c.sids : c.sids[i] = g.sid /\ c.text[i] = g.text IN
    kind = "pdf" \/ (kind = "md" /\ DistinctPaths(payload)) =>
        \A g \in ToSet(Sentences) : \E c \in indexed : holds(c, g)

\* The same without the proviso.  (a repeated heading loses the first section:
\* indexer.py:223)
EverySentenceIsIndexedAlways ==
    LET indexed == Range(ById(Chunks))
        holds(c, g) == \E i \in DOMAIN c.sids : c.sids[i] = g.sid /\ c.text[i] = g.text IN
    kind \in {"pdf", "md"} =>
        \A g \in ToSet(Sentences) : \E c \in indexed : holds(c, g)

Texts(doc) == {[id |-> c.id, text |-> c.text] : c \in ToSet(ChunkMarkdown(doc))}

\* A section under a heading of its own.
Whole(section) ==
    IsHeading(section[1]) /\ \A p \in DOMAIN section : p > 1 => ~IsHeading(section[p])

Sections(doc) ==
    {SubSeq(doc, p, q) : p \in SectionStarts(doc), q \in
        {q \in DOMAIN doc : q = Len(doc) \/ IsHeading(doc[q + 1])}}

\* A commit elsewhere in a document leaves the chunks of a section alone: a section
\* that keeps its paragraphs keeps its ids and texts, wherever it moves.
SectionsKeepTheirChunks ==
    [][ kind = "md" =>
           \A s \in Sections(payload) \cap Sections(payload') :
               s # <<>> /\ Whole(s) => Texts(s) \subseteq Texts(payload) \cap Texts(payload') ]_vars

\* An import has every message of the export once, whatever replies were regenerated,
\* and each is a chunk of its own; the thread of first replies is read as it was
\* written, before anything else.  ("so nothing is lost", chat_common.py:128-130)
ThreadsAreWhole ==
    LET nodes == payload.nodes
        texts == [k \in DOMAIN Messages |-> Messages[k].text]
        said == {n \in DOMAIN nodes : nodes[n].kind = "said"}
        roots == {n \in DOMAIN nodes : nodes[n].parent = 0} IN
    kind = "chat" =>
        /\ Len(texts) = Cardinality(said) /\ ToSet(texts) = said
        /\ Cardinality(DOMAIN ById(Chunks)) = Cardinality(said)
        /\ \A root \in roots : roots = {root} =>
               IsPrefix(Said(nodes, Thread(nodes, root)), texts)

\* The order of the JSON object's keys does not show.  ("object key order) are
\* EXCLUDED from the identity", chat_common.py:4-5)
KeyOrderIsExcluded ==
    kind = "chat" /\ Cardinality({n \in DOMAIN payload.nodes : payload.nodes[n].parent = 0}) = 1 =>
        ChatgptMessages(payload.nodes, [n \in DOMAIN payload.nodes |-> n]) = Messages

\* Is a line of the source file, but for its newline, in a chunk of the index?
Indexed(line) ==
    \E c \in Range(ById(Chunks)) :
       /\ c.text[1] <= CharEnd(payload.ends, line - 1)
       /\ CharEnd(payload.ends, line) - 1 <= c.text[2]

DefinedTwiceAtMost ==
    \A n \in Name : Cardinality({k \in DOMAIN payload.defs : payload.defs[k].name = n}) <= 2

\* Is the file ASCII up to the end of a line?
Plain(ends, line) == \A i \in 1..line : ends[i].char = ends[i].byte

\* No line of a definition is lost from the index, however long the definition,
\* provided no name is defined three times and the file is ASCII up to its end.
CodeIsIndexed ==
    kind = "code" /\ DefinedTwiceAtMost =>
        \A k \in DOMAIN payload.defs :
            Plain(payload.ends, payload.defs[k].last) =>
                \A line \in payload.defs[k].first..payload.defs[k].last : Indexed(line)

\* The same of a file in any UTF-8 text.  ("tree-sitter
\* function/class spans", chunkers.py:8)
SpansAreIndexed ==
    kind = "code" /\ DefinedTwiceAtMost =>
        \A k \in DOMAIN payload.defs :
            \A line \in payload.defs[k].first..payload.defs[k].last : Indexed(line)
=============================================================================
