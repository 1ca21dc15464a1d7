---------------------------- MODULE MCRetrieval ----------------------------
(* Revisions of one Markdown document.  From c1 to c2 the opening goes, one  *)
(* section is rewritten and one moves up as it is.                           *)
EXTENDS Retrieval, Chunking

CONSTANTS c1, c2, h, g, s, t

MCSize == [x \in Sentence |-> 1]
MCSlug == [x \in Sentence |-> x]

Text == c1 :> <<<<s>>, <<h>>, <<s>>, <<g>>, <<s>>>> @@ c2 :> <<<<h>>, <<t>>, <<g>>, <<s>>>>

\* Their chunks, written out (TLC would cut the text again in every state).
Whole(heading) == <<<<heading>>, 0>>
Cut(text, first) == [text |-> text, sids |-> [k \in DOMAIN text |-> <<first + k - 1, 1>>]]

MCChunksOf ==
    c1 :> (Whole("preamble") :> Cut(<<s>>, 1) @@ Whole(h) :> Cut(<<h, s>>, 2)
           @@ Whole(g) :> Cut(<<g, s>>, 4))
    @@ c2 :> (Whole(h) :> Cut(<<h, t>>, 1) @@ Whole(g) :> Cut(<<g, s>>, 3))

ASSUME ChunksAreCut ==
    \A c \in Content :
        LET cut == ById(ChunkMarkdown(Text[c])) IN
        ChunksOf[c] = [id \in DOMAIN cut |-> [text |-> cut[id].text, sids |-> cut[id].sids]]

Symmetry == Permutations(Worker)
=============================================================================
