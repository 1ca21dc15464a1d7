------------------------------ MODULE Ranking ------------------------------
(***************************************************************************)
(* retrieval/service.py: from the index rows that match a query to the     *)
(* results of a search.  A row has its chunk id, artifact and branch, the  *)
(* similarity the vector leg gives it (0..Exact) and what FTS5's bm25()    *)
(* gives it: a negative number, the better the match the LESS it is, and 0 *)
(* where no word matches.  Scores are kept exact by multiplying them with  *)
(* 10, Exact and the range of bm25.                                        *)
(***************************************************************************)
EXTENDS Integers, Sequences, FiniteSets, SequencesExt, FiniteSetsExt

CONSTANTS
    ChunkId,      \* numbers, in the order of the ids
    Artifact, Branch,
    Deleted,      \* artifacts with a tombstone
    Exact,        \* the similarity of equal texts
    Bm25,         \* values of bm25()
    VectorsOn,    \* GR_ENABLE_VECTORS
    KeywordMax,   \* LIMIT of the keyword leg
    MaxResults    \* k

ASSUME RankingAssumption ==
    /\ ChunkId \subseteq Int /\ Bm25 \subseteq Int
    /\ Exact \in Nat \ {0} /\ {KeywordMax, MaxResults} \subseteq Nat

VARIABLE matches  \* rows of the index that match the query

Row(id) == [chunk : {id}, artifact : Artifact, branch : Branch, vec : 0..Exact, raw : Bm25]

\* One more row matches.
Found ==
    \E id \in ChunkId : \E row \in Row(id) :
        /\ \A m \in matches : m.chunk < id
        /\ row.raw # 0 \/ row.vec # 0
        /\ matches' = matches \cup {row}

\* _keyword_leg: of every branch, the least bm25 first (ties in one of the orders SQL
\* leaves open), up to a limit.
KeywordLeg ==
    LET rows == {m \in matches : m.raw # 0}
        before(m, n) == m.raw < n.raw \/ (m.raw = n.raw /\ m.chunk < n.chunk) IN
    {m \in rows : Cardinality({n \in rows : before(n, m)}) < KeywordMax}

\* _vector_leg: it can ask for the branch (it takes 20 rows at least: all of them here).
VectorLeg(branch) ==
    {m \in matches : VectorsOn /\ m.vec # 0 /\ m.branch = branch}

\* What search ranks: a row has a number from each leg that found it, else 0; a row of
\* another branch or of a deleted artifact is not visible.
Candidates(branch) ==
    LET number(m) == [m EXCEPT !.vec = IF m \in VectorLeg(branch) THEN @ ELSE 0,
                               !.raw = IF m \in KeywordLeg THEN @ ELSE 0] IN
    {number(m) : m \in {m \in KeywordLeg \cup VectorLeg(branch) :
                           m.branch = branch /\ m.artifact \notin Deleted}}

-----------------------------------------------------------------------------
(* rerank_candidates.                                                      *)

Best(cands) == Max({c.raw : c \in cands})
Worst(cands) == Min({c.raw : c \in cands})

Spread(cands) == IF Best(cands) = Worst(cands) THEN 1 ELSE Best(cands) - Worst(cands)

\* bm25_norm, times Spread: all equal counts as 1.
Normed(cands, c) ==
    IF Best(cands) = Worst(cands) THEN 1 ELSE c.raw - Worst(cands)

\* compute_score with its weights 0.6, 0.3 and 0.1.
Score(cands, c, diversity) ==
    6 * c.vec * Spread(cands) + 3 * Normed(cands, c) * Exact + diversity * Spread(cands) * Exact

\* Sorted by falling score, ties by chunk id: each has its place after those before it.
Ordered(cands, score) ==
    LET before(c) == {d \in cands : \/ score[d] > score[c]
                                    \/ score[d] = score[c] /\ d.chunk < c.chunk} IN
    [k \in 1..Cardinality(cands) |-> CHOOSE c \in cands : Cardinality(before(c)) = k - 1]

\* Mutant of Diversity: the artifacts seen are not remembered.
DiversityForgotten(order, k) == 1

\* source_diversity of the k-th in the order: is its artifact new?
Diversity(order, k) ==
    IF \E i \in 1..k - 1 : order[i].artifact = order[k].artifact THEN 0 ELSE 1

Results(branch) ==
    LET cands == Candidates(branch)
        order == Ordered(cands, [c \in cands |-> Score(cands, c, 1)])
        place(c) == CHOOSE k \in DOMAIN order : order[k] = c
        ranked == Ordered(cands, [c \in cands |-> Score(cands, c, Diversity(order, place(c)))])
    IN SubSeq(ranked, 1, Min({MaxResults, Len(ranked)}))

-----------------------------------------------------------------------------
(* Properties.                                                             *)

\* Of equally good matches the results take as many artifacts as they can.  ("so the k
\* results span artifacts, not one document", service.py:62-63)
ResultsSpanArtifacts ==
    \A branch \in Branch :
        LET cands == Candidates(branch) IN
        (\A c, d \in cands : c.vec = d.vec /\ c.raw = d.raw) =>
            Cardinality({c.artifact : c \in ToSet(Results(branch))})
                = Min({MaxResults, Cardinality({c.artifact : c \in cands})})

\* Without vectors, the matches of one artifact are answered best first.  ("Keyword leg:
\* FTS5 over chunks_fts (BM25 ranking)", docs/specs/retrieval-spec.md:9; _keyword_leg
\* itself takes the rows ORDER BY bm, least first)
BestMatchFirst ==
    \A branch \in Branch : LET results == Results(branch) IN
        (\A c, d \in Candidates(branch) : c.vec = 0 /\ c.artifact = d.artifact) =>
            \A i, j \in DOMAIN results : i < j => results[i].raw <= results[j].raw

\* A search on a branch answers if the branch has a match: matches of other branches and
\* of deleted artifacts take no result from it.  (they do: LIMIT is applied before the
\* filter, service.py:128)
BranchIsSearched ==
    \A branch \in Branch :
        (\E m \in matches : m.branch = branch /\ m.artifact \notin Deleted /\ m.raw # 0) =>
            Results(branch) # <<>>
=============================================================================
