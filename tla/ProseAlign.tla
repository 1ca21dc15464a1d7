----------------------------- MODULE ProseAlign -----------------------------
(***************************************************************************)
(* core/diff/align.py: how two versions of a prose document are aligned,   *)
(* and the diff derived from the alignment.  A document is a sequence of   *)
(* paragraphs, each a sequence of sentences.  Of a sentence the engine     *)
(* uses the hash of its normal form (lower case, no punctuation) and, for  *)
(* two sentences, difflib's ratio of the raw texts; both are constants.    *)
(***************************************************************************)
EXTENDS Integers, Sequences, SequencesExt

CONSTANTS
    Sentence,  \* raw sentences
    Hash,      \* sentence_hash
    Ratio      \* SequenceMatcher(None, old, new).ratio() in tenths

ASSUME SentenceAssumption ==
    /\ DOMAIN Hash = Sentence
    /\ Ratio \in [Sentence \X Sentence -> 0..10]

EditedThreshold == 7

\* A document's sentences, each with the number of its paragraph.
Flat(doc) == FlattenSeq([p \in DOMAIN doc |->
                 [i \in DOMAIN doc[p] |-> [para |-> p, text |-> doc[p][i]]]])
Texts(flat) == [i \in DOMAIN flat |-> flat[i].text]

\* An AlignOp; index 0 stands for None.
Op(type, old, new) == [type |-> type, old |-> old, new |-> new]

SameHash(old, new, i, j) == Hash[old[i]] = Hash[new[j]]
Likeness(old, new, i, j) == Ratio[<<old[i], new[j]>>]

Cells(old, new) == (0..Len(old)) \X (0..Len(new))

\* The dynamic program of _lcs_backtrack.
LcsTable(old, new) ==
    LET dp[c \in Cells(old, new)] ==
            LET i == c[1]
                j == c[2]
                up == dp[<<i - 1, j>>]
                left == dp[<<i, j - 1>>] IN
            IF i = 0 \/ j = 0 THEN 0
            ELSE IF SameHash(old, new, i, j) THEN dp[<<i - 1, j - 1>>] + 1
            ELSE IF up >= left THEN up ELSE left
    IN dp

\* Mutant of LcsScript: an equal pair is taken only where the table grew on both sides.
LcsScriptGreedy(old, new) ==
    LET script[c \in Cells(old, new)] ==
            LET i == c[1]
                j == c[2] IN
            IF i > 0 /\ j > 0 /\ i = j /\ SameHash(old, new, i, j)
            THEN Append(script[<<i - 1, j - 1>>], Op("equal", i, j))
            ELSE IF i > 0 /\ (j = 0 \/ i >= j)
            THEN Append(script[<<i - 1, j>>], Op("delete", i, 0))
            ELSE IF j > 0 THEN Append(script[<<i, j - 1>>], Op("insert", 0, j)) ELSE <<>>
    IN script[<<Len(old), Len(new)>>]

\* The backtrack: on equal cells a delete is preferred to an insert.
LcsScript(old, new) ==
    LET dp == LcsTable(old, new)
        script[c \in Cells(old, new)] ==
            LET i == c[1]
                j == c[2] IN
            IF i > 0 /\ j > 0 /\ SameHash(old, new, i, j)
            THEN Append(script[<<i - 1, j - 1>>], Op("equal", i, j))
            ELSE IF i > 0 /\ (j = 0 \/ dp[<<i - 1, j>>] >= dp[<<i, j - 1>>])
            THEN Append(script[<<i - 1, j>>], Op("delete", i, 0))
            ELSE IF j > 0 THEN Append(script[<<i, j - 1>>], Op("insert", 0, j)) ELSE <<>>
    IN script[<<Len(old), Len(new)>>]

\* The still unused delete most similar to new sentence j, the first on ties; 0: none.
\* best_r starts at the threshold, so a ratio equal to it makes no edit.
BestPartner(old, new, deletes, used, j) ==
    LET close == {i \in ToSet(deletes) \ used : Likeness(old, new, i, j) > EditedThreshold} IN
    IF close = {} THEN 0
    ELSE CHOOSE i \in close : \A k \in close :
            \/ Likeness(old, new, i, j) > Likeness(old, new, k, j)
            \/ Likeness(old, new, i, j) = Likeness(old, new, k, j) /\ i <= k

\* Mutant of Partners: a delete may be paired twice.
PartnersReusing(old, new, deletes, inserts) ==
    [j \in ToSet(inserts) |-> BestPartner(old, new, deletes, {}, j)]

\* Greedy pairing of a gap's inserts, in order: partner[j] is an old index or 0.
Partners(old, new, deletes, inserts) ==
    LET pair(partner, j) ==
            [partner EXCEPT ![j] = BestPartner(old, new, deletes, Range(partner), j)]
    IN FoldLeft(pair, [j \in ToSet(inserts) |-> 0], inserts)

\* A paired delete becomes an edit; an insert without partner stays one.
Paired(deletes, inserts, partner) ==
    LET base(i) == IF \E j \in DOMAIN partner : partner[j] = i
                   THEN Op("edited", i, CHOOSE j \in DOMAIN partner : partner[j] = i)
                   ELSE Op("delete", i, 0)
        added(j) == IF partner[j] = 0 THEN <<Op("insert", 0, j)>> ELSE <<>> IN
    [k \in DOMAIN deletes |-> base(deletes[k])]
        \o FlattenSeq([k \in DOMAIN inserts |-> added(inserts[k])])

\* flush(): the ops of one gap between two equal pairs.
Flush(old, new, gap) ==
    gap.ops \o
    IF /\ Len(gap.deletes) = Len(gap.inserts)
       /\ \A k \in DOMAIN gap.deletes : SameHash(old, new, gap.deletes[k], gap.inserts[k])
    THEN [k \in DOMAIN gap.deletes |-> Op("equal", gap.deletes[k], gap.inserts[k])]
    ELSE Paired(gap.deletes, gap.inserts, Partners(old, new, gap.deletes, gap.inserts))

EmptyGap == [ops |-> <<>>, deletes |-> <<>>, inserts |-> <<>>]

\* _classify: gaps are flushed at every equal op and at the end.
Align(old, new) ==
    LET step(gap, op) ==
            CASE op.type = "equal" -> [EmptyGap EXCEPT !.ops = Append(Flush(old, new, gap), op)]
              [] op.type = "delete" -> [gap EXCEPT !.deletes = Append(@, op.old)]
              [] op.type = "insert" -> [gap EXCEPT !.inserts = Append(@, op.new)]
    IN Flush(old, new, FoldLeft(step, EmptyGap, LcsScript(old, new)))

-----------------------------------------------------------------------------
(* diff_prose: statuses of the two documents' sentences.                   *)

\* Mutant of ModalOffset: no dominant offset, any change of number is a move.
ModalOffsetZero(offsets) == 0

\* _modal_offset: the offset shared by most equal pairs, the smallest motion on
\* ties; an offset seen only once is no evidence and counts as 0.
ModalOffset(offsets) ==
    LET count(o) == Cardinality({i \in DOMAIN offsets : offsets[i] = o})
        size(o) == IF o < 0 THEN -o ELSE o
        best == {o \in ToSet(offsets) : \A p \in ToSet(offsets) : count(p) <= count(o)} IN
    IF \E o \in best : count(o) > 1
    THEN CHOOSE o \in best : \A p \in best : size(o) < size(p) \/ (size(o) = size(p) /\ o <= p)
    ELSE 0

Diff(oldDoc, newDoc) ==
    LET old == Flat(oldDoc)
        new == Flat(newDoc)
        ops == Align(Texts(old), Texts(new))
        offset(op) == new[op.new].para - old[op.old].para
        modal == ModalOffset(FlattenSeq([k \in DOMAIN ops |->
                     IF ops[k].type = "equal" THEN <<offset(ops[k])>> ELSE <<>>]))
        status(op) == IF op.type # "equal" THEN op.type
                      ELSE IF offset(op) # modal THEN "moved" ELSE "unchanged"
    IN [k \in DOMAIN ops |-> [op |-> ops[k], status |-> status(ops[k])]]

-----------------------------------------------------------------------------
(* What an alignment must be.                                              *)

\* The most sentences that any order-preserving matching of equal hashes pairs.
CommonLength(old, new) ==
    LET pairs == {p \in (DOMAIN old) \X (DOMAIN new) : SameHash(old, new, p[1], p[2])}
        ordered(m) == \A p, q \in m : p = q \/ (p[1] < q[1] /\ p[2] < q[2])
                                            \/ (q[1] < p[1] /\ q[2] < p[2])
    IN Max({Cardinality(m) : m \in {m \in SUBSET pairs : ordered(m)}})

\* Every old sentence appears once and in order, every new sentence once, equal pairs
\* are equal, and edited ones at least as alike as the threshold.
IsAlignment(old, new, ops) ==
    /\ \A k \in DOMAIN ops :
          /\ ops[k].old \in 0..Len(old) /\ ops[k].new \in 0..Len(new)
          /\ ops[k].type = "equal" => SameHash(old, new, ops[k].old, ops[k].new)
          /\ ops[k].type = "edited" => Likeness(old, new, ops[k].old, ops[k].new) >= EditedThreshold
    /\ \A i \in DOMAIN old : \E k \in DOMAIN ops : ops[k].old = i
    /\ \A j \in DOMAIN new : \E k \in DOMAIN ops : ops[k].new = j
    /\ \A k, l \in DOMAIN ops : k < l =>
          /\ ops[k].old # 0 /\ ops[l].old # 0 => ops[k].old < ops[l].old
          /\ ops[k].new = ops[l].new => ops[k].new = 0

\* Of a gap's leftovers no deletion is as like an insertion as the threshold.
NoEditIsMissed(old, new, ops) ==
    LET between(k, l) == (k + 1 .. l - 1) \cup (l + 1 .. k - 1) IN
    \A k, l \in DOMAIN ops :
        ( /\ ops[k].type = "delete" /\ ops[l].type = "insert"
          /\ \A m \in between(k, l) : ops[m].type # "equal" )
        => Likeness(old, new, ops[k].old, ops[l].new) < EditedThreshold

IsOptimal(old, new, ops) ==
    Cardinality({k \in DOMAIN ops : ops[k].type = "equal"}) = CommonLength(old, new)
=============================================================================
