----------------------------- MODULE VersionDag -----------------------------
(***************************************************************************)
(* The walks over commit_parents in core/objects/store.py: merge_base and  *)
(* history.  A commit table is a sequence of records with a field `parents`*)
(* (a sequence of smaller commit numbers: a commit is written after its    *)
(* parents).                                                               *)
(***************************************************************************)
EXTENDS Naturals, Sequences, FiniteSets, SequencesExt, TLC

ParentsOf(table, nodes) == UNION {ToSet(table[n].parents) : n \in nodes}

\* distances(start): breadth first, the first visit fixes the distance.
Distances(table, start) ==
    LET visit(dist, d) ==
            dist @@ [n \in ParentsOf(table, {m \in DOMAIN dist : dist[m] = d - 1}) |-> d]
    IN FoldLeft(visit, start :> 0, [d \in DOMAIN table |-> d])

\* merge_base: the common ancestors of least total distance.  The code takes the
\* one of least hash, which may be any of them; {}: no common ancestor.
MergeBases(table, c1, c2) ==
    LET d1 == Distances(table, c1)
        d2 == Distances(table, c2)
        common == DOMAIN d1 \cap DOMAIN d2
        height(n) == d1[n] + d2[n]
    IN IF c1 = c2 THEN {c1} ELSE {n \in common : \A k \in common : height(n) <= height(k)}

\* Mutant of History: nothing is remembered as seen.
HistoryUnmarked(table, start) ==
    LET walk[k \in 0..2 * Len(table) + 1] ==
            IF k = 0 THEN [queue |-> <<start>>, order |-> <<>>]
            ELSE LET w == walk[k - 1] IN
                 IF w.queue = <<>> THEN w
                 ELSE [queue |-> Tail(w.queue) \o table[Head(w.queue)].parents,
                       order |-> Append(w.order, Head(w.queue))]
    IN walk[2 * Len(table) + 1].order

\* history: level order from the head; each turn takes one commit off the queue.
History(table, start) ==
    LET walk[k \in 0..2 * Len(table) + 1] ==
            IF k = 0 THEN [queue |-> <<start>>, order |-> <<>>]
            ELSE LET w == walk[k - 1] IN
                 IF w.queue = <<>> THEN w
                 ELSE IF Head(w.queue) \in ToSet(w.order) THEN [w EXCEPT !.queue = Tail(@)]
                 ELSE [queue |-> Tail(w.queue) \o table[Head(w.queue)].parents,
                       order |-> Append(w.order, Head(w.queue))]
    IN walk[2 * Len(table) + 1].order

-----------------------------------------------------------------------------
(* Reference definitions.                                                  *)

\* The ancestors of a commit, itself included.
Ancestors(table, c) ==
    LET past[n \in DOMAIN table] == {n} \cup UNION {past[p] : p \in ToSet(table[n].parents)}
    IN past[c]

CommonAncestors(table, c1, c2) == Ancestors(table, c1) \cap Ancestors(table, c2)

\* A common ancestor below every other one it is related to.
IsLowest(table, n, c1, c2) ==
    /\ n \in CommonAncestors(table, c1, c2)
    /\ \A k \in CommonAncestors(table, c1, c2) : n \in Ancestors(table, k) => k = n
=============================================================================
