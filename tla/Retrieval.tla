----------------------------- MODULE Retrieval -----------------------------
(***************************************************************************)
(* retrieval/indexer.py over the branches of one artifact: the table       *)
(* `chunks` (and chunks_fts, written beside it) is derived from commits.   *)
(* A handler indexes its commit AFTER the commit's transaction, in two     *)
(* parts: reindex() plans a delta against the rows it sees, then writes it *)
(* in one transaction.  The handlers share a connection, so they see each  *)
(* other's unfinished writes; scripts/reindex.py is a process of its own,  *)
(* which wipes the table and replays the history of every branch.          *)
(*                                                                         *)
(* Chunk ids carry artifact and branch, so artifacts do not interact.      *)
(* `replaces`, sentence_index and the vectors are left out: an ordinary    *)
(* search reads none of them (vectors are off unless GR_ENABLE_VECTORS).   *)
(***************************************************************************)
EXTENDS VersionDag

CONSTANTS
    Worker,       \* request handlers and live rooms of the server
    Script,       \* scripts/reindex.py
    Branch, Main,
    Content,      \* what a commit's root can hold
    ChunksOf,     \* Content -> chunk id -> [text, sids]: chunk_document
    None,
    Faults,       \* may an indexing fail and the server stop?
    MaxCommits, MaxRebuilds,
    MaxBusy       \* how many may be indexing at a time

ASSUME RetrievalAssumption ==
    /\ Main \in Branch
    /\ Script \notin Worker
    /\ DOMAIN ChunksOf = Content
    /\ Faults \in BOOLEAN
    /\ {MaxCommits, MaxRebuilds, MaxBusy} \subseteq Nat

VARIABLES
    commits,   \* the artifact's commits: [content, parents], parents by hash
    heads,     \* branch -> head, or 0
    past,      \* history: branch -> the heads it has had; a request may have read any
    rows,      \* branch -> chunk id -> [text, sids, introduced]
    open,      \* the write transaction in progress: who, and the rows before it
    jobs,      \* commits each process still has to index: [branch, commit]
    plan,      \* reindex()'s delta, once made
    left,      \* branches the rebuild has not fetched yet
    fresh,     \* has the rebuild's snapshot of the database stayed the latest?
    rebuilds,
    index      \* history: per branch, the commit whose delta came last (tip; 0:
               \* none, or a delta made for other rows) and whether the deltas
               \* were those of a line of first parents (straight)

vars == <<commits, heads, past, rows, open, jobs, plan, left, fresh, rebuilds, index>>

Indexer == Worker \cup {Script}
Commit == DOMAIN commits
Chunks(c) == ChunksOf[commits[c].content]

NoRows == <<>>
Nothing == [tip |-> 0, straight |-> TRUE]

Init ==
    /\ commits = <<>>
    /\ heads = [b \in Branch |-> 0]
    /\ past = [b \in Branch |-> {}]
    /\ rows = [b \in Branch |-> NoRows]
    /\ open = None
    /\ jobs = [w \in Indexer |-> <<>>]
    /\ plan = [w \in Indexer |-> None]
    /\ left = {}
    /\ fresh = FALSE
    /\ rebuilds = 0
    /\ index = [b \in Branch |-> Nothing]

-----------------------------------------------------------------------------
(* reindex(): the delta and its effect.                                    *)

\* Mutant of Dropped: a chunk is dropped only to make room for its new text.
DroppedChanged(old, new) == {id \in DOMAIN old \cap DOMAIN new : new[id].text # old[id].text}

\* _plan_delta: rows whose text is gone or changed, and chunks whose text is new.
Dropped(old, new) == {id \in DOMAIN old : id \notin DOMAIN new \/ new[id].text # old[id].text}

\* Mutant of Added: every chunk of the commit is written again.
AddedAll(old, new) == DOMAIN new

Added(old, new) == {id \in DOMAIN new : id \notin DOMAIN old \/ new[id].text # old[id].text}

Delta(old, new) == [drop |-> Dropped(old, new), put |-> Added(old, new), against |-> old]

Kept(old, ids) == [id \in DOMAIN old \ ids |-> old[id]]

Row(chunk, c) == [text |-> chunk.text, sids |-> chunk.sids, introduced |-> c]

\* Mutant of Written: the newest commit is credited, not the one being indexed.
WrittenNewest(old, ids, new, c) ==
    [id \in DOMAIN old \cup ids |->
        IF id \in ids THEN Row(new[id], IF Len(commits) > c THEN Len(commits) ELSE c) ELSE old[id]]

Written(old, ids, new, c) ==
    [id \in DOMAIN old \cup ids |-> IF id \in ids THEN Row(new[id], c) ELSE old[id]]

\* What one more delta makes of a branch's history of deltas.
Indexed(was, c, parents, matches) ==
    [tip |-> IF matches THEN c ELSE 0,
     straight |-> /\ matches /\ was.straight
                  /\ IF was.tip = 0 THEN parents = <<>>
                     ELSE parents # <<>> /\ parents[1] = was.tip]

-----------------------------------------------------------------------------
(* Commits, which ObjectStore takes apart; here each is a transaction.     *)

Save(content, parents, b) ==
    /\ open = None
    /\ Len(commits) < MaxCommits
    /\ commits' = Append(commits, [content |-> content, parents |-> parents])
    /\ heads' = [heads EXCEPT ![b] = Len(commits) + 1]
    /\ past' = [past EXCEPT ![b] = @ \cup {Len(commits) + 1}]
    /\ fresh' = FALSE

\* The parents of a commit to b.  Main's first commit has none.  commit_artifact takes
\* the head it read, if there was one, and without a base_commit moves the branch from
\* wherever it is by then.  A merge has the head of its branch and one that another
\* branch has had, the lesser hash first.
ParentLists(b) ==
    (IF (b = Main) = (commits = <<>>) THEN {<<>>} ELSE {})
    \cup {<<h>> : h \in past[b]}
    \cup (IF heads[b] = 0 THEN {}
          ELSE UNION {{<<heads[b], h>>, <<h, heads[b]>>} :
                         h \in UNION {past[d] : d \in Branch \ {b}} \ {heads[b]}})

\* Those of a commit that reads the head in its own transaction.
OnHead(b) == IF heads[b] = 0 THEN <<>> ELSE <<heads[b]>>

\* A handler, or the script, with nothing to index takes commits on while others are at it.
MayIndex(w) == jobs[w] = <<>> /\ Cardinality({x \in Indexer : jobs[x] # <<>>}) < MaxBusy

\* create_artifact, commit_artifact, merge, resolve_merge and commit_live: the commit,
\* then _index_commit.
SaveThenIndex(w) ==
    /\ MayIndex(w)
    /\ \E b \in Branch, c \in Content : \E parents \in ParentLists(b) :
          /\ Save(c, parents, b)
          /\ jobs' = [jobs EXCEPT ![w] = <<[branch |-> b, commit |-> Len(commits) + 1]>>]
    /\ UNCHANGED <<rows, open, plan, left, rebuilds, index>>

\* Repositories._import and edit: the commit and its reindex in one transaction.
SaveAndIndex(w) ==
    /\ jobs[w] = <<>>
    /\ \E b \in Branch, c \in Content : \E parents \in ParentLists(b) :
          LET delta == Delta(rows[b], ChunksOf[c]) new == Len(commits) + 1 IN
          /\ parents = OnHead(b)
          /\ Save(c, parents, b)
          /\ rows' = [rows EXCEPT ![b] =
                         Written(Kept(@, delta.drop), delta.put, ChunksOf[c], new)]
          /\ index' = [index EXCEPT ![b] = Indexed(@, new, parents, TRUE)]
    /\ UNCHANGED <<open, jobs, plan, left, rebuilds>>

\* create_branch: a ref at any commit; the index is not touched.
Fork ==
    /\ open = None
    /\ \E b \in Branch, c \in Commit :
          /\ heads[b] = 0 /\ heads' = [heads EXCEPT ![b] = c]
          /\ past' = [past EXCEPT ![b] = @ \cup {c}]
    /\ fresh' = FALSE
    /\ UNCHANGED <<commits, rows, open, jobs, plan, left, rebuilds, index>>

-----------------------------------------------------------------------------
(* Indexing.                                                               *)

\* Of a transaction in progress the server's handlers see what it has written,
\* the script sees nothing of the server's, nor the server of the script's.
Shown(w) ==
    IF open # None /\ (open.by = Script) # (w = Script) THEN open.rows ELSE rows

Plan(w) ==
    /\ jobs[w] # <<>> /\ plan[w] = None
    /\ LET job == Head(jobs[w]) IN
       plan' = [plan EXCEPT ![w] = Delta(Shown(w)[job.branch], Chunks(job.commit))]
    /\ UNCHANGED <<commits, heads, past, rows, open, jobs, left, fresh, rebuilds, index>>

\* The deletions.  While the rebuild has a cursor open, BEGIN IMMEDIATE fails if the
\* server has written since (SQLITE_BUSY_SNAPSHOT).
BeginWrite(w) ==
    /\ plan[w] # None /\ open = None
    /\ w = Script => fresh \/ left = {}
    /\ open' = [by |-> w, rows |-> rows]
    /\ LET b == Head(jobs[w]).branch IN
       rows' = [rows EXCEPT ![b] = Kept(@, plan[w].drop)]
    /\ UNCHANGED <<commits, heads, past, jobs, plan, left, fresh, rebuilds, index>>

\* The insertions and COMMIT.
EndWrite(w) ==
    /\ open # None /\ open.by = w
    /\ LET b == Head(jobs[w]).branch c == Head(jobs[w]).commit IN
       /\ rows' = [rows EXCEPT ![b] = Written(@, plan[w].put, Chunks(c), c)]
       /\ index' = [index EXCEPT ![b] =
              Indexed(@, c, commits[c].parents, plan[w].against = open.rows[b])]
    /\ open' = None
    /\ jobs' = [jobs EXCEPT ![w] = Tail(@)]
    /\ plan' = [plan EXCEPT ![w] = None]
    /\ fresh' = (fresh /\ w = Script)
    /\ UNCHANGED <<commits, heads, past, left, rebuilds>>

RollBack(who) ==
    IF open # None /\ open.by \in who THEN open' = None /\ rows' = open.rows
    ELSE UNCHANGED <<open, rows>>

\* An exception: _index_commit logs it, the script ends.
Fail(w) ==
    /\ Faults
    /\ jobs[w] # <<>>
    /\ RollBack({w})
    /\ jobs' = [jobs EXCEPT ![w] = <<>>]
    /\ plan' = [plan EXCEPT ![w] = None]
    /\ IF w = Script THEN left' = {} /\ fresh' = FALSE ELSE UNCHANGED <<left, fresh>>
    /\ UNCHANGED <<commits, heads, past, rebuilds, index>>

\* The server stops; nothing remembers what was not indexed.
Crash ==
    /\ Faults
    /\ \E w \in Worker : jobs[w] # <<>>
    /\ RollBack(Worker)
    /\ jobs' = [w \in Indexer |-> IF w = Script THEN jobs[w] ELSE <<>>]
    /\ plan' = [w \in Indexer |-> IF w = Script THEN plan[w] ELSE None]
    /\ UNCHANGED <<commits, heads, past, left, fresh, rebuilds, index>>

-----------------------------------------------------------------------------
(* rebuild(): wipe, then every branch, oldest commit first.                *)

Rebuild ==
    /\ jobs[Script] = <<>> /\ left = {} /\ open = None
    /\ rebuilds < MaxRebuilds
    /\ rebuilds' = rebuilds + 1
    /\ rows' = [b \in Branch |-> NoRows]
    /\ index' = [b \in Branch |-> Nothing]
    /\ left' = {b \in Branch : heads[b] # 0}
    /\ fresh' = TRUE
    /\ UNCHANGED <<commits, heads, past, open, jobs, plan>>

Replay(b, order) == [k \in DOMAIN order |-> [branch |-> b, commit |-> order[k]]]

\* Mutant of FetchBranch: newest first.
FetchBranchNewest(b) ==
    /\ MayIndex(Script) /\ b \in left
    /\ left' = left \ {b}
    /\ jobs' = [jobs EXCEPT ![Script] = Replay(b, History(commits, heads[b]))]
    /\ UNCHANGED <<commits, heads, past, rows, open, plan, fresh, rebuilds, index>>

FetchBranch(b) ==
    /\ MayIndex(Script) /\ b \in left
    /\ left' = left \ {b}
    /\ jobs' = [jobs EXCEPT ![Script] = Replay(b, Reverse(History(commits, heads[b])))]
    /\ UNCHANGED <<commits, heads, past, rows, open, plan, fresh, rebuilds, index>>

Next ==
    \/ \E w \in Worker : SaveThenIndex(w) \/ SaveAndIndex(w)
    \/ \E w \in Indexer : Plan(w) \/ BeginWrite(w) \/ EndWrite(w) \/ Fail(w)
    \/ Fork \/ Crash \/ Rebuild
    \/ \E b \in Branch : FetchBranch(b)

Spec == Init /\ [][Next]_vars

-----------------------------------------------------------------------------
(* Searching a revision: SearchService._historical.                        *)

\* The walk along the parents of least hash: the oldest commit from which on a chunk
\* has had its text.
Introduced(c, id) ==
    LET walk[d \in Commit] ==
            LET parents == commits[d].parents IN
            IF /\ parents # <<>>
               /\ id \in DOMAIN Chunks(parents[1])
               /\ Chunks(parents[1])[id].text = Chunks(c)[id].text
            THEN walk[parents[1]] ELSE d
    IN walk[c]

\* What a historical search of commit c searches.
Snapshot(c) == [id \in DOMAIN Chunks(c) |-> Row(Chunks(c)[id], Introduced(c, id))]

-----------------------------------------------------------------------------
(* Properties.                                                             *)

TypeOK ==
    /\ heads \in [Branch -> 0..Len(commits)] /\ past \in [Branch -> SUBSET Commit]
    /\ left \subseteq Branch /\ fresh \in BOOLEAN
    /\ \A w \in Indexer : \A k \in DOMAIN jobs[w] : jobs[w][k] \in [branch : Branch, commit : Commit]

\* What a branch has in its history, and what it has had.  It still has all of that if
\* no commit without a base_commit has moved it off its own history.
Has(b) == IF heads[b] = 0 THEN {} ELSE Ancestors(commits, heads[b])
Had(b) == UNION {Ancestors(commits, h) : h \in past[b]}

Cited(b) == {rows[b][id].introduced : id \in DOMAIN rows[b]}

\* A citation is exact: a hit's text is that of its chunk in the commit it names, which
\* the hit's branch has had in its history, and has still if the branch only moved
\* forward; whatever indexes at the same time, crashes or is half written.  ("every hit
\* carries its citation metadata", service.py:7)
CitationsAreExact ==
    \A b \in Branch :
        /\ \A id \in DOMAIN rows[b] :
              LET chunks == Chunks(rows[b][id].introduced) IN
              id \in DOMAIN chunks /\ chunks[id].text = rows[b][id].text
        /\ Cited(b) \subseteq Had(b)
        /\ past[b] \subseteq Has(b) => Cited(b) \subseteq Has(b)

Texts(table) == [id \in DOMAIN table |-> table[id].text]

Settled(b) == open = None /\ index[b].tip # 0

\* A delta made for the rows it finds leaves the chunks of its commit, all of them and
\* no others, however the branch got there.
IndexIsCurrent ==
    \A b \in Branch : Settled(b) => Texts(rows[b]) = Texts(Chunks(index[b].tip))

\* The two searches agree: when a branch's commits were indexed one after the other, the
\* index cites, chunk for chunk, the commit the walk of a historical search finds.
TimeTravelAgrees ==
    \A b \in Branch : Settled(b) /\ index[b].straight =>
        LET cited(table) == [id \in DOMAIN table |-> <<table[id].text, table[id].introduced>>] IN
        cited(rows[b]) = cited(Snapshot(index[b].tip))

\* A rebuild that runs to its end with no write beside it leaves every branch, forks and
\* merges included, with the chunks of its head.
RebuildIsComplete ==
    fresh /\ open = None /\ left = {} /\ jobs[Script] = <<>> =>
        \A b \in Branch : heads[b] # 0 =>
            index[b].tip = heads[b] /\ Texts(rows[b]) = Texts(Chunks(heads[b]))

-----------------------------------------------------------------------------
(* What does not hold.                                                     *)

\* A cited commit is in the history of the hit's branch.  (a commit built on an older
\* head drops the ones above it: main.py:474-498)
CitationsAreInHistory == \A b \in Branch : Cited(b) \subseteq Has(b)

Quiet == open = None /\ left = {} /\ \A w \in Indexer : jobs[w] = <<>>

\* "same store + same commit -> identical chunk rows" (indexer.py:18): at rest, the rows
\* of an indexed branch are what a rebuild would make of it.
Replayed(b) ==
    LET order == Reverse(History(commits, heads[b]))
        step(table, c) ==
            LET delta == Delta(table, Chunks(c)) IN
            Written(Kept(table, delta.drop), delta.put, Chunks(c), c)
    IN FoldLeft(step, NoRows, order)

DeterministicByContract ==
    Quiet => \A b \in Branch : rows[b] # NoRows => rows[b] = Replayed(b)

\* At rest an indexed branch is found by its head's text.  (main.py:926-928: a failure
\* is logged "and let scripts/reindex.py rebuild"; here nothing failed.)
IndexFollowsHead ==
    Quiet => \A b \in Branch : index[b].tip # 0 => index[b].tip = heads[b]

\* A hit's sid_range names its chunk's sentences in the branch's current text.
SidsAreCurrent ==
    \A b \in Branch : Settled(b) => rows[b] = [id \in DOMAIN rows[b] |->
        [rows[b][id] EXCEPT !.sids = Chunks(index[b].tip)[id].sids]]
=============================================================================
