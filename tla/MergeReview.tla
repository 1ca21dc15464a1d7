----------------------------- MODULE MergeReview -----------------------------
(***************************************************************************)
(* Reviewing a conflicted merge (api/main.py merge and resolve_merge): the *)
(* merge request reads two heads and stores a pending row, a resolve       *)
(* request reads the row, commits the result on the target branch and      *)
(* finalises the row, and other requests move the same branches meanwhile. *)
(* A store.commit call is one step here: ObjectStore shows that it is.     *)
(* Commits are numbered in the order they were first written.              *)
(***************************************************************************)
EXTENDS VersionDag

CONSTANTS
    Client,      \* request threads
    Branch,      \* branch names of one artifact
    Main,        \* the branch the artifact starts with
    Payload,     \* content, message and author of a plain commit
    Conflict,    \* the conflicts of a merge
    Choice,      \* resolutions of a conflict
    None,        \* no branch head, no commit, no payload
    BlindCommits,  \* do clients leave out base_commit?
    MaxCommits, MaxMerges

ASSUME ReviewAssumption ==
    /\ Main \in Branch
    /\ None \notin Payload /\ None \notin Nat
    /\ BlindCommits \in BOOLEAN
    /\ MaxCommits \in Nat /\ MaxMerges \in Nat

VARIABLES
    commits,   \* the commit table
    heads,     \* refs: the head of each branch
    merges,    \* the merges table with its conflict rows
    request,   \* what each client's request has read so far
    crashed    \* has the process ever stopped during a request?

vars == <<commits, heads, merges, request, crashed>>

Idle == [op |-> "idle"]

-----------------------------------------------------------------------------
(* store.commit: a commit with the id of a known one is that commit        *)
(* (INSERT OR IGNORE), and a ref already at it is left alone.              *)

\* A plain commit takes its author_date from its parent, so that the same request
\* on the same parent has the same id; a merge commit is dated now.
PlainCommit(parent, payload) ==
    [parents |-> <<parent>>, payload |-> payload, merge |-> 0, choice |-> None]

MergeCommit(ours, theirs, m, choice) ==
    [parents |-> IF ours = theirs THEN <<ours>> ELSE <<ours, theirs>>,
     payload |-> None, merge |-> m, choice |-> choice]

IdOf(commit) ==
    IF commit.payload # None /\ commit \in ToSet(commits)
    THEN CHOOSE n \in DOMAIN commits : commits[n] = commit
    ELSE Len(commits) + 1

\* Does the compare-and-swap let the branch move?
MayAdvance(branch, expected, n) == heads[branch] \in {expected, n}

\* Mutant of Store: the compare-and-swap is left out.
StoreAlways(branch, expected, commit) ==
    /\ commits' = IF IdOf(commit) \in DOMAIN commits THEN commits ELSE Append(commits, commit)
    /\ heads' = [heads EXCEPT ![branch] = IdOf(commit)]

Store(branch, expected, commit) ==
    /\ MayAdvance(branch, expected, IdOf(commit))
    /\ commits' = IF IdOf(commit) \in DOMAIN commits THEN commits ELSE Append(commits, commit)
    /\ heads' = [heads EXCEPT ![branch] = IdOf(commit)]

Refused(branch, expected, commit) ==
    ~MayAdvance(branch, expected, IdOf(commit)) /\ UNCHANGED <<commits, heads>>

Answer(c) == request' = [request EXCEPT ![c] = Idle]

\* Bound: MaxCommits commits besides the results of reviews.
HasRoom == Len(SelectSeq(commits, LAMBDA n : n.merge = 0)) < MaxCommits

-----------------------------------------------------------------------------
Init ==
    /\ commits = <<[parents |-> <<>>, payload |-> None, merge |-> 0, choice |-> None]>>
    /\ heads = [b \in Branch |-> IF b = Main THEN 1 ELSE None]
    /\ merges = <<>>
    /\ request = [c \in Client |-> Idle]
    /\ crashed = FALSE

\* create_branch at any commit.
CreateBranch(b, n) ==
    /\ heads[b] = None
    /\ heads' = [heads EXCEPT ![b] = n]
    /\ UNCHANGED <<commits, merges, request, crashed>>

\* commit_artifact: the head is read before the transaction.
BeginCommit(c, b, p) ==
    /\ request[c] = Idle /\ heads[b] # None
    /\ request' = [request EXCEPT ![c] =
           [op |-> "commit", branch |-> b, base |-> heads[b], payload |-> p]]
    /\ UNCHANGED <<commits, heads, merges, crashed>>

EndCommit(c) ==
    /\ request[c].op = "commit" /\ HasRoom
    /\ LET r == request[c]
           expected == IF BlindCommits THEN heads[r.branch] ELSE r.base
           commit == PlainCommit(r.base, r.payload) IN
       Store(r.branch, expected, commit) \/ Refused(r.branch, expected, commit)
    /\ Answer(c)
    /\ UNCHANGED <<merges, crashed>>

\* merge: the two heads are read one after the other.
ReadOurs(c, ours, theirs) ==
    /\ request[c] = Idle /\ heads[ours] # None
    /\ request' = [request EXCEPT ![c] =
           [op |-> "ours", target |-> ours, from |-> theirs, ours |-> heads[ours]]]
    /\ UNCHANGED <<commits, heads, merges, crashed>>

ReadTheirs(c) ==
    /\ request[c].op = "ours"
    /\ LET r == request[c] IN
       request' = [request EXCEPT ![c] =
           IF heads[r.from] = None THEN Idle
           ELSE [op |-> "heads", target |-> r.target, ours |-> r.ours, theirs |-> heads[r.from]]]
    /\ UNCHANGED <<commits, heads, merges, crashed>>

\* Against a base that is one of the two heads the merge is clean.
MayConflict(base, ours, theirs) == base \notin {ours, theirs}

MergeCleanly(c) ==
    /\ request[c].op = "heads" /\ HasRoom
    /\ LET r == request[c]
           commit == MergeCommit(r.ours, r.theirs, 0, None) IN
       Store(r.target, r.ours, commit) \/ Refused(r.target, r.ours, commit)
    /\ Answer(c)
    /\ UNCHANGED <<merges, crashed>>

OpenReview(c) ==
    /\ request[c].op = "heads" /\ Len(merges) < MaxMerges
    /\ LET r == request[c] IN
       \E base \in MergeBases(commits, r.ours, r.theirs) :
          /\ MayConflict(base, r.ours, r.theirs)
          /\ merges' = Append(merges,
                [base |-> base, ours |-> r.ours, theirs |-> r.theirs, target |-> r.target,
                 state |-> "conflicts", result |-> None, resolution |-> None])
    /\ Answer(c)
    /\ UNCHANGED <<commits, heads, crashed>>

\* resolve_merge: a row already resolved, or a request that does not resolve every
\* conflict, is refused.
BeginResolve(c, m, choice) ==
    /\ request[c] = Idle
    /\ merges[m].state # "resolved"
    /\ request' = [request EXCEPT ![c] = [op |-> "row", merge |-> m, choice |-> choice]]
    /\ UNCHANGED <<commits, heads, merges, crashed>>

CheckTarget(c) ==
    /\ request[c].op = "row"
    /\ LET row == merges[request[c].merge] IN
       request' = [request EXCEPT ![c] =
           IF heads[row.target] # row.ours THEN Idle ELSE [@ EXCEPT !.op = "checked"]]
    /\ UNCHANGED <<commits, heads, merges, crashed>>

CommitResolution(c) ==
    /\ request[c].op = "checked"
    /\ LET r == request[c]
           row == merges[r.merge]
           commit == MergeCommit(row.ours, row.theirs, r.merge, r.choice) IN
       \/ /\ Store(row.target, row.ours, commit)
          /\ request' = [request EXCEPT ![c] =
                [op |-> "done", merge |-> r.merge, choice |-> r.choice, result |-> IdOf(commit)]]
       \/ Refused(row.target, row.ours, commit) /\ Answer(c)
    /\ UNCHANGED <<merges, crashed>>

\* Mutant of Finalise: the resolutions are stored, the row is left pending.
FinaliseHalf(c) ==
    /\ request[c].op = "done"
    /\ LET r == request[c] IN
       merges' = [merges EXCEPT ![r.merge].resolution = r.choice]
    /\ Answer(c)
    /\ UNCHANGED <<commits, heads, crashed>>

Finalise(c) ==
    /\ request[c].op = "done"
    /\ LET r == request[c] IN
       merges' = [merges EXCEPT ![r.merge].resolution = r.choice,
                                ![r.merge].result = r.result,
                                ![r.merge].state = "resolved"]
    /\ Answer(c)
    /\ UNCHANGED <<commits, heads, crashed>>

\* The process stops; the tables are what was committed.
Crash ==
    /\ \E c \in Client : request[c] # Idle
    /\ request' = [c \in Client |-> Idle]
    /\ crashed' = TRUE
    /\ UNCHANGED <<commits, heads, merges>>

Next ==
    \/ \E b \in Branch, n \in DOMAIN commits : CreateBranch(b, n)
    \/ \E c \in Client :
          \/ \E b \in Branch, p \in Payload : BeginCommit(c, b, p)
          \/ EndCommit(c)
          \/ \E ours, theirs \in Branch : ReadOurs(c, ours, theirs)
          \/ ReadTheirs(c) \/ MergeCleanly(c) \/ OpenReview(c)
          \/ \E m \in DOMAIN merges, choice \in [Conflict -> Choice] : BeginResolve(c, m, choice)
          \/ CheckTarget(c) \/ CommitResolution(c) \/ Finalise(c)
    \/ Crash

Spec == Init /\ [][Next]_vars
-----------------------------------------------------------------------------
(* Properties.                                                             *)

ResultsOf(m) == {n \in DOMAIN commits : commits[n].merge = m}

\* However many people resolve a merge at once, at most one of their results is
\* committed.  (main.py:707, 750-755)
ResolvedAtMostOnce == \A m \in DOMAIN merges : Cardinality(ResultsOf(m)) <= 1

\* A resolved row names a commit of the two reviewed heads, made of the very
\* resolutions the row records.  (main.py:752-769)
RowMatchesItsCommit ==
    \A m \in DOMAIN merges : merges[m].state = "resolved" =>
        /\ merges[m].result \in ResultsOf(m)
        /\ commits[merges[m].result].parents = <<merges[m].ours, merges[m].theirs>>
        /\ commits[merges[m].result].choice = merges[m].resolution

\* Only a crash separates a committed result from its resolved row for good.
\* (main.py:752-769)
RecordedUnlessCrashed ==
    \A m \in DOMAIN merges : ResultsOf(m) # {} =>
        \/ merges[m].state = "resolved"
        \/ \E c \in Client : request[c].op = "done" /\ request[c].merge = m
        \/ crashed

\* The result and the row of a review say the same.
ReviewIsRecorded == RowMatchesItsCommit /\ RecordedUnlessCrashed

\* What was merged into a branch stays in it, whatever commits and merges follow.
\* (main.py:648-651, 750-755; store.py:202-213)
MergedStaysMerged ==
    \A m \in DOMAIN merges : \A n \in ResultsOf(m) :
        {n, merges[m].theirs} \subseteq Ancestors(commits, heads[merges[m].target])

\* However merges overlap, the outcome of one is single and stays.
MergesAreFinal == ResolvedAtMostOnce /\ MergedStaysMerged

\* A branch's history lists each ancestor of its head once, the head first.
\* (store.py:310-341)
HistoryIsComplete ==
    \A b \in Branch : heads[b] # None =>
        LET log == History(commits, heads[b]) IN
        /\ log[1] = heads[b]
        /\ ToSet(log) = Ancestors(commits, heads[b])
        /\ Len(log) = Cardinality(ToSet(log))

\* The merge base is a lowest common ancestor.  ("deterministic LCA (adr-03)",
\* store.py:279)
MergeBaseIsLowest ==
    \A c1, c2 \in DOMAIN commits : \A n \in MergeBases(commits, c1, c2) :
        IsLowest(commits, n, c1, c2)
=============================================================================
