---------------------------- MODULE MergeProofs ----------------------------
(***************************************************************************)
(* The two parts of a merge.  First the review of its conflicts: the       *)
(* properties of MergeReview, for any clients, branches, conflicts and     *)
(* bounds: the row of a review and the commit of its result say the same,  *)
(* a review has one result and what was merged stays merged when clients   *)
(* send base_commit, and the history of a branch is its ancestors.  Then   *)
(* the engine that finds the conflicts: the properties of ProseMerge, for  *)
(* any sentences, hashes, likenesses and bounds.                           *)
(***************************************************************************)
EXTENDS MergeReview, ProseMerge, TableLemmas

-----------------------------------------------------------------------------
(* The inductive invariant.                                                *)

Resolution == [Conflict -> Choice]

IsRow(row) ==
    /\ row \in [base : {row.base}, ours : DOMAIN commits, theirs : DOMAIN commits, target : Branch,
                state : {"conflicts", "resolved"}, result : DOMAIN commits \cup {None},
                resolution : Resolution \cup {None}]
    /\ row.ours # row.theirs

Request ==
    {Idle}
        \cup [op : {"commit"}, branch : Branch, base : DOMAIN commits, payload : Payload]
        \cup [op : {"ours"}, target : Branch, from : Branch, ours : DOMAIN commits]
        \cup [op : {"heads"}, target : Branch, ours : DOMAIN commits, theirs : DOMAIN commits]
        \cup [op : {"row", "checked"}, merge : DOMAIN merges, choice : Resolution]
        \cup [op : {"done"}, merge : DOMAIN merges, choice : Resolution, result : DOMAIN commits]

Types ==
    /\ Table(commits) /\ Table(merges)
    /\ \A n \in DOMAIN commits : commits[n].merge \in DOMAIN merges \cup {0}
    /\ \A m \in DOMAIN merges : IsRow(merges[m])
    /\ heads \in [Branch -> DOMAIN commits \cup {None}]
    /\ request \in [Client -> Request]

\* The commit n is the result of the review m with these resolutions.
IsResult(n, m, choice) ==
    /\ n \in ResultsOf(m)
    /\ commits[n].parents = <<merges[m].ours, merges[m].theirs>>
    /\ commits[n].choice = choice

\* A request that has committed knows its own result.
DoneMatches ==
    \A c \in Client : request[c].op = "done" =>
        IsResult(request[c].result, request[c].merge, request[c].choice)

RInv == Types /\ DoneMatches /\ ReviewIsRecorded

\* store.commit adds at most the one commit.
LEMMA StoreFacts ==
    ASSUME Types, NEW branch \in Branch, NEW expected, NEW commit, Store(branch, expected, commit)
    PROVE  /\ Table(commits') /\ DOMAIN commits \subseteq DOMAIN commits'
           /\ \A n \in DOMAIN commits : commits'[n] = commits[n]
           /\ IdOf(commit) \in DOMAIN commits' /\ commits'[IdOf(commit)] = commit
           /\ \A n \in DOMAIN commits' \ DOMAIN commits : n = IdOf(commit)
           /\ IdOf(commit) \in Nat /\ (commit.payload = None => IdOf(commit) = Len(commits) + 1)
           /\ heads' = [heads EXCEPT ![branch] = IdOf(commit)]
           /\ heads' \in [Branch -> DOMAIN commits' \cup {None}]
<1> DEFINE id == IdOf(commit)
<1>1. /\ Table(commits) /\ Len(commits) \in Nat /\ DOMAIN commits = 1..Len(commits)
      /\ Len(commits) + 1 \notin DOMAIN commits
  BY TableFacts DEF Types
<1>2. \/ id \in DOMAIN commits /\ commits[id] = commit
      \/ id = Len(commits) + 1
  BY DEF IdOf, ToSet
<1>3. commit.payload = None => id = Len(commits) + 1
  BY DEF IdOf
<1>4. /\ commits' = IF id \in DOMAIN commits THEN commits ELSE Append(commits, commit)
      /\ heads' = [heads EXCEPT ![branch] = id]
  BY DEF Store
<1> HIDE DEF id
<1>5. /\ Table(commits') /\ DOMAIN commits \subseteq DOMAIN commits'
      /\ \A n \in DOMAIN commits : commits'[n] = commits[n]
      /\ id \in DOMAIN commits' /\ commits'[id] = commit
      /\ \A n \in DOMAIN commits' \ DOMAIN commits : n = id
  <2>1. CASE id \in DOMAIN commits
    BY <1>1, <1>2, <1>4, <2>1
  <2>2. CASE id \notin DOMAIN commits
    BY <1>1, <1>2, <1>4, <2>2, TableAppend
  <2> QED
    BY <2>1, <2>2
<1>6. heads' \in [Branch -> DOMAIN commits' \cup {None}]
  BY <1>4, <1>5 DEF Types
<1>7. id \in Nat
  BY <1>1, <1>2
<1> QED
  BY <1>3, <1>4, <1>5, <1>6, <1>7 DEF id

\* Steps that neither commit a result nor finalise a row.
LEMMA QuietStep ==
    ASSUME RInv, merges' = merges, crashed' = crashed,
           request' \in [Client -> Request'],
           \A c \in Client : request'[c] = request[c]
                              \/ (request[c].op # "done" /\ request'[c].op # "done"),
           Table(commits'), DOMAIN commits \subseteq DOMAIN commits',
           \A n \in DOMAIN commits : commits'[n] = commits[n],
           \A n \in DOMAIN commits' \ DOMAIN commits : commits'[n].merge = 0,
           heads' \in [Branch -> DOMAIN commits' \cup {None}]
    PROVE  RInv'
<1>1. Types'
  <2>1. ASSUME NEW m \in DOMAIN merges
        PROVE  IsRow(merges[m])'
    BY DEF RInv, Types, IsRow
  <2>2. \A n \in DOMAIN commits' : commits'[n].merge \in DOMAIN merges' \cup {0}
    BY DEF RInv, Types
  <2> QED
    BY <2>1, <2>2 DEF RInv, Types
<1>2. 0 \notin DOMAIN merges
  BY TableFacts DEF RInv, Types
<1>3. ASSUME NEW m \in DOMAIN merges
      PROVE  ResultsOf(m)' = ResultsOf(m)
  BY <1>2, <1>3 DEF ResultsOf
<1>4. ASSUME NEW c \in Client, request'[c].op = "done"
      PROVE  IsResult(request[c].result, request[c].merge, request[c].choice)'
  <2>1. request'[c] = request[c] /\ request[c].op = "done" /\ request[c] \in Request
    BY <1>4 DEF RInv, Types
  <2>2. PICK n, m, choice : n = request[c].result /\ m = request[c].merge /\ choice = request[c].choice
    OBVIOUS
  <2>3. m \in DOMAIN merges
    BY <2>1, <2>2 DEF Request, Idle
  <2>4. IsResult(n, m, choice)
    BY <2>1, <2>2 DEF RInv, DoneMatches
  <2>5. n \in DOMAIN commits /\ n \in ResultsOf(m)' /\ commits'[n] = commits[n]
    BY <1>3, <2>3, <2>4 DEF IsResult, ResultsOf
  <2>6. /\ commits'[n].parents = <<merges'[m].ours, merges'[m].theirs>>
        /\ commits'[n].choice = choice
    BY <2>4, <2>5 DEF IsResult
  <2>7. IsResult(n, m, choice)'
    BY <2>5, <2>6 DEF IsResult
  <2> QED
    BY <2>1, <2>2, <2>7
<1>5. RowMatchesItsCommit'
  <2>1. ASSUME NEW m \in DOMAIN merges, merges[m].state = "resolved"
        PROVE  /\ merges[m].result \in ResultsOf(m) /\ merges[m].result \in DOMAIN commits
               /\ commits[merges[m].result].parents = <<merges[m].ours, merges[m].theirs>>
               /\ commits[merges[m].result].choice = merges[m].resolution
    BY <2>1 DEF RInv, ReviewIsRecorded, RowMatchesItsCommit, ResultsOf
  <2> QED
    BY <1>3, <2>1 DEF RowMatchesItsCommit
<1>6. RecordedUnlessCrashed'
  <2>1. ASSUME NEW m \in DOMAIN merges, ResultsOf(m) # {}
        PROVE  \/ merges[m].state = "resolved"
               \/ \E c \in Client : request'[c].op = "done" /\ request'[c].merge = m
               \/ crashed
    BY <2>1 DEF RInv, ReviewIsRecorded, RecordedUnlessCrashed
  <2> QED
    BY <1>3, <2>1 DEF RecordedUnlessCrashed
<1>7. DoneMatches'
  BY <1>4 DEF DoneMatches
<1> QED
  BY <1>1, <1>5, <1>6, <1>7 DEF RInv, ReviewIsRecorded

\* The tables stand and one request goes on; its answer may be Idle.
LEMMA RequestGoesOn ==
    ASSUME RInv, UNCHANGED <<commits, heads, merges, crashed>>,
           NEW c \in Client, NEW r \in Request, request' = [request EXCEPT ![c] = r],
           request[c].op # "done", r.op # "done"
    PROVE  RInv'
<1>1. Request' = Request
  BY DEF Request
<1>2. request' \in [Client -> Request']
  BY <1>1 DEF RInv, Types
<1>3. \A d \in Client : request'[d] = request[d]
                        \/ (request[d].op # "done" /\ request'[d].op # "done")
  BY DEF RInv, Types
<1>4. Table(commits') /\ heads' \in [Branch -> DOMAIN commits' \cup {None}]
  BY DEF RInv, Types
<1> QED
  BY <1>2, <1>3, <1>4, QuietStep

\* A plain commit or a clean merge is stored, or refused, and answered.
LEMMA StoreAndAnswer ==
    ASSUME RInv, NEW c \in Client, request[c].op # "done", Answer(c),
           NEW branch \in Branch, NEW expected, NEW commit, commit.merge = 0,
           Store(branch, expected, commit) \/ Refused(branch, expected, commit),
           UNCHANGED <<merges, crashed>>
    PROVE  RInv'
<1>1. /\ Table(commits') /\ DOMAIN commits \subseteq DOMAIN commits'
      /\ \A n \in DOMAIN commits : commits'[n] = commits[n]
      /\ \A n \in DOMAIN commits' \ DOMAIN commits : commits'[n].merge = 0
      /\ heads' \in [Branch -> DOMAIN commits' \cup {None}]
  <2>1. CASE Store(branch, expected, commit)
    BY <2>1, StoreFacts DEF RInv
  <2>2. CASE Refused(branch, expected, commit)
    BY <2>2 DEF Refused, RInv, Types
  <2> QED
    BY <2>1, <2>2
<1>2. request' = [request EXCEPT ![c] = Idle] /\ Idle.op # "done"
  BY DEF Answer, Idle
<1>3. \A r \in Request : r \in Request'
  BY <1>1 DEF Request
<1>4. request' \in [Client -> Request']
  BY <1>2, <1>3 DEF RInv, Types, Request
<1>5. \A d \in Client : request'[d] = request[d]
                        \/ (request[d].op # "done" /\ request'[d].op # "done")
  BY <1>2 DEF RInv, Types
<1> QED
  BY <1>1, <1>4, <1>5, QuietStep

LEMMA HeadFacts ==
    ASSUME RInv, NEW b \in Branch, heads[b] # None
    PROVE  heads[b] \in DOMAIN commits
BY DEF RInv, Types

LEMMA CreateBranchKeeps ==
    ASSUME RInv, NEW b \in Branch, NEW n \in DOMAIN commits, CreateBranch(b, n) PROVE RInv'
<1>1. UNCHANGED <<commits, merges, request, crashed>> /\ heads' = [heads EXCEPT ![b] = n]
  BY DEF CreateBranch
<1>2. Request' = Request
  BY <1>1 DEF Request
<1>3. request' \in [Client -> Request'] /\ Table(commits')
      /\ heads' \in [Branch -> DOMAIN commits' \cup {None}]
  BY <1>1, <1>2 DEF RInv, Types
<1> QED
  BY <1>1, <1>3, QuietStep

LEMMA BeginCommitKeeps ==
    ASSUME RInv, NEW c \in Client, NEW b \in Branch, NEW p \in Payload, BeginCommit(c, b, p)
    PROVE  RInv'
<1> DEFINE r == [op |-> "commit", branch |-> b, base |-> heads[b], payload |-> p]
<1>1. r \in Request /\ r.op # "done"
  BY HeadFacts DEF BeginCommit, Request
<1>2. request[c].op # "done" /\ request' = [request EXCEPT ![c] = r]
  BY DEF BeginCommit, Idle
<1> QED
  BY <1>1, <1>2, RequestGoesOn DEF BeginCommit

LEMMA EndCommitKeeps == ASSUME RInv, NEW c \in Client, EndCommit(c) PROVE RInv'
<1> DEFINE r == request[c]
           expected == IF BlindCommits THEN heads[r.branch] ELSE r.base
           commit == PlainCommit(r.base, r.payload)
<1>1. /\ r.op = "commit" /\ Answer(c) /\ UNCHANGED <<merges, crashed>>
      /\ Store(r.branch, expected, commit) \/ Refused(r.branch, expected, commit)
  BY DEF EndCommit
<1>2. r \in Request
  BY DEF RInv, Types
<1>3. r.branch \in Branch
  BY <1>1, <1>2 DEF Request, Idle
<1>4. commit.merge = 0
  BY DEF PlainCommit
<1> HIDE DEF r, expected, commit
<1> QED
  BY <1>1, <1>3, <1>4, StoreAndAnswer DEF r

LEMMA ReadOursKeeps ==
    ASSUME RInv, NEW c \in Client, NEW o \in Branch, NEW t \in Branch,
           ReadOurs(c, o, t)
    PROVE  RInv'
<1> DEFINE r == [op |-> "ours", target |-> o, from |-> t, ours |-> heads[o]]
<1>1. r \in Request /\ r.op # "done"
  BY HeadFacts DEF ReadOurs, Request
<1>2. request[c].op # "done" /\ request' = [request EXCEPT ![c] = r]
  BY DEF ReadOurs, Idle
<1> QED
  BY <1>1, <1>2, RequestGoesOn DEF ReadOurs

LEMMA ReadTheirsKeeps == ASSUME RInv, NEW c \in Client, ReadTheirs(c) PROVE RInv'
<1> DEFINE old == request[c]
           new == [op |-> "heads", target |-> old.target, ours |-> old.ours,
                   theirs |-> heads[old.from]]
           r == IF heads[old.from] = None THEN Idle ELSE new
<1>1. old.op = "ours" /\ old \in Request
  BY DEF ReadTheirs, RInv, Types
<1>2. old.target \in Branch /\ old.from \in Branch /\ old.ours \in DOMAIN commits
  BY <1>1 DEF Request, Idle
<1>3. heads[old.from] # None => new \in Request
  BY <1>2, HeadFacts DEF Request
<1>4. r \in Request /\ r.op # "done"
  BY <1>3 DEF Request, Idle
<1>5. request' = [request EXCEPT ![c] = r]
  BY DEF ReadTheirs
<1> QED
  BY <1>1, <1>4, <1>5, RequestGoesOn DEF ReadTheirs

LEMMA MergeCleanlyKeeps == ASSUME RInv, NEW c \in Client, MergeCleanly(c) PROVE RInv'
<1> DEFINE r == request[c]
           commit == MergeCommit(r.ours, r.theirs, 0, None)
<1>1. /\ r.op = "heads" /\ Answer(c) /\ UNCHANGED <<merges, crashed>>
      /\ Store(r.target, r.ours, commit) \/ Refused(r.target, r.ours, commit)
  BY DEF MergeCleanly
<1>2. r \in Request
  BY DEF RInv, Types
<1>3. r.target \in Branch
  BY <1>1, <1>2 DEF Request, Idle
<1>4. commit.merge = 0
  BY DEF MergeCommit
<1> HIDE DEF r, commit
<1> QED
  BY <1>1, <1>3, <1>4, StoreAndAnswer DEF r

LEMMA BeginResolveKeeps ==
    ASSUME RInv, NEW c \in Client, NEW m \in DOMAIN merges, NEW choice \in Resolution,
           BeginResolve(c, m, choice)
    PROVE  RInv'
<1> DEFINE r == [op |-> "row", merge |-> m, choice |-> choice]
<1>1. r \in Request /\ r.op # "done"
  BY DEF Request
<1>2. request[c].op # "done" /\ request' = [request EXCEPT ![c] = r]
  BY DEF BeginResolve, Idle
<1> QED
  BY <1>1, <1>2, RequestGoesOn DEF BeginResolve

LEMMA CheckTargetKeeps == ASSUME RInv, NEW c \in Client, CheckTarget(c) PROVE RInv'
<1> DEFINE old == request[c]
           row == merges[old.merge]
           new == [old EXCEPT !.op = "checked"]
           r == IF heads[row.target] # row.ours THEN Idle ELSE new
<1>1. old.op = "row" /\ old \in Request
  BY DEF CheckTarget, RInv, Types
<1>2. new \in Request /\ new.op = "checked"
  BY <1>1 DEF Request, Idle
<1>3. r \in Request /\ r.op # "done"
  BY <1>2 DEF Request, Idle
<1>4. request' = [request EXCEPT ![c] = r]
  BY DEF CheckTarget, RInv, Types
<1> QED
  BY <1>1, <1>3, <1>4, RequestGoesOn DEF CheckTarget

\* A merge of a commit with itself has that commit as its base and is clean.
LEMMA ConflictingHeadsDiffer ==
    ASSUME NEW n, NEW b \in MergeBases(commits, n, n)
    PROVE  ~MayConflict(b, n, n)
BY DEF MergeBases, MayConflict

LEMMA OpenReviewKeeps == ASSUME RInv, NEW c \in Client, OpenReview(c) PROVE RInv'
<1> DEFINE r == request[c]
           new == Len(merges) + 1
<1>1. /\ r.op = "heads" /\ r \in Request /\ request' = [request EXCEPT ![c] = Idle]
      /\ UNCHANGED <<commits, heads, crashed>>
  BY DEF OpenReview, Answer, RInv, Types
<1>2. PICK b \in MergeBases(commits, r.ours, r.theirs) :
        /\ MayConflict(b, r.ours, r.theirs)
        /\ merges' = Append(merges,
              [base |-> b, ours |-> r.ours, theirs |-> r.theirs, target |-> r.target,
               state |-> "conflicts", result |-> None, resolution |-> None])
  BY DEF OpenReview
<1> DEFINE row == [base |-> b, ours |-> r.ours, theirs |-> r.theirs, target |-> r.target,
                   state |-> "conflicts", result |-> None, resolution |-> None]
<1>3. r.target \in Branch /\ r.ours \in DOMAIN commits /\ r.theirs \in DOMAIN commits
  BY <1>1 DEF Request, Idle
<1>4. r.ours # r.theirs
  BY <1>2, ConflictingHeadsDiffer
<1>5. IsRow(row) /\ row.state # "resolved"
  BY <1>3, <1>4 DEF IsRow
<1>6. /\ Table(merges') /\ DOMAIN merges' = DOMAIN merges \cup {new}
      /\ \A m \in DOMAIN merges : merges'[m] = merges[m]
      /\ merges'[new] = row /\ new \notin DOMAIN merges /\ new # 0
  BY <1>2, TableAppend, TableFacts DEF RInv, Types
<1> HIDE DEF r, row, new
<1>7. Types'
  <2>1. ASSUME NEW m \in DOMAIN merges'
        PROVE  IsRow(merges[m])'
    <3>1. IsRow(merges'[m])
      BY <1>5, <1>6 DEF RInv, Types
    <3> QED
      BY <1>1, <3>1 DEF IsRow
  <2>2. Idle \in Request' /\ \A q \in Request : q \in Request'
    BY <1>1, <1>6 DEF Request
  <2>3. request' \in [Client -> Request']
    BY <1>1, <2>2 DEF RInv, Types
  <2> QED
    BY <1>1, <1>6, <2>1, <2>3 DEF RInv, Types
<1>8. \A m : ResultsOf(m)' = ResultsOf(m)
  BY <1>1 DEF ResultsOf
<1>9. ResultsOf(new) = {}
  BY <1>6 DEF RInv, Types, ResultsOf
<1>10. DoneMatches'
  <2>1. ASSUME NEW d \in Client, request'[d].op = "done"
        PROVE  IsResult(request[d].result, request[d].merge, request[d].choice)'
    <3>1. request'[d] = request[d] /\ request[d] \in Request /\ request[d].op = "done"
      BY <1>1, <2>1 DEF RInv, Types, Idle
    <3>2. PICK n, m, choice : n = request[d].result /\ m = request[d].merge /\ choice = request[d].choice
      OBVIOUS
    <3>3. m \in DOMAIN merges /\ IsResult(n, m, choice)
      BY <3>1, <3>2 DEF Request, Idle, RInv, DoneMatches
    <3>4. IsResult(n, m, choice)'
      BY <1>1, <1>6, <1>8, <3>3 DEF IsResult
    <3> QED
      BY <3>1, <3>2, <3>4
  <2> QED
    BY <2>1 DEF DoneMatches
<1>11. RowMatchesItsCommit'
  BY <1>1, <1>5, <1>6, <1>8 DEF RInv, ReviewIsRecorded, RowMatchesItsCommit
<1>12. RecordedUnlessCrashed'
  <2>1. ASSUME NEW m \in DOMAIN merges, ResultsOf(m) # {}
        PROVE  \/ merges[m].state = "resolved"
               \/ \E d \in Client : request'[d].op = "done" /\ request'[d].merge = m
               \/ crashed
    <3>1. \A d \in Client : request[d].op = "done" => request'[d] = request[d]
      BY <1>1 DEF RInv, Types, r
    <3> QED
      BY <2>1, <3>1 DEF RInv, ReviewIsRecorded, RecordedUnlessCrashed
  <2> QED
    BY <1>1, <1>6, <1>8, <1>9, <2>1 DEF RecordedUnlessCrashed
<1> QED
  BY <1>7, <1>10, <1>11, <1>12 DEF RInv, ReviewIsRecorded

LEMMA CommitResolutionKeeps == ASSUME RInv, NEW c \in Client, CommitResolution(c) PROVE RInv'
<1> DEFINE r == request[c]
           row == merges[r.merge]
           commit == MergeCommit(row.ours, row.theirs, r.merge, r.choice)
           done == [op |-> "done", merge |-> r.merge, choice |-> r.choice, result |-> IdOf(commit)]
<1>1. /\ r.op = "checked" /\ r \in Request /\ UNCHANGED <<merges, crashed>>
      /\ \/ /\ Store(row.target, row.ours, commit)
            /\ request' = [request EXCEPT ![c] = done]
         \/ Refused(row.target, row.ours, commit) /\ Answer(c)
  BY DEF CommitResolution, RInv, Types
<1>2. r.merge \in DOMAIN merges /\ r.choice \in Resolution
  BY <1>1 DEF Request, Idle
<1>3. IsRow(row)
  BY <1>2 DEF RInv, Types
<1>4. row.target \in Branch /\ row.ours # row.theirs
  BY <1>3 DEF IsRow
<1>5. CASE Refused(row.target, row.ours, commit) /\ Answer(c)
  <2>1. UNCHANGED <<commits, heads>> /\ request' = [request EXCEPT ![c] = Idle]
    BY <1>5 DEF Refused, Answer
  <2>2. Idle \in Request /\ Idle.op # "done"
    BY DEF Request, Idle
  <2> QED
    BY <1>1, <2>1, <2>2, RequestGoesOn
<1>6. CASE Store(row.target, row.ours, commit) /\ request' = [request EXCEPT ![c] = done]
  <2>1. PICK n, m, choice : n = IdOf(commit) /\ m = r.merge /\ choice = r.choice
    OBVIOUS
  <2>2. /\ commit.parents = <<row.ours, row.theirs>> /\ commit.choice = choice
        /\ commit.merge = m /\ commit.payload = None
    BY <1>4, <2>1 DEF MergeCommit
  <2> HIDE DEF commit
  <2>3. /\ Table(commits') /\ DOMAIN commits \subseteq DOMAIN commits'
        /\ \A k \in DOMAIN commits : commits'[k] = commits[k]
        /\ n \in DOMAIN commits' /\ commits'[n] = commit
        /\ \A k \in DOMAIN commits' \ DOMAIN commits : k = n
        /\ heads' \in [Branch -> DOMAIN commits' \cup {None}]
    BY <1>4, <1>6, <2>1, StoreFacts DEF RInv
  <2>4. done \in Request' /\ done.op = "done"
    BY <1>1, <1>2, <2>1, <2>3 DEF Request
  <2>5. Types'
    <3>1. \A q \in Request : q \in Request'
      BY <1>1, <2>3 DEF Request
    <3>2. request' \in [Client -> Request']
      BY <1>6, <2>4, <3>1 DEF RInv, Types
    <3>3. ASSUME NEW k \in DOMAIN merges
          PROVE  IsRow(merges[k])'
      BY <1>1, <2>3 DEF RInv, Types, IsRow
    <3>4. \A k \in DOMAIN commits' : commits'[k].merge \in DOMAIN merges' \cup {0}
      BY <1>1, <1>2, <2>1, <2>2, <2>3 DEF RInv, Types
    <3> QED
      BY <1>1, <2>3, <3>2, <3>3, <3>4 DEF RInv, Types
  <2>6. ASSUME NEW k
        PROVE  ResultsOf(k) \subseteq ResultsOf(k)' /\ (k # m => ResultsOf(k)' = ResultsOf(k))
    BY <2>2, <2>3 DEF ResultsOf
  <2>7. IsResult(n, m, choice)'
    <3>1. n \in ResultsOf(m)'
      BY <2>2, <2>3 DEF ResultsOf
    <3> QED
      BY <1>1, <2>1, <2>2, <2>3, <3>1 DEF IsResult
  <2>8. request'[c] = done /\ \A d \in Client \ {c} : request'[d] = request[d]
    BY <1>6 DEF RInv, Types
  <2>9. DoneMatches'
    <3>1. ASSUME NEW d \in Client \ {c}, request'[d].op = "done"
          PROVE  IsResult(request[d].result, request[d].merge, request[d].choice)'
      <4>1. request'[d] = request[d] /\ request[d].op = "done"
        BY <2>8, <3>1
      <4>2. PICK i, j, w : i = request[d].result /\ j = request[d].merge /\ w = request[d].choice
        OBVIOUS
      <4>3. IsResult(i, j, w)
        BY <4>1, <4>2 DEF RInv, DoneMatches
      <4>4. i \in DOMAIN commits /\ i \in ResultsOf(j)'
        BY <2>6, <4>3 DEF IsResult, ResultsOf
      <4>5. IsResult(i, j, w)'
        BY <1>1, <2>3, <4>3, <4>4 DEF IsResult
      <4> QED
        BY <4>1, <4>2, <4>5
    <3>2. IsResult(request[c].result, request[c].merge, request[c].choice)'
      BY <2>1, <2>7, <2>8
    <3> QED
      BY <3>1, <3>2 DEF DoneMatches
  <2>10. RowMatchesItsCommit'
    <3>1. ASSUME NEW k \in DOMAIN merges, merges[k].state = "resolved"
          PROVE  /\ merges[k].result \in ResultsOf(k)' /\ merges[k].result \in DOMAIN commits
                 /\ commits[merges[k].result].parents = <<merges[k].ours, merges[k].theirs>>
                 /\ commits[merges[k].result].choice = merges[k].resolution
      <4>1. merges[k].result \in ResultsOf(k)
        BY <3>1 DEF RInv, ReviewIsRecorded, RowMatchesItsCommit
      <4> QED
        BY <2>6, <3>1, <4>1 DEF RInv, ReviewIsRecorded, RowMatchesItsCommit, ResultsOf
    <3> QED
      BY <1>1, <2>3, <3>1 DEF RowMatchesItsCommit
  <2>11. RecordedUnlessCrashed'
    <3>1. ASSUME NEW k \in DOMAIN merges, ResultsOf(k)' # {}, k # m
          PROVE  \/ merges[k].state = "resolved"
                 \/ \E d \in Client : request'[d].op = "done" /\ request'[d].merge = k
                 \/ crashed
      <4>1. ResultsOf(k) # {}
        BY <2>6, <3>1
      <4>2. \A d \in Client : request[d].op = "done" => request'[d] = request[d]
        BY <1>1, <2>8
      <4> QED
        BY <3>1, <4>1, <4>2 DEF RInv, ReviewIsRecorded, RecordedUnlessCrashed
    <3>2. request'[c].op = "done" /\ request'[c].merge = m
      BY <2>1, <2>8
    <3> QED
      BY <1>1, <3>1, <3>2 DEF RecordedUnlessCrashed
  <2> QED
    BY <2>5, <2>9, <2>10, <2>11 DEF RInv, ReviewIsRecorded
<1> QED
  BY <1>1, <1>5, <1>6

LEMMA FinaliseKeeps == ASSUME RInv, NEW c \in Client, Finalise(c) PROVE RInv'
<1>1. PICK n, m, choice :
        n = request[c].result /\ m = request[c].merge /\ choice = request[c].choice
  OBVIOUS
<1> DEFINE row == merges[m]
           new == [base |-> row.base, ours |-> row.ours, theirs |-> row.theirs, target |-> row.target,
                   state |-> "resolved", result |-> n, resolution |-> choice]
<1>2. /\ request[c].op = "done" /\ request[c] \in Request
      /\ request' = [request EXCEPT ![c] = Idle] /\ UNCHANGED <<commits, heads, crashed>>
  BY DEF Finalise, Answer, RInv, Types
<1>3. m \in DOMAIN merges /\ choice \in Resolution /\ n \in DOMAIN commits
  BY <1>1, <1>2 DEF Request, Idle
<1>4. IsResult(n, m, choice)
  BY <1>1, <1>2 DEF RInv, DoneMatches
<1>5. IsRow(row)
  BY <1>3 DEF RInv, Types
<1>6. merges' = [merges EXCEPT ![m] = new]
  <2>1. merges' = [merges EXCEPT ![m].resolution = choice, ![m].result = n, ![m].state = "resolved"]
    BY <1>1 DEF Finalise
  <2>2. [row EXCEPT !.resolution = choice, !.result = n, !.state = "resolved"] = new
    <3> DEFINE next == [row EXCEPT !.resolution = choice, !.result = n, !.state = "resolved"]
               fields == {"base", "ours", "theirs", "target", "state", "result", "resolution"}
    <3>1. DOMAIN row = fields /\ row = [f \in fields |-> row[f]]
      BY <1>5 DEF IsRow
    <3>2. next = [f \in fields |-> next[f]]
      BY <3>1
    <3>3. /\ next.base = row.base /\ next.ours = row.ours /\ next.theirs = row.theirs
          /\ next.target = row.target /\ next.state = "resolved" /\ next.result = n
          /\ next.resolution = choice
      BY <3>1
    <3>4. new = [f \in fields |-> new[f]]
      OBVIOUS
    <3>5. /\ new.base = row.base /\ new.ours = row.ours /\ new.theirs = row.theirs
          /\ new.target = row.target /\ new.state = "resolved" /\ new.result = n
          /\ new.resolution = choice
      OBVIOUS
    <3> HIDE DEF next, new
    <3>6. \A f \in fields : next[f] = new[f]
      BY <3>3, <3>5
    <3> HIDE DEF fields
    <3>7. [f \in fields |-> next[f]] = [f \in fields |-> new[f]]
      BY <3>6
    <3>8. next = new
      BY <3>2, <3>4, <3>7
    <3> QED
      BY <3>8 DEF next
  <2> QED
    BY <1>3, <2>1, <2>2
<1>7. IsRow(new)
  BY <1>3, <1>5 DEF IsRow
<1>8. /\ Table(merges') /\ DOMAIN merges' = DOMAIN merges
      /\ merges'[m] = new /\ \A k \in DOMAIN merges \ {m} : merges'[k] = merges[k]
  <2> HIDE DEF new
  <2> QED
    BY <1>3, <1>6, TableExcept DEF RInv, Types
<1>9. \A k \in DOMAIN merges : merges'[k].ours = merges[k].ours /\ merges'[k].theirs = merges[k].theirs
  BY <1>8
<1>10. \A k : ResultsOf(k)' = ResultsOf(k)
  BY <1>2 DEF ResultsOf
<1>11. Types'
  <2>1. Request' = Request
    BY <1>2, <1>8 DEF Request
  <2>2. request' \in [Client -> Request']
    BY <1>2, <2>1 DEF RInv, Types, Request
  <2>3. ASSUME NEW k \in DOMAIN merges
        PROVE  IsRow(merges[k])'
    <3>1. IsRow(merges'[k])
      BY <1>7, <1>8 DEF RInv, Types
    <3> QED
      BY <1>2, <3>1 DEF IsRow
  <2> QED
    BY <1>2, <1>8, <2>2, <2>3 DEF RInv, Types
<1>12. DoneMatches'
  <2>1. ASSUME NEW d \in Client, request'[d].op = "done"
        PROVE  IsResult(request[d].result, request[d].merge, request[d].choice)'
    <3>1. request'[d] = request[d] /\ request[d] \in Request /\ request[d].op = "done"
      BY <1>2, <2>1 DEF RInv, Types, Idle
    <3>2. PICK i, j, w : i = request[d].result /\ j = request[d].merge /\ w = request[d].choice
      OBVIOUS
    <3>3. j \in DOMAIN merges /\ IsResult(i, j, w)
      BY <3>1, <3>2 DEF Request, Idle, RInv, DoneMatches
    <3>4. IsResult(i, j, w)'
      BY <1>2, <1>9, <1>10, <3>3 DEF IsResult
    <3> QED
      BY <3>1, <3>2, <3>4
  <2> QED
    BY <2>1 DEF DoneMatches
<1>13. RowMatchesItsCommit'
  <2>1. ASSUME NEW k \in DOMAIN merges, merges'[k].state = "resolved"
        PROVE  IsResult(merges'[k].result, k, merges'[k].resolution)
    <3>1. CASE k = m
      BY <1>4, <1>8, <3>1
    <3>2. CASE k # m
      BY <1>8, <2>1, <3>2 DEF IsResult, RInv, ReviewIsRecorded, RowMatchesItsCommit
    <3> QED
      BY <3>1, <3>2
  <2> QED
    BY <1>2, <1>8, <1>9, <1>10, <2>1 DEF RowMatchesItsCommit, IsResult
<1>14. RecordedUnlessCrashed'
  <2>1. ASSUME NEW k \in DOMAIN merges, ResultsOf(k) # {}, k # m
        PROVE  \/ merges'[k].state = "resolved"
               \/ \E d \in Client : request'[d].op = "done" /\ request'[d].merge = k
               \/ crashed
    <3>1. \A d \in Client : request[d].op = "done" /\ request[d].merge = k => request'[d] = request[d]
      BY <1>1, <1>2, <2>1 DEF RInv, Types
    <3> QED
      BY <1>8, <2>1, <3>1 DEF RInv, ReviewIsRecorded, RecordedUnlessCrashed
  <2>2. merges'[m].state = "resolved"
    BY <1>8
  <2> QED
    BY <1>2, <1>8, <1>10, <2>1, <2>2 DEF RecordedUnlessCrashed
<1> QED
  BY <1>11, <1>12, <1>13, <1>14 DEF RInv, ReviewIsRecorded

\* A crash forgets the requests and leaves the tables.
LEMMA CrashKeeps == ASSUME RInv, Crash PROVE RInv'
<1>1. /\ request' = [c \in Client |-> Idle] /\ crashed' = TRUE
      /\ UNCHANGED <<commits, heads, merges>>
  BY DEF Crash
<1>2. Types'
  BY <1>1 DEF RInv, Types, Request, IsRow
<1>3. DoneMatches'
  BY <1>1 DEF DoneMatches, Idle
<1>4. RowMatchesItsCommit'
  BY <1>1 DEF RInv, ReviewIsRecorded, RowMatchesItsCommit, ResultsOf
<1>5. RecordedUnlessCrashed'
  BY <1>1 DEF RecordedUnlessCrashed
<1> QED
  BY <1>2, <1>3, <1>4, <1>5 DEF RInv, ReviewIsRecorded

LEMMA InitHolds == Init => RInv
<1>1. SUFFICES ASSUME Init PROVE RInv
  OBVIOUS
<1> DEFINE root == [parents |-> <<>>, payload |-> None, merge |-> 0, choice |-> None]
<1>2. /\ Len(commits) = 1 /\ DOMAIN commits = {1} /\ commits[1] = root /\ Table(commits)
  <2>1. commits = <<root>>
    BY <1>1 DEF Init
  <2>2. commits \in Seq({root}) /\ Len(commits) = 1 /\ commits[1] = root
    BY <2>1
  <2>3. DOMAIN commits = {1}
    BY <2>2, LenProperties
  <2> HIDE DEF root
  <2>4. {commits[k] : k \in DOMAIN commits} = {root}
    BY <2>2, <2>3
  <2> QED
    BY <2>2, <2>3, <2>4 DEF Table
<1>3. DOMAIN merges = {} /\ Table(merges)
  BY <1>1, EmptySeq DEF Init, Table
<1>4. Types
  BY <1>1, <1>2, <1>3 DEF Init, Types, Request
<1>5. DoneMatches
  BY <1>1 DEF Init, DoneMatches, Idle
<1> QED
  BY <1>3, <1>4, <1>5 DEF RInv, ReviewIsRecorded, RowMatchesItsCommit, RecordedUnlessCrashed

LEMMA StepKeeps == RInv /\ [Next]_vars => RInv'
<1>1. SUFFICES ASSUME RInv, [Next]_vars PROVE RInv'
  OBVIOUS
<1>2. CASE UNCHANGED vars
  <2>1. UNCHANGED <<commits, heads, merges, request, crashed>>
    BY <1>2 DEF vars
  <2>2. request' \in [Client -> Request'] /\ Table(commits')
        /\ heads' \in [Branch -> DOMAIN commits' \cup {None}]
    BY <1>1, <2>1 DEF RInv, Types, Request
  <2> QED
    BY <1>1, <2>1, <2>2, QuietStep
<1>3. ASSUME NEW b \in Branch, NEW n \in DOMAIN commits, CreateBranch(b, n)
      PROVE  RInv'
  BY <1>1, <1>3, CreateBranchKeeps
<1>4. ASSUME NEW c \in Client,
             \/ \E b \in Branch, p \in Payload : BeginCommit(c, b, p)
             \/ EndCommit(c)
             \/ \E o, t \in Branch : ReadOurs(c, o, t)
             \/ ReadTheirs(c) \/ MergeCleanly(c) \/ OpenReview(c)
             \/ \E m \in DOMAIN merges, choice \in Resolution : BeginResolve(c, m, choice)
             \/ CheckTarget(c) \/ CommitResolution(c) \/ Finalise(c)
      PROVE  RInv'
  BY <1>1, <1>4, BeginCommitKeeps, EndCommitKeeps, ReadOursKeeps, ReadTheirsKeeps,
     MergeCleanlyKeeps, OpenReviewKeeps, BeginResolveKeeps, CheckTargetKeeps,
     CommitResolutionKeeps, FinaliseKeeps
<1>5. CASE Crash
  BY <1>1, <1>5, CrashKeeps
<1> QED
  BY <1>1, <1>2, <1>3, <1>4, <1>5 DEF Next, Resolution

LEMMA InvariantHolds == Spec => []RInv
BY InitHolds, StepKeeps, PTL DEF Spec

\* A resolved row names a commit of the two reviewed heads made of the resolutions the
\* row records, and only a crash leaves a committed result without its resolved row,
\* however many people resolve it at once (resolve_merge, api/main.py).
THEOREM ReviewsAreRecorded == Spec => []ReviewIsRecorded
<1>1. RInv => ReviewIsRecorded
  BY DEF RInv
<1> QED
  BY <1>1, InvariantHolds, PTL

-----------------------------------------------------------------------------
(* A review has one result.  Commits are numbered as they are written, so  *)
(* that a branch whose commits all name their base only moves to higher    *)
(* numbers: once a result is on the branch, the reviewed head is behind it *)
(* for good, and no second result passes the compare-and-swap.             *)

Single ==
    /\ \A n \in DOMAIN commits : commits[n].payload # None =>
          \E p \in DOMAIN commits : commits[n].parents = <<p>> /\ p < n
    /\ \A m \in DOMAIN merges : \A n \in ResultsOf(m) :
          /\ heads[merges[m].target] # None /\ merges[m].ours < heads[merges[m].target]
          /\ \A k \in ResultsOf(m) : k = n

HeadsGrow ==
    \A b \in Branch : heads[b] # None => heads'[b] # None /\ heads[b] <= heads'[b]

\* A step that lets the heads grow and commits no result.
LEMMA SingleStays ==
    ASSUME RInv, RInv', Single, HeadsGrow,
           DOMAIN merges \subseteq DOMAIN merges',
           \A m \in DOMAIN merges : merges'[m].ours = merges[m].ours /\ merges'[m].target = merges[m].target,
           \A m \in DOMAIN merges : ResultsOf(m)' = ResultsOf(m),
           \A m \in DOMAIN merges' \ DOMAIN merges : ResultsOf(m)' = {},
           DOMAIN commits \subseteq DOMAIN commits',
           \A n \in DOMAIN commits : commits'[n] = commits[n],
           \A n \in DOMAIN commits' \ DOMAIN commits : commits'[n].payload # None =>
              \E p \in DOMAIN commits' : commits'[n].parents = <<p>> /\ p < n
    PROVE  Single'
<1>1. ASSUME NEW n \in DOMAIN commits', commits'[n].payload # None
      PROVE  \E p \in DOMAIN commits' : commits'[n].parents = <<p>> /\ p < n
  BY <1>1 DEF Single
<1>2. ASSUME NEW m \in DOMAIN merges, NEW n \in ResultsOf(m)
      PROVE  /\ heads'[merges[m].target] # None /\ merges[m].ours < heads'[merges[m].target]
             /\ \A k \in ResultsOf(m) : k = n
  <2> DEFINE b == merges[m].target
  <2>1. IsRow(merges[m]) /\ DOMAIN commits = 1..Len(commits) /\ DOMAIN commits' = 1..Len(commits')
    BY <1>2, TableFacts DEF RInv, Types
  <2>2. b \in Branch /\ merges[m].ours \in Nat
    BY <2>1 DEF IsRow
  <2>3. heads[b] # None /\ merges[m].ours < heads[b] /\ \A k \in ResultsOf(m) : k = n
    BY <1>2 DEF Single
  <2>4. heads'[b] # None /\ heads[b] <= heads'[b]
    BY <2>2, <2>3 DEF HeadsGrow
  <2>5. heads[b] \in Nat /\ heads'[b] \in Nat
    BY <2>1, <2>2, <2>3, <2>4 DEF RInv, Types
  <2> QED
    BY <2>2, <2>3, <2>4, <2>5
<1>3. ASSUME NEW m \in DOMAIN merges', NEW n \in ResultsOf(m)'
      PROVE  /\ heads'[merges'[m].target] # None /\ merges'[m].ours < heads'[merges'[m].target]
             /\ \A k \in ResultsOf(m)' : k = n
  BY <1>2, <1>3
<1> QED
  BY <1>1, <1>3 DEF Single

LEMMA NoMoveSingle ==
    ASSUME RInv, RInv', Single, UNCHANGED <<commits, heads>>,
           DOMAIN merges \subseteq DOMAIN merges',
           \A m \in DOMAIN merges : merges'[m].ours = merges[m].ours /\ merges'[m].target = merges[m].target
    PROVE  Single'
<1>1. HeadsGrow
  BY TableFacts DEF HeadsGrow, RInv, Types
<1>2. \A m : ResultsOf(m)' = ResultsOf(m)
  BY DEF ResultsOf
<1>3. 0 \notin DOMAIN merges'
  BY TableFacts DEF RInv, Types
<1>4. \A m \in DOMAIN merges' \ DOMAIN merges : ResultsOf(m)' = {}
  BY <1>2, <1>3 DEF RInv, Types, ResultsOf
<1> QED
  BY <1>1, <1>2, <1>4, SingleStays

\* A commit stored under a compare-and-swap on its parent moves the branch on.
LEMMA StoreGrows ==
    ASSUME RInv, NEW branch \in Branch, NEW expected \in DOMAIN commits, NEW commit,
           Store(branch, expected, commit), expected <= IdOf(commit)
    PROVE  HeadsGrow
<1> DEFINE id == IdOf(commit)
<1>1. id \in Nat /\ heads' = [heads EXCEPT ![branch] = id]
  BY StoreFacts DEF RInv
<1>2. heads[branch] \in {expected, id}
  BY DEF Store, MayAdvance
<1>3. DOMAIN commits = 1..Len(commits) /\ heads \in [Branch -> DOMAIN commits \cup {None}]
  BY TableFacts DEF RInv, Types
<1> HIDE DEF id
<1>4. heads'[branch] = id /\ \A b \in Branch \ {branch} : heads'[b] = heads[b]
  BY <1>1, <1>3
<1>5. id # None
  BY <1>1, ReviewAssumption
<1>6. expected <= id
  BY DEF id
<1> QED
  BY <1>1, <1>2, <1>3, <1>4, <1>5, <1>6 DEF HeadsGrow

\* A commit that is no result of a review.
LEMMA OtherCommitSingle ==
    ASSUME RInv, RInv', Single, NEW branch \in Branch, NEW expected \in DOMAIN commits, NEW commit,
           Store(branch, expected, commit) \/ Refused(branch, expected, commit), merges' = merges,
           expected <= IdOf(commit), commit.merge = 0,
           commit.payload # None => commit.parents = <<expected>>
    PROVE  Single'
<1>1. CASE Refused(branch, expected, commit)
  BY <1>1, NoMoveSingle DEF Refused
<1>2. CASE Store(branch, expected, commit)
  <2> DEFINE id == IdOf(commit)
  <2>1. /\ DOMAIN commits \subseteq DOMAIN commits' /\ \A n \in DOMAIN commits : commits'[n] = commits[n]
        /\ commits'[id] = commit /\ \A n \in DOMAIN commits' \ DOMAIN commits : n = id
        /\ id \in Nat
    BY <1>2, StoreFacts DEF RInv
  <2>2. HeadsGrow
    BY <1>2, StoreGrows
  <2>3. expected <= id /\ expected \in Nat
    BY TableFacts DEF RInv, Types
  <2> HIDE DEF id
  <2>4. 0 \notin DOMAIN merges
    BY TableFacts DEF RInv, Types
  <2>5. \A m \in DOMAIN merges : ResultsOf(m)' = ResultsOf(m)
    BY <2>1, <2>4 DEF ResultsOf
  <2>6. ASSUME NEW n \in DOMAIN commits' \ DOMAIN commits, commits'[n].payload # None
        PROVE  \E p \in DOMAIN commits' : commits'[n].parents = <<p>> /\ p < n
    <3>1. n = id /\ commits'[n].parents = <<expected>> /\ expected # n
      BY <2>1, <2>6
    <3> QED
      BY <2>1, <2>3, <3>1
  <2> QED
    BY <2>1, <2>2, <2>5, <2>6, SingleStays
<1> QED
  BY <1>1, <1>2

LEMMA EndCommitSingle ==
    ASSUME ~BlindCommits, RInv, RInv', Single, NEW c \in Client, EndCommit(c) PROVE Single'
<1> DEFINE r == request[c]
           commit == PlainCommit(r.base, r.payload)
           id == IdOf(commit)
<1>1. /\ r.op = "commit" /\ merges' = merges /\ r \in Request
      /\ Store(r.branch, r.base, commit) \/ Refused(r.branch, r.base, commit)
  BY DEF EndCommit, RInv, Types
<1>2. r.branch \in Branch /\ r.base \in DOMAIN commits /\ r.payload \in Payload
  BY <1>1 DEF Request, Idle
<1>3. commit.merge = 0 /\ commit.parents = <<r.base>> /\ commit.payload # None
  BY <1>2, ReviewAssumption DEF PlainCommit
<1>4. \/ id \in DOMAIN commits /\ commits[id] = commit
      \/ id = Len(commits) + 1
  BY DEF IdOf, ToSet
<1>5. DOMAIN commits = 1..Len(commits) /\ Len(commits) \in Nat
  BY TableFacts DEF RInv, Types
<1> HIDE DEF r, commit, id
<1>6. CASE id = Len(commits) + 1
  <2>1. r.base <= id
    BY <1>2, <1>5, <1>6
  <2> QED
    BY <1>1, <1>2, <1>3, <2>1, OtherCommitSingle DEF id
<1>7. CASE id \in DOMAIN commits /\ commits[id] = commit
  <2>1. PICK p \in DOMAIN commits : commits[id].parents = <<p>> /\ p < id
    BY <1>3, <1>7 DEF Single
  <2>2. p = r.base
    BY <1>3, <1>7, <2>1
  <2>3. r.base <= id
    BY <1>5, <1>7, <2>1, <2>2
  <2> QED
    BY <1>1, <1>2, <1>3, <2>3, OtherCommitSingle DEF id
<1> QED
  BY <1>4, <1>6, <1>7

LEMMA MergeCleanlySingle ==
    ASSUME RInv, RInv', Single, NEW c \in Client, MergeCleanly(c) PROVE Single'
<1> DEFINE r == request[c]
           commit == MergeCommit(r.ours, r.theirs, 0, None)
<1>1. /\ r.op = "heads" /\ merges' = merges /\ r \in Request
      /\ Store(r.target, r.ours, commit) \/ Refused(r.target, r.ours, commit)
  BY DEF MergeCleanly, RInv, Types
<1>2. r.target \in Branch /\ r.ours \in DOMAIN commits
  BY <1>1 DEF Request, Idle
<1>3. commit.merge = 0 /\ commit.payload = None
  BY DEF MergeCommit
<1>4. r.ours <= IdOf(commit)
  <2>1. IdOf(commit) = Len(commits) + 1
    BY <1>3 DEF IdOf
  <2>2. DOMAIN commits = 1..Len(commits) /\ Len(commits) \in Nat
    BY TableFacts DEF RInv, Types
  <2> HIDE DEF r, commit
  <2> QED
    BY <1>2, <2>1, <2>2
<1> HIDE DEF r, commit
<1> QED
  BY <1>1, <1>2, <1>3, <1>4, OtherCommitSingle

LEMMA CommitResolutionSingle ==
    ASSUME RInv, RInv', Single, NEW c \in Client, CommitResolution(c) PROVE Single'
<1>1. PICK m : m = request[c].merge
  OBVIOUS
<1> DEFINE row == merges[m]
           commit == MergeCommit(row.ours, row.theirs, m, request[c].choice)
           new == Len(commits) + 1
<1>2. /\ request[c].op = "checked" /\ request[c] \in Request /\ merges' = merges
      /\ Store(row.target, row.ours, commit) \/ Refused(row.target, row.ours, commit)
  BY <1>1 DEF CommitResolution, RInv, Types
<1>3. m \in DOMAIN merges
  BY <1>1, <1>2 DEF Request, Idle
<1>4. row.target \in Branch /\ row.ours \in DOMAIN commits
  BY <1>3 DEF RInv, Types, IsRow
<1>5. commit.merge = m /\ commit.payload = None
  BY DEF MergeCommit
<1>6. IdOf(commit) = new
  BY <1>5 DEF IdOf
<1> HIDE DEF row, commit
<1>7. CASE Refused(row.target, row.ours, commit)
  BY <1>2, <1>7, NoMoveSingle DEF Refused
<1>8. CASE Store(row.target, row.ours, commit)
  <2>1. /\ DOMAIN commits \subseteq DOMAIN commits' /\ \A n \in DOMAIN commits : commits'[n] = commits[n]
        /\ new \in DOMAIN commits' /\ commits'[new] = commit
        /\ \A n \in DOMAIN commits' \ DOMAIN commits : n = new
        /\ heads' = [heads EXCEPT ![row.target] = new]
    BY <1>4, <1>6, <1>8, StoreFacts DEF RInv
  <2>2. DOMAIN commits = 1..Len(commits) /\ Len(commits) \in Nat /\ new \in Nat /\ new # None
    BY TableFacts, ReviewAssumption DEF RInv, Types
  <2>3. heads[row.target] = row.ours /\ row.ours < new
    BY <1>4, <1>6, <1>8, <2>2 DEF Store, MayAdvance, RInv, Types
  <2>4. ResultsOf(m) = {}
    BY <1>3, <1>4, <2>2, <2>3 DEF Single, row
  <2>5. ResultsOf(m)' = {new}
    BY <1>5, <2>1, <2>4 DEF ResultsOf
  <2>6. \A k \in DOMAIN merges \ {m} : ResultsOf(k)' = ResultsOf(k)
    BY <1>5, <2>1 DEF ResultsOf
  <2>7. HeadsGrow
    BY <1>4, <1>6, <1>8, <2>2, <2>3, StoreGrows
  <2>8. heads'[row.target] = new
    BY <1>4, <2>1 DEF RInv, Types
  <2>9. ASSUME NEW n \in DOMAIN commits', commits'[n].payload # None
        PROVE  \E p \in DOMAIN commits' : commits'[n].parents = <<p>> /\ p < n
    BY <1>5, <2>1, <2>9 DEF Single
  <2>10. ASSUME NEW k \in DOMAIN merges \ {m}, NEW n \in ResultsOf(k)
         PROVE  /\ heads'[merges[k].target] # None /\ merges[k].ours < heads'[merges[k].target]
                /\ \A i \in ResultsOf(k) : i = n
    <3> DEFINE b == merges[k].target
    <3>1. IsRow(merges[k]) /\ DOMAIN commits' = 1..Len(commits')
      BY TableFacts DEF RInv, Types
    <3>2. b \in Branch /\ merges[k].ours \in Nat
      BY <2>2, <3>1 DEF IsRow
    <3>3. heads[b] # None /\ merges[k].ours < heads[b] /\ \A i \in ResultsOf(k) : i = n
      BY <2>10 DEF Single
    <3>4. heads'[b] # None /\ heads[b] <= heads'[b]
      BY <2>7, <3>2, <3>3 DEF HeadsGrow
    <3>5. heads[b] \in Nat /\ heads'[b] \in Nat
      BY <2>2, <3>1, <3>2, <3>3, <3>4 DEF RInv, Types
    <3> QED
      BY <3>2, <3>3, <3>4, <3>5
  <2>11. \A n \in ResultsOf(m)' :
            /\ heads'[merges[m].target] # None /\ merges[m].ours < heads'[merges[m].target]
            /\ \A k \in ResultsOf(m)' : k = n
    BY <2>2, <2>3, <2>5, <2>8 DEF row
  <2> QED
    BY <1>2, <2>6, <2>9, <2>10, <2>11 DEF Single
<1> QED
  BY <1>2, <1>7, <1>8

LEMMA SingleKeeps == ~BlindCommits /\ RInv /\ RInv' /\ Single /\ [Next]_vars => Single'
<1>1. SUFFICES ASSUME ~BlindCommits, RInv, RInv', Single, [Next]_vars PROVE Single'
  OBVIOUS
<1>2. ASSUME UNCHANGED <<commits, heads, merges>>
      PROVE  Single'
  BY <1>1, <1>2, NoMoveSingle
<1>3. CASE UNCHANGED vars
  BY <1>2, <1>3 DEF vars
<1>4. ASSUME NEW b \in Branch, NEW n \in DOMAIN commits, CreateBranch(b, n)
      PROVE  Single'
  <2>1. /\ heads[b] = None /\ heads' = [heads EXCEPT ![b] = n] /\ UNCHANGED <<commits, merges>>
    BY <1>4 DEF CreateBranch
  <2>2. HeadsGrow
    BY <1>1, <2>1, TableFacts DEF HeadsGrow, RInv, Types
  <2> QED
    BY <1>1, <2>1, <2>2, SingleStays DEF ResultsOf
<1>5. ASSUME NEW c \in Client, OpenReview(c)
      PROVE  Single'
  <2>1. PICK row : merges' = Append(merges, row)
    BY <1>5 DEF OpenReview
  <2>2. DOMAIN merges \subseteq DOMAIN merges' /\ \A m \in DOMAIN merges : merges'[m] = merges[m]
    BY <1>1, <2>1, TableAppend DEF RInv, Types
  <2> QED
    BY <1>1, <1>5, <2>2, NoMoveSingle DEF OpenReview
<1>6. ASSUME NEW c \in Client, Finalise(c)
      PROVE  Single'
  <2>1. /\ UNCHANGED <<commits, heads>>
        /\ merges' = [merges EXCEPT ![request[c].merge].resolution = request[c].choice,
                                    ![request[c].merge].result = request[c].result,
                                    ![request[c].merge].state = "resolved"]
    BY <1>6 DEF Finalise
  <2>2. DOMAIN merges' = DOMAIN merges
    BY <2>1
  <2>3. \A m \in DOMAIN merges : merges'[m].ours = merges[m].ours /\ merges'[m].target = merges[m].target
    <3>1. \A m \in DOMAIN merges : IsRow(merges[m])
      BY <1>1 DEF RInv, Types
    <3>2. ASSUME NEW m \in DOMAIN merges
          PROVE  merges'[m].ours = merges[m].ours /\ merges'[m].target = merges[m].target
      BY <2>1, <3>1 DEF IsRow
    <3> QED
      BY <3>2
  <2> QED
    BY <1>1, <2>1, <2>2, <2>3, NoMoveSingle
<1>7. ASSUME NEW c \in Client,
             \/ \E b \in Branch, p \in Payload : BeginCommit(c, b, p)
             \/ \E o, t \in Branch : ReadOurs(c, o, t)
             \/ ReadTheirs(c)
             \/ \E m \in DOMAIN merges, choice \in [Conflict -> Choice] : BeginResolve(c, m, choice)
             \/ CheckTarget(c)
      PROVE  Single'
  BY <1>2, <1>7 DEF BeginCommit, ReadOurs, ReadTheirs, BeginResolve, CheckTarget
<1>8. ASSUME NEW c \in Client, EndCommit(c) \/ MergeCleanly(c) \/ CommitResolution(c)
      PROVE  Single'
  BY <1>1, <1>8, EndCommitSingle, MergeCleanlySingle, CommitResolutionSingle
<1>9. CASE Crash
  BY <1>2, <1>9 DEF Crash
<1> QED
  BY <1>1, <1>3, <1>4, <1>5, <1>6, <1>7, <1>8, <1>9 DEF Next

LEMMA InitSingle == Init => Single
<1>1. SUFFICES ASSUME Init PROVE Single
  OBVIOUS
<1>2. DOMAIN merges = {} /\ DOMAIN commits = {1} /\ commits[1].payload = None
  <2>1. /\ merges = <<>>
        /\ commits = <<[parents |-> <<>>, payload |-> None, merge |-> 0, choice |-> None]>>
    BY <1>1 DEF Init
  <2> QED
    BY <2>1
<1> QED
  BY <1>2 DEF Single

\* When every commit request names its base_commit, a review has at most one committed
\* result, however many people resolve it at once and whatever else moves the branch
\* (resolve_merge and the compare-and-swap of store.commit).
THEOREM OneResultPerReview == ~BlindCommits => (Spec => []ResolvedAtMostOnce)
<1>2. ASSUME Single
      PROVE  ResolvedAtMostOnce
  <2>1. ASSUME NEW m \in DOMAIN merges
        PROVE  Cardinality(ResultsOf(m)) <= 1
    <3>1. CASE ResultsOf(m) = {}
      BY <3>1, FS_EmptySet
    <3>2. CASE ResultsOf(m) # {}
      <4>1. PICK n : ResultsOf(m) = {n}
        BY <1>2, <2>1, <3>2 DEF Single
      <4>2. Cardinality(ResultsOf(m)) = 1
        BY <4>1, FS_Singleton
      <4> QED
        BY <4>2
    <3> QED
      BY <3>1, <3>2
  <2> QED
    BY <2>1 DEF ResolvedAtMostOnce
<1>3. SUFFICES ASSUME ~BlindCommits PROVE Spec => []ResolvedAtMostOnce
  OBVIOUS
<1>4. RInv /\ RInv' /\ Single /\ [Next]_vars => Single'
  BY <1>3, SingleKeeps
<1> QED
  BY <1>2, <1>4, InitSingle, InvariantHolds, PTL DEF Spec

-----------------------------------------------------------------------------
(* The commit table is a graph in which parents come first.                *)

AreParents(ps) == Table(ps) /\ Len(ps) <= 2 /\ ToSet(ps) \subseteq DOMAIN commits

Grows ==
    \/ commits' = commits
    \/ \E commit : AreParents(commit.parents) /\ commits' = Append(commits, commit)

LEMMA OneOrTwo ==
    ASSUME NEW p \in DOMAIN commits, NEW q \in DOMAIN commits
    PROVE  /\ AreParents(<<p>>) /\ AreParents(<<p, q>>)
           /\ ToSet(<<p>>) = {p} /\ ToSet(<<p, q>>) = {p, q}
<1>1. /\ Table(<<p>>) /\ Len(<<p>>) = 1 /\ ToSet(<<p>>) = {p}
      /\ Table(<<p, q>>) /\ Len(<<p, q>>) = 2 /\ ToSet(<<p, q>>) = {p, q}
  BY ShortTables
<1> QED
  BY <1>1 DEF AreParents

LEMMA StoreOrNot ==
    ASSUME NEW branch, NEW expected, NEW commit, AreParents(commit.parents),
           Store(branch, expected, commit) \/ Refused(branch, expected, commit)
    PROVE  Grows
BY DEF Grows, Store, Refused

\* The parents of what the three committing requests write are known.
LEMMA CommitsHaveParents ==
    ASSUME RInv, NEW c \in Client
    PROVE  /\ request[c].op = "commit" =>
                 /\ request[c].branch \in Branch /\ request[c].base \in DOMAIN commits
                 /\ AreParents(PlainCommit(request[c].base, request[c].payload).parents)
                 /\ request[c].base \in ToSet(PlainCommit(request[c].base, request[c].payload).parents)
           /\ request[c].op = "heads" =>
                 /\ request[c].target \in Branch /\ request[c].ours \in DOMAIN commits
                 /\ AreParents(MergeCommit(request[c].ours, request[c].theirs, 0, None).parents)
                 /\ request[c].ours \in ToSet(MergeCommit(request[c].ours, request[c].theirs, 0, None).parents)
           /\ request[c].op = "checked" =>
                 \A choice :
                 LET m == request[c].merge
                     ps == MergeCommit(merges[m].ours, merges[m].theirs, m, choice).parents IN
                 /\ m \in DOMAIN merges /\ merges[m].target \in Branch
                 /\ AreParents(ps) /\ {merges[m].ours, merges[m].theirs} \subseteq ToSet(ps)
<1>0. request[c] \in Request
  BY DEF RInv, Types
<1>1. ASSUME request[c].op = "commit"
      PROVE  request[c].branch \in Branch /\ request[c].base \in DOMAIN commits
  BY <1>0, <1>1 DEF Request, Idle
<1>2. ASSUME request[c].op = "heads"
      PROVE  request[c].target \in Branch /\ request[c].ours \in DOMAIN commits
             /\ request[c].theirs \in DOMAIN commits
  BY <1>0, <1>2 DEF Request, Idle
<1>3. ASSUME request[c].op = "checked"
      PROVE  request[c].merge \in DOMAIN merges
  BY <1>0, <1>3 DEF Request, Idle
<1>4. \A m \in DOMAIN merges : merges[m].target \in Branch /\ merges[m].ours \in DOMAIN commits
                               /\ merges[m].theirs \in DOMAIN commits
  BY DEF RInv, Types, IsRow
<1>5. ASSUME NEW p \in DOMAIN commits, NEW payload
      PROVE  AreParents(PlainCommit(p, payload).parents) /\ p \in ToSet(PlainCommit(p, payload).parents)
  BY OneOrTwo DEF PlainCommit
<1>6. ASSUME NEW p \in DOMAIN commits, NEW q \in DOMAIN commits, NEW m, NEW choice
      PROVE  /\ AreParents(MergeCommit(p, q, m, choice).parents)
             /\ {p, q} \subseteq ToSet(MergeCommit(p, q, m, choice).parents)
  <2>1. MergeCommit(p, q, m, choice).parents = IF p = q THEN <<p>> ELSE <<p, q>>
    BY DEF MergeCommit
  <2> QED
    BY <2>1, OneOrTwo
<1> QED
  BY <1>1, <1>2, <1>3, <1>4, <1>5, <1>6

LEMMA StepGrows == ASSUME RInv, [Next]_vars PROVE Grows
<1>1. CASE commits' = commits
  BY <1>1 DEF Grows
<1>2. ASSUME NEW c \in Client, EndCommit(c) PROVE Grows
  BY <1>2, CommitsHaveParents, StoreOrNot DEF EndCommit
<1>3. ASSUME NEW c \in Client, MergeCleanly(c) PROVE Grows
  BY <1>3, CommitsHaveParents, StoreOrNot DEF MergeCleanly
<1>4. ASSUME NEW c \in Client, CommitResolution(c) PROVE Grows
  BY <1>4, CommitsHaveParents, StoreOrNot DEF CommitResolution
<1> QED
  BY <1>1, <1>2, <1>3, <1>4 DEF Next, vars, CreateBranch, BeginCommit, ReadOurs, ReadTheirs,
     OpenReview, BeginResolve, CheckTarget, Finalise, Crash

LEMMA DagGrows ==
    ASSUME RInv, Dag(commits), Grows
    PROVE  /\ Dag(commits)' /\ DOMAIN commits \subseteq DOMAIN commits'
           /\ \A n \in DOMAIN commits : Ancestors(commits', n) = Ancestors(commits, n)
<1>1. CASE commits' = commits
  BY <1>1
<1>2. ASSUME NEW commit, AreParents(commit.parents), commits' = Append(commits, commit)
      PROVE  /\ Dag(commits)' /\ DOMAIN commits \subseteq DOMAIN commits'
             /\ \A n \in DOMAIN commits : Ancestors(commits', n) = Ancestors(commits, n)
  <2> DEFINE new == Append(commits, commit)
  <2>1. /\ Dag(new) /\ DOMAIN commits \subseteq DOMAIN new
        /\ \A n \in DOMAIN commits : Ancestors(new, n) = Ancestors(commits, n)
    BY <1>2, DagAppend DEF AreParents
  <2> QED
    BY <1>2, <2>1
<1> QED
  BY <1>1, <1>2 DEF Grows

LEMMA DagHolds == Spec => []Dag(commits)
<1>1. Init => Dag(commits)
  <2> DEFINE first == [parents |-> <<>>, payload |-> None, merge |-> 0, choice |-> None]
  <2>1. SUFFICES ASSUME commits = <<first>> PROVE Dag(commits)
    BY DEF Init
  <2>2. DOMAIN commits = {1} /\ commits[1] = first /\ first.parents = <<>>
    BY <2>1
  <2>3. commits \in Seq({commits[k] : k \in DOMAIN commits})
    BY <2>1, <2>2
  <2>4. Table(<<>>) /\ Len(<<>>) <= 2 /\ ToSet(<<>>) = {}
    BY EmptySeq DEF Table, ToSet
  <2> HIDE DEF first
  <2> QED
    BY <2>2, <2>3, <2>4 DEF Dag, Table, Older
<1>2. RInv /\ Dag(commits) /\ [Next]_vars => Dag(commits)'
  BY StepGrows, DagGrows
<1> QED
  BY <1>1, <1>2, InvariantHolds, PTL DEF Spec

\* The history of a branch lists each ancestor of its head once, the head first: the
\* breadth-first walk neither skips a commit nor repeats one, whatever the merges (history
\* in core/objects/store.py).
THEOREM HistoriesAreComplete == Spec => []HistoryIsComplete
<1>1. RInv /\ Dag(commits) => HistoryIsComplete
  BY HeadFacts, HistoryOf DEF HistoryIsComplete
<1> QED
  BY <1>1, InvariantHolds, DagHolds, PTL

-----------------------------------------------------------------------------
(* What was merged stays merged.  A head moves to a child of the commit it *)
(* was at, so that its ancestors only become more.                         *)

HeadsFollow ==
    \A b \in Branch : heads[b] # None =>
        heads'[b] # None /\ (heads'[b] = heads[b] \/ heads[b] \in Older(commits', heads'[b]))

\* The rows stand, and a new result is at the head of its target, on top of theirs.
ResultsOnTop ==
    /\ DOMAIN merges \subseteq DOMAIN merges'
    /\ \A m \in DOMAIN merges : merges'[m].theirs = merges[m].theirs
                                /\ merges'[m].target = merges[m].target
    /\ \A m \in DOMAIN merges' : \A n \in ResultsOf(m)' :
          \/ m \in DOMAIN merges /\ n \in ResultsOf(m)
          \/ /\ n \in DOMAIN commits' /\ n = heads'[merges'[m].target]
             /\ merges'[m].theirs \in Older(commits', n)

LEMMA MergedKeeps ==
    ASSUME RInv, RInv', Single, Dag(commits), Dag(commits)', Grows, HeadsFollow, ResultsOnTop,
           MergedStaysMerged
    PROVE  MergedStaysMerged'
<1>1. DOMAIN commits \subseteq DOMAIN commits' /\ \A n \in DOMAIN commits : commits'[n] = commits[n]
  BY TableAppend DEF Grows, RInv, Types
<1>2. \A n \in DOMAIN commits : Ancestors(commits', n) = Ancestors(commits, n)
  BY DagGrows
<1>3. ASSUME NEW m \in DOMAIN merges', NEW n \in ResultsOf(m)'
      PROVE  {n, merges'[m].theirs} \subseteq Ancestors(commits', heads'[merges'[m].target])
  <2>1. CASE m \in DOMAIN merges /\ n \in ResultsOf(m)
    <3> DEFINE b == merges[m].target
               h == heads[b]
    <3>1. b \in Branch
      BY <2>1 DEF RInv, Types, IsRow
    <3>2. h # None /\ h \in DOMAIN commits
      BY <2>1, <3>1, HeadFacts DEF Single
    <3>3. {n, merges[m].theirs} \subseteq Ancestors(commits, h)
      BY <2>1 DEF MergedStaysMerged
    <3>4. heads'[b] # None /\ (heads'[b] = h \/ h \in Older(commits', heads'[b]))
      BY <3>1, <3>2 DEF HeadsFollow
    <3>5. heads'[b] \in DOMAIN commits'
      BY <3>1, <3>4 DEF RInv, Types
    <3>6. Ancestors(commits', h) \subseteq Ancestors(commits', heads'[b])
      BY <3>4, <3>5, AncestorsFrom
    <3>7. merges'[m].theirs = merges[m].theirs /\ merges'[m].target = b
      BY <2>1 DEF ResultsOnTop
    <3> HIDE DEF h, b
    <3> QED
      BY <1>2, <3>2, <3>3, <3>6, <3>7
  <2>2. CASE /\ n \in DOMAIN commits' /\ n = heads'[merges'[m].target]
             /\ merges'[m].theirs \in Older(commits', n)
    <3>1. n \in Ancestors(commits', n)
      BY <2>2, AncestorsSelf
    <3>2. Older(commits', n) \subseteq Ancestors(commits', n)
      BY <2>2, <3>1, AncestorsClosed
    <3> QED
      BY <2>2, <3>1, <3>2
  <2> QED
    BY <1>3, <2>1, <2>2 DEF ResultsOnTop
<1> QED
  BY <1>3 DEF MergedStaysMerged

LEMMA StoreFollows ==
    ASSUME RInv, NEW branch \in Branch, NEW expected \in DOMAIN commits, NEW commit,
           expected \in ToSet(commit.parents),
           Store(branch, expected, commit) \/ Refused(branch, expected, commit)
    PROVE  HeadsFollow
<1>1. CASE Refused(branch, expected, commit)
  BY <1>1 DEF Refused, HeadsFollow
<1>2. CASE Store(branch, expected, commit)
  <2> DEFINE id == IdOf(commit)
  <2>1. /\ heads' = [heads EXCEPT ![branch] = id] /\ commits'[id] = commit /\ id \in Nat
        /\ heads[branch] \in {expected, id}
    BY <1>2, StoreFacts DEF RInv, Store, MayAdvance
  <2> HIDE DEF id
  <2>2. expected \in Older(commits', id) /\ id # None
    BY <2>1, ReviewAssumption DEF Older
  <2>3. heads'[branch] = id /\ \A b \in Branch \ {branch} : heads'[b] = heads[b]
    BY <2>1 DEF RInv, Types
  <2> QED
    BY <2>1, <2>2, <2>3 DEF HeadsFollow
<1> QED
  BY <1>1, <1>2

LEMMA StepFollows == ASSUME ~BlindCommits, RInv, [Next]_vars PROVE HeadsFollow
<1>1. CASE heads' = heads
  BY <1>1 DEF HeadsFollow
<1>2. ASSUME NEW c \in Client, EndCommit(c) PROVE HeadsFollow
  BY <1>2, CommitsHaveParents, StoreFollows DEF EndCommit
<1>3. ASSUME NEW c \in Client, MergeCleanly(c) PROVE HeadsFollow
  BY <1>3, CommitsHaveParents, StoreFollows DEF MergeCleanly
<1>4. ASSUME NEW c \in Client, CommitResolution(c) PROVE HeadsFollow
  <2>1. PICK m : m = request[c].merge
    OBVIOUS
  <2> DEFINE commit == MergeCommit(merges[m].ours, merges[m].theirs, m, request[c].choice)
  <2>2. /\ request[c].op = "checked"
        /\ \/ Store(merges[m].target, merges[m].ours, commit)
           \/ Refused(merges[m].target, merges[m].ours, commit)
    BY <1>4, <2>1 DEF CommitResolution
  <2>3. /\ m \in DOMAIN merges /\ merges[m].target \in Branch
        /\ merges[m].ours \in ToSet(commit.parents)
    BY <2>1, <2>2, CommitsHaveParents
  <2>4. merges[m].ours \in DOMAIN commits
    BY <2>3 DEF RInv, Types, IsRow
  <2> HIDE DEF commit
  <2> QED
    BY <2>2, <2>3, <2>4, StoreFollows
<1>5. ASSUME NEW b \in Branch, NEW n \in DOMAIN commits, CreateBranch(b, n) PROVE HeadsFollow
  BY <1>5 DEF CreateBranch, HeadsFollow, RInv, Types
<1> QED
  BY <1>1, <1>2, <1>3, <1>4, <1>5 DEF Next, vars, BeginCommit, ReadOurs, ReadTheirs,
     OpenReview, BeginResolve, CheckTarget, Finalise, Crash

\* A step that writes no result.
LEMMA NoNewResult ==
    ASSUME RInv, RInv', Grows, DOMAIN merges \subseteq DOMAIN merges',
           \A m \in DOMAIN merges : merges'[m].theirs = merges[m].theirs
                                    /\ merges'[m].target = merges[m].target,
           \A n \in DOMAIN commits' \ DOMAIN commits : commits'[n].merge = 0
    PROVE  ResultsOnTop
<1>1. \A n \in DOMAIN commits : commits'[n] = commits[n]
  BY TableAppend DEF Grows, RInv, Types
<1>2. 0 \notin DOMAIN merges'
  BY TableFacts DEF RInv, Types
<1>3. ASSUME NEW m \in DOMAIN merges', NEW n \in ResultsOf(m)'
      PROVE  m \in DOMAIN merges /\ n \in ResultsOf(m)
  <2>1. n \in DOMAIN commits' /\ commits'[n].merge = m /\ m # 0
    BY <1>2, <1>3 DEF ResultsOf
  <2>2. n \in DOMAIN commits /\ commits[n].merge = m
    BY <1>1, <2>1
  <2>3. m \in DOMAIN merges
    BY <2>1, <2>2 DEF RInv, Types
  <2> QED
    BY <2>2, <2>3 DEF ResultsOf
<1> QED
  BY <1>3 DEF ResultsOnTop

LEMMA StepOnTop == ASSUME RInv, RInv', Grows, [Next]_vars PROVE ResultsOnTop
<1>1. CASE UNCHANGED <<commits, merges>>
  BY <1>1, NoNewResult
<1>2. ASSUME NEW branch \in Branch, NEW expected, NEW commit, commit.merge = 0, merges' = merges,
             Store(branch, expected, commit) \/ Refused(branch, expected, commit)
      PROVE  ResultsOnTop
  <2>1. \A n \in DOMAIN commits' \ DOMAIN commits : commits'[n].merge = 0
    BY <1>2, StoreFacts DEF RInv, Refused
  <2> QED
    BY <1>2, <2>1, NoNewResult
<1>3. ASSUME NEW c \in Client, EndCommit(c) PROVE ResultsOnTop
  <2>1. PlainCommit(request[c].base, request[c].payload).merge = 0
    BY DEF PlainCommit
  <2> QED
    BY <1>2, <1>3, <2>1, CommitsHaveParents DEF EndCommit
<1>4. ASSUME NEW c \in Client, MergeCleanly(c) PROVE ResultsOnTop
  <2>1. MergeCommit(request[c].ours, request[c].theirs, 0, None).merge = 0
    BY DEF MergeCommit
  <2> QED
    BY <1>2, <1>4, <2>1, CommitsHaveParents DEF MergeCleanly
<1>5. ASSUME NEW c \in Client, OpenReview(c) PROVE ResultsOnTop
  <2>1. PICK row : merges' = Append(merges, row)
    BY <1>5 DEF OpenReview
  <2>2. DOMAIN merges \subseteq DOMAIN merges' /\ \A m \in DOMAIN merges : merges'[m] = merges[m]
    BY <2>1, TableAppend DEF RInv, Types
  <2> QED
    BY <1>5, <2>2, NoNewResult DEF OpenReview
<1>6. ASSUME NEW c \in Client, Finalise(c) PROVE ResultsOnTop
  <2>1. /\ UNCHANGED commits
        /\ merges' = [merges EXCEPT ![request[c].merge].resolution = request[c].choice,
                                    ![request[c].merge].result = request[c].result,
                                    ![request[c].merge].state = "resolved"]
    BY <1>6 DEF Finalise
  <2>2. DOMAIN merges' = DOMAIN merges
    BY <2>1
  <2>3. ASSUME NEW m \in DOMAIN merges
        PROVE  merges'[m].theirs = merges[m].theirs /\ merges'[m].target = merges[m].target
    <3>1. IsRow(merges[m])
      BY DEF RInv, Types
    <3> QED
      BY <2>1, <3>1 DEF IsRow
  <2> QED
    BY <2>1, <2>2, <2>3, NoNewResult
<1>7. ASSUME NEW c \in Client, CommitResolution(c) PROVE ResultsOnTop
  <2>1. PICK m : m = request[c].merge
    OBVIOUS
  <2> DEFINE commit == MergeCommit(merges[m].ours, merges[m].theirs, m, request[c].choice)
             id == IdOf(commit)
  <2>2. /\ request[c].op = "checked" /\ merges' = merges
        /\ \/ Store(merges[m].target, merges[m].ours, commit)
           \/ Refused(merges[m].target, merges[m].ours, commit)
    BY <1>7, <2>1 DEF CommitResolution
  <2>3. /\ m \in DOMAIN merges /\ merges[m].target \in Branch
        /\ merges[m].theirs \in ToSet(commit.parents)
    BY <2>1, <2>2, CommitsHaveParents
  <2>4. commit.merge = m
    BY DEF MergeCommit
  <2> HIDE DEF commit, id
  <2>5. CASE Refused(merges[m].target, merges[m].ours, commit)
    BY <1>1, <2>2, <2>5 DEF Refused
  <2>6. CASE Store(merges[m].target, merges[m].ours, commit)
    <3>1. /\ DOMAIN commits \subseteq DOMAIN commits'
          /\ \A n \in DOMAIN commits : commits'[n] = commits[n]
          /\ id \in DOMAIN commits' /\ commits'[id] = commit
          /\ \A n \in DOMAIN commits' \ DOMAIN commits : n = id
          /\ heads' = [heads EXCEPT ![merges[m].target] = id]
      BY <2>3, <2>6, StoreFacts DEF RInv, id
    <3>2. heads'[merges[m].target] = id
      BY <2>3, <3>1 DEF RInv, Types
    <3>3. merges[m].theirs \in Older(commits', id)
      BY <2>3, <3>1 DEF Older
    <3>4. ASSUME NEW k \in DOMAIN merges', NEW n \in ResultsOf(k)'
          PROVE  \/ k \in DOMAIN merges /\ n \in ResultsOf(k)
                 \/ /\ n \in DOMAIN commits' /\ n = heads'[merges'[k].target]
                    /\ merges'[k].theirs \in Older(commits', n)
      <4>1. n \in DOMAIN commits' /\ commits'[n].merge = k
        BY <3>4 DEF ResultsOf
      <4>2. CASE n \in DOMAIN commits
        BY <2>2, <3>1, <4>1, <4>2 DEF ResultsOf
      <4>3. CASE n \notin DOMAIN commits
        BY <2>2, <2>4, <3>1, <3>2, <3>3, <4>1, <4>3
      <4> QED
        BY <4>2, <4>3
    <3> QED
      BY <2>2, <3>4 DEF ResultsOnTop
  <2> QED
    BY <2>2, <2>5, <2>6
<1> QED
  BY <1>1, <1>3, <1>4, <1>5, <1>6, <1>7 DEF Next, vars, CreateBranch, BeginCommit, ReadOurs,
     ReadTheirs, BeginResolve, CheckTarget, Crash

LEMMA SingleHolds == ~BlindCommits => (Spec => []Single)
<1>1. SUFFICES ASSUME ~BlindCommits PROVE Spec => []Single
  OBVIOUS
<1>2. RInv /\ RInv' /\ Single /\ [Next]_vars => Single'
  BY <1>1, SingleKeeps
<1> QED
  BY <1>2, InitSingle, InvariantHolds, PTL DEF Spec

\* When every commit request names its base_commit, a review has one result, and that
\* result and the version it took in stay behind the head of the target branch, whatever is
\* committed, merged, resolved or branched afterwards (merge and resolve_merge in
\* api/main.py, the compare-and-swap of store.commit).
THEOREM MergesStay == ~BlindCommits => (Spec => []MergesAreFinal)
<1>1. SUFFICES ASSUME ~BlindCommits PROVE Spec => []MergesAreFinal
  OBVIOUS
<1>2. Init => MergedStaysMerged
  <2>1. Init => DOMAIN merges = {}
    BY DEF Init
  <2> QED
    BY <2>1 DEF MergedStaysMerged
<1>3. RInv /\ RInv' /\ Single /\ Dag(commits) /\ Dag(commits)' /\ MergedStaysMerged /\ [Next]_vars
        => MergedStaysMerged'
  BY <1>1, StepGrows, StepFollows, StepOnTop, MergedKeeps
<1>4. Spec => []Single
  BY <1>1, SingleHolds
<1>5. Spec => []ResolvedAtMostOnce
  BY <1>1, OneResultPerReview
<1>6. ResolvedAtMostOnce /\ MergedStaysMerged => MergesAreFinal
  BY DEF MergesAreFinal
<1> QED
  BY <1>2, <1>3, <1>4, <1>5, <1>6, InvariantHolds, DagHolds, PTL DEF Spec


-----------------------------------------------------------------------------
(* The tables of _lcs_backtrack, cell by cell.                             *)

LEMMA Bounds ==
    ASSUME NEW old \in Seq(Sentence), NEW new \in Seq(Sentence)
    PROVE  /\ Len(old) \in Nat /\ DOMAIN old = 1..Len(old) /\ \A i \in 1..Len(old) : old[i] \in Sentence
           /\ Len(new) \in Nat /\ DOMAIN new = 1..Len(new) /\ \A j \in 1..Len(new) : new[j] \in Sentence
BY LenProperties

TableCell(old, new, f, i, j) ==
    IF i = 0 \/ j = 0 THEN 0
    ELSE IF SameHash(old, new, i, j) THEN f[<<i - 1, j - 1>>] + 1
    ELSE IF f[<<i - 1, j>>] >= f[<<i, j - 1>>] THEN f[<<i - 1, j>>] ELSE f[<<i, j - 1>>]

TableUpTo(old, new, f, t) ==
    /\ f = [c \in Cells(old, new) |-> f[c]]
    /\ \A i \in 0..Len(old), j \in 0..Len(new) :
          i + j <= t => f[<<i, j>>] = TableCell(old, new, f, i, j)

LEMMA TableGoesOn ==
    ASSUME NEW old \in Seq(Sentence), NEW new \in Seq(Sentence), NEW t \in Nat,
           NEW f, TableUpTo(old, new, f, t)
    PROVE  \E g : TableUpTo(old, new, g, t + 1)
<1> DEFINE m == Len(old)
           n == Len(new)
           C == (0..m) \X (0..n)
           g == [c \in C |-> IF c[1] + c[2] = t + 1 THEN TableCell(old, new, f, c[1], c[2]) ELSE f[c]]
<1>1. m \in Nat /\ n \in Nat
  BY Bounds
<1>2. Cells(old, new) = C
  BY DEF Cells
<1>3. \A i \in 0..m, j \in 0..n : i + j <= t => f[<<i, j>>] = TableCell(old, new, f, i, j)
  BY DEF TableUpTo
<1> HIDE DEF m, n
<1>4. ASSUME NEW i \in 0..m, NEW j \in 0..n
      PROVE  /\ i + j <= t => g[<<i, j>>] = f[<<i, j>>]
             /\ i + j = t + 1 => g[<<i, j>>] = TableCell(old, new, f, i, j)
  <2>1. <<i, j>> \in C /\ <<i, j>>[1] = i /\ <<i, j>>[2] = j
    OBVIOUS
  <2>2. g[<<i, j>>] = IF i + j = t + 1 THEN TableCell(old, new, f, i, j) ELSE f[<<i, j>>]
    BY <2>1
  <2>3. i + j <= t => i + j # t + 1
    OBVIOUS
  <2> HIDE DEF g
  <2> QED
    BY <2>2, <2>3
<1>5. g = [c \in C |-> g[c]]
  OBVIOUS
<1> HIDE DEF g, C
<1>6. ASSUME NEW i \in 0..m, NEW j \in 0..n, i + j <= t + 1
      PROVE  TableCell(old, new, g, i, j) = TableCell(old, new, f, i, j)
  <2>1. CASE i = 0 \/ j = 0
    BY <2>1 DEF TableCell
  <2>2. CASE i # 0 /\ j # 0
    <3>1. /\ i - 1 \in 0..m /\ j - 1 \in 0..n
          /\ (i - 1) + (j - 1) <= t /\ (i - 1) + j <= t /\ i + (j - 1) <= t
      BY <1>1, <1>6, <2>2
    <3>2. /\ g[<<i - 1, j - 1>>] = f[<<i - 1, j - 1>>]
          /\ g[<<i - 1, j>>] = f[<<i - 1, j>>] /\ g[<<i, j - 1>>] = f[<<i, j - 1>>]
      BY <1>4, <3>1
    <3> QED
      BY <3>2 DEF TableCell
  <2> QED
    BY <2>1, <2>2
<1>7. ASSUME NEW i \in 0..m, NEW j \in 0..n, i + j <= t + 1
      PROVE  g[<<i, j>>] = TableCell(old, new, g, i, j)
  <2>1. i + j <= t \/ i + j = t + 1
    BY <1>1, <1>7
  <2> QED
    BY <1>3, <1>4, <1>6, <1>7, <2>1
<1>8. TableUpTo(old, new, g, t + 1)
  BY <1>2, <1>5, <1>7 DEF TableUpTo, m, n
<1> QED
  BY <1>8

LEMMA LcsTableIs ==
    ASSUME NEW old \in Seq(Sentence), NEW new \in Seq(Sentence)
    PROVE  LET dp == LcsTable(old, new) IN
           \A i \in 0..Len(old), j \in 0..Len(new) : dp[<<i, j>>] = TableCell(old, new, dp, i, j)
<1> DEFINE m == Len(old)
           n == Len(new)
           Good(f) == f = [c \in Cells(old, new) |-> TableCell(old, new, f, c[1], c[2])]
           S == {t \in 0..m + n : \E f : TableUpTo(old, new, f, t)}
<1>1. m \in Nat /\ n \in Nat /\ m + n \in Nat
  BY Bounds
<1>2. LcsTable(old, new) = CHOOSE f : Good(f)
  BY DEF LcsTable, TableCell
<1>3. Cells(old, new) = (0..m) \X (0..n)
  BY DEF Cells
<1> HIDE DEF m, n
<1>4. 0 \in S
  <2> DEFINE f == [c \in Cells(old, new) |-> 0]
  <2>1. f = [c \in Cells(old, new) |-> f[c]]
    OBVIOUS
  <2>2. ASSUME NEW i \in 0..m, NEW j \in 0..n, i + j <= 0
        PROVE  f[<<i, j>>] = TableCell(old, new, f, i, j)
    <3>1. i = 0 /\ <<i, j>> \in Cells(old, new)
      BY <1>1, <1>3, <2>2
    <3> QED
      BY <3>1 DEF TableCell
  <2> HIDE DEF f
  <2>3. TableUpTo(old, new, f, 0)
    BY <2>1, <2>2 DEF TableUpTo, m, n
  <2> QED
    BY <1>1, <2>3
<1>5. ASSUME NEW t \in 0..((m + n) - 1), t \in S
      PROVE  t + 1 \in S
  <2>1. t \in Nat /\ t + 1 \in 0..m + n
    BY <1>1
  <2> QED
    BY <1>5, <2>1, TableGoesOn
<1>6. 0..m + n \subseteq S
  <2> HIDE DEF S
  <2> QED
    BY <1>1, <1>4, <1>5, Induct
<1>7. PICK f : TableUpTo(old, new, f, m + n)
  BY <1>1, <1>6
<1>8. Good(f)
  <2>1. ASSUME NEW c \in Cells(old, new)
        PROVE  f[c] = TableCell(old, new, f, c[1], c[2])
    <3>1. c[1] \in 0..m /\ c[2] \in 0..n /\ c = <<c[1], c[2]>>
      BY <1>3
    <3>2. c[1] + c[2] <= m + n
      <4> DEFINE i == c[1]
                 j == c[2]
      <4>1. i \in 0..m /\ j \in 0..n
        BY <3>1
      <4> HIDE DEF i, j
      <4>2. i + j <= m + n
        BY <1>1, <4>1
      <4> QED
        BY <4>2 DEF i, j
    <3> QED
      BY <1>7, <3>1, <3>2 DEF TableUpTo, m, n
  <2>2. f = [c \in Cells(old, new) |-> f[c]]
    BY <1>7 DEF TableUpTo
  <2> QED
    BY <2>1, <2>2
<1> DEFINE dp == CHOOSE f2 : Good(f2)
<1>9. Good(dp)
  BY <1>8
<1> HIDE DEF dp
<1>10. ASSUME NEW i \in 0..m, NEW j \in 0..n
       PROVE  dp[<<i, j>>] = TableCell(old, new, dp, i, j)
  <2>1. <<i, j>> \in Cells(old, new) /\ <<i, j>>[1] = i /\ <<i, j>>[2] = j
    BY <1>3
  <2> QED
    BY <1>9, <2>1
<1> QED
  BY <1>2, <1>10 DEF m, n, dp

LEMMA LcsIsNat ==
    ASSUME NEW old \in Seq(Sentence), NEW new \in Seq(Sentence)
    PROVE  LET dp == LcsTable(old, new) IN
           \A i \in 0..Len(old), j \in 0..Len(new) : dp[<<i, j>>] \in Nat
<1> DEFINE m == Len(old)
           n == Len(new)
           dp == LcsTable(old, new)
           S == {t \in 0..m + n : \A i \in 0..m, j \in 0..n : i + j <= t => dp[<<i, j>>] \in Nat}
<1>1. m \in Nat /\ n \in Nat /\ m + n \in Nat
  BY Bounds
<1>2. \A i \in 0..m, j \in 0..n : dp[<<i, j>>] = TableCell(old, new, dp, i, j)
  BY LcsTableIs
<1> HIDE DEF m, n, dp
<1>3. 0 \in S
  <2>1. ASSUME NEW i \in 0..m, NEW j \in 0..n, i + j <= 0 PROVE dp[<<i, j>>] \in Nat
    <3>1. i = 0
      BY <1>1, <2>1
    <3>2. TableCell(old, new, dp, i, j) = 0
      BY <3>1 DEF TableCell
    <3>3. dp[<<i, j>>] = 0
      BY <1>2, <3>2
    <3> QED
      BY <3>3
  <2> QED
    BY <1>1, <2>1
<1>4. ASSUME NEW t \in 0..((m + n) - 1), t \in S PROVE t + 1 \in S
  <2>1. ASSUME NEW i \in 0..m, NEW j \in 0..n, i + j <= t + 1 PROVE dp[<<i, j>>] \in Nat
    <3>1. CASE i = 0 \/ j = 0
      <4>1. TableCell(old, new, dp, i, j) = 0
        BY <3>1 DEF TableCell
      <4>2. dp[<<i, j>>] = 0
        BY <1>2, <4>1
      <4> QED
        BY <4>2
    <3>2. CASE i # 0 /\ j # 0
      <4>1. /\ i - 1 \in 0..m /\ j - 1 \in 0..n
            /\ (i - 1) + (j - 1) <= t /\ (i - 1) + j <= t /\ i + (j - 1) <= t
        BY <1>1, <1>4, <2>1, <3>2
      <4>2. dp[<<i - 1, j - 1>>] \in Nat /\ dp[<<i - 1, j>>] \in Nat /\ dp[<<i, j - 1>>] \in Nat
        BY <1>4, <4>1
      <4>3. TableCell(old, new, dp, i, j) \in Nat
        BY <4>2 DEF TableCell
      <4> QED
        BY <1>2, <4>3
    <3> QED
      BY <3>1, <3>2
  <2> QED
    BY <1>1, <2>1
<1>5. 0..m + n \subseteq S
  <2> HIDE DEF S
  <2> QED
    BY <1>1, <1>3, <1>4, Induct
<1>6. ASSUME NEW i \in 0..m, NEW j \in 0..n PROVE dp[<<i, j>>] \in Nat
  <2>1. i + j <= m + n /\ m + n \in 0..m + n
    BY <1>1
  <2>2. m + n \in S
    <3> HIDE DEF S
    <3> QED
      BY <1>5, <2>1
  <2> QED
    BY <2>1, <2>2
<1> QED
  BY <1>6 DEF m, n, dp

ScriptCell(old, new, dp, f, i, j) ==
    IF i > 0 /\ j > 0 /\ SameHash(old, new, i, j) THEN Append(f[<<i - 1, j - 1>>], Op("equal", i, j))
    ELSE IF i > 0 /\ (j = 0 \/ dp[<<i - 1, j>>] >= dp[<<i, j - 1>>])
    THEN Append(f[<<i - 1, j>>], Op("delete", i, 0))
    ELSE IF j > 0 THEN Append(f[<<i, j - 1>>], Op("insert", 0, j)) ELSE <<>>

ScriptUpTo(old, new, dp, f, t) ==
    /\ f = [c \in Cells(old, new) |-> f[c]]
    /\ \A i \in 0..Len(old), j \in 0..Len(new) :
          i + j <= t => f[<<i, j>>] = ScriptCell(old, new, dp, f, i, j)

LEMMA ScriptGoesOn ==
    ASSUME NEW old \in Seq(Sentence), NEW new \in Seq(Sentence), NEW t \in Nat,
           NEW dp, NEW f, ScriptUpTo(old, new, dp, f, t)
    PROVE  \E g : ScriptUpTo(old, new, dp, g, t + 1)
<1> DEFINE m == Len(old)
           n == Len(new)
           C == (0..m) \X (0..n)
           g == [c \in C |-> IF c[1] + c[2] = t + 1 THEN ScriptCell(old, new, dp, f, c[1], c[2]) ELSE f[c]]
<1>1. m \in Nat /\ n \in Nat
  BY Bounds
<1>2. Cells(old, new) = C
  BY DEF Cells
<1>3. \A i \in 0..m, j \in 0..n : i + j <= t => f[<<i, j>>] = ScriptCell(old, new, dp, f, i, j)
  BY DEF ScriptUpTo
<1> HIDE DEF m, n
<1>4. ASSUME NEW i \in 0..m, NEW j \in 0..n
      PROVE  /\ i + j <= t => g[<<i, j>>] = f[<<i, j>>]
             /\ i + j = t + 1 => g[<<i, j>>] = ScriptCell(old, new, dp, f, i, j)
  <2>1. <<i, j>> \in C /\ <<i, j>>[1] = i /\ <<i, j>>[2] = j
    OBVIOUS
  <2>2. g[<<i, j>>] = IF i + j = t + 1 THEN ScriptCell(old, new, dp, f, i, j) ELSE f[<<i, j>>]
    BY <2>1
  <2>3. i + j <= t => i + j # t + 1
    OBVIOUS
  <2> HIDE DEF g
  <2> QED
    BY <2>2, <2>3
<1>5. g = [c \in C |-> g[c]]
  OBVIOUS
<1> HIDE DEF g, C
<1>6. ASSUME NEW i \in 0..m, NEW j \in 0..n, i + j <= t + 1
      PROVE  ScriptCell(old, new, dp, g, i, j) = ScriptCell(old, new, dp, f, i, j)
  <2>1. CASE i = 0 /\ j = 0
    BY <2>1 DEF ScriptCell
  <2>3. CASE i = 0 /\ j # 0
    <3>1. j - 1 \in 0..n /\ i + (j - 1) <= t /\ ~(i > 0)
      BY <1>1, <1>6, <2>3
    <3>2. g[<<i, j - 1>>] = f[<<i, j - 1>>]
      BY <1>4, <3>1
    <3> QED
      BY <3>1, <3>2 DEF ScriptCell
  <2>4. CASE i # 0 /\ j = 0
    <3>1. i - 1 \in 0..m /\ (i - 1) + j <= t /\ ~(j > 0)
      BY <1>1, <1>6, <2>4
    <3>2. g[<<i - 1, j>>] = f[<<i - 1, j>>]
      BY <1>4, <3>1
    <3> QED
      BY <2>4, <3>1, <3>2 DEF ScriptCell
  <2>2. CASE i # 0 /\ j # 0
    <3>1. /\ i - 1 \in 0..m /\ j - 1 \in 0..n
          /\ (i - 1) + (j - 1) <= t /\ (i - 1) + j <= t /\ i + (j - 1) <= t
      BY <1>1, <1>6, <2>2
    <3>2. /\ g[<<i - 1, j - 1>>] = f[<<i - 1, j - 1>>]
          /\ g[<<i - 1, j>>] = f[<<i - 1, j>>] /\ g[<<i, j - 1>>] = f[<<i, j - 1>>]
      BY <1>4, <3>1
    <3> QED
      BY <3>2 DEF ScriptCell
  <2> QED
    BY <2>1, <2>2, <2>3, <2>4
<1>7. ASSUME NEW i \in 0..m, NEW j \in 0..n, i + j <= t + 1
      PROVE  g[<<i, j>>] = ScriptCell(old, new, dp, g, i, j)
  <2>1. i + j <= t \/ i + j = t + 1
    BY <1>1, <1>7
  <2> QED
    BY <1>3, <1>4, <1>6, <1>7, <2>1
<1>8. ScriptUpTo(old, new, dp, g, t + 1)
  BY <1>2, <1>5, <1>7 DEF ScriptUpTo, m, n
<1> QED
  BY <1>8

LEMMA ScriptIs ==
    ASSUME NEW old \in Seq(Sentence), NEW new \in Seq(Sentence)
    PROVE  \E f : /\ LcsScript(old, new) = f[<<Len(old), Len(new)>>]
                  /\ \A i \in 0..Len(old), j \in 0..Len(new) :
                        f[<<i, j>>] = ScriptCell(old, new, LcsTable(old, new), f, i, j)
<1> DEFINE m == Len(old)
           n == Len(new)
           dp == LcsTable(old, new)
           Good(f) == f = [c \in Cells(old, new) |-> ScriptCell(old, new, dp, f, c[1], c[2])]
           S == {t \in 0..m + n : \E f : ScriptUpTo(old, new, dp, f, t)}
<1>1. m \in Nat /\ n \in Nat /\ m + n \in Nat
  BY Bounds
<1>2. LcsScript(old, new) = (CHOOSE f : Good(f))[<<m, n>>]
  BY DEF LcsScript, ScriptCell
<1>3. Cells(old, new) = (0..m) \X (0..n)
  BY DEF Cells
<1> HIDE DEF m, n, dp
<1>4. 0 \in S
  <2> DEFINE f == [c \in Cells(old, new) |-> <<>>]
  <2>1. f = [c \in Cells(old, new) |-> f[c]]
    OBVIOUS
  <2>2. ASSUME NEW i \in 0..m, NEW j \in 0..n, i + j <= 0
        PROVE  f[<<i, j>>] = ScriptCell(old, new, dp, f, i, j)
    <3>1. i = 0 /\ j = 0 /\ <<i, j>> \in Cells(old, new)
      BY <1>1, <1>3, <2>2
    <3> QED
      BY <3>1 DEF ScriptCell
  <2> HIDE DEF f
  <2>3. ScriptUpTo(old, new, dp, f, 0)
    BY <2>1, <2>2 DEF ScriptUpTo, m, n
  <2> QED
    BY <1>1, <2>3
<1>5. ASSUME NEW t \in 0..((m + n) - 1), t \in S
      PROVE  t + 1 \in S
  <2>1. t \in Nat /\ t + 1 \in 0..m + n
    BY <1>1
  <2> QED
    BY <1>5, <2>1, ScriptGoesOn
<1>6. 0..m + n \subseteq S
  <2> HIDE DEF S
  <2> QED
    BY <1>1, <1>4, <1>5, Induct
<1>7. PICK f : ScriptUpTo(old, new, dp, f, m + n)
  BY <1>1, <1>6
<1>8. Good(f)
  <2>1. ASSUME NEW c \in Cells(old, new)
        PROVE  f[c] = ScriptCell(old, new, dp, f, c[1], c[2])
    <3>1. c[1] \in 0..m /\ c[2] \in 0..n /\ c = <<c[1], c[2]>>
      BY <1>3
    <3>2. c[1] + c[2] <= m + n
      <4> DEFINE i == c[1]
                 j == c[2]
      <4>1. i \in 0..m /\ j \in 0..n
        BY <3>1
      <4> HIDE DEF i, j
      <4>2. i + j <= m + n
        BY <1>1, <4>1
      <4> QED
        BY <4>2 DEF i, j
    <3> QED
      BY <1>7, <3>1, <3>2 DEF ScriptUpTo, m, n
  <2>2. f = [c \in Cells(old, new) |-> f[c]]
    BY <1>7 DEF ScriptUpTo
  <2> QED
    BY <2>1, <2>2
<1> DEFINE script == CHOOSE f2 : Good(f2)
<1>9. Good(script)
  BY <1>8
<1> HIDE DEF script
<1>10. ASSUME NEW i \in 0..m, NEW j \in 0..n
       PROVE  script[<<i, j>>] = ScriptCell(old, new, dp, script, i, j)
  <2>1. <<i, j>> \in Cells(old, new) /\ <<i, j>>[1] = i /\ <<i, j>>[2] = j
    BY <1>3
  <2> QED
    BY <1>9, <2>1
<1> QED
  BY <1>2, <1>10 DEF m, n, dp, script

-----------------------------------------------------------------------------
(* No matching is longer than the table says.                              *)

Pairs(old, new) ==
    {p \in (DOMAIN old) \X (DOMAIN new) : SameHash(old, new, p[1], p[2])}

InOrder(match) ==
    \A p, q \in match : \/ p = q
                        \/ p[1] < q[1] /\ p[2] < q[2]
                        \/ q[1] < p[1] /\ q[2] < p[2]

\* The order-preserving matchings of the first i old and the first j new sentences.
Matchings(old, new, i, j) ==
    {match \in SUBSET Pairs(old, new) :
        InOrder(match) /\ \A p \in match : p[1] <= i /\ p[2] <= j}

LEMMA PairsFacts ==
    ASSUME NEW old \in Seq(Sentence), NEW new \in Seq(Sentence)
    PROVE  /\ IsFiniteSet(Pairs(old, new))
           /\ \A p \in Pairs(old, new) :
                 /\ p[1] \in 1..Len(old) /\ p[2] \in 1..Len(new) /\ p = <<p[1], p[2]>>
                 /\ SameHash(old, new, p[1], p[2])
<1>1. /\ Len(old) \in Nat /\ DOMAIN old = 1..Len(old)
      /\ Len(new) \in Nat /\ DOMAIN new = 1..Len(new)
  BY Bounds
<1>2. IsFiniteSet(1..Len(old)) /\ IsFiniteSet(1..Len(new))
  BY <1>1, FS_Interval
<1>3. IsFiniteSet((1..Len(old)) \X (1..Len(new)))
  BY <1>2, FS_Product
<1>4. Pairs(old, new) \subseteq (1..Len(old)) \X (1..Len(new))
  BY <1>1 DEF Pairs
<1>5. IsFiniteSet(Pairs(old, new))
  BY <1>3, <1>4, FS_Subset
<1>6. ASSUME NEW p \in Pairs(old, new)
      PROVE  /\ p[1] \in 1..Len(old) /\ p[2] \in 1..Len(new) /\ p = <<p[1], p[2]>>
             /\ SameHash(old, new, p[1], p[2])
  <2>1. p \in (1..Len(old)) \X (1..Len(new))
    BY <1>4
  <2> QED
    BY <2>1 DEF Pairs
<1> QED
  BY <1>5, <1>6

LEMMA ShortMatching ==
    ASSUME NEW old \in Seq(Sentence), NEW new \in Seq(Sentence),
           NEW i \in 0..Len(old), NEW j \in 0..Len(new), i = 0 \/ j = 0,
           NEW match \in Matchings(old, new, i, j)
    PROVE  Cardinality(match) = 0
<1>1. match = {}
  <2>1. SUFFICES ASSUME NEW p \in match PROVE FALSE
    OBVIOUS
  <2>2. p \in Pairs(old, new) /\ p[1] <= i /\ p[2] <= j
    BY DEF Matchings
  <2>3. p[1] \in 1..Len(old) /\ p[2] \in 1..Len(new)
    BY <2>2, PairsFacts
  <2> QED
    BY <2>2, <2>3
<1> QED
  BY <1>1, FS_EmptySet

\* Where i and j match, at most one pair is on the last row or column.
LEMMA CornerMatching ==
    ASSUME NEW old \in Seq(Sentence), NEW new \in Seq(Sentence),
           NEW i \in 1..Len(old), NEW j \in 1..Len(new), NEW match \in Matchings(old, new, i, j)
    PROVE  \E less \in Matchings(old, new, i - 1, j - 1) :
              \/ Cardinality(match) = Cardinality(less)
              \/ Cardinality(match) = Cardinality(less) + 1
<1>1. /\ match \subseteq Pairs(old, new) /\ InOrder(match)
      /\ \A p \in match : p[1] <= i /\ p[2] <= j
  BY DEF Matchings
<1>2. \A p \in match : p[1] \in 1..Len(old) /\ p[2] \in 1..Len(new)
  BY <1>1, PairsFacts
<1>3. IsFiniteSet(match)
  BY <1>1, PairsFacts, FS_Subset
<1>4. CASE \A p \in match : p[1] # i /\ p[2] # j
  <2>1. \A p \in match : p[1] <= i - 1 /\ p[2] <= j - 1
    BY <1>1, <1>2, <1>4
  <2>2. match \in Matchings(old, new, i - 1, j - 1)
    BY <1>1, <2>1 DEF Matchings
  <2> QED
    BY <2>2
<1>5. ASSUME NEW x \in match, x[1] = i \/ x[2] = j
      PROVE  \E less \in Matchings(old, new, i - 1, j - 1) :
                Cardinality(match) = Cardinality(less) + 1
  <2> DEFINE less == match \ {x}
  <2>1. ASSUME NEW p \in less PROVE p[1] <= i - 1 /\ p[2] <= j - 1
    <3>1. p # x /\ p \in match
      OBVIOUS
    <3>2. \/ p[1] < x[1] /\ p[2] < x[2]
          \/ x[1] < p[1] /\ x[2] < p[2]
      BY <1>1, <3>1 DEF InOrder
    <3> DEFINE p1 == p[1]
               p2 == p[2]
               x1 == x[1]
               x2 == x[2]
    <3>3. p1 \in Int /\ p2 \in Int /\ x1 \in Int /\ x2 \in Int
      BY <1>2, <3>1
    <3>4. p1 <= i /\ p2 <= j /\ x1 <= i /\ x2 <= j
      BY <1>1, <3>1
    <3>5. (x1 = i \/ x2 = j) /\ ((p1 < x1 /\ p2 < x2) \/ (x1 < p1 /\ x2 < p2))
      BY <1>5, <3>2
    <3>6. i \in Int /\ j \in Int
      OBVIOUS
    <3> HIDE DEF p1, p2, x1, x2
    <3>7. p1 <= i - 1 /\ p2 <= j - 1
      BY <3>3, <3>4, <3>5, <3>6
    <3> QED
      BY <3>7 DEF p1, p2
  <2>2. less \in Matchings(old, new, i - 1, j - 1)
    BY <1>1, <2>1 DEF Matchings, InOrder
  <2>3. Cardinality(match) = Cardinality(less) + 1
    <3>1. Cardinality(less) = Cardinality(match) - 1 /\ IsFiniteSet(less)
      BY <1>3, FS_RemoveElement
    <3>2. Cardinality(match) \in Nat
      BY <1>3, FS_CardinalityType
    <3> QED
      BY <3>1, <3>2
  <2> QED
    BY <2>2, <2>3
<1> QED
  BY <1>4, <1>5

\* Where they do not, the last row or the last column is not used.
LEMMA SideMatching ==
    ASSUME NEW old \in Seq(Sentence), NEW new \in Seq(Sentence),
           NEW i \in 1..Len(old), NEW j \in 1..Len(new), ~SameHash(old, new, i, j),
           NEW match \in Matchings(old, new, i, j)
    PROVE  match \in Matchings(old, new, i - 1, j) \cup Matchings(old, new, i, j - 1)
<1>1. /\ match \subseteq Pairs(old, new) /\ InOrder(match)
      /\ \A p \in match : p[1] <= i /\ p[2] <= j
  BY DEF Matchings
<1>2. \A p \in match : p[1] \in 1..Len(old) /\ p[2] \in 1..Len(new) /\ SameHash(old, new, p[1], p[2])
  BY <1>1, PairsFacts
<1>3. CASE \A p \in match : p[1] # i
  <2>1. \A p \in match : p[1] <= i - 1
    BY <1>1, <1>2, <1>3
  <2> QED
    BY <1>1, <2>1 DEF Matchings
<1>4. ASSUME NEW x \in match, x[1] = i
      PROVE  match \in Matchings(old, new, i, j - 1)
  <2>1. ASSUME NEW p \in match PROVE p[2] <= j - 1
    <3> DEFINE p1 == p[1]
               p2 == p[2]
               x2 == x[2]
    <3>1. x2 # j
      BY <1>2, <1>4
    <3>2. p = x \/ (p1 < i /\ p2 < x2) \/ (i < p1 /\ x2 < p2)
      BY <1>1, <1>4 DEF InOrder
    <3>3. p1 \in Int /\ p2 \in Int /\ x2 \in Int /\ i \in Int /\ j \in Int
      BY <1>2
    <3>4. p1 <= i /\ p2 <= j /\ x2 <= j /\ (p = x => p2 = x2)
      BY <1>1
    <3> HIDE DEF p1, p2, x2
    <3>5. p2 <= j - 1
      BY <3>1, <3>2, <3>3, <3>4
    <3> QED
      BY <3>5 DEF p2
  <2> QED
    BY <1>1, <2>1 DEF Matchings
<1> QED
  BY <1>3, <1>4

LEMMA MatchingBound ==
    ASSUME NEW old \in Seq(Sentence), NEW new \in Seq(Sentence),
           NEW i \in 0..Len(old), NEW j \in 0..Len(new), NEW match \in Matchings(old, new, i, j)
    PROVE  Cardinality(match) <= LcsTable(old, new)[<<i, j>>]
<1> DEFINE m == Len(old)
           n == Len(new)
           dp == LcsTable(old, new)
           Bounded(k, l) == \A any \in Matchings(old, new, k, l) : Cardinality(any) <= dp[<<k, l>>]
           S == {t \in 0..m + n : \A k \in 0..m, l \in 0..n : k + l <= t => Bounded(k, l)}
<1>1. m \in Nat /\ n \in Nat /\ m + n \in Nat
  BY Bounds
<1>2. \A k \in 0..m, l \in 0..n : dp[<<k, l>>] = TableCell(old, new, dp, k, l) /\ dp[<<k, l>>] \in Nat
  BY LcsTableIs, LcsIsNat
<1>3. ASSUME NEW k \in 0..m, NEW l \in 0..n, NEW any \in Matchings(old, new, k, l)
      PROVE  Cardinality(any) \in Nat
  <2>1. IsFiniteSet(any)
    BY PairsFacts, FS_Subset DEF Matchings
  <2> QED
    BY <2>1, FS_CardinalityType
<1>4. ASSUME NEW k \in 0..m, NEW l \in 0..n, k = 0 \/ l = 0
      PROVE  Bounded(k, l)
  <2>1. \A any \in Matchings(old, new, k, l) : Cardinality(any) = 0
    BY <1>4, ShortMatching
  <2>2. dp[<<k, l>>] \in Nat
    BY <1>2
  <2> HIDE DEF dp
  <2> QED
    BY <2>1, <2>2
<1>5. 0 \in S
  <2>1. ASSUME NEW k \in 0..m, NEW l \in 0..n, k + l <= 0 PROVE Bounded(k, l)
    <3>1. k = 0
      BY <1>1, <2>1
    <3> QED
      BY <1>4, <3>1
  <2> HIDE DEF Bounded
  <2> QED
    BY <1>1, <2>1
<1>6. ASSUME NEW t \in 0..((m + n) - 1), t \in S PROVE t + 1 \in S
  <2>1. ASSUME NEW k \in 0..m, NEW l \in 0..n, k + l <= t + 1 PROVE Bounded(k, l)
    <3>1. CASE k # 0 /\ l # 0
      <4>1. /\ k - 1 \in 0..m /\ l - 1 \in 0..n /\ k \in 1..m /\ l \in 1..n
            /\ (k - 1) + (l - 1) <= t /\ (k - 1) + l <= t /\ k + (l - 1) <= t
        BY <1>1, <1>6, <2>1, <3>1
      <4>2. Bounded(k - 1, l - 1) /\ Bounded(k - 1, l) /\ Bounded(k, l - 1)
        BY <1>6, <4>1
      <4>3. SUFFICES ASSUME NEW any \in Matchings(old, new, k, l)
                     PROVE  Cardinality(any) <= dp[<<k, l>>]
        OBVIOUS
      <4>4. Cardinality(any) \in Nat
        BY <1>3
      <4>5. dp[<<k - 1, l - 1>>] \in Nat /\ dp[<<k - 1, l>>] \in Nat /\ dp[<<k, l - 1>>] \in Nat
        BY <1>2, <4>1
      <4>6. CASE SameHash(old, new, k, l)
        <5>1. PICK less \in Matchings(old, new, k - 1, l - 1) :
                 Cardinality(any) = Cardinality(less) \/ Cardinality(any) = Cardinality(less) + 1
          BY <4>1, CornerMatching
        <5>2. Cardinality(less) <= dp[<<k - 1, l - 1>>] /\ Cardinality(less) \in Nat
          BY <1>3, <4>1, <4>2
        <5>3. dp[<<k, l>>] = dp[<<k - 1, l - 1>>] + 1
          BY <1>2, <3>1, <4>6 DEF TableCell
        <5> HIDE DEF dp
        <5> QED
          BY <4>5, <5>1, <5>2, <5>3
      <4>7. CASE ~SameHash(old, new, k, l)
        <5>1. any \in Matchings(old, new, k - 1, l) \cup Matchings(old, new, k, l - 1)
          BY <4>1, <4>7, SideMatching
        <5>2. Cardinality(any) <= dp[<<k - 1, l>>] \/ Cardinality(any) <= dp[<<k, l - 1>>]
          BY <4>2, <5>1
        <5>3. dp[<<k, l>>] = IF dp[<<k - 1, l>>] >= dp[<<k, l - 1>>] THEN dp[<<k - 1, l>>]
                                                                     ELSE dp[<<k, l - 1>>]
          BY <1>2, <3>1, <4>7 DEF TableCell
        <5> HIDE DEF dp
        <5> QED
          BY <4>4, <4>5, <5>2, <5>3
      <4> QED
        BY <4>6, <4>7
    <3> QED
      BY <1>4, <3>1
  <2> HIDE DEF Bounded
  <2> QED
    BY <1>1, <2>1
<1>7. 0..m + n \subseteq S
  <2> HIDE DEF S
  <2> QED
    BY <1>1, <1>5, <1>6, Induct
<1>8. Bounded(i, j)
  <2>1. i + j <= m + n /\ m + n \in S
    BY <1>1, <1>7
  <2> HIDE DEF Bounded
  <2> QED
    BY <2>1
<1> QED
  BY <1>8

-----------------------------------------------------------------------------
(* The backtrack's script is a way through the grid: it takes the sentences *)
(* of both versions in order and has the table's number of equal pairs.     *)

At(i, j, e) == [i |-> i, j |-> j, e |-> e]

Step(old, new, s, t, op) ==
    \/ /\ t = At(s.i + 1, s.j + 1, s.e + 1) /\ op = Op("equal", t.i, t.j)
       /\ SameHash(old, new, t.i, t.j)
    \/ t = At(s.i + 1, s.j, s.e) /\ op = Op("delete", t.i, 0)
    \/ t = At(s.i, s.j + 1, s.e) /\ op = Op("insert", 0, t.j)

Path(old, new, ops, st) ==
    /\ Table(ops)
    /\ st[0] = At(0, 0, 0)
    /\ \A k \in 0..Len(ops) : \E i \in 0..Len(old), j \in 0..Len(new), e \in Nat : st[k] = At(i, j, e)
    /\ \A k \in 1..Len(ops) : Step(old, new, st[k - 1], st[k], ops[k])

LEMMA PathGoesOn ==
    ASSUME NEW old \in Seq(Sentence), NEW new \in Seq(Sentence), NEW ops, NEW st,
           Path(old, new, ops, st), NEW op,
           NEW i, NEW j, NEW e, i \in 0..Len(old), j \in 0..Len(new), e \in Nat,
           Step(old, new, st[Len(ops)], At(i, j, e), op)
    PROVE  \E there : /\ Path(old, new, Append(ops, op), there)
                      /\ there[Len(Append(ops, op))] = At(i, j, e)
<1> DEFINE N == Len(ops)
           more == Append(ops, op)
           there == [k \in 0..N + 1 |-> IF k = N + 1 THEN At(i, j, e) ELSE st[k]]
<1>1. Table(ops) /\ N \in Nat /\ DOMAIN ops = 1..N
  BY TableFacts DEF Path
<1>2. /\ Table(more) /\ Len(more) = N + 1 /\ more[N + 1] = op
      /\ \A k \in 1..N : more[k] = ops[k]
  BY <1>1, TableAppend, AppendLonger
<1> HIDE DEF N, more
<1>3. there[N + 1] = At(i, j, e) /\ \A k \in 0..N : there[k] = st[k]
  <2>1. \A k \in 0..N : k \in 0..N + 1 /\ k # N + 1
    BY <1>1
  <2>2. N + 1 \in 0..N + 1
    BY <1>1
  <2> QED
    BY <2>1, <2>2
<1> HIDE DEF there
<1>4. there[0] = At(0, 0, 0)
  BY <1>1, <1>3 DEF Path
<1>5. ASSUME NEW k \in 0..N + 1
      PROVE  \E i2 \in 0..Len(old), j2 \in 0..Len(new), e2 \in Nat : there[k] = At(i2, j2, e2)
  <2>1. k \in 0..N \/ k = N + 1
    BY <1>1
  <2> QED
    BY <1>3, <2>1 DEF Path, N
<1>6. ASSUME NEW k \in 1..N + 1
      PROVE  Step(old, new, there[k - 1], there[k], more[k])
  <2>1. CASE k \in 1..N
    <3>1. k - 1 \in 0..N /\ k \in 0..N
      BY <1>1, <2>1
    <3> QED
      BY <1>2, <1>3, <2>1, <3>1 DEF Path, N
  <2>2. CASE k = N + 1
    <3>1. k - 1 = N /\ N \in 0..N
      BY <1>1, <2>2
    <3> QED
      BY <1>2, <1>3, <2>2, <3>1 DEF N
  <2> QED
    BY <1>1, <2>1, <2>2
<1>7. Path(old, new, more, there)
  BY <1>2, <1>4, <1>5, <1>6 DEF Path
<1> QED
  BY <1>2, <1>3, <1>7 DEF more

LEMMA ScriptPath ==
    ASSUME NEW old \in Seq(Sentence), NEW new \in Seq(Sentence)
    PROVE  LET ops == LcsScript(old, new) IN
           \E st : /\ Path(old, new, ops, st)
                   /\ st[Len(ops)] = At(Len(old), Len(new), LcsTable(old, new)[<<Len(old), Len(new)>>])
<1> DEFINE m == Len(old)
           n == Len(new)
           dp == LcsTable(old, new)
<1>1. m \in Nat /\ n \in Nat /\ m + n \in Nat
  BY Bounds
<1>2. \A k \in 0..m, l \in 0..n : dp[<<k, l>>] = TableCell(old, new, dp, k, l) /\ dp[<<k, l>>] \in Nat
  BY LcsTableIs, LcsIsNat
<1>3. PICK f : /\ LcsScript(old, new) = f[<<m, n>>]
               /\ \A k \in 0..m, l \in 0..n : f[<<k, l>>] = ScriptCell(old, new, dp, f, k, l)
  BY ScriptIs
<1> HIDE DEF m, n, dp
<1> DEFINE Leads(k, l) == \E st : /\ Path(old, new, f[<<k, l>>], st)
                                  /\ st[Len(f[<<k, l>>])] = At(k, l, dp[<<k, l>>])
           S == {t \in 0..m + n : \A k \in 0..m, l \in 0..n : k + l <= t => Leads(k, l)}
<1>4. Leads(0, 0)
  <2>1. 0 \in 0..m /\ 0 \in 0..n
    BY <1>1
  <2>2. f[<<0, 0>>] = <<>>
    <3>1. ~(0 > 0)
      OBVIOUS
    <3>2. f[<<0, 0>>] = ScriptCell(old, new, dp, f, 0, 0)
      BY <1>3, <2>1
    <3>3. ScriptCell(old, new, dp, f, 0, 0) = <<>>
      BY <3>1 DEF ScriptCell
    <3> QED
      BY <3>2, <3>3
  <2>3. dp[<<0, 0>>] = 0
    BY <1>2, <2>1 DEF TableCell
  <2> DEFINE st == [k \in {0} |-> At(0, 0, 0)]
  <2>4. st[0] = At(0, 0, 0)
    OBVIOUS
  <2> HIDE DEF st
  <2>5. Len(<<>>) = 0 /\ Table(<<>>)
    <3>1. <<>> \in Seq({<<>>[k] : k \in DOMAIN <<>>}) /\ Len(<<>>) = 0
      OBVIOUS
    <3> QED
      BY <3>1 DEF Table
  <2>6. Path(old, new, <<>>, st)
    <3>1. ASSUME NEW k \in 0..0
          PROVE  \E i2 \in 0..Len(old), j2 \in 0..Len(new), e2 \in Nat : st[k] = At(i2, j2, e2)
      <4>1. k = 0 /\ 0 \in Nat
        OBVIOUS
      <4> QED
        BY <2>1, <2>4, <4>1 DEF m, n
    <3>2. 1..0 = {}
      OBVIOUS
    <3> QED
      BY <2>4, <2>5, <3>1, <3>2 DEF Path
  <2> QED
    BY <2>2, <2>3, <2>4, <2>5, <2>6
<1>5. ASSUME NEW k \in 0..m, NEW l \in 0..n, NEW k0 \in 0..m, NEW l0 \in 0..n, NEW op,
             Leads(k0, l0), f[<<k, l>>] = Append(f[<<k0, l0>>], op),
             Step(old, new, At(k0, l0, dp[<<k0, l0>>]), At(k, l, dp[<<k, l>>]), op)
      PROVE  Leads(k, l)
  <2>1. PICK st : /\ Path(old, new, f[<<k0, l0>>], st)
                  /\ st[Len(f[<<k0, l0>>])] = At(k0, l0, dp[<<k0, l0>>])
    BY <1>5
  <2>2. dp[<<k, l>>] \in Nat
    BY <1>2
  <2>3. k \in 0..Len(old) /\ l \in 0..Len(new)
    BY DEF m, n
  <2> DEFINE ops == f[<<k0, l0>>]
             e == dp[<<k, l>>]
  <2>4. /\ Path(old, new, ops, st) /\ e \in Nat
        /\ Step(old, new, st[Len(ops)], At(k, l, e), op)
    BY <1>5, <2>1, <2>2
  <2> HIDE DEF ops, e
  <2>5. \E there : /\ Path(old, new, Append(ops, op), there)
                   /\ there[Len(Append(ops, op))] = At(k, l, e)
    BY <2>3, <2>4, PathGoesOn
  <2> QED
    BY <1>5, <2>5 DEF ops, e
<1> HIDE DEF Leads
<1>6. 0 \in S
  <2>1. ASSUME NEW k \in 0..m, NEW l \in 0..n, k + l <= 0 PROVE Leads(k, l)
    <3>1. k = 0 /\ l = 0
      BY <1>1, <2>1
    <3> QED
      BY <1>4, <3>1
  <2> QED
    BY <1>1, <2>1
<1>7. ASSUME NEW t \in 0..((m + n) - 1), t \in S PROVE t + 1 \in S
  <2>1. ASSUME NEW k \in 0..m, NEW l \in 0..n, k + l <= t + 1 PROVE Leads(k, l)
    <3> DEFINE up == dp[<<k - 1, l>>]
               left == dp[<<k, l - 1>>]
    <3>1. f[<<k, l>>] = ScriptCell(old, new, dp, f, k, l) /\ dp[<<k, l>>] = TableCell(old, new, dp, k, l)
      BY <1>2, <1>3
    <3>2. CASE k > 0 /\ l > 0 /\ SameHash(old, new, k, l)
      <4>1. /\ k - 1 \in 0..m /\ l - 1 \in 0..n /\ (k - 1) + (l - 1) <= t
            /\ k # 0 /\ l # 0 /\ (k - 1) + 1 = k /\ (l - 1) + 1 = l
        BY <1>1, <1>7, <2>1, <3>2
      <4>2. Leads(k - 1, l - 1)
        BY <1>7, <4>1
      <4>3. f[<<k, l>>] = Append(f[<<k - 1, l - 1>>], Op("equal", k, l))
        BY <3>1, <3>2 DEF ScriptCell
      <4>4. dp[<<k, l>>] = dp[<<k - 1, l - 1>>] + 1
        BY <3>1, <3>2, <4>1 DEF TableCell
      <4>5. Step(old, new, At(k - 1, l - 1, dp[<<k - 1, l - 1>>]), At(k, l, dp[<<k, l>>]), Op("equal", k, l))
        BY <3>2, <4>1, <4>4 DEF Step, At
      <4> QED
        BY <1>5, <4>1, <4>2, <4>3, <4>5
    <3>3. CASE /\ k > 0 /\ ~(l > 0 /\ SameHash(old, new, k, l))
               /\ l = 0 \/ up >= left
      <4>1. k - 1 \in 0..m /\ (k - 1) + l <= t /\ k # 0 /\ (k - 1) + 1 = k
        BY <1>1, <1>7, <2>1, <3>3
      <4>2. Leads(k - 1, l)
        BY <1>7, <4>1
      <4>3. f[<<k, l>>] = Append(f[<<k - 1, l>>], Op("delete", k, 0))
        BY <3>1, <3>3 DEF ScriptCell
      <4>4. dp[<<k, l>>] = up
        <5>1. CASE l = 0
          <6>1. dp[<<k, l>>] = 0
            BY <3>1, <5>1 DEF TableCell
          <6>2. dp[<<k - 1, l>>] = TableCell(old, new, dp, k - 1, l)
            BY <1>2, <4>1
          <6>3. dp[<<k - 1, l>>] = 0
            BY <5>1, <6>2 DEF TableCell
          <6> QED
            BY <6>1, <6>3
        <5>2. CASE l # 0
          <6>1. l > 0
            BY <1>1, <5>2
          <6> QED
            BY <3>1, <3>3, <4>1, <5>2, <6>1 DEF TableCell
        <5> QED
          BY <5>1, <5>2
      <4>5. Step(old, new, At(k - 1, l, dp[<<k - 1, l>>]), At(k, l, dp[<<k, l>>]), Op("delete", k, 0))
        BY <4>1, <4>4 DEF Step, At
      <4> QED
        BY <1>5, <4>1, <4>2, <4>3, <4>5
    <3>4. CASE /\ l > 0 /\ ~(k > 0 /\ SameHash(old, new, k, l))
               /\ ~(k > 0 /\ up >= left)
      <4>1. l - 1 \in 0..n /\ k + (l - 1) <= t /\ l # 0 /\ (l - 1) + 1 = l
        BY <1>1, <1>7, <2>1, <3>4
      <4>2. Leads(k, l - 1)
        BY <1>7, <4>1
      <4>3. f[<<k, l>>] = Append(f[<<k, l - 1>>], Op("insert", 0, l))
        BY <3>1, <3>4, <4>1 DEF ScriptCell
      <4>4. dp[<<k, l>>] = left
        <5>1. CASE k = 0
          <6>1. dp[<<k, l>>] = 0
            BY <3>1, <5>1 DEF TableCell
          <6>2. dp[<<k, l - 1>>] = TableCell(old, new, dp, k, l - 1)
            BY <1>2, <4>1
          <6>3. dp[<<k, l - 1>>] = 0
            BY <5>1, <6>2 DEF TableCell
          <6> QED
            BY <6>1, <6>3
        <5>2. CASE k # 0
          <6>1. k > 0
            BY <1>1, <5>2
          <6> QED
            BY <3>1, <3>4, <4>1, <5>2, <6>1 DEF TableCell
        <5> QED
          BY <5>1, <5>2
      <4>5. Step(old, new, At(k, l - 1, dp[<<k, l - 1>>]), At(k, l, dp[<<k, l>>]), Op("insert", 0, l))
        BY <4>1, <4>4 DEF Step, At
      <4> QED
        BY <1>5, <4>1, <4>2, <4>3, <4>5
    <3>5. CASE k = 0 /\ l = 0
      BY <1>4, <3>5
    <3>6. (k = 0 \/ k > 0) /\ (l = 0 \/ l > 0)
      BY <1>1
    <3> QED
      BY <3>2, <3>3, <3>4, <3>5, <3>6
  <2> QED
    BY <1>1, <2>1
<1>8. 0..m + n \subseteq S
  <2> HIDE DEF S
  <2> QED
    BY <1>1, <1>6, <1>7, Induct
<1>9. Leads(m, n)
  <2>1. m \in 0..m /\ n \in 0..n /\ m + n \in 0..m + n /\ m + n <= m + n
    BY <1>1
  <2>2. m + n \in S
    BY <1>8, <2>1
  <2> QED
    BY <2>1, <2>2
<1> QED
  BY <1>3, <1>9 DEF Leads, m, n, dp

-----------------------------------------------------------------------------
(* _classify goes through the script op by op.                             *)

GapStep(old, new, gap, op) ==
    CASE op.type = "equal" -> [EmptyGap EXCEPT !.ops = Append(Flush(old, new, gap), op)]
      [] op.type = "delete" -> [gap EXCEPT !.deletes = Append(@, op.old)]
      [] op.type = "insert" -> [gap EXCEPT !.inserts = Append(@, op.new)]

GapsBy(old, new, steps, N, f) ==
    f = [s \in SUBSET (1..N) |-> IF s = {} THEN EmptyGap ELSE GapStep(old, new, f[s \ {Max(s)}], steps[Max(s)])]

LEMMA GapExists ==
    ASSUME NEW old, NEW new, NEW steps, NEW N \in Nat
    PROVE  \E f : GapsBy(old, new, steps, N, f)
<1> DEFINE S == {n \in 0..N : \E f : GapsBy(old, new, steps, n, f)}
<1>1. 0 \in S
  <2> DEFINE f == [s \in SUBSET (1..0) |-> EmptyGap]
  <2>1. \A s \in SUBSET (1..0) : s = {}
    OBVIOUS
  <2>2. GapsBy(old, new, steps, 0, f)
    BY <2>1 DEF GapsBy
  <2> QED
    BY <2>2
<1>2. ASSUME NEW n \in 0..(N - 1), n \in S
      PROVE  n + 1 \in S
  <2>1. PICK f : GapsBy(old, new, steps, n, f)
    BY <1>2
  <2>2. n \in Nat /\ n + 1 \in 0..N /\ n + 1 \in Nat
    OBVIOUS
  <2> DEFINE D == SUBSET (1..n + 1)
             g == [s \in D |-> IF n + 1 \in s THEN GapStep(old, new, f[s \ {n + 1}], steps[n + 1]) ELSE f[s]]
  <2>3. ASSUME NEW s \in D
        PROVE  g[s] = IF s = {} THEN EmptyGap ELSE GapStep(old, new, g[s \ {Max(s)}], steps[Max(s)])
    <3>1. CASE n + 1 \in s
      <4>1. \A k \in s : k <= n + 1
        BY <2>2
      <4>2. Max(s) = n + 1
        BY <2>2, <3>1, <4>1, LargestIs
      <4>3. s \ {n + 1} \in SUBSET (1..n + 1) /\ n + 1 \notin s \ {n + 1}
        BY <2>2
      <4>4. g[s \ {n + 1}] = f[s \ {n + 1}]
        BY <4>3
      <4> QED
        BY <3>1, <4>2, <4>4
    <3>2. CASE n + 1 \notin s
      <4>1. s \in SUBSET (1..n)
        BY <2>2, <3>2
      <4>2. f[s] = IF s = {} THEN EmptyGap ELSE GapStep(old, new, f[s \ {Max(s)}], steps[Max(s)])
        BY <2>1, <4>1 DEF GapsBy
      <4>3. s \ {Max(s)} \in D /\ n + 1 \notin s \ {Max(s)}
        BY <3>2
      <4>4. g[s \ {Max(s)}] = f[s \ {Max(s)}] /\ g[s] = f[s]
        BY <3>2, <4>3
      <4> HIDE DEF g, D
      <4> QED
        BY <4>2, <4>4
    <3> QED
      BY <3>1, <3>2
  <2>4. g = [s \in D |-> g[s]]
    OBVIOUS
  <2> HIDE DEF g
  <2>5. g = [s \in D |-> IF s = {} THEN EmptyGap ELSE GapStep(old, new, g[s \ {Max(s)}], steps[Max(s)])]
    BY <2>3, <2>4
  <2>6. GapsBy(old, new, steps, n + 1, g)
    BY <2>5 DEF GapsBy
  <2> QED
    BY <2>2, <2>6
<1>3. 0..N \subseteq S
  <2> HIDE DEF S
  <2> QED
    BY <1>1, <1>2, Induct
<1> QED
  BY <1>3

LEMMA GapInOrder ==
    ASSUME NEW old, NEW new, NEW steps, NEW N \in Nat
    PROVE  LET f == CHOOSE f : GapsBy(old, new, steps, N, f) IN
           /\ f[1..0] = EmptyGap
           /\ \A k \in 0..(N - 1) : f[1..k + 1] = GapStep(old, new, f[1..k], steps[k + 1])
<1> DEFINE f == CHOOSE f : GapsBy(old, new, steps, N, f)
<1>1. GapsBy(old, new, steps, N, f)
  BY GapExists
<1> HIDE DEF f
<1>2. f[1..0] = EmptyGap
  <2>1. 1..0 = {} /\ 1..0 \in SUBSET (1..N)
    OBVIOUS
  <2> QED
    BY <1>1, <2>1 DEF GapsBy
<1>3. ASSUME NEW k \in 0..(N - 1)
      PROVE  f[1..k + 1] = GapStep(old, new, f[1..k], steps[k + 1])
  <2>1. 1..k + 1 \in SUBSET (1..N) /\ k + 1 \in Nat /\ k + 1 \in 1..k + 1
    OBVIOUS
  <2>2. Max(1..k + 1) = k + 1
    <3>1. /\ 1..k + 1 \in SUBSET (1..k + 1)
          /\ \A j \in 1..k + 1 : j <= k + 1
      OBVIOUS
    <3> QED
      BY <2>1, <3>1, LargestIs
  <2>3. (1..k + 1) \ {k + 1} = 1..k
    OBVIOUS
  <2> QED
    BY <1>1, <2>1, <2>2, <2>3 DEF GapsBy
<1> QED
  BY <1>2, <1>3 DEF f

LEMMA AlignInOrder ==
    ASSUME NEW old, NEW new, Table(LcsScript(old, new))
    PROVE  LET ops == LcsScript(old, new) IN
           \E gap : /\ gap[0] = EmptyGap
                    /\ \A k \in 0..(Len(ops) - 1) : gap[k + 1] = GapStep(old, new, gap[k], ops[k + 1])
                    /\ Align(old, new) = Flush(old, new, gap[Len(ops)])
<1> DEFINE ops == LcsScript(old, new)
           N == Len(ops)
           f == CHOOSE f : GapsBy(old, new, ops, N, f)
           gap == [k \in 0..N |-> f[1..k]]
<1>1. N \in Nat /\ DOMAIN ops = 1..N
  BY TableFacts
<1>2. Align(old, new) = Flush(old, new, f[1..N])
  <2>1. Align(old, new) = Flush(old, new,
           (CHOOSE g : g = [s \in SUBSET (DOMAIN ops) |-> IF s = {} THEN EmptyGap
                              ELSE GapStep(old, new, g[s \ {Max(s)}], ops[Max(s)])])[DOMAIN ops])
    BY DEF Align, GapStep, FoldLeft, MapThenFoldSet
  <2> QED
    BY <1>1, <2>1 DEF GapsBy
<1>3. /\ f[1..0] = EmptyGap
      /\ \A k \in 0..(N - 1) : f[1..k + 1] = GapStep(old, new, f[1..k], ops[k + 1])
  <2>1. \A steps : \A M \in Nat :
           LET g == CHOOSE g : GapsBy(old, new, steps, M, g) IN
           /\ g[1..0] = EmptyGap
           /\ \A k \in 0..(M - 1) : g[1..k + 1] = GapStep(old, new, g[1..k], steps[k + 1])
    BY GapInOrder
  <2> QED
    BY <1>1, <2>1
<1> HIDE DEF N, ops
<1> HIDE DEF f
<1>4. \A k \in 0..N : gap[k] = f[1..k]
  OBVIOUS
<1>5. /\ 0 \in 0..N /\ N \in 0..N
      /\ \A k \in 0..(N - 1) : k \in 0..N /\ k + 1 \in 0..N
  BY <1>1
<1> HIDE DEF gap
<1> QED
  BY <1>2, <1>3, <1>4, <1>5 DEF N, ops


-----------------------------------------------------------------------------
(* The pairing of a gap goes through its inserts one by one.               *)

PairStep(old, new, deletes, partner, j) ==
    [partner EXCEPT ![j] = BestPartner(old, new, deletes, Range(partner), j)]

Unpaired(inserts) == [j \in ToSet(inserts) |-> 0]

PairsBy(old, new, deletes, inserts, steps, N, f) ==
    f = [s \in SUBSET (1..N) |-> IF s = {} THEN Unpaired(inserts) ELSE PairStep(old, new, deletes, f[s \ {Max(s)}], steps[Max(s)])]

LEMMA PairExists ==
    ASSUME NEW old, NEW new, NEW deletes, NEW inserts, NEW steps, NEW N \in Nat
    PROVE  \E f : PairsBy(old, new, deletes, inserts, steps, N, f)
<1> DEFINE S == {n \in 0..N : \E f : PairsBy(old, new, deletes, inserts, steps, n, f)}
<1>1. 0 \in S
  <2> DEFINE f == [s \in SUBSET (1..0) |-> Unpaired(inserts)]
  <2>1. \A s \in SUBSET (1..0) : s = {}
    OBVIOUS
  <2>2. PairsBy(old, new, deletes, inserts, steps, 0, f)
    BY <2>1 DEF PairsBy
  <2> QED
    BY <2>2
<1>2. ASSUME NEW n \in 0..(N - 1), n \in S
      PROVE  n + 1 \in S
  <2>1. PICK f : PairsBy(old, new, deletes, inserts, steps, n, f)
    BY <1>2
  <2>2. n \in Nat /\ n + 1 \in 0..N /\ n + 1 \in Nat
    OBVIOUS
  <2> DEFINE D == SUBSET (1..n + 1)
             g == [s \in D |-> IF n + 1 \in s THEN PairStep(old, new, deletes, f[s \ {n + 1}], steps[n + 1]) ELSE f[s]]
  <2>3. ASSUME NEW s \in D
        PROVE  g[s] = IF s = {} THEN Unpaired(inserts) ELSE PairStep(old, new, deletes, g[s \ {Max(s)}], steps[Max(s)])
    <3>1. CASE n + 1 \in s
      <4>1. \A k \in s : k <= n + 1
        BY <2>2
      <4>2. Max(s) = n + 1
        BY <2>2, <3>1, <4>1, LargestIs
      <4>3. s \ {n + 1} \in SUBSET (1..n + 1) /\ n + 1 \notin s \ {n + 1}
        BY <2>2
      <4>4. g[s \ {n + 1}] = f[s \ {n + 1}]
        BY <4>3
      <4> QED
        BY <3>1, <4>2, <4>4
    <3>2. CASE n + 1 \notin s
      <4>1. s \in SUBSET (1..n)
        BY <2>2, <3>2
      <4>2. f[s] = IF s = {} THEN Unpaired(inserts) ELSE PairStep(old, new, deletes, f[s \ {Max(s)}], steps[Max(s)])
        BY <2>1, <4>1 DEF PairsBy
      <4>3. s \ {Max(s)} \in D /\ n + 1 \notin s \ {Max(s)}
        BY <3>2
      <4>4. g[s \ {Max(s)}] = f[s \ {Max(s)}] /\ g[s] = f[s]
        BY <3>2, <4>3
      <4> HIDE DEF g, D
      <4> QED
        BY <4>2, <4>4
    <3> QED
      BY <3>1, <3>2
  <2>4. g = [s \in D |-> g[s]]
    OBVIOUS
  <2> HIDE DEF g
  <2>5. g = [s \in D |-> IF s = {} THEN Unpaired(inserts) ELSE PairStep(old, new, deletes, g[s \ {Max(s)}], steps[Max(s)])]
    BY <2>3, <2>4
  <2>6. PairsBy(old, new, deletes, inserts, steps, n + 1, g)
    BY <2>5 DEF PairsBy
  <2> QED
    BY <2>2, <2>6
<1>3. 0..N \subseteq S
  <2> HIDE DEF S
  <2> QED
    BY <1>1, <1>2, Induct
<1> QED
  BY <1>3

LEMMA PairInOrder ==
    ASSUME NEW old, NEW new, NEW deletes, NEW inserts, NEW steps, NEW N \in Nat
    PROVE  LET f == CHOOSE f : PairsBy(old, new, deletes, inserts, steps, N, f) IN
           /\ f[1..0] = Unpaired(inserts)
           /\ \A k \in 0..(N - 1) : f[1..k + 1] = PairStep(old, new, deletes, f[1..k], steps[k + 1])
<1> DEFINE f == CHOOSE f : PairsBy(old, new, deletes, inserts, steps, N, f)
<1>1. PairsBy(old, new, deletes, inserts, steps, N, f)
  BY PairExists
<1> HIDE DEF f
<1>2. f[1..0] = Unpaired(inserts)
  <2>1. 1..0 = {} /\ 1..0 \in SUBSET (1..N)
    OBVIOUS
  <2> QED
    BY <1>1, <2>1 DEF PairsBy
<1>3. ASSUME NEW k \in 0..(N - 1)
      PROVE  f[1..k + 1] = PairStep(old, new, deletes, f[1..k], steps[k + 1])
  <2>1. 1..k + 1 \in SUBSET (1..N) /\ k + 1 \in Nat /\ k + 1 \in 1..k + 1
    OBVIOUS
  <2>2. Max(1..k + 1) = k + 1
    <3>1. /\ 1..k + 1 \in SUBSET (1..k + 1)
          /\ \A j \in 1..k + 1 : j <= k + 1
      OBVIOUS
    <3> QED
      BY <2>1, <3>1, LargestIs
  <2>3. (1..k + 1) \ {k + 1} = 1..k
    OBVIOUS
  <2> QED
    BY <1>1, <2>1, <2>2, <2>3 DEF PairsBy
<1> QED
  BY <1>2, <1>3 DEF f

PartnersBy(old, new, deletes, inserts, partner) ==
    /\ partner[0] = Unpaired(inserts)
    /\ \A k \in 0..(Len(inserts) - 1) :
          partner[k + 1] = PairStep(old, new, deletes, partner[k], inserts[k + 1])
    /\ Partners(old, new, deletes, inserts) = partner[Len(inserts)]

LEMMA PartnersInOrder ==
    ASSUME NEW old, NEW new, NEW deletes, NEW inserts, Table(inserts)
    PROVE  \E partner : PartnersBy(old, new, deletes, inserts, partner)
<1> DEFINE N == Len(inserts)
           f == CHOOSE f : PairsBy(old, new, deletes, inserts, inserts, N, f)
           partner == [k \in 0..N |-> f[1..k]]
<1>1. N \in Nat /\ DOMAIN inserts = 1..N
  BY TableFacts
<1>2. Partners(old, new, deletes, inserts) = f[1..N]
  <2>1. Partners(old, new, deletes, inserts) =
           (CHOOSE g : g = [s \in SUBSET (DOMAIN inserts) |-> IF s = {} THEN Unpaired(inserts)
                         ELSE PairStep(old, new, deletes, g[s \ {Max(s)}], inserts[Max(s)])])[DOMAIN inserts]
    BY DEF Partners, PairStep, Unpaired, FoldLeft, MapThenFoldSet
  <2> QED
    BY <1>1, <2>1 DEF PairsBy
<1> HIDE DEF N
<1>3. /\ f[1..0] = Unpaired(inserts)
      /\ \A k \in 0..(N - 1) : f[1..k + 1] = PairStep(old, new, deletes, f[1..k], inserts[k + 1])
  BY <1>1, PairInOrder
<1> HIDE DEF f
<1>4. \A k \in 0..N : partner[k] = f[1..k]
  OBVIOUS
<1>5. /\ 0 \in 0..N /\ N \in 0..N
      /\ \A k \in 0..(N - 1) : k \in 0..N /\ k + 1 \in 0..N
  BY <1>1
<1> HIDE DEF partner
<1>6. PartnersBy(old, new, deletes, inserts, partner)
  BY <1>2, <1>3, <1>4, <1>5 DEF N, PartnersBy
<1> QED
  BY <1>6

-----------------------------------------------------------------------------
(* Who is paired with whom.                                                *)

LEMMA LikenessIs ==
    ASSUME NEW old \in Seq(Sentence), NEW new \in Seq(Sentence),
           NEW i \in 1..Len(old), NEW j \in 1..Len(new)
    PROVE  Likeness(old, new, i, j) \in 0..10
<1>1. <<old[i], new[j]>> \in Sentence \X Sentence
  BY Bounds
<1> QED
  BY <1>1, SentenceAssumption DEF Likeness

LEMMA BestPartnerIs ==
    ASSUME NEW old \in Seq(Sentence), NEW new \in Seq(Sentence), NEW j \in 1..Len(new),
           NEW deletes, ToSet(deletes) \subseteq 1..Len(old), NEW used
    PROVE  LET best == BestPartner(old, new, deletes, used, j) IN
           best # 0 => /\ best \in ToSet(deletes) /\ best \notin used
                       /\ Likeness(old, new, best, j) > EditedThreshold
<1> DEFINE like(i) == Likeness(old, new, i, j)
           close == {i \in ToSet(deletes) \ used : like(i) > EditedThreshold}
           Better(i) == \A k \in close : like(i) > like(k) \/ (like(i) = like(k) /\ i <= k)
           likes == {like(i) : i \in close}
           top == {i \in close : like(i) = Max(likes)}
<1>1. BestPartner(old, new, deletes, used, j) = IF close = {} THEN 0 ELSE CHOOSE i \in close : Better(i)
  BY DEF BestPartner
<1>2. CASE close = {}
  <2> HIDE DEF close
  <2> QED
    BY <1>1, <1>2
<1>3. CASE close # {}
  <2>1. \A i \in close : i \in 1..Len(old) /\ like(i) \in 0..10 /\ like(i) > EditedThreshold
    BY LikenessIs
  <2>2. likes \in SUBSET (1..10) /\ likes # {}
    <3>1. \A i \in close : like(i) \in 1..10
      BY <2>1 DEF EditedThreshold
    <3> HIDE DEF close, like
    <3> QED
      BY <1>3, <3>1
  <2> HIDE DEF close, like
  <2>3. Max(likes) \in likes /\ \A l \in likes : l <= Max(likes)
    <3> HIDE DEF likes
    <3> QED
      BY <2>2, Largest
  <2>4. top # {} /\ top \subseteq Nat
    <3>1. PICK i \in close : like(i) = Max(likes)
      BY <2>3
    <3>2. \A k \in close : k \in Nat
      BY <2>1
    <3> QED
      BY <3>1, <3>2
  <2>5. PICK i \in top : \A k \in top : i <= k
    <3> HIDE DEF top
    <3> QED
      BY <2>4, Least
  <2>6. Better(i)
    <3>1. SUFFICES ASSUME NEW k \in close PROVE like(i) > like(k) \/ (like(i) = like(k) /\ i <= k)
      OBVIOUS
    <3>2. like(k) <= Max(likes) /\ like(k) \in Int /\ like(i) \in Int /\ like(i) = Max(likes) /\ i \in close
      <4>1. like(k) \in likes /\ i \in close /\ like(i) = Max(likes)
        OBVIOUS
      <4> HIDE DEF likes
      <4> QED
        BY <2>1, <2>3, <4>1
    <3>3. CASE like(k) = like(i)
      <4>1. k \in top
        BY <3>2, <3>3
      <4> QED
        BY <2>5, <3>3, <4>1
    <3>4. CASE like(k) # like(i)
      <4> HIDE DEF likes, top
      <4> QED
        BY <3>2, <3>4
    <3> QED
      BY <3>3, <3>4
  <2> DEFINE best == CHOOSE b \in close : Better(b)
  <2>7. best \in close
    <3>1. i \in close
      OBVIOUS
    <3> HIDE DEF Better, top
    <3> QED
      BY <2>6, <3>1
  <2>8. best = BestPartner(old, new, deletes, used, j)
    BY <1>1, <1>3
  <2> HIDE DEF best
  <2> QED
    BY <2>7, <2>8 DEF close, like
<1> QED
  BY <1>2, <1>3

\* A pairing: of the inserts with similar deletes, none used twice.
Pairing(old, new, deletes, inserts, partner) ==
    /\ partner = [j \in ToSet(inserts) |-> partner[j]]
    /\ \A j \in ToSet(inserts) : partner[j] # 0 =>
          partner[j] \in ToSet(deletes) /\ Likeness(old, new, partner[j], j) > EditedThreshold
    /\ \A i, j \in ToSet(inserts) : partner[i] = partner[j] /\ partner[i] # 0 => i = j

LEMMA PairStepPairs ==
    ASSUME NEW old \in Seq(Sentence), NEW new \in Seq(Sentence),
           NEW deletes, ToSet(deletes) \subseteq 1..Len(old),
           NEW inserts, ToSet(inserts) \subseteq 1..Len(new),
           NEW partner, Pairing(old, new, deletes, inserts, partner), NEW j \in ToSet(inserts)
    PROVE  Pairing(old, new, deletes, inserts, PairStep(old, new, deletes, partner, j))
<1> DEFINE best == BestPartner(old, new, deletes, Range(partner), j)
           next == PairStep(old, new, deletes, partner, j)
<1>1. best # 0 => /\ best \in ToSet(deletes) /\ best \notin Range(partner)
                  /\ Likeness(old, new, best, j) > EditedThreshold
  BY BestPartnerIs
<1>2. next = [partner EXCEPT ![j] = best]
  BY DEF PairStep
<1> HIDE DEF best, next
<1>3. DOMAIN partner = ToSet(inserts)
  BY DEF Pairing
<1>4. /\ next = [k \in ToSet(inserts) |-> next[k]] /\ next[j] = best
      /\ \A k \in ToSet(inserts) : k # j => next[k] = partner[k]
  BY <1>2, <1>3
<1>5. \A k \in ToSet(inserts) : partner[k] \in Range(partner)
  BY <1>3 DEF Range
<1>6. ASSUME NEW k \in ToSet(inserts), next[k] # 0
      PROVE  next[k] \in ToSet(deletes) /\ Likeness(old, new, next[k], k) > EditedThreshold
  BY <1>1, <1>4, <1>6 DEF Pairing
<1>7. ASSUME NEW i \in ToSet(inserts), NEW k \in ToSet(inserts), next[i] = next[k], next[i] # 0
      PROVE  i = k
  <2>1. CASE i = j /\ k # j
    BY <1>1, <1>4, <1>5, <1>7, <2>1
  <2>2. CASE i # j /\ k = j
    BY <1>1, <1>4, <1>5, <1>7, <2>2
  <2>3. CASE i # j /\ k # j
    BY <1>4, <1>7, <2>3 DEF Pairing
  <2> QED
    BY <2>1, <2>2, <2>3
<1> QED
  BY <1>4, <1>6, <1>7 DEF Pairing, next

LEMMA PartnersPair ==
    ASSUME NEW old \in Seq(Sentence), NEW new \in Seq(Sentence),
           NEW deletes, ToSet(deletes) \subseteq 1..Len(old),
           NEW inserts, Table(inserts), ToSet(inserts) \subseteq 1..Len(new)
    PROVE  Pairing(old, new, deletes, inserts, Partners(old, new, deletes, inserts))
<1> DEFINE N == Len(inserts)
<1>1. N \in Nat /\ DOMAIN inserts = 1..N
  BY TableFacts
<1>2. PICK partner :
         /\ partner[0] = Unpaired(inserts)
         /\ \A k \in 0..(N - 1) : partner[k + 1] = PairStep(old, new, deletes, partner[k], inserts[k + 1])
         /\ Partners(old, new, deletes, inserts) = partner[N]
  <2>1. PICK partner : PartnersBy(old, new, deletes, inserts, partner)
    BY PartnersInOrder
  <2> QED
    BY <2>1 DEF PartnersBy
<1> HIDE DEF N
<1> DEFINE S == {k \in 0..N : Pairing(old, new, deletes, inserts, partner[k])}
<1>3. 0 \in S
  <2> DEFINE none == Unpaired(inserts)
  <2>1. none = [j \in ToSet(inserts) |-> none[j]] /\ \A j \in ToSet(inserts) : none[j] = 0
    BY DEF Unpaired
  <2> HIDE DEF none
  <2>2. Pairing(old, new, deletes, inserts, none)
    BY <2>1 DEF Pairing
  <2> QED
    BY <1>1, <1>2, <2>2 DEF none
<1>4. ASSUME NEW k \in 0..(N - 1), k \in S PROVE k + 1 \in S
  <2>1. k + 1 \in 0..N /\ k + 1 \in DOMAIN inserts
    BY <1>1
  <2>2. inserts[k + 1] \in ToSet(inserts)
    BY <2>1 DEF ToSet
  <2>3. Pairing(old, new, deletes, inserts, PairStep(old, new, deletes, partner[k], inserts[k + 1]))
    BY <1>4, <2>2, PairStepPairs
  <2> QED
    BY <1>2, <2>1, <2>3
<1>5. 0..N \subseteq S
  <2> HIDE DEF S
  <2> QED
    BY <1>1, <1>3, <1>4, Induct
<1>6. N \in 0..N
  BY <1>1
<1> QED
  BY <1>2, <1>5, <1>6

-----------------------------------------------------------------------------
(* What a run of ops accounts for: the old sentences from i0 + 1 to i and   *)
(* the new ones from j0 + 1 to j.                                           *)

IsOp(old, new, op, i0, j0, i, j) ==
    \/ /\ op.type = "equal" /\ op.old \in i0 + 1..i /\ op.new \in j0 + 1..j
       /\ SameHash(old, new, op.old, op.new)
    \/ /\ op.type = "edited" /\ op.old \in i0 + 1..i /\ op.new \in j0 + 1..j
       /\ Likeness(old, new, op.old, op.new) > EditedThreshold
    \/ op.type = "delete" /\ op.old \in i0 + 1..i /\ op.new = 0
    \/ op.type = "insert" /\ op.old = 0 /\ op.new \in j0 + 1..j

InTurn(x, y) ==
    /\ x.old # 0 /\ y.old # 0 => x.old < y.old
    /\ x.new = y.new => x.new = 0
    /\ x.type = "equal" /\ y.type = "equal" => x.new < y.new

MayFollow(x, y) == x.type = "insert" => y.type \in {"insert", "equal"}

Covers(old, new, ops, i0, j0, i, j) ==
    /\ Table(ops)
    /\ \A k \in DOMAIN ops : IsOp(old, new, ops[k], i0, j0, i, j)
    /\ \A a \in i0 + 1..i : \E k \in DOMAIN ops : ops[k].old = a
    /\ \A b \in j0 + 1..j : \E k \in DOMAIN ops : ops[k].new = b
    /\ \A k, l \in DOMAIN ops : k < l => InTurn(ops[k], ops[l])
    /\ \A k \in DOMAIN ops : k + 1 \in DOMAIN ops => MayFollow(ops[k], ops[k + 1])

LEMMA OpRange ==
    ASSUME NEW old, NEW new, NEW op, NEW i0 \in Nat, NEW j0 \in Nat, NEW i \in Nat, NEW j \in Nat,
           IsOp(old, new, op, i0, j0, i, j)
    PROVE  /\ op.old \in {0} \cup (i0 + 1..i) /\ op.new \in {0} \cup (j0 + 1..j)
           /\ op.type = "equal" => op.new \in j0 + 1..j
           /\ op.type \in {"equal", "edited", "delete", "insert"}
           /\ op.old # 0 \/ op.type = "insert"
BY DEF IsOp

LEMMA OpWider ==
    ASSUME NEW old, NEW new, NEW op, NEW i0 \in Nat, NEW j0 \in Nat, NEW i1 \in Nat, NEW j1 \in Nat,
           NEW i2 \in Nat, NEW j2 \in Nat, NEW i \in Nat, NEW j \in Nat,
           i0 <= i1 /\ i2 <= i /\ j0 <= j1 /\ j2 <= j, IsOp(old, new, op, i1, j1, i2, j2)
    PROVE  IsOp(old, new, op, i0, j0, i, j)
<1>1. i1 + 1..i2 \subseteq i0 + 1..i /\ j1 + 1..j2 \subseteq j0 + 1..j
  OBVIOUS
<1> QED
  BY <1>1 DEF IsOp

LEMMA TurnOver ==
    ASSUME NEW old, NEW new, NEW x, NEW y, NEW i0 \in Nat, NEW j0 \in Nat, NEW i1 \in Nat, NEW j1 \in Nat,
           NEW i \in Nat, NEW j \in Nat,
           IsOp(old, new, x, i0, j0, i1, j1), IsOp(old, new, y, i1, j1, i, j)
    PROVE  InTurn(x, y)
<1>1. /\ x.old \in {0} \cup (i0 + 1..i1) /\ x.new \in {0} \cup (j0 + 1..j1)
      /\ x.type = "equal" => x.new \in j0 + 1..j1
      /\ y.old \in {0} \cup (i1 + 1..i) /\ y.new \in {0} \cup (j1 + 1..j)
      /\ y.type = "equal" => y.new \in j1 + 1..j
  BY OpRange
<1> DEFINE a == x.old
           b == x.new
           c == y.old
           d == y.new
<1>2. /\ a \in {0} \cup (i0 + 1..i1) /\ b \in {0} \cup (j0 + 1..j1)
      /\ x.type = "equal" => b \in j0 + 1..j1
      /\ c \in {0} \cup (i1 + 1..i) /\ d \in {0} \cup (j1 + 1..j)
      /\ y.type = "equal" => d \in j1 + 1..j
  BY <1>1
<1> HIDE DEF a, b, c, d
<1>3. a # 0 /\ c # 0 => a < c
  BY <1>2
<1>4. b = d => b = 0
  BY <1>2
<1>5. x.type = "equal" /\ y.type = "equal" => b < d
  BY <1>2
<1> QED
  BY <1>3, <1>4, <1>5 DEF InTurn, a, b, c, d

LEMMA CoversJoin ==
    ASSUME NEW old, NEW new, NEW i0 \in Nat, NEW j0 \in Nat, NEW i1 \in Nat, NEW j1 \in Nat,
           NEW i \in Nat, NEW j \in Nat, i0 <= i1 /\ i1 <= i /\ j0 <= j1 /\ j1 <= j,
           NEW s, Covers(old, new, s, i0, j0, i1, j1), NEW t, Covers(old, new, t, i1, j1, i, j),
           Len(s) # 0 /\ Len(t) # 0 => MayFollow(s[Len(s)], t[1])
    PROVE  Covers(old, new, s \o t, i0, j0, i, j)
<1> DEFINE u == s \o t
           m == Len(s)
           n == Len(t)
<1>1. Table(s) /\ Table(t)
  BY DEF Covers
<1>2. m \in Nat /\ n \in Nat /\ DOMAIN s = 1..m /\ DOMAIN t = 1..n
  BY <1>1, TableFacts
<1>3. /\ Table(u) /\ DOMAIN u = 1..m + n
      /\ (\A k \in 1..m : u[k] = s[k]) /\ \A k \in 1..n : u[m + k] = t[k]
  <2>1. /\ Table(u) /\ DOMAIN u = 1..Len(s) + Len(t)
        /\ (\A k \in DOMAIN s : u[k] = s[k]) /\ \A k \in 1..Len(t) : u[Len(s) + k] = t[k]
    BY <1>1, TableConcat
  <2> HIDE DEF u
  <2> QED
    BY <1>2, <2>1
<1> HIDE DEF u
<1>4. (m = 0 \/ n = 0) \/ MayFollow(s[m], t[1])
  OBVIOUS
<1> HIDE DEF m, n
<1>5. \A k \in 1..m + n : k \in 1..m \/ \E l \in 1..n : k = m + l
  <2>1. ASSUME NEW k \in 1..m + n, k \notin 1..m PROVE \E l \in 1..n : k = m + l
    <3>1. k - m \in 1..n /\ k = m + (k - m)
      BY <1>2, <2>1
    <3> QED
      BY <3>1
  <2> QED
    BY <2>1
<1>6. /\ \A k \in 1..m : IsOp(old, new, s[k], i0, j0, i1, j1)
      /\ \A k \in 1..n : IsOp(old, new, t[k], i1, j1, i, j)
  BY <1>2 DEF Covers
<1>7. ASSUME NEW k \in 1..m + n PROVE IsOp(old, new, u[k], i0, j0, i, j)
  <2>1. CASE k \in 1..m
    <3>1. IsOp(old, new, u[k], i0, j0, i1, j1)
      BY <1>3, <1>6, <2>1
    <3> QED
      BY <3>1, OpWider
  <2>2. ASSUME NEW l \in 1..n, k = m + l PROVE IsOp(old, new, u[k], i0, j0, i, j)
    <3>1. IsOp(old, new, u[k], i1, j1, i, j)
      BY <1>3, <1>6, <2>2
    <3> QED
      BY <3>1, OpWider
  <2> QED
    BY <1>5, <2>1, <2>2
<1>8. (\A k \in 1..m : k \in 1..m + n) /\ (\A l \in 1..n : m + l \in 1..m + n)
  BY <1>2
<1>9. ASSUME NEW a \in i0 + 1..i PROVE \E k \in 1..m + n : u[k].old = a
  <2>1. a \in i0 + 1..i1 \/ a \in i1 + 1..i
    OBVIOUS
  <2>2. CASE a \in i0 + 1..i1
    <3>1. PICK k \in 1..m : s[k].old = a
      BY <1>2, <2>2 DEF Covers
    <3> QED
      BY <1>3, <1>8, <3>1
  <2>3. CASE a \in i1 + 1..i
    <3>1. PICK l \in 1..n : t[l].old = a
      BY <1>2, <2>3 DEF Covers
    <3> QED
      BY <1>3, <1>8, <3>1
  <2> QED
    BY <2>1, <2>2, <2>3
<1>10. ASSUME NEW b \in j0 + 1..j PROVE \E k \in 1..m + n : u[k].new = b
  <2>1. b \in j0 + 1..j1 \/ b \in j1 + 1..j
    OBVIOUS
  <2>2. CASE b \in j0 + 1..j1
    <3>1. PICK k \in 1..m : s[k].new = b
      BY <1>2, <2>2 DEF Covers
    <3> QED
      BY <1>3, <1>8, <3>1
  <2>3. CASE b \in j1 + 1..j
    <3>1. PICK l \in 1..n : t[l].new = b
      BY <1>2, <2>3 DEF Covers
    <3> QED
      BY <1>3, <1>8, <3>1
  <2> QED
    BY <2>1, <2>2, <2>3
<1>11. ASSUME NEW k \in 1..m + n, NEW l \in 1..m + n, k < l PROVE InTurn(u[k], u[l])
  <2>1. CASE k \in 1..m /\ l \in 1..m
    BY <1>2, <1>3, <1>11, <2>1 DEF Covers
  <2>2. ASSUME k \in 1..m, NEW l2 \in 1..n, l = m + l2 PROVE InTurn(u[k], u[l])
    <3>1. IsOp(old, new, u[k], i0, j0, i1, j1) /\ IsOp(old, new, u[l], i1, j1, i, j)
      BY <1>3, <1>6, <2>2
    <3> QED
      BY <3>1, TurnOver
  <2>3. ASSUME NEW k2 \in 1..n, k = m + k2 PROVE InTurn(u[k], u[l])
    <3>1. l \notin 1..m
      BY <1>2, <1>11, <2>3
    <3>2. PICK l2 \in 1..n : l = m + l2
      BY <1>5, <3>1
    <3>3. k2 < l2
      BY <1>2, <1>11, <2>3, <3>2
    <3>4. InTurn(t[k2], t[l2])
      BY <1>2, <3>3 DEF Covers
    <3> QED
      BY <1>3, <2>3, <3>2, <3>4
  <2> QED
    BY <1>5, <2>1, <2>2, <2>3
<1>12. ASSUME NEW k \in 1..m + n, k + 1 \in 1..m + n PROVE MayFollow(u[k], u[k + 1])
  <2>1. CASE k + 1 \in 1..m
    <3>1. k \in 1..m
      BY <1>2, <2>1
    <3>2. MayFollow(s[k], s[k + 1])
      BY <1>2, <2>1, <3>1 DEF Covers
    <3> QED
      BY <1>3, <2>1, <3>1, <3>2
  <2>2. CASE k = m
    <3>1. m # 0 /\ n # 0 /\ m \in 1..m /\ 1 \in 1..n
      BY <1>2, <1>12, <2>2
    <3>2. u[k] = s[m] /\ u[k + 1] = t[1]
      BY <1>3, <2>2, <3>1
    <3> QED
      BY <1>4, <3>1, <3>2
  <2>3. ASSUME NEW k2 \in 1..n, k = m + k2 PROVE MayFollow(u[k], u[k + 1])
    <3>1. k2 + 1 \in 1..n /\ k + 1 = m + (k2 + 1)
      BY <1>2, <1>12, <2>3
    <3>2. MayFollow(t[k2], t[k2 + 1])
      BY <1>2, <3>1 DEF Covers
    <3> QED
      BY <1>3, <2>3, <3>1, <3>2
  <2>4. k \in 1..m => k + 1 \in 1..m \/ k = m
    BY <1>2
  <2> QED
    BY <1>5, <2>1, <2>2, <2>3, <2>4
<1>13. Covers(old, new, u, i0, j0, i, j)
  BY <1>3, <1>7, <1>9, <1>10, <1>11, <1>12 DEF Covers
<1> QED
  BY <1>13 DEF u

-----------------------------------------------------------------------------
(* What a gap is flushed to.                                               *)

LEMMA EqualTail ==
    ASSUME NEW old, NEW new, NEW i \in Nat, NEW j \in Nat, NEW d \in Nat,
           \A k \in 1..d : SameHash(old, new, i + k, j + k)
    PROVE  Covers(old, new, [k \in DOMAIN Consecutive(i, d) |->
                        Op("equal", Consecutive(i, d)[k], Consecutive(j, d)[k])], i, j, i + d, j + d)
<1> DEFINE t == [k \in 1..d |-> Op("equal", i + k, j + k)]
<1>1. [k \in DOMAIN Consecutive(i, d) |-> Op("equal", Consecutive(i, d)[k], Consecutive(j, d)[k])] = t
  BY ConsecutiveFacts
<1>2. DOMAIN t = 1..d /\ \A k \in 1..d : t[k] = Op("equal", i + k, j + k)
  OBVIOUS
<1>3. Table(t)
  BY TableFrom
<1> HIDE DEF t
<1>4. ASSUME NEW k \in 1..d
      PROVE  /\ t[k].type = "equal" /\ t[k].old = i + k /\ t[k].new = j + k
             /\ i + k \in i + 1..i + d /\ j + k \in j + 1..j + d
  BY <1>2 DEF Op
<1>5. ASSUME NEW k \in 1..d PROVE IsOp(old, new, t[k], i, j, i + d, j + d)
  BY <1>4 DEF IsOp
<1>6. ASSUME NEW a \in i + 1..i + d PROVE \E k \in 1..d : t[k].old = a
  <2>1. a - i \in 1..d /\ i + (a - i) = a
    OBVIOUS
  <2> QED
    BY <1>4, <2>1
<1>7. ASSUME NEW b \in j + 1..j + d PROVE \E k \in 1..d : t[k].new = b
  <2>1. b - j \in 1..d /\ j + (b - j) = b
    OBVIOUS
  <2> QED
    BY <1>4, <2>1
<1>8. ASSUME NEW k \in 1..d, NEW l \in 1..d, k < l PROVE InTurn(t[k], t[l])
  <2>1. i + k < i + l /\ j + k < j + l /\ j + k # j + l
    BY <1>8
  <2> QED
    BY <1>4, <2>1 DEF InTurn
<1>9. ASSUME NEW k \in 1..d PROVE MayFollow(t[k], t[k + 1])
  BY <1>4 DEF MayFollow
<1>10. Covers(old, new, t, i, j, i + d, j + d)
  BY <1>2, <1>3, <1>5, <1>6, <1>7, <1>8, <1>9 DEF Covers
<1> QED
  BY <1>1, <1>10

\* The rows of a concatenation.
LEMMA JoinIs ==
    ASSUME NEW b, Table(b), NEW flat, Table(flat), NEW n, Len(b) = n, NEW m, Len(flat) = m,
           NEW t, t = b \o flat
    PROVE  /\ Table(t) /\ DOMAIN t = 1..n + m
           /\ (\A k \in 1..n : t[k] = b[k]) /\ \A k \in 1..m : t[n + k] = flat[k]
<1>1. DOMAIN b = 1..n
  BY TableFacts
<1>2. /\ Table(b \o flat) /\ DOMAIN (b \o flat) = 1..Len(b) + Len(flat)
      /\ (\A k \in DOMAIN b : (b \o flat)[k] = b[k])
      /\ \A k \in 1..Len(flat) : (b \o flat)[Len(b) + k] = flat[k]
  BY TableConcat
<1> QED
  BY <1>1, <1>2

PartnerOf(inserts, partner) == partner = [j \in ToSet(inserts) |-> partner[j]]

\* The ops of the deletes and those of the inserts that are left.
LEMMA PairedIs ==
    ASSUME NEW deletes, Table(deletes), NEW inserts, Table(inserts), NEW partner,
           PartnerOf(inserts, partner)
    PROVE  LET left == {k \in DOMAIN inserts : partner[inserts[k]] = 0}
               t == Paired(deletes, inserts, partner)
               n == Len(deletes) IN
           /\ Table(t)
           /\ \A k \in 1..n :
                 \/ /\ \A j \in ToSet(inserts) : partner[j] # deletes[k]
                    /\ t[k] = Op("delete", deletes[k], 0)
                 \/ \E j \in ToSet(inserts) : partner[j] = deletes[k] /\ t[k] = Op("edited", deletes[k], j)
           /\ \E at : /\ \A k \in DOMAIN t \ (1..n) :
                           at[k] \in left /\ t[k] = Op("insert", 0, inserts[at[k]])
                      /\ \A l \in left : \E k \in DOMAIN t \ (1..n) : at[k] = l
                      /\ \A k, l \in DOMAIN t \ (1..n) : k < l => at[k] < at[l]
           /\ 1..n \subseteq DOMAIN t
<1> DEFINE n == Len(deletes)
           left == {k \in DOMAIN inserts : partner[inserts[k]] = 0}
           Has(i) == \E j \in DOMAIN partner : partner[j] = i
           one(i) == IF Has(i) THEN Op("edited", i, CHOOSE j \in DOMAIN partner : partner[j] = i)
                     ELSE Op("delete", i, 0)
           ss == [k \in DOMAIN inserts |->
                     IF partner[inserts[k]] = 0 THEN <<Op("insert", 0, inserts[k])>> ELSE <<>>]
           b == [k \in DOMAIN deletes |-> one(deletes[k])]
           flat == FlattenSeq(ss)
           e == [k \in DOMAIN inserts |-> Op("insert", 0, inserts[k])]
           t == Paired(deletes, inserts, partner)
<1>1. t = b \o flat
  BY DEF Paired
<1>2. DOMAIN partner = ToSet(inserts)
  BY DEF PartnerOf
<1>3. /\ n \in Nat /\ DOMAIN deletes = 1..n
      /\ Len(inserts) \in Nat /\ DOMAIN inserts = 1..Len(inserts)
  BY TableFacts
<1>4. Table(b) /\ Len(b) = n /\ DOMAIN b = 1..n /\ \A k \in 1..n : b[k] = one(deletes[k])
  <2> HIDE DEF one, n
  <2>1. DOMAIN b = 1..n /\ b = [k \in 1..n |-> b[k]] /\ \A k \in 1..n : b[k] = one(deletes[k])
    BY <1>3
  <2> HIDE DEF b
  <2> QED
    BY <1>3, <2>1, TableFrom
<1>5. \E at : Picks(flat, left, e, at)
  <2>1. Table(ss) /\ DOMAIN ss = DOMAIN inserts
    <3>1. DOMAIN ss = 1..Len(inserts) /\ ss = [k \in 1..Len(inserts) |-> ss[k]]
      BY <1>3
    <3> HIDE DEF ss
    <3> QED
      BY <1>3, <3>1, TableFrom
  <2>2. left \subseteq DOMAIN ss
    BY <2>1
  <2>3. \A k \in DOMAIN ss : ss[k] = IF k \in left THEN <<e[k]>> ELSE <<>>
    <3>1. SUFFICES ASSUME NEW k \in DOMAIN inserts
                   PROVE  ss[k] = IF k \in left THEN <<e[k]>> ELSE <<>>
      BY <2>1
    <3>2. k \in left <=> partner[inserts[k]] = 0
      OBVIOUS
    <3>3. e[k] = Op("insert", 0, inserts[k])
      OBVIOUS
    <3> QED
      BY <3>2, <3>3
  <2> HIDE DEF ss, left, e
  <2> QED
    BY <2>1, <2>2, <2>3, FlattenPicks DEF flat
<1>6. PICK at : Picks(flat, left, e, at)
  BY <1>5
<1>7. \A k \in left : e[k] = Op("insert", 0, inserts[k])
  OBVIOUS
<1> HIDE DEF flat, b, e, t, n, left
<1>8. /\ Table(flat)
      /\ \A k \in DOMAIN flat : at[k] \in left /\ flat[k] = e[at[k]]
      /\ \A d \in left : \E k \in DOMAIN flat : at[k] = d
      /\ \A k, l \in DOMAIN flat : k < l => at[k] < at[l]
  BY <1>6 DEF Picks
<1> DEFINE m == Len(flat)
<1>9. m \in Nat /\ DOMAIN flat = 1..m
  BY <1>8, TableFacts
<1> HIDE DEF m
<1>10. /\ Table(t) /\ DOMAIN t = 1..n + m
       /\ (\A k \in 1..n : t[k] = b[k]) /\ \A k \in 1..m : t[n + k] = flat[k]
  <2>1. Table(b) /\ Table(flat) /\ Len(b) = n /\ Len(flat) = m
    BY <1>4, <1>8 DEF m
  <2> HIDE DEF one, Has, ss
  <2>3. Table(t)
    BY <1>1, <2>1, JoinIs
  <2>4. DOMAIN t = 1..n + m
    BY <1>1, <2>1, JoinIs
  <2>5. \A k \in 1..n : t[k] = b[k]
    BY <1>1, <2>1, JoinIs
  <2>6. \A k \in 1..m : t[n + k] = flat[k]
    BY <1>1, <2>1, JoinIs
  <2> QED
    BY <2>3, <2>4, <2>5, <2>6
<1>11. ASSUME NEW k \in 1..n
       PROVE  \/ /\ \A j \in ToSet(inserts) : partner[j] # deletes[k]
                 /\ t[k] = Op("delete", deletes[k], 0)
              \/ \E j \in ToSet(inserts) : partner[j] = deletes[k] /\ t[k] = Op("edited", deletes[k], j)
  <2>1. t[k] = one(deletes[k])
    BY <1>4, <1>10
  <2>2. CASE Has(deletes[k])
    <3> DEFINE j == CHOOSE j \in DOMAIN partner : partner[j] = deletes[k]
    <3>1. j \in DOMAIN partner /\ partner[j] = deletes[k]
      BY <2>2
    <3>2. t[k] = Op("edited", deletes[k], j)
      BY <2>1, <2>2
    <3> HIDE DEF j
    <3> QED
      BY <1>2, <3>1, <3>2
  <2>3. CASE ~Has(deletes[k])
    BY <1>2, <2>1, <2>3
  <2> QED
    BY <2>2, <2>3
<1> DEFINE there == [k \in DOMAIN t |-> at[k - n]]
           rest == DOMAIN t \ (1..n)
<1>12. /\ \A k \in rest : there[k] = at[k - n] /\ k - n \in 1..m /\ t[k] = flat[k - n]
       /\ \A l \in 1..m : n + l \in rest /\ (n + l) - n = l
  <2>1. ASSUME NEW k \in rest PROVE k - n \in 1..m /\ n + (k - n) = k /\ k \in DOMAIN t
    BY <1>3, <1>9, <1>10
  <2>2. ASSUME NEW l \in 1..m PROVE n + l \in rest /\ (n + l) - n = l
    BY <1>3, <1>9, <1>10
  <2>3. ASSUME NEW k \in rest PROVE there[k] = at[k - n] /\ t[k] = flat[k - n]
    BY <1>10, <2>1
  <2> QED
    BY <2>1, <2>2, <2>3
<1> HIDE DEF there
<1>13. ASSUME NEW k \in rest PROVE there[k] \in left /\ t[k] = Op("insert", 0, inserts[there[k]])
  BY <1>7, <1>8, <1>9, <1>12
<1>14. ASSUME NEW l \in left PROVE \E k \in rest : there[k] = l
  <2>1. PICK k \in 1..m : at[k] = l
    BY <1>8, <1>9
  <2>2. n + k \in rest /\ there[n + k] = l
    BY <1>12, <2>1
  <2> QED
    BY <2>2
<1>15. ASSUME NEW k \in rest, NEW l \in rest, k < l PROVE there[k] < there[l]
  <2>1. k - n \in 1..m /\ l - n \in 1..m /\ there[k] = at[k - n] /\ there[l] = at[l - n]
    BY <1>12
  <2>2. k - n < l - n
    BY <1>3, <1>10, <1>15
  <2> QED
    BY <1>8, <1>9, <2>1, <2>2
<1>16. 1..n \subseteq DOMAIN t
  BY <1>3, <1>9, <1>10
<1>17. \E way : /\ \A k \in rest : way[k] \in left /\ t[k] = Op("insert", 0, inserts[way[k]])
                /\ \A l \in left : \E k \in rest : way[k] = l
                /\ \A k, l \in rest : k < l => way[k] < way[l]
  BY <1>13, <1>14, <1>15
<1> HIDE DEF rest
<1> QED
  BY <1>10, <1>11, <1>16, <1>17 DEF t, n, left, rest

LEMMA PairedTail ==
    ASSUME NEW old, NEW new, NEW i \in Nat, NEW j \in Nat, NEW d \in Nat, NEW e \in Nat,
           NEW partner, Pairing(old, new, Consecutive(i, d), Consecutive(j, e), partner)
    PROVE  Covers(old, new, Paired(Consecutive(i, d), Consecutive(j, e), partner), i, j, i + d, j + e)
<1> DEFINE deletes == Consecutive(i, d)
           inserts == Consecutive(j, e)
           t == Paired(deletes, inserts, partner)
           left == {k \in DOMAIN inserts : partner[inserts[k]] = 0}
           rest == DOMAIN t \ (1..d)
<1>1. /\ Table(deletes) /\ Len(deletes) = d /\ DOMAIN deletes = 1..d
      /\ (\A k \in 1..d : deletes[k] = i + k) /\ ToSet(deletes) = i + 1..i + d
      /\ Table(inserts) /\ Len(inserts) = e /\ DOMAIN inserts = 1..e
      /\ (\A k \in 1..e : inserts[k] = j + k) /\ ToSet(inserts) = j + 1..j + e
  BY ConsecutiveFacts
<1>2. /\ partner = [b \in ToSet(inserts) |-> partner[b]]
      /\ \A b \in ToSet(inserts) : partner[b] # 0 =>
            partner[b] \in ToSet(deletes) /\ Likeness(old, new, partner[b], b) > EditedThreshold
      /\ \A a, b \in ToSet(inserts) : partner[a] = partner[b] /\ partner[a] # 0 => a = b
  BY DEF Pairing
<1>3. /\ Table(t)
      /\ \A k \in 1..d :
            \/ /\ \A b \in ToSet(inserts) : partner[b] # deletes[k]
               /\ t[k] = Op("delete", deletes[k], 0)
            \/ \E b \in ToSet(inserts) : partner[b] = deletes[k] /\ t[k] = Op("edited", deletes[k], b)
      /\ \E at : /\ \A k \in rest : at[k] \in left /\ t[k] = Op("insert", 0, inserts[at[k]])
                 /\ \A l \in left : \E k \in rest : at[k] = l
                 /\ \A k, l \in rest : k < l => at[k] < at[l]
      /\ 1..d \subseteq DOMAIN t
  <2> HIDE DEF deletes, inserts
  <2>1. LET gone == {k \in DOMAIN inserts : partner[inserts[k]] = 0}
            u == Paired(deletes, inserts, partner)
            n == Len(deletes) IN
        /\ Table(u)
        /\ \A k \in 1..n :
              \/ /\ \A b \in ToSet(inserts) : partner[b] # deletes[k]
                 /\ u[k] = Op("delete", deletes[k], 0)
              \/ \E b \in ToSet(inserts) : partner[b] = deletes[k] /\ u[k] = Op("edited", deletes[k], b)
        /\ \E at : /\ \A k \in DOMAIN u \ (1..n) :
                        at[k] \in gone /\ u[k] = Op("insert", 0, inserts[at[k]])
                   /\ \A l \in gone : \E k \in DOMAIN u \ (1..n) : at[k] = l
                   /\ \A k, l \in DOMAIN u \ (1..n) : k < l => at[k] < at[l]
        /\ 1..n \subseteq DOMAIN u
    BY <1>1, <1>2, PairedIs DEF PartnerOf
  <2> QED
    BY <1>1, <2>1
<1>4. PICK at : /\ \A k \in rest : at[k] \in left /\ t[k] = Op("insert", 0, inserts[at[k]])
                /\ \A l \in left : \E k \in rest : at[k] = l
                /\ \A k, l \in rest : k < l => at[k] < at[l]
  BY <1>3
<1>5. /\ \A k \in left : k \in 1..e /\ partner[j + k] = 0
      /\ \A k \in 1..e : partner[j + k] = 0 => k \in left
  BY <1>1
<1> DEFINE n == Len(t)
<1>6. n \in Nat /\ DOMAIN t = 1..n
  BY <1>3, TableFacts
<1> HIDE DEF deletes, inserts, t, left, n
<1>7. ASSUME NEW k \in 1..d
      PROVE  /\ t[k].old = i + k /\ t[k].type \in {"delete", "edited"}
             /\ t[k].new = 0 \/ (t[k].new \in j + 1..j + e /\ partner[t[k].new] = i + k)
             /\ \A b \in j + 1..j + e : partner[b] = i + k => t[k].new = b
             /\ IsOp(old, new, t[k], i, j, i + d, j + e)
  <2>1. deletes[k] = i + k /\ i + k # 0 /\ i + k \in i + 1..i + d
    BY <1>1
  <2>2. CASE /\ \A b \in ToSet(inserts) : partner[b] # deletes[k]
             /\ t[k] = Op("delete", deletes[k], 0)
    <3>1. t[k].type = "delete" /\ t[k].old = i + k /\ t[k].new = 0
      BY <2>1, <2>2 DEF Op
    <3>2. \A b \in j + 1..j + e : partner[b] # i + k
      BY <1>1, <2>1, <2>2
    <3> QED
      BY <2>1, <3>1, <3>2 DEF IsOp
  <2>3. ASSUME NEW b \in ToSet(inserts), partner[b] = deletes[k], t[k] = Op("edited", deletes[k], b)
        PROVE  /\ t[k].old = i + k /\ t[k].type \in {"delete", "edited"}
               /\ t[k].new = 0 \/ (t[k].new \in j + 1..j + e /\ partner[t[k].new] = i + k)
               /\ \A c \in j + 1..j + e : partner[c] = i + k => t[k].new = c
               /\ IsOp(old, new, t[k], i, j, i + d, j + e)
    <3>1. t[k].type = "edited" /\ t[k].old = i + k /\ t[k].new = b
      BY <2>1, <2>3 DEF Op
    <3>2. b \in j + 1..j + e /\ partner[b] = i + k /\ partner[b] # 0
      BY <1>1, <2>1, <2>3
    <3>3. Likeness(old, new, i + k, b) > EditedThreshold
      BY <1>2, <2>3, <3>2
    <3>4. \A c \in j + 1..j + e : partner[c] = i + k => b = c
      BY <1>1, <1>2, <3>2
    <3> QED
      BY <2>1, <3>1, <3>2, <3>3, <3>4 DEF IsOp
  <2> QED
    BY <1>3, <2>2, <2>3
<1>8. ASSUME NEW k \in rest
      PROVE  /\ t[k].old = 0 /\ t[k].type = "insert" /\ t[k].new = j + at[k]
             /\ at[k] \in 1..e /\ partner[j + at[k]] = 0 /\ k \in 1..n /\ ~(k <= d)
             /\ IsOp(old, new, t[k], i, j, i + d, j + e)
  <2>1. at[k] \in left /\ t[k] = Op("insert", 0, inserts[at[k]])
    BY <1>4
  <2>2. at[k] \in 1..e /\ partner[j + at[k]] = 0 /\ inserts[at[k]] = j + at[k]
    BY <1>1, <1>5, <2>1
  <2>3. t[k].type = "insert" /\ t[k].old = 0 /\ t[k].new = j + at[k]
    BY <2>1, <2>2 DEF Op
  <2>4. k \in 1..n /\ ~(k <= d)
    BY <1>6
  <2>5. j + at[k] \in j + 1..j + e
    BY <2>2
  <2> QED
    BY <2>2, <2>3, <2>4, <2>5 DEF IsOp
<1>9. \A k \in 1..n : k \in 1..d \/ k \in rest
  BY <1>6
<1>10. \A k \in 1..n : IsOp(old, new, t[k], i, j, i + d, j + e)
  BY <1>7, <1>8, <1>9
<1>11. ASSUME NEW a \in i + 1..i + d PROVE \E k \in 1..n : t[k].old = a
  <2>1. a - i \in 1..d /\ i + (a - i) = a
    OBVIOUS
  <2>2. a - i \in 1..n
    BY <1>3, <1>6, <2>1
  <2>3. t[a - i].old = a
    BY <1>7, <2>1
  <2> QED
    BY <2>2, <2>3
<1>12. ASSUME NEW b \in j + 1..j + e PROVE \E k \in 1..n : t[k].new = b
  <2>1. CASE partner[b] = 0
    <3>1. b - j \in 1..e /\ j + (b - j) = b
      OBVIOUS
    <3>2. b - j \in left
      BY <1>5, <2>1, <3>1
    <3>3. PICK k \in rest : at[k] = b - j
      BY <1>4, <3>2
    <3>4. t[k].new = b /\ k \in 1..n
      BY <1>8, <3>1, <3>3
    <3> QED
      BY <3>4
  <2>2. CASE partner[b] # 0
    <3>1. partner[b] \in i + 1..i + d
      BY <1>1, <1>2, <2>2
    <3> DEFINE k == partner[b] - i
    <3>2. k \in 1..d /\ i + k = partner[b]
      BY <3>1
    <3> HIDE DEF k
    <3>3. t[k].new = b /\ k \in 1..n
      BY <1>3, <1>6, <1>7, <3>2
    <3> QED
      BY <3>3
  <2> QED
    BY <2>1, <2>2
<1>13. ASSUME NEW k \in 1..n, NEW l \in 1..n, k < l PROVE InTurn(t[k], t[l])
  <2>1. CASE k \in 1..d /\ l \in 1..d
    <3>1. t[k].old = i + k /\ t[l].old = i + l /\ i + k < i + l /\ t[k].type # "equal"
      BY <1>7, <1>13, <2>1
    <3>2. ASSUME t[k].new = t[l].new, t[k].new # 0 PROVE FALSE
      <4>1. partner[t[k].new] = i + k /\ partner[t[l].new] = i + l
        BY <1>7, <2>1, <3>2
      <4>2. i + k # i + l
        BY <1>13
      <4> QED
        BY <3>2, <4>1, <4>2
    <3> QED
      BY <3>1, <3>2 DEF InTurn
  <2>2. CASE k \in 1..d /\ l \in rest
    <3>1. /\ t[k].type # "equal" /\ t[l].old = 0
          /\ t[l].new = j + at[l] /\ partner[t[l].new] = 0
      BY <1>7, <1>8, <2>2
    <3>2. ASSUME t[k].new = t[l].new, t[k].new # 0 PROVE FALSE
      <4>1. partner[t[k].new] = i + k
        BY <1>7, <2>2, <3>2
      <4>2. i + k # 0
        BY <2>2
      <4> QED
        BY <3>1, <3>2, <4>1, <4>2
    <3> QED
      BY <3>1, <3>2 DEF InTurn
  <2>3. CASE k \in rest /\ l \in rest
    <3>1. /\ t[k].old = 0 /\ t[k].type = "insert" /\ t[k].new = j + at[k] /\ t[l].new = j + at[l]
          /\ at[k] \in 1..e /\ at[l] \in 1..e
      BY <1>8, <2>3
    <3>2. at[k] < at[l]
      BY <1>4, <1>13, <2>3
    <3>3. j + at[k] # j + at[l]
      BY <3>1, <3>2
    <3> QED
      BY <3>1, <3>3 DEF InTurn
  <2>4. CASE k \in rest /\ l \in 1..d
    <3>1. ~(k <= d) /\ l <= d
      BY <1>8, <2>4
    <3> QED
      BY <1>6, <1>13, <3>1
  <2> QED
    BY <1>9, <2>1, <2>2, <2>3, <2>4
<1>14. ASSUME NEW k \in 1..n, k + 1 \in 1..n PROVE MayFollow(t[k], t[k + 1])
  <2>1. CASE k \in 1..d
    <3>1. t[k].type # "insert"
      BY <1>7, <2>1
    <3> QED
      BY <3>1 DEF MayFollow
  <2>2. CASE k \in rest
    <3>1. k + 1 \in rest
      <4>1. ~(k <= d)
        BY <1>8, <2>2
      <4> QED
        BY <1>6, <1>14, <4>1
    <3> QED
      BY <1>8, <3>1 DEF MayFollow
  <2> QED
    BY <1>9, <2>1, <2>2
<1>15. Covers(old, new, t, i, j, i + d, j + e)
  BY <1>3, <1>6, <1>10, <1>11, <1>12, <1>13, <1>14 DEF Covers
<1> QED
  BY <1>15 DEF t, deletes, inserts

-----------------------------------------------------------------------------
(* The whole alignment.                                                    *)

Equals(ops) == {k \in DOMAIN ops : ops[k].type = "equal"}

\* A gap on the way: the ops so far cover the first i0 and j0 sentences and end in an
\* equal op; the deletes and inserts waiting are those up to i and j.
GapAt(old, new, gap, i0, j0, i, j) ==
    /\ i0 \in Nat /\ j0 \in Nat /\ i0 <= i /\ j0 <= j
    /\ gap = [ops |-> gap.ops, deletes |-> Consecutive(i0, i - i0), inserts |-> Consecutive(j0, j - j0)]
    /\ Covers(old, new, gap.ops, 0, 0, i0, j0)
    /\ Len(gap.ops) # 0 => gap.ops[Len(gap.ops)].type = "equal"

\* The ops a flush adds cover the sentences waiting.
LEMMA FlushTail ==
    ASSUME NEW old \in Seq(Sentence), NEW new \in Seq(Sentence),
           NEW i \in Nat, NEW j \in Nat, NEW d \in Nat, NEW e \in Nat,
           i + d <= Len(old), j + e <= Len(new), NEW gap,
           gap.deletes = Consecutive(i, d), gap.inserts = Consecutive(j, e)
    PROVE  \E t : Flush(old, new, gap) = gap.ops \o t /\ Covers(old, new, t, i, j, i + d, j + e)
<1> DEFINE deletes == Consecutive(i, d)
           inserts == Consecutive(j, e)
<1>1. /\ Table(deletes) /\ Len(deletes) = d /\ DOMAIN deletes = 1..d
      /\ (\A k \in 1..d : deletes[k] = i + k) /\ ToSet(deletes) = i + 1..i + d
      /\ Table(inserts) /\ Len(inserts) = e /\ DOMAIN inserts = 1..e
      /\ (\A k \in 1..e : inserts[k] = j + k) /\ ToSet(inserts) = j + 1..j + e
  BY ConsecutiveFacts
<1>2. CASE Len(deletes) = Len(inserts) /\ \A k \in DOMAIN deletes : SameHash(old, new, deletes[k], inserts[k])
  <2> DEFINE t == [k \in DOMAIN deletes |-> Op("equal", deletes[k], inserts[k])]
  <2>1. Flush(old, new, gap) = gap.ops \o t
    BY <1>2 DEF Flush
  <2>2. d = e /\ \A k \in 1..d : SameHash(old, new, i + k, j + k)
    <3> HIDE DEF deletes, inserts
    <3> QED
      BY <1>1, <1>2
  <2>3. Covers(old, new, [k \in DOMAIN Consecutive(i, d) |->
                        Op("equal", Consecutive(i, d)[k], Consecutive(j, d)[k])], i, j, i + d, j + d)
    BY <2>2, EqualTail
  <2>4. Covers(old, new, t, i, j, i + d, j + e)
    BY <2>2, <2>3
  <2> HIDE DEF t
  <2> QED
    BY <2>1, <2>4
<1>3. CASE ~(Len(deletes) = Len(inserts) /\ \A k \in DOMAIN deletes : SameHash(old, new, deletes[k], inserts[k]))
  <2> DEFINE partner == Partners(old, new, deletes, inserts)
             t == Paired(deletes, inserts, partner)
  <2>1. Flush(old, new, gap) = gap.ops \o t
    BY <1>3 DEF Flush
  <2>2. ToSet(deletes) \subseteq 1..Len(old) /\ ToSet(inserts) \subseteq 1..Len(new)
    <3> HIDE DEF deletes, inserts
    <3>1. Len(old) \in Nat /\ Len(new) \in Nat
      BY Bounds
    <3>2. \A k \in i + 1..i + d : k \in 1..Len(old)
      BY <3>1
    <3>3. \A k \in j + 1..j + e : k \in 1..Len(new)
      BY <3>1
    <3> QED
      BY <1>1, <3>2, <3>3
  <2>3. Pairing(old, new, deletes, inserts, partner)
    <3> HIDE DEF deletes, inserts
    <3> QED
      BY <1>1, <2>2, PartnersPair
  <2> HIDE DEF partner
  <2>4. Covers(old, new, t, i, j, i + d, j + e)
    BY <2>3, PairedTail
  <2> HIDE DEF t
  <2> QED
    BY <2>1, <2>4
<1> QED
  BY <1>2, <1>3

LEMMA FlushCovers ==
    ASSUME NEW old \in Seq(Sentence), NEW new \in Seq(Sentence), NEW gap, NEW i0, NEW j0,
           NEW i \in 0..Len(old), NEW j \in 0..Len(new), GapAt(old, new, gap, i0, j0, i, j)
    PROVE  /\ Covers(old, new, Flush(old, new, gap), 0, 0, i, j)
           /\ Equals(gap.ops) \subseteq Equals(Flush(old, new, gap))
<1> DEFINE s == gap.ops
           d == i - i0
           e == j - j0
<1>1. /\ i0 \in Nat /\ j0 \in Nat /\ i0 <= i /\ j0 <= j
      /\ gap.deletes = Consecutive(i0, d) /\ gap.inserts = Consecutive(j0, e)
      /\ Covers(old, new, s, 0, 0, i0, j0)
      /\ Len(s) # 0 => s[Len(s)].type = "equal"
  BY DEF GapAt
<1>2. Len(old) \in Nat /\ Len(new) \in Nat
  BY Bounds
<1>3. d \in Nat /\ e \in Nat /\ i0 + d = i /\ j0 + e = j /\ i \in Nat /\ j \in Nat
  BY <1>1, <1>2
<1> HIDE DEF d, e
<1>4. i0 + d <= Len(old) /\ j0 + e <= Len(new)
  BY <1>3
<1>5. \E t : Flush(old, new, gap) = s \o t /\ Covers(old, new, t, i0, j0, i0 + d, j0 + e)
  BY <1>1, <1>3, <1>4, FlushTail
<1>6. PICK t : Flush(old, new, gap) = s \o t /\ Covers(old, new, t, i0, j0, i, j)
  BY <1>3, <1>5
<1> HIDE DEF s
<1>7. Len(s) # 0 /\ Len(t) # 0 => MayFollow(s[Len(s)], t[1])
  BY <1>1 DEF MayFollow
<1>8. 0 \in Nat /\ 0 <= i0 /\ 0 <= j0
  BY <1>1
<1>9. Covers(old, new, s \o t, 0, 0, i, j)
  BY <1>1, <1>3, <1>6, <1>7, <1>8, CoversJoin
<1>10. Table(s) /\ Table(t)
  BY <1>1, <1>6 DEF Covers
<1>11. /\ DOMAIN (s \o t) = 1..Len(s) + Len(t)
       /\ \A k \in DOMAIN s : (s \o t)[k] = s[k]
  BY <1>10, TableConcat
<1> DEFINE u == s \o t
<1>12. DOMAIN s = 1..Len(s) /\ Len(s) \in Nat /\ Len(t) \in Nat
  BY <1>10, TableFacts
<1>13. \A k \in DOMAIN s : k \in DOMAIN u /\ u[k] = s[k]
  <2>1. DOMAIN u = 1..Len(s) + Len(t) /\ \A k \in DOMAIN s : u[k] = s[k]
    BY <1>11
  <2> HIDE DEF u
  <2> QED
    BY <1>12, <2>1
<1>14. Covers(old, new, u, 0, 0, i, j) /\ Flush(old, new, gap) = u
  BY <1>6, <1>9
<1> HIDE DEF u
<1>15. Equals(s) \subseteq Equals(u)
  BY <1>13 DEF Equals
<1> QED
  BY <1>14, <1>15 DEF s

LEMMA EqualsFinite ==
    ASSUME NEW ops, Table(ops)
    PROVE  IsFiniteSet(Equals(ops)) /\ Cardinality(Equals(ops)) \in Nat
<1>1. Len(ops) \in Nat /\ DOMAIN ops = 1..Len(ops)
  BY TableFacts
<1>2. IsFiniteSet(1..Len(ops))
  <2>1. 1 \in Int /\ Len(ops) \in Int
    BY <1>1
  <2> QED
    BY <2>1, FS_Interval
<1>3. Equals(ops) \subseteq 1..Len(ops)
  BY <1>1 DEF Equals
<1>4. IsFiniteSet(Equals(ops))
  BY <1>2, <1>3, FS_Subset
<1> QED
  BY <1>4, FS_CardinalityType

\* The ops so far, and an equal op.
LEMMA EqualAppended ==
    ASSUME NEW old, NEW new, NEW i \in Nat, NEW j \in Nat, NEW ops, Covers(old, new, ops, 0, 0, i, j),
           SameHash(old, new, i + 1, j + 1), NEW op, op = Op("equal", i + 1, j + 1)
    PROVE  LET t == Append(ops, op) IN
           /\ Covers(old, new, t, 0, 0, i + 1, j + 1)
           /\ t[Len(t)].type = "equal"
           /\ Cardinality(Equals(t)) = Cardinality(Equals(ops)) + 1
<1> DEFINE n == Len(ops)
           t == Append(ops, op)
<1>1. Table(ops) /\ n \in Nat /\ DOMAIN ops = 1..n /\ n + 1 \notin DOMAIN ops
  BY TableFacts DEF Covers
<1>2. /\ Table(t) /\ DOMAIN t = DOMAIN ops \cup {n + 1} /\ Len(t) = n + 1
      /\ (\A k \in DOMAIN ops : t[k] = ops[k]) /\ t[n + 1] = op
  BY <1>1, TableAppend, AppendLonger
<1>3. op.type = "equal" /\ op.old = i + 1 /\ op.new = j + 1
  BY DEF Op
<1> HIDE DEF t, n
<1>4. \A k \in DOMAIN t : k \in DOMAIN ops \/ k = n + 1
  BY <1>2
<1>5. \A k \in DOMAIN ops : IsOp(old, new, ops[k], 0, 0, i, j)
  BY DEF Covers
<1>6. \A k \in DOMAIN t : IsOp(old, new, t[k], 0, 0, i + 1, j + 1)
  <2>1. ASSUME NEW k \in DOMAIN ops PROVE IsOp(old, new, t[k], 0, 0, i + 1, j + 1)
    <3>1. IsOp(old, new, ops[k], 0, 0, i, j) /\ t[k] = ops[k]
      BY <1>2, <1>5
    <3>2. 0 <= i /\ i <= i + 1 /\ 0 <= j /\ j <= j + 1 /\ 0 <= 0 /\ 0 \in Nat /\ i + 1 \in Nat /\ j + 1 \in Nat
      OBVIOUS
    <3>3. IsOp(old, new, ops[k], 0, 0, i + 1, j + 1)
      BY <3>1, <3>2, OpWider
    <3> QED
      BY <3>1, <3>3
  <2>2. IsOp(old, new, op, 0, 0, i + 1, j + 1)
    <3>1. i + 1 \in 0 + 1..i + 1 /\ j + 1 \in 0 + 1..j + 1
      OBVIOUS
    <3> QED
      BY <1>3, <3>1 DEF IsOp
  <2> QED
    BY <1>2, <1>4, <2>1, <2>2
<1>7. \A a \in 0 + 1..i + 1 : \E k \in DOMAIN t : t[k].old = a
  <2>1. TAKE a \in 0 + 1..i + 1
  <2>2. CASE a = i + 1
    BY <1>2, <1>3, <2>2
  <2>3. CASE a # i + 1
    <3>1. a \in 0 + 1..i
      BY <2>3
    <3>2. \E k \in DOMAIN ops : ops[k].old = a
      BY <3>1 DEF Covers
    <3> QED
      BY <1>2, <3>2
  <2> QED
    BY <2>2, <2>3
<1>8. \A b \in 0 + 1..j + 1 : \E k \in DOMAIN t : t[k].new = b
  <2>1. TAKE b \in 0 + 1..j + 1
  <2>2. CASE b = j + 1
    BY <1>2, <1>3, <2>2
  <2>3. CASE b # j + 1
    <3>1. b \in 0 + 1..j
      BY <2>3
    <3>2. \E k \in DOMAIN ops : ops[k].new = b
      BY <3>1 DEF Covers
    <3> QED
      BY <1>2, <3>2
  <2> QED
    BY <2>2, <2>3
<1>9. ASSUME NEW k \in DOMAIN ops PROVE InTurn(ops[k], op)
  <2>1. IsOp(old, new, ops[k], 0, 0, i, j) /\ 0 \in Nat
    BY <1>5
  <2>2. /\ ops[k].old \in {0} \cup (0 + 1..i) /\ ops[k].new \in {0} \cup (0 + 1..j)
        /\ ops[k].type = "equal" => ops[k].new \in 0 + 1..j
    BY <2>1, OpRange
  <2>3. /\ ops[k].old # 0 => ops[k].old < i + 1
        /\ ops[k].new # j + 1
        /\ ops[k].type = "equal" => ops[k].new < j + 1
    BY <2>2
  <2> QED
    BY <1>3, <2>3 DEF InTurn
<1>10. \A k, l \in DOMAIN t : k < l => InTurn(t[k], t[l])
  <2>1. ASSUME NEW k \in DOMAIN t, NEW l \in DOMAIN t, k < l PROVE InTurn(t[k], t[l])
    <3>1. k \in DOMAIN ops
      <4>1. k # n + 1
        BY <1>1, <1>2, <2>1
      <4> QED
        BY <1>4, <4>1
    <3>2. CASE l \in DOMAIN ops
      <4>1. InTurn(ops[k], ops[l])
        BY <2>1, <3>1, <3>2 DEF Covers
      <4> QED
        BY <1>2, <3>1, <3>2, <4>1
    <3>3. CASE l = n + 1
      BY <1>2, <1>9, <3>1, <3>3
    <3> QED
      BY <1>4, <3>2, <3>3
  <2> QED
    BY <2>1
<1>11. \A k \in DOMAIN t : k + 1 \in DOMAIN t => MayFollow(t[k], t[k + 1])
  <2>1. ASSUME NEW k \in DOMAIN t, k + 1 \in DOMAIN t PROVE MayFollow(t[k], t[k + 1])
    <3>1. k \in DOMAIN ops
      <4>1. k # n + 1
        BY <1>1, <1>2, <2>1
      <4> QED
        BY <1>4, <4>1
    <3>2. CASE k + 1 \in DOMAIN ops
      <4>1. MayFollow(ops[k], ops[k + 1])
        BY <3>1, <3>2 DEF Covers
      <4> QED
        BY <1>2, <3>1, <3>2, <4>1
    <3>3. CASE k + 1 = n + 1
      <4>1. t[k + 1] = op
        BY <1>2, <3>3
      <4> QED
        BY <1>3, <4>1 DEF MayFollow
    <3> QED
      BY <1>4, <2>1, <3>2, <3>3
  <2> QED
    BY <2>1
<1>12. Covers(old, new, t, 0, 0, i + 1, j + 1)
  BY <1>2, <1>6, <1>7, <1>8, <1>10, <1>11 DEF Covers
<1>13. Equals(t) = Equals(ops) \cup {n + 1} /\ n + 1 \notin Equals(ops)
  BY <1>1, <1>2, <1>3 DEF Equals
<1>14. Cardinality(Equals(t)) = Cardinality(Equals(ops)) + 1
  BY <1>1, <1>13, EqualsFinite, FS_AddElement
<1>15. t[Len(t)].type = "equal"
  BY <1>2, <1>3
<1> QED
  BY <1>12, <1>14, <1>15 DEF t

LEMMA EqualOps ==
    ASSUME NEW s, Table(s), NEW t, Table(t), Equals(s) \subseteq Equals(t)
    PROVE  Cardinality(Equals(s)) <= Cardinality(Equals(t))
BY EqualsFinite, FS_Subset

LEMMA GapGoesOn ==
    ASSUME NEW old \in Seq(Sentence), NEW new \in Seq(Sentence), NEW gap, NEW i0, NEW j0,
           NEW i \in 0..Len(old), NEW j \in 0..Len(new), NEW e \in Nat,
           GapAt(old, new, gap, i0, j0, i, j), e <= Cardinality(Equals(gap.ops)),
           NEW i1 \in 0..Len(old), NEW j1 \in 0..Len(new), NEW e1 \in Nat, NEW op,
           Step(old, new, At(i, j, e), At(i1, j1, e1), op)
    PROVE  \E i2, j2 : /\ GapAt(old, new, GapStep(old, new, gap, op), i2, j2, i1, j1)
                       /\ e1 <= Cardinality(Equals(GapStep(old, new, gap, op).ops))
<1> DEFINE next == GapStep(old, new, gap, op)
<1>1. /\ i0 \in Nat /\ j0 \in Nat /\ i0 <= i /\ j0 <= j
      /\ gap = [ops |-> gap.ops, deletes |-> Consecutive(i0, i - i0), inserts |-> Consecutive(j0, j - j0)]
      /\ Covers(old, new, gap.ops, 0, 0, i0, j0)
      /\ Len(gap.ops) # 0 => gap.ops[Len(gap.ops)].type = "equal"
  BY DEF GapAt
<1>2. Len(old) \in Nat /\ Len(new) \in Nat
  BY Bounds
<1>3. /\ i \in Nat /\ j \in Nat /\ i1 \in Nat /\ j1 \in Nat
      /\ i - i0 \in Nat /\ j - j0 \in Nat
  BY <1>1, <1>2
<1>4. CASE i1 = i + 1 /\ j1 = j + 1 /\ e1 = e + 1 /\ op = Op("equal", i1, j1) /\ SameHash(old, new, i1, j1)
  <2> DEFINE u == Flush(old, new, gap)
             t == Append(u, op)
  <2>1. next = [ops |-> t, deletes |-> <<>>, inserts |-> <<>>]
    BY <1>4 DEF GapStep, Op, EmptyGap
  <2>2. Covers(old, new, u, 0, 0, i, j) /\ Equals(gap.ops) \subseteq Equals(u)
    BY FlushCovers
  <2> HIDE DEF u
  <2>3. /\ Covers(old, new, t, 0, 0, i + 1, j + 1)
        /\ t[Len(t)].type = "equal"
        /\ Cardinality(Equals(t)) = Cardinality(Equals(u)) + 1
    BY <1>3, <1>4, <2>2, EqualAppended
  <2>4. Table(gap.ops) /\ Table(u) /\ Table(t)
    BY <1>1, <2>2, <2>3 DEF Covers
  <2>5. Cardinality(Equals(gap.ops)) <= Cardinality(Equals(u))
    BY <2>2, <2>4, EqualOps
  <2>6. Cardinality(Equals(gap.ops)) \in Nat /\ Cardinality(Equals(u)) \in Nat
    BY <2>4, EqualsFinite
  <2> HIDE DEF t
  <2>7. e1 <= Cardinality(Equals(t))
    BY <1>4, <2>3, <2>5, <2>6
  <2>8. Consecutive(i1, i1 - i1) = <<>> /\ Consecutive(j1, j1 - j1) = <<>>
    <3>1. i1 - i1 = 0 /\ j1 - j1 = 0
      BY <1>3
    <3>2. \A a \in Nat : Consecutive(a, 0) = <<>>
      BY DEF Consecutive
    <3> QED
      BY <1>3, <3>1, <3>2
  <2>9. next.ops = t
    BY <2>1
  <2> HIDE DEF next
  <2>12. next = [ops |-> next.ops, deletes |-> Consecutive(i1, i1 - i1), inserts |-> Consecutive(j1, j1 - j1)]
    BY <2>1, <2>8, <2>9
  <2>10. /\ i1 \in Nat /\ j1 \in Nat /\ i1 <= i1 /\ j1 <= j1
         /\ next = [ops |-> next.ops, deletes |-> Consecutive(i1, i1 - i1), inserts |-> Consecutive(j1, j1 - j1)]
         /\ Covers(old, new, next.ops, 0, 0, i1, j1)
         /\ Len(next.ops) # 0 => next.ops[Len(next.ops)].type = "equal"
    BY <1>3, <1>4, <2>3, <2>9, <2>12
  <2>11. GapAt(old, new, next, i1, j1, i1, j1) /\ e1 <= Cardinality(Equals(next.ops))
    BY <2>7, <2>9, <2>10 DEF GapAt
  <2> QED
    BY <2>11 DEF next
<1>5. CASE i1 = i + 1 /\ j1 = j /\ e1 = e /\ op = Op("delete", i1, 0)
  <2>1. next = [ops |-> gap.ops, deletes |-> Append(Consecutive(i0, i - i0), i1), inserts |-> Consecutive(j0, j - j0)]
    <3> DEFINE p == gap.ops
               q == Consecutive(i0, i - i0)
               r == Consecutive(j0, j - j0)
    <3>1. gap = [ops |-> p, deletes |-> q, inserts |-> r]
      BY <1>1
    <3> HIDE DEF p, q, r
    <3>2. GapStep(old, new, gap, Op("delete", i1, 0)) = [ops |-> p, deletes |-> Append(q, i1), inserts |-> r]
      BY <3>1 DEF GapStep, Op
    <3> QED
      BY <1>5, <3>2 DEF p, q, r
  <2>2. i0 + (i - i0) + 1 = i1 /\ (i - i0) + 1 = i1 - i0 /\ i0 <= i1
    BY <1>1, <1>3, <1>5
  <2>3. Append(Consecutive(i0, i - i0), i1) = Consecutive(i0, i1 - i0)
    BY <1>1, <1>3, <2>2, ConsecutiveGoOn
  <2>4. next = [ops |-> gap.ops, deletes |-> Consecutive(i0, i1 - i0), inserts |-> Consecutive(j0, j1 - j0)]
    BY <1>5, <2>1, <2>3
  <2>5. next.ops = gap.ops
    BY <2>4
  <2> HIDE DEF next
  <2>6. GapAt(old, new, next, i0, j0, i1, j1) /\ e1 <= Cardinality(Equals(next.ops))
    BY <1>1, <1>5, <2>2, <2>4, <2>5 DEF GapAt
  <2> QED
    BY <2>6 DEF next
<1>6. CASE i1 = i /\ j1 = j + 1 /\ e1 = e /\ op = Op("insert", 0, j1)
  <2>1. next = [ops |-> gap.ops, deletes |-> Consecutive(i0, i - i0), inserts |-> Append(Consecutive(j0, j - j0), j1)]
    <3> DEFINE p == gap.ops
               q == Consecutive(i0, i - i0)
               r == Consecutive(j0, j - j0)
    <3>1. gap = [ops |-> p, deletes |-> q, inserts |-> r]
      BY <1>1
    <3> HIDE DEF p, q, r
    <3>2. GapStep(old, new, gap, Op("insert", 0, j1)) = [ops |-> p, deletes |-> q, inserts |-> Append(r, j1)]
      BY <3>1 DEF GapStep, Op
    <3> QED
      BY <1>6, <3>2 DEF p, q, r
  <2>2. j0 + (j - j0) + 1 = j1 /\ (j - j0) + 1 = j1 - j0 /\ j0 <= j1
    BY <1>1, <1>3, <1>6
  <2>3. Append(Consecutive(j0, j - j0), j1) = Consecutive(j0, j1 - j0)
    BY <1>1, <1>3, <2>2, ConsecutiveGoOn
  <2>4. next = [ops |-> gap.ops, deletes |-> Consecutive(i0, i1 - i0), inserts |-> Consecutive(j0, j1 - j0)]
    BY <1>6, <2>1, <2>3
  <2>5. next.ops = gap.ops
    BY <2>4
  <2> HIDE DEF next
  <2>6. GapAt(old, new, next, i0, j0, i1, j1) /\ e1 <= Cardinality(Equals(next.ops))
    BY <1>1, <1>6, <2>2, <2>4, <2>5 DEF GapAt
  <2> QED
    BY <2>6 DEF next
<1>7. \/ i1 = i + 1 /\ j1 = j + 1 /\ e1 = e + 1 /\ op = Op("equal", i1, j1) /\ SameHash(old, new, i1, j1)
      \/ i1 = i + 1 /\ j1 = j /\ e1 = e /\ op = Op("delete", i1, 0)
      \/ i1 = i /\ j1 = j + 1 /\ e1 = e /\ op = Op("insert", 0, j1)
  BY DEF Step, At
<1> QED
  BY <1>4, <1>5, <1>6, <1>7

GapWith(old, new, gap, c) ==
    \E i0, j0 : GapAt(old, new, gap, i0, j0, c.i, c.j) /\ c.e <= Cardinality(Equals(gap.ops))

LEMMA GapWithGoesOn ==
    ASSUME NEW old \in Seq(Sentence), NEW new \in Seq(Sentence), NEW gap, NEW c, NEW d, NEW op,
           \E i \in 0..Len(old), j \in 0..Len(new), e \in Nat : c = At(i, j, e),
           \E i \in 0..Len(old), j \in 0..Len(new), e \in Nat : d = At(i, j, e),
           GapWith(old, new, gap, c), Step(old, new, c, d, op)
    PROVE  GapWith(old, new, GapStep(old, new, gap, op), d)
<1>1. PICK i \in 0..Len(old), j \in 0..Len(new), e \in Nat : c = At(i, j, e)
  OBVIOUS
<1>2. PICK i1 \in 0..Len(old), j1 \in 0..Len(new), e1 \in Nat : d = At(i1, j1, e1)
  OBVIOUS
<1>3. c.i = i /\ c.j = j /\ c.e = e /\ d.i = i1 /\ d.j = j1 /\ d.e = e1
  BY <1>1, <1>2 DEF At
<1>4. PICK i0, j0 : GapAt(old, new, gap, i0, j0, i, j) /\ e <= Cardinality(Equals(gap.ops))
  BY <1>3 DEF GapWith
<1>5. Step(old, new, At(i, j, e), At(i1, j1, e1), op)
  BY <1>1, <1>2
<1>6. \E i2, j2 : /\ GapAt(old, new, GapStep(old, new, gap, op), i2, j2, i1, j1)
                  /\ e1 <= Cardinality(Equals(GapStep(old, new, gap, op).ops))
  BY <1>4, <1>5, GapGoesOn
<1> QED
  BY <1>3, <1>6 DEF GapWith

LEMMA FirstGap ==
    ASSUME NEW old, NEW new
    PROVE  GapWith(old, new, EmptyGap, At(0, 0, 0))
<1>1. EmptyGap = [ops |-> <<>>, deletes |-> <<>>, inserts |-> <<>>] /\ EmptyGap.ops = <<>>
  BY DEF EmptyGap
<1>2. Table(<<>>) /\ Len(<<>>) = 0 /\ DOMAIN <<>> = {}
  BY NoRow
<1>3. Consecutive(0, 0 - 0) = <<>>
  BY DEF Consecutive
<1>4. Covers(old, new, <<>>, 0, 0, 0, 0)
  <2>1. \A a \in 0 + 1..0 : FALSE
    OBVIOUS
  <2> QED
    BY <1>2, <2>1 DEF Covers
<1>5. Equals(<<>>) = {}
  BY <1>2 DEF Equals
<1>6. Cardinality(Equals(<<>>)) = 0
  BY <1>5, FS_EmptySet
<1>7. GapAt(old, new, EmptyGap, 0, 0, 0, 0)
  BY <1>1, <1>2, <1>3, <1>4 DEF GapAt
<1> QED
  BY <1>1, <1>6, <1>7 DEF GapWith, At

\* The alignment covers both versions, with as many equal ops as the table counts.
LEMMA AlignCovers ==
    ASSUME NEW old \in Seq(Sentence), NEW new \in Seq(Sentence)
    PROVE  /\ Covers(old, new, Align(old, new), 0, 0, Len(old), Len(new))
           /\ LcsTable(old, new)[<<Len(old), Len(new)>>] <= Cardinality(Equals(Align(old, new)))
<1> DEFINE script == LcsScript(old, new)
           N == Len(script)
           last == At(Len(old), Len(new), LcsTable(old, new)[<<Len(old), Len(new)>>])
<1>1. \E st : Path(old, new, script, st) /\ st[N] = last
  BY ScriptPath
<1>2. PICK st : Path(old, new, script, st) /\ st[N] = last
  BY <1>1
<1>3. Table(script) /\ N \in Nat
  BY <1>2, TableFacts DEF Path
<1>4. \E gap : /\ gap[0] = EmptyGap
               /\ \A k \in 0..(N - 1) : gap[k + 1] = GapStep(old, new, gap[k], script[k + 1])
               /\ Align(old, new) = Flush(old, new, gap[N])
  BY <1>3, AlignInOrder
<1>5. PICK gap : /\ gap[0] = EmptyGap
                 /\ \A k \in 0..(N - 1) : gap[k + 1] = GapStep(old, new, gap[k], script[k + 1])
                 /\ Align(old, new) = Flush(old, new, gap[N])
  BY <1>4
<1>6. /\ st[0] = At(0, 0, 0)
      /\ \A k \in 0..N : \E i \in 0..Len(old), j \in 0..Len(new), e \in Nat : st[k] = At(i, j, e)
      /\ \A k \in 1..N : Step(old, new, st[k - 1], st[k], script[k])
  BY <1>2 DEF Path
<1> HIDE DEF N, last, script
<1> DEFINE S == {k \in 0..N : GapWith(old, new, gap[k], st[k])}
<1>7. 0 \in S
  BY <1>3, <1>5, <1>6, FirstGap
<1>8. ASSUME NEW k \in 0..(N - 1), k \in S PROVE k + 1 \in S
  <2>1. k \in 0..N /\ k + 1 \in 0..N /\ k + 1 \in 1..N /\ (k + 1) - 1 = k
    BY <1>3
  <2>2. gap[k + 1] = GapStep(old, new, gap[k], script[k + 1])
    BY <1>5
  <2>3. Step(old, new, st[k], st[k + 1], script[k + 1])
    BY <1>6, <2>1
  <2>4. /\ \E i \in 0..Len(old), j \in 0..Len(new), e \in Nat : st[k] = At(i, j, e)
        /\ \E i \in 0..Len(old), j \in 0..Len(new), e \in Nat : st[k + 1] = At(i, j, e)
    BY <1>6, <2>1
  <2>5. GapWith(old, new, gap[k], st[k])
    BY <1>8
  <2>6. GapWith(old, new, GapStep(old, new, gap[k], script[k + 1]), st[k + 1])
    BY <2>3, <2>4, <2>5, GapWithGoesOn
  <2> QED
    BY <2>1, <2>2, <2>6
<1> HIDE DEF S
<1>9. 0..N \subseteq S
  BY <1>3, <1>7, <1>8, Induct
<1>10. GapWith(old, new, gap[N], last)
  <2>1. N \in S
    BY <1>3, <1>9
  <2> QED
    BY <1>2, <2>1 DEF S
<1> DEFINE dp == LcsTable(old, new)[<<Len(old), Len(new)>>]
           ops == Align(old, new)
<1>11. PICK i0, j0 : /\ GapAt(old, new, gap[N], i0, j0, Len(old), Len(new))
                     /\ dp <= Cardinality(Equals(gap[N].ops))
  <2>1. last.i = Len(old) /\ last.j = Len(new) /\ last.e = dp
    BY DEF last, At
  <2> HIDE DEF dp
  <2> QED
    BY <1>10, <2>1 DEF GapWith
<1>12. Len(old) \in 0..Len(old) /\ Len(new) \in 0..Len(new)
  BY Bounds
<1>13. /\ Covers(old, new, ops, 0, 0, Len(old), Len(new))
       /\ Equals(gap[N].ops) \subseteq Equals(ops)
  BY <1>5, <1>11, <1>12, FlushCovers
<1>14. Table(gap[N].ops) /\ Table(ops)
  BY <1>11, <1>13 DEF GapAt, Covers
<1>15. dp \in Nat
  BY <1>12, LcsIsNat
<1> HIDE DEF ops, dp
<1>16. Cardinality(Equals(gap[N].ops)) <= Cardinality(Equals(ops))
  BY <1>13, <1>14, EqualOps
<1>17. Cardinality(Equals(gap[N].ops)) \in Nat /\ Cardinality(Equals(ops)) \in Nat
  BY <1>14, EqualsFinite
<1>18. dp <= Cardinality(Equals(ops))
  BY <1>11, <1>15, <1>16, <1>17
<1> QED
  BY <1>13, <1>18 DEF ops, dp

\* What covers both versions is an alignment of them.
LEMMA CoversAligns ==
    ASSUME NEW old \in Seq(Sentence), NEW new \in Seq(Sentence), NEW ops,
           Covers(old, new, ops, 0, 0, Len(old), Len(new))
    PROVE  IsAlignment(old, new, ops)
<1>1. Len(old) \in Nat /\ Len(new) \in Nat /\ DOMAIN old = 1..Len(old) /\ DOMAIN new = 1..Len(new)
  BY Bounds
<1>2. ASSUME NEW k \in DOMAIN ops
      PROVE  /\ ops[k].old \in 0..Len(old) /\ ops[k].new \in 0..Len(new)
             /\ ops[k].type = "equal" => SameHash(old, new, ops[k].old, ops[k].new)
             /\ ops[k].type = "edited" => Likeness(old, new, ops[k].old, ops[k].new) >= EditedThreshold
  <2>1. IsOp(old, new, ops[k], 0, 0, Len(old), Len(new)) /\ 0 \in Nat
    BY DEF Covers
  <2>2. ops[k].old \in {0} \cup (0 + 1..Len(old)) /\ ops[k].new \in {0} \cup (0 + 1..Len(new))
    BY <1>1, <2>1, OpRange
  <2>3. ops[k].old \in 0..Len(old) /\ ops[k].new \in 0..Len(new)
    BY <1>1, <2>2
  <2>4. ops[k].type = "equal" => SameHash(old, new, ops[k].old, ops[k].new)
    BY <2>1 DEF IsOp
  <2>5. ASSUME ops[k].type = "edited"
        PROVE  Likeness(old, new, ops[k].old, ops[k].new) >= EditedThreshold
    <3>1. /\ ops[k].old \in 1..Len(old) /\ ops[k].new \in 1..Len(new)
          /\ Likeness(old, new, ops[k].old, ops[k].new) > EditedThreshold
      BY <1>1, <2>1, <2>5 DEF IsOp
    <3>2. Likeness(old, new, ops[k].old, ops[k].new) \in 0..10
      BY <3>1, LikenessIs
    <3> QED
      BY <3>1, <3>2 DEF EditedThreshold
  <2> QED
    BY <2>3, <2>4, <2>5
<1>3. ASSUME NEW k \in DOMAIN ops, NEW l \in DOMAIN ops, k < l
      PROVE  /\ ops[k].old # 0 /\ ops[l].old # 0 => ops[k].old < ops[l].old
             /\ ops[k].new = ops[l].new => ops[k].new = 0
  BY <1>3 DEF Covers, InTurn
<1>4. (\A i \in DOMAIN old : \E k \in DOMAIN ops : ops[k].old = i)
  BY <1>1 DEF Covers
<1>5. (\A j \in DOMAIN new : \E k \in DOMAIN ops : ops[k].new = j)
  BY <1>1 DEF Covers
<1> QED
  BY <1>2, <1>3, <1>4, <1>5 DEF IsAlignment

\* The pairs of the equal ops.
LEMMA EqualPairs ==
    ASSUME NEW old \in Seq(Sentence), NEW new \in Seq(Sentence), NEW ops,
           Covers(old, new, ops, 0, 0, Len(old), Len(new))
    PROVE  \E match \in Matchings(old, new, Len(old), Len(new)) :
              Cardinality(match) = Cardinality(Equals(ops))
<1> DEFINE pair == [k \in DOMAIN ops |-> <<ops[k].old, ops[k].new>>]
           match == {pair[k] : k \in Equals(ops)}
<1>1. Len(old) \in Nat /\ Len(new) \in Nat /\ DOMAIN old = 1..Len(old) /\ DOMAIN new = 1..Len(new)
  BY Bounds
<1>2. Table(ops) /\ Len(ops) \in Nat /\ DOMAIN ops = 1..Len(ops)
  BY TableFacts DEF Covers
<1>3. \A k \in Equals(ops) : k \in DOMAIN ops /\ ops[k].type = "equal"
  BY DEF Equals
<1>4. ASSUME NEW k \in Equals(ops)
      PROVE  /\ ops[k].old \in 1..Len(old) /\ ops[k].new \in 1..Len(new)
             /\ SameHash(old, new, ops[k].old, ops[k].new)
  <2>1. IsOp(old, new, ops[k], 0, 0, Len(old), Len(new)) /\ ops[k].type = "equal"
    BY <1>3 DEF Covers
  <2>2. /\ ops[k].old \in 0 + 1..Len(old) /\ ops[k].new \in 0 + 1..Len(new)
        /\ SameHash(old, new, ops[k].old, ops[k].new)
    BY <2>1 DEF IsOp
  <2> QED
    BY <2>2
<1>5. ASSUME NEW k \in Equals(ops), NEW l \in Equals(ops), k < l
      PROVE  ops[k].old < ops[l].old /\ ops[k].new < ops[l].new
  <2>1. InTurn(ops[k], ops[l])
    BY <1>3, <1>5 DEF Covers
  <2>2. ops[k].old # 0 /\ ops[l].old # 0
    BY <1>4
  <2> QED
    BY <1>3, <2>1, <2>2 DEF InTurn
<1>6. \A k \in Equals(ops) : pair[k] = <<ops[k].old, ops[k].new>> /\ pair[k][1] = ops[k].old /\ pair[k][2] = ops[k].new
  BY <1>3
<1> HIDE DEF pair
<1>7. match \in SUBSET Pairs(old, new)
  <2>1. ASSUME NEW k \in Equals(ops) PROVE pair[k] \in Pairs(old, new)
    <3>1. pair[k] \in (DOMAIN old) \X (DOMAIN new)
      <4>1. <<ops[k].old, ops[k].new>> \in (DOMAIN old) \X (DOMAIN new)
        BY <1>1, <1>4
      <4> QED
        BY <1>6, <4>1
    <3>2. SameHash(old, new, pair[k][1], pair[k][2])
      BY <1>4, <1>6
    <3> QED
      BY <3>1, <3>2 DEF Pairs
  <2> QED
    BY <2>1
<1>8. \A k, l \in Equals(ops) : k = l \/ k < l \/ l < k
  BY <1>2, <1>3
<1>9. InOrder(match)
  <2>1. ASSUME NEW k \in Equals(ops), NEW l \in Equals(ops)
        PROVE  \/ pair[k] = pair[l]
               \/ pair[k][1] < pair[l][1] /\ pair[k][2] < pair[l][2]
               \/ pair[l][1] < pair[k][1] /\ pair[l][2] < pair[k][2]
    BY <1>5, <1>6, <1>8
  <2> QED
    BY <2>1 DEF InOrder
<1>10. \A p \in match : p[1] <= Len(old) /\ p[2] <= Len(new)
  BY <1>1, <1>4, <1>6
<1>11. match \in Matchings(old, new, Len(old), Len(new))
  BY <1>7, <1>9, <1>10 DEF Matchings
<1>12. IsFiniteSet(match)
  BY <1>7, PairsFacts, FS_Subset
<1>13. \A k, l \in Equals(ops) : pair[k] = pair[l] => k = l
  <2>1. ASSUME NEW k \in Equals(ops), NEW l \in Equals(ops), pair[k] = pair[l] PROVE k = l
    <3>1. ops[k].old = ops[l].old
      BY <1>6, <2>1
    <3>2. ~(k < l) /\ ~(l < k)
      BY <1>1, <1>4, <1>5, <3>1
    <3> QED
      BY <1>8, <3>2
  <2> QED
    BY <2>1
<1>14. \A k \in Equals(ops) : pair[k] \in match
  OBVIOUS
<1>16. \A p \in match : \E k \in Equals(ops) : pair[k] = p
  OBVIOUS
<1> DEFINE equals == Equals(ops)
<1>17. /\ \A k \in equals : pair[k] \in match
       /\ \A k, l \in equals : pair[k] = pair[l] => k = l
       /\ \A p \in match : \E k \in equals : pair[k] = p
  BY <1>13, <1>14, <1>16
<1> HIDE DEF match, equals
<1>15. Cardinality(equals) = Cardinality(match)
  BY <1>12, <1>17, Matched, ZenonT(30)
<1> QED
  BY <1>11, <1>15 DEF equals

\* A number every element of a set of numbers is below, and that is in it, is its largest.
LEMMA MaxIs ==
    ASSUME NEW S, NEW m, m \in S, m \in Int, \A x \in S : x \in Int /\ x <= m
    PROVE  Max(S) = m
<1>1. \A y \in S : m >= y
  OBVIOUS
<1> DEFINE x == Max(S)
<1>2. x \in S /\ \A y \in S : x >= y
  BY <1>1 DEF Max
<1> HIDE DEF x
<1>3. x >= m /\ x \in Int /\ x <= m
  BY <1>2
<1>4. x = m
  BY <1>3
<1> QED
  BY <1>4 DEF x

LEMMA CoversOptimally ==
    ASSUME NEW old \in Seq(Sentence), NEW new \in Seq(Sentence), NEW ops,
           Covers(old, new, ops, 0, 0, Len(old), Len(new)),
           LcsTable(old, new)[<<Len(old), Len(new)>>] <= Cardinality(Equals(ops))
    PROVE  IsOptimal(old, new, ops)
<1> DEFINE m == Cardinality(Equals(ops))
           dp == LcsTable(old, new)[<<Len(old), Len(new)>>]
           all == Matchings(old, new, Len(old), Len(new))
           sizes == {Cardinality(match) : match \in all}
<1>1. Len(old) \in 0..Len(old) /\ Len(new) \in 0..Len(new)
  BY Bounds
<1>2. m \in Nat
  BY EqualsFinite DEF Covers
<1>3. dp \in Nat
  BY <1>1, LcsIsNat
<1>4. m \in sizes
  BY EqualPairs
<1>5. ASSUME NEW match \in all PROVE Cardinality(match) \in Int /\ Cardinality(match) <= m
  <2>1. Cardinality(match) <= dp
    BY <1>1, MatchingBound
  <2>2. Cardinality(match) \in Nat
    <3>1. match \subseteq Pairs(old, new)
      BY DEF Matchings
    <3> QED
      BY <3>1, PairsFacts, FS_Subset, FS_CardinalityType
  <2> HIDE DEF m, dp
  <2>3. dp <= m
    BY DEF dp, m
  <2> QED
    BY <1>2, <1>3, <2>1, <2>2, <2>3
<1>6. Max(sizes) = m
  <2>1. \A x \in sizes : x \in Int /\ x <= m
    BY <1>5
  <2> HIDE DEF sizes, m
  <2> QED
    BY <1>2, <1>4, <2>1, MaxIs
<1>7. all = {match \in SUBSET Pairs(old, new) : InOrder(match)}
  <2>1. ASSUME NEW match \in SUBSET Pairs(old, new), NEW p \in match PROVE p[1] <= Len(old) /\ p[2] <= Len(new)
    <3>1. p \in Pairs(old, new)
      OBVIOUS
    <3>2. p[1] \in 1..Len(old) /\ p[2] \in 1..Len(new)
      BY <3>1, PairsFacts
    <3> QED
      BY <1>1, <3>2
  <2> QED
    BY <2>1 DEF Matchings
<1>8. CommonLength(old, new) = Max(sizes)
  <2>1. CommonLength(old, new) = Max({Cardinality(match) : match \in {match \in SUBSET Pairs(old, new) : InOrder(match)}})
    BY DEF CommonLength, Pairs, InOrder
  <2> HIDE DEF all
  <2> QED
    BY <1>7, <2>1
<1> QED
  BY <1>6, <1>8 DEF IsOptimal, Equals

-----------------------------------------------------------------------------
(* The writers' versions.                                                  *)

\* A document's sentences are those of its paragraphs, put together.
LEMMA TextsOf ==
    ASSUME NEW doc \in Seq(Seq(Sentence))
    PROVE  /\ Texts(Flat(doc)) = FlattenSeq(doc) /\ FlattenSeq(doc) \in Seq(Sentence)
           /\ Table(Flat(doc)) /\ Len(Flat(doc)) = Len(FlattenSeq(doc))
           /\ \A k \in DOMAIN Flat(doc) : Flat(doc)[k].text = FlattenSeq(doc)[k]
<1> DEFINE row(p) == [i \in DOMAIN doc[p] |-> [para |-> p, text |-> doc[p][i]]]
           rows == [p \in DOMAIN doc |-> row(p)]
           flat == FlattenSeq(rows)
           texts == FlattenSeq(doc)
           n == Len(doc)
<1>1. Flat(doc) = flat
  BY DEF Flat
<1>2. Table(doc) /\ n \in Nat /\ DOMAIN doc = 1..n /\ \A p \in DOMAIN doc : doc[p] \in Seq(Sentence)
  BY SeqIsTable, TableFacts
<1>3. ASSUME NEW p \in DOMAIN doc
      PROVE  /\ Table(doc[p]) /\ \A i \in DOMAIN doc[p] : doc[p][i] \in Sentence
             /\ Table(row(p)) /\ Len(row(p)) = Len(doc[p]) /\ DOMAIN row(p) = DOMAIN doc[p]
             /\ \A i \in DOMAIN doc[p] : row(p)[i] = [para |-> p, text |-> doc[p][i]]
  <2> DEFINE r == row(p)
             m == Len(doc[p])
  <2>1. Table(doc[p]) /\ (\A i \in DOMAIN doc[p] : doc[p][i] \in Sentence) /\ m \in Nat /\ DOMAIN doc[p] = 1..m
    BY <1>2, SeqIsTable, TableFacts
  <2>2. DOMAIN r = 1..m /\ r = [i \in 1..m |-> r[i]] /\ \A i \in 1..m : r[i] = [para |-> p, text |-> doc[p][i]]
    BY <2>1
  <2> HIDE DEF r, m
  <2>3. Table(r) /\ Len(r) = m
    BY <2>1, <2>2, TableFrom
  <2> QED
    BY <2>1, <2>2, <2>3 DEF r, m
<1>4. DOMAIN rows = 1..n /\ rows = [p \in 1..n |-> rows[p]] /\ \A p \in 1..n : rows[p] = row(p)
  BY <1>2
<1> HIDE DEF row, n
<1>5. Table(rows) /\ Len(rows) = n
  <2> HIDE DEF rows
  <2> QED
    BY <1>2, <1>4, TableFrom
<1> HIDE DEF rows
<1>6. \A p \in DOMAIN doc : Table(doc[p]) /\ Table(rows[p]) /\ Len(doc[p]) = Len(rows[p])
  BY <1>2, <1>3, <1>4
<1>7. Len(doc) = Len(rows)
  BY <1>5 DEF n
<1>8. /\ Table(FlattenSeq(doc)) /\ Table(FlattenSeq(rows))
      /\ Len(FlattenSeq(doc)) = Len(FlattenSeq(rows))
      /\ \E place : /\ Placing(doc, Len(doc), FlattenSeq(doc), place)
                    /\ Placing(rows, Len(doc), FlattenSeq(rows), place)
  BY <1>2, <1>5, <1>6, <1>7, FlattenTogether
<1>9. PICK place : /\ Placing(doc, n, texts, place)
                   /\ Placing(rows, n, flat, place)
  BY <1>8 DEF n
<1>10. Table(texts) /\ Table(flat) /\ Len(texts) = Len(flat)
  BY <1>8
<1> HIDE DEF texts, flat
<1>11. Len(texts) \in Nat /\ DOMAIN texts = 1..Len(texts) /\ DOMAIN flat = 1..Len(texts)
  BY <1>10, TableFacts
<1>12. ASSUME NEW k \in DOMAIN texts
       PROVE  texts[k] \in Sentence /\ flat[k].text = texts[k]
  <2> DEFINE p == place[k][1]
             i == place[k][2]
  <2>1. place[k] \in Spots(doc, n) /\ texts[k] = doc[p][i] /\ flat[k] = rows[p][i]
    BY <1>9, <1>11 DEF Placing
  <2>2. p \in 1..n /\ i \in DOMAIN doc[p]
    BY <2>1 DEF Spots
  <2> HIDE DEF p, i
  <2>3. flat[k] = [para |-> p, text |-> doc[p][i]]
    BY <1>2, <1>3, <1>4, <2>1, <2>2
  <2> QED
    BY <1>2, <1>3, <2>1, <2>2, <2>3
<1> DEFINE all == Texts(flat)
<1>13. DOMAIN all = DOMAIN flat /\ all = [k \in DOMAIN flat |-> all[k]] /\ \A k \in DOMAIN flat : all[k] = flat[k].text
  BY DEF Texts
<1> HIDE DEF all
<1>14. Table(all)
  BY <1>11, <1>13, TableFrom
<1>15. all = texts
  BY <1>10, <1>11, <1>12, <1>13, <1>14, TableEqual
<1>16. texts \in Seq(Sentence)
  <2>1. texts \in [1..Len(texts) -> Sentence]
    <3>1. texts = [k \in 1..Len(texts) |-> texts[k]]
      BY <1>10, <1>11 DEF Table
    <3> QED
      BY <1>11, <1>12, <3>1
  <2> QED
    BY <1>11, <2>1, SeqDef
<1> QED
  BY <1>1, <1>10, <1>11, <1>12, <1>15, <1>16 DEF texts, all

LEMMA SideIs ==
    ASSUME NEW s
    PROVE  s \in Side <=> s \in Seq(Sentence) /\ Len(s) <= MaxSide
<1>1. MaxSide \in Nat
  BY BoundAssumption
<1>2. ASSUME s \in Side PROVE s \in Seq(Sentence) /\ Len(s) <= MaxSide
  <2>1. PICK m \in 0..MaxSide : s \in [1..m -> Sentence]
    BY <1>2 DEF Side, SeqOf
  <2>2. m \in Nat /\ m <= MaxSide
    BY <1>1
  <2>3. s \in Seq(Sentence)
    BY <2>1, <2>2, SeqDef
  <2>4. Len(s) = m
    BY <2>1, <2>2, TableOf
  <2> QED
    BY <2>2, <2>3, <2>4
<1>3. ASSUME s \in Seq(Sentence), Len(s) <= MaxSide PROVE s \in Side
  <2> DEFINE m == Len(s)
  <2>1. m \in Nat /\ s \in [1..m -> Sentence]
    BY <1>3, LenProperties
  <2>2. m <= MaxSide
    BY <1>3
  <2> HIDE DEF m
  <2>3. m \in 0..MaxSide
    BY <1>1, <2>1, <2>2
  <2> QED
    BY <2>1, <2>3 DEF Side, SeqOf
<1> QED
  BY <1>2, <1>3

LEMMA BaseIsSide ==
    ASSUME TypeOK
    PROVE  /\ base \in Seq(Seq(Sentence)) /\ BaseTexts \in Seq(Sentence) /\ BaseTexts \in Side
           /\ BaseTexts = FlattenSeq(base) /\ Table(Flat(base)) /\ Len(Flat(base)) = Len(BaseTexts)
           /\ \A k \in DOMAIN Flat(base) : Flat(base)[k].text = BaseTexts[k]
<1>1. base \in Seq(Seq(Sentence) \ {<<>>}) /\ Len(BaseTexts) <= MaxBase
  BY DEF TypeOK
<1>2. base \in Seq(Seq(Sentence))
  <2>1. Len(base) \in Nat /\ base \in [1..Len(base) -> Seq(Sentence) \ {<<>>}]
    BY <1>1, LenProperties
  <2>2. base \in [1..Len(base) -> Seq(Sentence)]
    <3> HIDE DEF TypeOK
    <3> QED
      BY <2>1
  <2> QED
    BY <2>1, <2>2, SeqDef
<1>3. /\ BaseTexts = FlattenSeq(base) /\ FlattenSeq(base) \in Seq(Sentence)
      /\ Table(Flat(base)) /\ Len(Flat(base)) = Len(FlattenSeq(base))
      /\ \A k \in DOMAIN Flat(base) : Flat(base)[k].text = FlattenSeq(base)[k]
  BY <1>2, TextsOf DEF BaseTexts
<1>4. BaseTexts \in Seq(Sentence) /\ Len(BaseTexts) \in Nat
  BY <1>3, LenProperties
<1>5. Len(BaseTexts) <= MaxSide
  BY <1>1, <1>4, BoundAssumption
<1>6. BaseTexts \in Side
  BY <1>4, <1>5, SideIs
<1> QED
  BY <1>2, <1>3, <1>4, <1>6

LEMMA EditsAreTexts ==
    ASSUME NEW side \in Seq(Sentence), NEW t \in Edits(side)
    PROVE  t \in Seq(Sentence)
<1> DEFINE n == Len(side)
<1>1. n \in Nat /\ side \in [1..n -> Sentence] /\ DOMAIN side = 1..n
  BY LenProperties
<1>2. ASSUME NEW m \in Int, NEW l \in Int, 1 <= m, l <= n
      PROVE  SubSeq(side, m, l) \in Seq(Sentence)
  <2>1. \A i \in m..l : side[i] \in Sentence
    BY <1>1, <1>2
  <2> QED
    BY <2>1, SubSeqProperties
<1>3. ASSUME NEW s \in Sentence, NEW i \in 1..n + 1 PROVE InsertAt(side, i, s) \in Seq(Sentence)
  <2>1. SubSeq(side, 1, i - 1) \in Seq(Sentence) /\ SubSeq(side, i, n) \in Seq(Sentence)
    BY <1>1, <1>2
  <2>2. <<s>> \in Seq(Sentence)
    OBVIOUS
  <2>3. SubSeq(side, 1, i - 1) \o <<s>> \in Seq(Sentence)
    BY <2>1, <2>2, ConcatProperties
  <2> QED
    BY <2>1, <2>3, ConcatProperties DEF InsertAt
<1>4. ASSUME NEW s \in Sentence, NEW i \in DOMAIN side PROVE ReplaceAt(side, i, s) \in Seq(Sentence)
  BY <1>1, ExceptSeq DEF ReplaceAt
<1>5. ASSUME NEW i \in DOMAIN side PROVE RemoveAt(side, i) \in Seq(Sentence)
  <2>1. SubSeq(side, 1, i - 1) \in Seq(Sentence) /\ SubSeq(side, i + 1, n) \in Seq(Sentence)
    BY <1>1, <1>2
  <2> QED
    BY <2>1, ConcatProperties DEF RemoveAt
<1>6. \/ \E s \in Sentence : \E i \in 1..n + 1 : t = InsertAt(side, i, s)
      \/ \E s \in Sentence : \E i \in DOMAIN side : t = ReplaceAt(side, i, s)
      \/ \E i \in DOMAIN side : t = RemoveAt(side, i)
  <2> DEFINE put(s) == {InsertAt(side, i, s) : i \in 1..n + 1}
             set(s) == {ReplaceAt(side, i, s) : i \in DOMAIN side}
             cut == {RemoveAt(side, i) : i \in DOMAIN side}
  <2>1. Edits(side) = (UNION {put(s) \cup set(s) : s \in Sentence}) \cup cut
    BY DEF Edits
  <2>2. t \in cut \/ \E s \in Sentence : t \in put(s) \/ t \in set(s)
    <3> HIDE DEF put, set, cut
    <3> QED
      BY <2>1
  <2>3. ASSUME NEW s \in Sentence, t \in put(s) PROVE \E i \in 1..n + 1 : t = InsertAt(side, i, s)
    BY <2>3
  <2>4. ASSUME NEW s \in Sentence, t \in set(s) PROVE \E i \in DOMAIN side : t = ReplaceAt(side, i, s)
    BY <2>4
  <2>5. ASSUME t \in cut PROVE \E i \in DOMAIN side : t = RemoveAt(side, i)
    BY <2>5
  <2> HIDE DEF put, set, cut
  <2> QED
    BY <2>2, <2>3, <2>4, <2>5
<1> QED
  BY <1>3, <1>4, <1>5, <1>6

\* The sides are sequences of at most MaxSide sentences, the base a document of at
\* most MaxBase.
THEOREM VersionsAreDocuments == ProseSpec => []TypeOK
<1>1. ProseInit => TypeOK
  <2> SUFFICES ASSUME ProseInit PROVE TypeOK
    OBVIOUS
  <2>1. PICK texts \in SeqOf(Sentence, MaxBase) : base \in Layouts(texts) /\ ours = texts
    BY DEF ProseInit
  <2>2. MaxBase \in Nat /\ MaxSide \in Nat /\ MaxBase <= MaxSide
    BY BoundAssumption
  <2>3. PICK m \in 0..MaxBase : texts \in [1..m -> Sentence]
    BY DEF SeqOf
  <2>4. m \in Nat /\ m <= MaxBase /\ m <= MaxSide
    BY <2>2
  <2>5. texts \in Seq(Sentence) /\ Len(texts) = m
    BY <2>3, <2>4, TableOf, SeqDef
  <2>6. texts \in Side
    BY <2>4, <2>5, SideIs
  <2>7. base \in SeqOf(SeqOf(Sentence, MaxBase) \ {<<>>}, MaxBase) /\ FlattenSeq(base) = texts
    BY <2>1 DEF Layouts
  <2>8. PICK k \in 0..MaxBase : base \in [1..k -> SeqOf(Sentence, MaxBase) \ {<<>>}]
    BY <2>7 DEF SeqOf
  <2>9. SeqOf(Sentence, MaxBase) \subseteq Seq(Sentence)
    <3>1. ASSUME NEW s \in SeqOf(Sentence, MaxBase) PROVE s \in Seq(Sentence)
      <4>1. PICK l \in 0..MaxBase : s \in [1..l -> Sentence]
        BY DEF SeqOf
      <4>2. l \in Nat
        BY <2>2
      <4> QED
        BY <4>1, <4>2, SeqDef
    <3> QED
      BY <3>1
  <2>10. base \in [1..k -> Seq(Sentence) \ {<<>>}] /\ base \in [1..k -> Seq(Sentence)] /\ k \in Nat
    BY <2>2, <2>8, <2>9
  <2>11. base \in Seq(Seq(Sentence) \ {<<>>}) /\ base \in Seq(Seq(Sentence))
    BY <2>10, SeqDef
  <2>12. BaseTexts = texts
    BY <2>7, <2>11, TextsOf DEF BaseTexts
  <2> QED
    BY <2>1, <2>4, <2>5, <2>6, <2>11, <2>12 DEF TypeOK, ProseInit
<1>2. TypeOK /\ [Write]_proseVars => TypeOK'
  <2> SUFFICES ASSUME TypeOK, [Write]_proseVars PROVE TypeOK'
    OBVIOUS
  <2>1. ours \in Seq(Sentence) /\ theirs \in Seq(Sentence)
    BY SideIs DEF TypeOK
  <2>2. CASE WriteOurs
    <3>1. ours' \in Seq(Sentence) /\ Len(ours') <= MaxSide /\ UNCHANGED <<base, theirs>>
      BY <2>1, <2>2, EditsAreTexts DEF WriteOurs, WithinBounds
    <3>2. ours' \in Side
      BY <3>1, SideIs
    <3> QED
      BY <3>1, <3>2 DEF TypeOK, BaseTexts
  <2>3. CASE WriteTheirs
    <3>1. theirs' \in Seq(Sentence) /\ Len(theirs') <= MaxSide /\ UNCHANGED <<base, ours>>
      BY <2>1, <2>3, EditsAreTexts DEF WriteTheirs, WithinBounds
    <3>2. theirs' \in Side
      BY <3>1, SideIs
    <3> QED
      BY <3>1, <3>2 DEF TypeOK, BaseTexts
  <2>4. CASE UNCHANGED proseVars
    BY <2>4 DEF TypeOK, BaseTexts, proseVars
  <2> QED
    BY <2>2, <2>3, <2>4 DEF Write
<1> QED
  BY <1>1, <1>2, PTL DEF ProseSpec

\* What the alignments a merge uses are.
LEMMA AlignmentIs ==
    ASSUME TypeOK, NEW side \in Side
    PROVE  /\ Alignment[BaseTexts][side] = Align(BaseTexts, side)
           /\ BaseTexts \in Seq(Sentence) /\ side \in Seq(Sentence)
           /\ Covers(BaseTexts, side, Align(BaseTexts, side), 0, 0, Len(BaseTexts), Len(side))
<1>1. BaseTexts \in Side /\ BaseTexts \in Seq(Sentence) /\ side \in Seq(Sentence)
  BY BaseIsSide, SideIs
<1>2. Alignment[BaseTexts][side] = Align(BaseTexts, side)
  BY <1>1 DEF Alignment
<1> QED
  BY <1>1, <1>2, AlignCovers

\* The alignment behind diff, merge and reindexing accounts for every sentence of both
\* versions, in the order of the old one, and pairs as many equal sentences as any
\* alignment can.
THEOREM AlignmentsAreOptimal == ProseSpec => []AlignmentIsOptimal
<1>1. TypeOK => AlignmentIsOptimal
  <2> SUFFICES ASSUME TypeOK PROVE AlignmentIsOptimal
    OBVIOUS
  <2>1. ours \in Side
    BY DEF TypeOK
  <2> DEFINE old == BaseTexts
             ops == Align(old, ours)
  <2>2. /\ Alignment[old][ours] = ops /\ old \in Seq(Sentence) /\ ours \in Seq(Sentence)
        /\ Covers(old, ours, ops, 0, 0, Len(old), Len(ours))
    BY <2>1, AlignmentIs
  <2>3. LcsTable(old, ours)[<<Len(old), Len(ours)>>] <= Cardinality(Equals(ops))
    BY <2>2, AlignCovers
  <2> HIDE DEF old, ops
  <2>4. IsAlignment(old, ours, ops) /\ IsOptimal(old, ours, ops)
    BY <2>2, <2>3, CoversAligns, CoversOptimally
  <2> QED
    BY <2>2, <2>4 DEF AlignmentIsOptimal, old
<1> QED
  BY <1>1, VersionsAreDocuments, PTL

-----------------------------------------------------------------------------
(* What the two sides make of a base sentence and the gap before it.       *)

\* The alignment of a side with the base.
AlignsSide(flat, side, ops) ==
    /\ side \in Seq(Sentence) /\ Table(flat)
    /\ \E old \in Seq(Sentence) :
          /\ Len(old) = Len(flat) /\ \A k \in DOMAIN flat : flat[k].text = old[k]
          /\ Covers(old, side, ops, 0, 0, Len(old), Len(side))

Anchor(ops) == [k \in DOMAIN ops |-> Cardinality({m \in 1..k : ops[m].old # 0}) + 1]

InsertsAt(ops, a) == {k \in DOMAIN ops : ops[k].type = "insert" /\ Anchor(ops)[k] = a}

WordsOf(ops, side) == [k \in DOMAIN ops |-> side[ops[k].new]]

LEMMA InsertedIs ==
    ASSUME NEW ops, Table(ops), NEW side, NEW a
    PROVE  \E at : Picks(Inserted(ops, side, a), InsertsAt(ops, a), WordsOf(ops, side), at)
<1> DEFINE ss == [k \in DOMAIN ops |->
                     IF ops[k].type = "insert" /\ Anchor(ops)[k] = a THEN <<side[ops[k].new]>> ELSE <<>>]
           D == InsertsAt(ops, a)
           e == WordsOf(ops, side)
<1>1. Inserted(ops, side, a) = FlattenSeq(ss)
  BY DEF Inserted, Anchored, Anchor
<1>2. DOMAIN ops = 1..Len(ops) /\ Len(ops) \in Nat
  BY TableFacts
<1>3. Table(ss) /\ DOMAIN ss = DOMAIN ops
  <2>1. DOMAIN ss = 1..Len(ops) /\ ss = [k \in 1..Len(ops) |-> ss[k]]
    BY <1>2
  <2> HIDE DEF ss
  <2> QED
    BY <1>2, <2>1, TableFrom
<1>4. D \subseteq DOMAIN ss
  BY <1>3 DEF InsertsAt
<1>5. \A k \in DOMAIN ss : ss[k] = IF k \in D THEN <<e[k]>> ELSE <<>>
  <2>1. SUFFICES ASSUME NEW k \in DOMAIN ops PROVE ss[k] = IF k \in D THEN <<e[k]>> ELSE <<>>
    BY <1>3
  <2>2. k \in D <=> ops[k].type = "insert" /\ Anchor(ops)[k] = a
    BY DEF InsertsAt
  <2>3. e[k] = side[ops[k].new]
    BY DEF WordsOf
  <2> QED
    BY <2>2, <2>3
<1> HIDE DEF ss, D, e
<1>6. \E at : Picks(FlattenSeq(ss), D, e, at)
  BY <1>3, <1>4, <1>5, FlattenPicks
<1> QED
  BY <1>1, <1>6 DEF D, e

\* The op of a base sentence.
LEMMA ChangeIs ==
    ASSUME NEW flat, NEW side, NEW ops, AlignsSide(flat, side, ops), NEW a \in 1..Len(flat)
    PROVE  \E m \in DOMAIN ops :
              /\ Change(ops, a) = ops[m] /\ ops[m].old = a
              /\ \A l \in DOMAIN ops : ops[l].old = a => l = m
              /\ ops[m].type \in {"equal", "edited", "delete"}
              /\ ops[m].type # "delete" => ops[m].new \in 1..Len(side)
<1>1. PICK old \in Seq(Sentence) : /\ Len(old) = Len(flat)
                                   /\ Covers(old, side, ops, 0, 0, Len(old), Len(side))
  BY DEF AlignsSide
<1>2. Table(ops) /\ Len(ops) \in Nat /\ DOMAIN ops = 1..Len(ops)
  BY <1>1, TableFacts DEF Covers
<1>3. Len(flat) \in Nat /\ a \in 0 + 1..Len(old) /\ a # 0
  <2>1. Len(flat) \in Nat
    BY TableFacts DEF AlignsSide
  <2> QED
    BY <1>1, <2>1
<1>4. PICK m \in DOMAIN ops : ops[m].old = a
  BY <1>1, <1>3 DEF Covers
<1>5. \A l \in DOMAIN ops : ops[l].old = a => l = m
  <2>1. SUFFICES ASSUME NEW l \in DOMAIN ops, ops[l].old = a, l # m PROVE FALSE
    OBVIOUS
  <2>2. l < m \/ m < l
    BY <1>2, <2>1
  <2>3. InTurn(ops[l], ops[m]) \/ InTurn(ops[m], ops[l])
    BY <1>1, <2>2 DEF Covers
  <2>4. ops[l].old < ops[m].old \/ ops[m].old < ops[l].old
    BY <1>3, <1>4, <2>1, <2>3 DEF InTurn
  <2> QED
    BY <1>3, <1>4, <2>1, <2>4
<1>6. Change(ops, a) = ops[m]
  <2>1. ToSet(ops) = {ops[k] : k \in DOMAIN ops}
    BY DEF ToSet
  <2>2. ops[m] \in ToSet(ops) /\ \A op \in ToSet(ops) : op.old = a => op = ops[m]
    BY <1>4, <1>5, <2>1
  <2> QED
    BY <1>4, <2>2 DEF Change
<1>7. IsOp(old, side, ops[m], 0, 0, Len(old), Len(side))
  BY <1>1 DEF Covers
<1>8. ops[m].type \in {"equal", "edited", "delete"} /\ (ops[m].type # "delete" => ops[m].new \in 0 + 1..Len(side))
  BY <1>3, <1>4, <1>7 DEF IsOp
<1> QED
  BY <1>4, <1>5, <1>6, <1>8

LEMMA SideChangeIs ==
    ASSUME NEW flat, NEW side, NEW ops, AlignsSide(flat, side, ops), NEW a \in 1..Len(flat)
    PROVE  LET c == SideChange(ops, side, a)
               op == Change(ops, a) IN
           /\ c.type = op.type /\ c.type \in {"equal", "edited", "delete"}
           /\ \/ c.type = "delete" /\ c.text = <<>>
              \/ c.type # "delete" /\ c.text = <<side[op.new]>>
           /\ Table(c.text)
<1> DEFINE op == Change(ops, a)
           c == SideChange(ops, side, a)
<1>1. op.type \in {"equal", "edited", "delete"}
  BY ChangeIs
<1>2. c = [type |-> op.type, text |-> IF op.type = "delete" THEN <<>> ELSE <<side[op.new]>>]
  BY DEF SideChange
<1> HIDE DEF op, c
<1>3. c.type = op.type /\ c.text = IF op.type = "delete" THEN <<>> ELSE <<side[op.new]>>
  BY <1>2
<1>4. Table(<<>>) /\ Table(<<side[op.new]>>)
  BY NoRow, OneRow
<1>5. CASE op.type = "delete"
  <2>1. c.text = <<>> /\ c.type = "delete"
    BY <1>3, <1>5
  <2> QED
    BY <1>1, <1>3, <1>4, <2>1 DEF op, c
<1>6. CASE op.type # "delete"
  <2>1. c.text = <<side[op.new]>> /\ c.type # "delete"
    BY <1>3, <1>6
  <2> QED
    BY <1>1, <1>3, <1>4, <2>1 DEF op, c
<1> QED
  BY <1>5, <1>6

\* Sentences as slots.
Plains(s) == [k \in DOMAIN s |-> Plain(s[k])]

LEMMA PlainsOf ==
    ASSUME NEW s, Table(s)
    PROVE  /\ Table(Plains(s)) /\ Len(Plains(s)) = Len(s) /\ DOMAIN Plains(s) = DOMAIN s
           /\ \A k \in DOMAIN s : Plains(s)[k] = Plain(s[k])
<1> DEFINE p == Plains(s)
           n == Len(s)
<1>1. n \in Nat /\ DOMAIN s = 1..n
  BY TableFacts
<1>2. DOMAIN p = 1..n /\ p = [k \in 1..n |-> p[k]] /\ \A k \in 1..n : p[k] = Plain(s[k])
  BY <1>1 DEF Plains
<1> HIDE DEF p, n
<1>3. Table(p) /\ Len(p) = n
  BY <1>1, <1>2, TableFrom
<1> QED
  BY <1>1, <1>2, <1>3 DEF p, n

\* With one side's new sentences only, the gap has those.
LEMMA GapSlotsIs ==
    ASSUME NEW a, NEW o, Table(o), NEW t, Table(t)
    PROVE  /\ o # <<>> /\ t # <<>> => GapSlots(a, o, t) = <<Marker(a, o, t)>>
           /\ o = <<>> => GapSlots(a, o, t) = Plains(t)
           /\ t = <<>> => GapSlots(a, o, t) = Plains(o)
           /\ Table(GapSlots(a, o, t))
<1>1. <<>> \o t = t
  <2>1. t \in Seq({t[k] : k \in DOMAIN t})
    BY TableIsSeq
  <2> QED
    BY <2>1, ConcatEmptySeq
<1>2. o \o <<>> = o
  <2>1. o \in Seq({o[k] : k \in DOMAIN o})
    BY TableIsSeq
  <2> QED
    BY <2>1, ConcatEmptySeq
<1>3. o # <<>> /\ t # <<>> => GapSlots(a, o, t) = <<Marker(a, o, t)>>
  BY DEF GapSlots
<1>4. o = <<>> => GapSlots(a, o, t) = Plains(t)
  BY <1>1 DEF GapSlots, Plains
<1>5. t = <<>> => GapSlots(a, o, t) = Plains(o)
  BY <1>2 DEF GapSlots, Plains
<1>6. Table(<<Marker(a, o, t)>>) /\ Table(Plains(t)) /\ Table(Plains(o))
  BY OneRow, PlainsOf
<1>7. Table(GapSlots(a, o, t))
  <2>1. CASE o = <<>>
    BY <1>4, <1>6, <2>1
  <2>2. CASE t = <<>>
    BY <1>5, <1>6, <2>2
  <2>3. CASE o # <<>> /\ t # <<>>
    BY <1>3, <1>6, <2>3
  <2> QED
    BY <2>1, <2>2, <2>3
<1> QED
  BY <1>3, <1>4, <1>5, <1>7

LEMMA BaseSlotsIs ==
    ASSUME NEW a, NEW text, NEW o, Table(o.text), NEW t, Table(t.text)
    PROVE  /\ o.type = "equal" /\ t.type = "equal" => BaseSlots(a, text, o, t) = <<Plain(text)>>
           /\ o.type # "equal" /\ t.type = "equal" => BaseSlots(a, text, o, t) = Plains(o.text)
           /\ o.type = "equal" /\ t.type # "equal" => BaseSlots(a, text, o, t) = Plains(t.text)
           /\ o.type # "equal" /\ t.type # "equal" =>
                 /\ o.text = t.text => BaseSlots(a, text, o, t) = Plains(o.text)
                 /\ o.text # t.text => BaseSlots(a, text, o, t) = <<Marker(a, o.text, t.text)>>
           /\ Table(BaseSlots(a, text, o, t))
<1>1. CASE o.type = "equal" /\ t.type = "equal"
  <2>1. BaseSlots(a, text, o, t) = <<Plain(text)>>
    BY <1>1 DEF BaseSlots
  <2>2. Table(<<Plain(text)>>)
    BY OneRow
  <2> QED
    BY <1>1, <2>1, <2>2
<1>2. CASE o.type # "equal" /\ t.type = "equal"
  <2>1. BaseSlots(a, text, o, t) = Plains(o.text)
    BY <1>2 DEF BaseSlots, Plains
  <2>2. Table(Plains(o.text))
    BY PlainsOf
  <2> QED
    BY <1>2, <2>1, <2>2
<1>3. CASE o.type = "equal" /\ t.type # "equal"
  <2>1. BaseSlots(a, text, o, t) = Plains(t.text)
    BY <1>3 DEF BaseSlots, Plains
  <2>2. Table(Plains(t.text))
    BY PlainsOf
  <2> QED
    BY <1>3, <2>1, <2>2
<1>4. CASE o.type # "equal" /\ t.type # "equal" /\ o.text = t.text
  <2>1. BaseSlots(a, text, o, t) = Plains(o.text)
    BY <1>4 DEF BaseSlots, Plains
  <2>2. Table(Plains(o.text))
    BY PlainsOf
  <2> QED
    BY <1>4, <2>1, <2>2
<1>5. CASE o.type # "equal" /\ t.type # "equal" /\ o.text # t.text
  <2>1. BaseSlots(a, text, o, t) = <<Marker(a, o.text, t.text)>>
    BY <1>5 DEF BaseSlots
  <2>2. Table(<<Marker(a, o.text, t.text)>>)
    BY OneRow
  <2> QED
    BY <1>5, <2>1, <2>2
<1> QED
  BY <1>1, <1>2, <1>3, <1>4, <1>5

GapOf(flat, o, opsO, t, opsT, a) == GapSlots(a, Inserted(opsO, o, a), Inserted(opsT, t, a))

BaseOf(flat, o, opsO, t, opsT, a) ==
    IF a > Len(flat) THEN <<>>
    ELSE BaseSlots(a, flat[a].text, SideChange(opsO, o, a), SideChange(opsT, t, a))

LEMMA InsertedTable ==
    ASSUME NEW flat, NEW side, NEW ops, AlignsSide(flat, side, ops), NEW a
    PROVE  Table(ops) /\ Table(Inserted(ops, side, a))
<1>1. Table(ops)
  BY DEF AlignsSide, Covers
<1>2. \E at : Picks(Inserted(ops, side, a), InsertsAt(ops, a), WordsOf(ops, side), at)
  BY <1>1, InsertedIs
<1> QED
  BY <1>1, <1>2 DEF Picks

LEMMA SlotsAtIs ==
    ASSUME NEW flat, NEW o, NEW opsO, AlignsSide(flat, o, opsO),
           NEW t, NEW opsT, AlignsSide(flat, t, opsT), NEW a \in 1..Len(flat) + 1
    PROVE  /\ Table(GapOf(flat, o, opsO, t, opsT, a)) /\ Table(BaseOf(flat, o, opsO, t, opsT, a))
           /\ SlotsAt(flat, o, opsO, t, opsT, a) =
                 GapOf(flat, o, opsO, t, opsT, a) \o BaseOf(flat, o, opsO, t, opsT, a)
           /\ Table(SlotsAt(flat, o, opsO, t, opsT, a))
<1> DEFINE gap == GapOf(flat, o, opsO, t, opsT, a)
           rest == BaseOf(flat, o, opsO, t, opsT, a)
<1>1. Table(gap)
  <2>1. Table(Inserted(opsO, o, a)) /\ Table(Inserted(opsT, t, a))
    BY InsertedTable
  <2> QED
    BY <2>1, GapSlotsIs DEF GapOf
<1>2. Len(flat) \in Nat
  BY TableFacts DEF AlignsSide
<1>3. Table(rest)
  <2>1. CASE a > Len(flat)
    BY <2>1, NoRow DEF BaseOf
  <2>2. CASE ~(a > Len(flat))
    <3>1. a \in 1..Len(flat)
      BY <1>2, <2>2
    <3>2. Table(SideChange(opsO, o, a).text) /\ Table(SideChange(opsT, t, a).text)
      BY <3>1, SideChangeIs
    <3>3. Table(BaseSlots(a, flat[a].text, SideChange(opsO, o, a), SideChange(opsT, t, a)))
      BY <3>2, BaseSlotsIs
    <3> QED
      BY <2>2, <3>3 DEF BaseOf
  <2> QED
    BY <2>1, <2>2
<1>4. SlotsAt(flat, o, opsO, t, opsT, a) = gap \o rest
  BY DEF SlotsAt, GapOf, BaseOf
<1> HIDE DEF gap, rest
<1>5. Table(gap \o rest)
  BY <1>1, <1>3, TableConcat
<1> QED
  BY <1>1, <1>3, <1>4, <1>5 DEF gap, rest

ParaOf(flat, a) ==
    IF a <= Len(flat) THEN flat[a].para ELSE IF Len(flat) > 0 THEN flat[Len(flat)].para ELSE 1

Rows(flat, o, opsO, t, opsT) ==
    [a \in 1..Len(flat) + 1 |-> Placed(ParaOf(flat, a), SlotsAt(flat, o, opsO, t, opsT, a))]

LEMMA SlotsOfIs ==
    ASSUME NEW flat, NEW o, NEW opsO, NEW t, NEW opsT
    PROVE  SlotsOf(flat, o, opsO, t, opsT) = FlattenSeq(Rows(flat, o, opsO, t, opsT))
BY DEF SlotsOf, Rows, ParaOf

LEMMA PlacedIs ==
    ASSUME NEW para, NEW slots, Table(slots)
    PROVE  /\ Table(Placed(para, slots)) /\ Len(Placed(para, slots)) = Len(slots)
           /\ DOMAIN Placed(para, slots) = DOMAIN slots
           /\ \A k \in DOMAIN slots : Placed(para, slots)[k] = [para |-> para, slot |-> slots[k]]
<1> DEFINE p == Placed(para, slots)
           n == Len(slots)
<1>1. n \in Nat /\ DOMAIN slots = 1..n
  BY TableFacts
<1>2. /\ DOMAIN p = 1..n /\ p = [k \in 1..n |-> p[k]]
      /\ \A k \in 1..n : p[k] = [para |-> para, slot |-> slots[k]]
  BY <1>1 DEF Placed
<1> HIDE DEF p, n
<1>3. Table(p) /\ Len(p) = n
  BY <1>1, <1>2, TableFrom
<1> QED
  BY <1>1, <1>2, <1>3 DEF p, n

LEMMA RowsAre ==
    ASSUME NEW flat, NEW o, NEW opsO, AlignsSide(flat, o, opsO),
           NEW t, NEW opsT, AlignsSide(flat, t, opsT)
    PROVE  LET rows == Rows(flat, o, opsO, t, opsT) IN
           /\ Table(rows) /\ Len(rows) = Len(flat) + 1 /\ DOMAIN rows = 1..Len(flat) + 1
           /\ Len(flat) \in Nat
           /\ \A a \in 1..Len(flat) + 1 :
                 LET at == SlotsAt(flat, o, opsO, t, opsT, a) IN
                 /\ Table(at) /\ Table(rows[a]) /\ Len(rows[a]) = Len(at) /\ DOMAIN rows[a] = DOMAIN at
                 /\ \A i \in DOMAIN at : rows[a][i] = [para |-> ParaOf(flat, a), slot |-> at[i]]
<1> DEFINE rows == Rows(flat, o, opsO, t, opsT)
           n == Len(flat) + 1
           at(a) == SlotsAt(flat, o, opsO, t, opsT, a)
<1>1. Len(flat) \in Nat /\ n \in Nat
  BY TableFacts DEF AlignsSide
<1>2. /\ DOMAIN rows = 1..n /\ rows = [a \in 1..n |-> rows[a]]
      /\ \A a \in 1..n : rows[a] = Placed(ParaOf(flat, a), at(a))
  BY DEF Rows
<1> HIDE DEF rows
<1>3. Table(rows) /\ Len(rows) = n
  <2> HIDE DEF n, at
  <2> QED
    BY <1>1, <1>2, TableFrom
<1>4. ASSUME NEW a \in 1..n
      PROVE  /\ Table(at(a)) /\ Table(rows[a]) /\ Len(rows[a]) = Len(at(a)) /\ DOMAIN rows[a] = DOMAIN at(a)
             /\ \A i \in DOMAIN at(a) : rows[a][i] = [para |-> ParaOf(flat, a), slot |-> at(a)[i]]
  <2>1. Table(at(a))
    BY SlotsAtIs
  <2> HIDE DEF at
  <2> QED
    BY <1>2, <2>1, PlacedIs
<1> QED
  BY <1>1, <1>2, <1>3, <1>4 DEF rows

\* Where the merged slots come from.
LEMMA SlotsPlaced ==
    ASSUME NEW flat, NEW o, NEW opsO, AlignsSide(flat, o, opsO),
           NEW t, NEW opsT, AlignsSide(flat, t, opsT)
    PROVE  LET slots == SlotsOf(flat, o, opsO, t, opsT)
               at == [a \in 1..Len(flat) + 1 |-> SlotsAt(flat, o, opsO, t, opsT, a)] IN
           /\ Table(slots)
           /\ \E place :
                 /\ \A k \in DOMAIN slots :
                       /\ place[k][1] \in 1..Len(flat) + 1 /\ place[k][2] \in DOMAIN at[place[k][1]]
                       /\ slots[k].slot = at[place[k][1]][place[k][2]]
                 /\ \A a \in 1..Len(flat) + 1 : \A i \in DOMAIN at[a] :
                       \E k \in DOMAIN slots : place[k][1] = a /\ place[k][2] = i
                 /\ \A k, l \in DOMAIN slots :
                       place[k][1] = place[l][1] /\ place[k][2] = place[l][2] => k = l
<1> DEFINE rows == Rows(flat, o, opsO, t, opsT)
           n == Len(flat) + 1
           slots == SlotsOf(flat, o, opsO, t, opsT)
           at == [a \in 1..n |-> SlotsAt(flat, o, opsO, t, opsT, a)]
<1>1. /\ Table(rows) /\ Len(rows) = n /\ DOMAIN rows = 1..n
      /\ \A a \in 1..n :
            /\ Table(rows[a]) /\ DOMAIN rows[a] = DOMAIN at[a]
            /\ \A i \in DOMAIN at[a] : rows[a][i] = [para |-> ParaOf(flat, a), slot |-> at[a][i]]
  BY RowsAre
<1>2. slots = FlattenSeq(rows)
  BY SlotsOfIs
<1> HIDE DEF rows, slots, at, n
<1>3. Table(FlattenSeq(rows)) /\ \E place : Placing(rows, Len(rows), FlattenSeq(rows), place)
  BY <1>1, FlattenPlaces
<1>4. PICK place : Placing(rows, n, slots, place)
  BY <1>1, <1>2, <1>3
<1>5. ASSUME NEW k \in DOMAIN slots
      PROVE  /\ place[k][1] \in 1..n /\ place[k][2] \in DOMAIN at[place[k][1]]
             /\ place[k] = <<place[k][1], place[k][2]>>
             /\ slots[k].slot = at[place[k][1]][place[k][2]]
  <2> DEFINE a == place[k][1]
             i == place[k][2]
  <2>1. place[k] \in Spots(rows, n) /\ slots[k] = rows[a][i]
    BY <1>4 DEF Placing
  <2>2. a \in 1..n /\ i \in DOMAIN rows[a] /\ place[k] = <<a, i>>
    BY <2>1 DEF Spots
  <2> HIDE DEF a, i
  <2>3. i \in DOMAIN at[a] /\ slots[k] = [para |-> ParaOf(flat, a), slot |-> at[a][i]]
    BY <1>1, <2>1, <2>2
  <2>4. slots[k].slot = at[a][i]
    BY <2>3
  <2> QED
    BY <2>2, <2>3, <2>4 DEF a, i
<1>6. ASSUME NEW a \in 1..n, NEW i \in DOMAIN at[a]
      PROVE  \E k \in DOMAIN slots : place[k][1] = a /\ place[k][2] = i
  <2>1. <<a, i>> \in Spots(rows, n)
    BY <1>1 DEF Spots
  <2>2. PICK k \in DOMAIN slots : place[k] = <<a, i>>
    BY <1>4, <2>1 DEF Placing
  <2> QED
    BY <2>2
<1>7. ASSUME NEW k \in DOMAIN slots, NEW l \in DOMAIN slots,
             place[k][1] = place[l][1] /\ place[k][2] = place[l][2]
      PROVE  k = l
  <2>1. place[k] = place[l]
    BY <1>5, <1>7
  <2> QED
    BY <1>4, <2>1 DEF Placing
<1>8. Table(slots)
  BY <1>2, <1>3
<1>9. /\ \A k \in DOMAIN slots :
            /\ place[k][1] \in 1..n /\ place[k][2] \in DOMAIN at[place[k][1]]
            /\ slots[k].slot = at[place[k][1]][place[k][2]]
      /\ \A a \in 1..n : \A i \in DOMAIN at[a] :
            \E k \in DOMAIN slots : place[k][1] = a /\ place[k][2] = i
      /\ \A k, l \in DOMAIN slots :
            place[k][1] = place[l][1] /\ place[k][2] = place[l][2] => k = l
  BY <1>5, <1>6, <1>7
<1> QED
  BY <1>8, <1>9 DEF slots, at, n

-----------------------------------------------------------------------------
(* The merge with its sides swapped.                                       *)

SwapSlot(s) == IF s.kind = "text" THEN s ELSE Marker(s.sid, s.theirs, s.ours)

Swapped(s, t) ==
    /\ Table(s) /\ Table(t) /\ DOMAIN t = DOMAIN s
    /\ \A k \in DOMAIN s : t[k] = SwapSlot(s[k])

LEMMA SwapPlain ==
    ASSUME NEW x
    PROVE  SwapSlot(Plain(x)) = Plain(x)
BY DEF SwapSlot, Plain

LEMMA SwapMarker ==
    ASSUME NEW a, NEW o, NEW t
    PROVE  SwapSlot(Marker(a, o, t)) = Marker(a, t, o)
BY DEF SwapSlot, Marker

LEMMA SwapPlains ==
    ASSUME NEW s, Table(s)
    PROVE  Swapped(Plains(s), Plains(s))
BY PlainsOf, SwapPlain DEF Swapped

LEMMA SwapOne ==
    ASSUME NEW x, NEW y, y = SwapSlot(x)
    PROVE  Swapped(<<x>>, <<y>>)
<1>1. /\ Table(<<x>>) /\ DOMAIN <<x>> = {1} /\ <<x>>[1] = x
      /\ Table(<<y>>) /\ DOMAIN <<y>> = {1} /\ <<y>>[1] = y
  BY OneRow
<1> QED
  BY <1>1 DEF Swapped

LEMMA SwapJoin ==
    ASSUME NEW s1, NEW t1, Swapped(s1, t1), NEW s2, NEW t2, Swapped(s2, t2)
    PROVE  Swapped(s1 \o s2, t1 \o t2)
<1> DEFINE s == s1 \o s2
           t == t1 \o t2
           m == Len(s1)
           n == Len(s2)
<1>1. /\ Table(s1) /\ Table(t1) /\ DOMAIN t1 = DOMAIN s1 /\ \A k \in DOMAIN s1 : t1[k] = SwapSlot(s1[k])
      /\ Table(s2) /\ Table(t2) /\ DOMAIN t2 = DOMAIN s2 /\ \A k \in DOMAIN s2 : t2[k] = SwapSlot(s2[k])
  BY DEF Swapped
<1>2. /\ m \in Nat /\ n \in Nat /\ DOMAIN s1 = 1..m /\ DOMAIN s2 = 1..n
      /\ Len(t1) = m /\ Len(t2) = n
  <2>1. /\ m \in Nat /\ DOMAIN s1 = 1..m /\ n \in Nat /\ DOMAIN s2 = 1..n
        /\ Len(t1) \in Nat /\ DOMAIN t1 = 1..Len(t1) /\ Len(t2) \in Nat /\ DOMAIN t2 = 1..Len(t2)
    BY <1>1, TableFacts
  <2> HIDE DEF m, n
  <2> QED
    BY <1>1, <2>1
<1>3. /\ Table(s) /\ DOMAIN s = 1..m + n
      /\ (\A k \in 1..m : s[k] = s1[k]) /\ (\A k \in 1..n : s[m + k] = s2[k])
  <2>1. s = s1 \o s2
    OBVIOUS
  <2> HIDE DEF s, m, n
  <2>2. Len(s1) = m /\ Len(s2) = n
    BY DEF m, n
  <2>3. Table(s)
    BY <1>1, <2>1, <2>2, JoinIs
  <2>4. DOMAIN s = 1..m + n
    BY <1>1, <2>1, <2>2, JoinIs
  <2>5. \A k \in 1..m : s[k] = s1[k]
    BY <1>1, <2>1, <2>2, JoinIs
  <2>6. \A k \in 1..n : s[m + k] = s2[k]
    BY <1>1, <2>1, <2>2, JoinIs
  <2> QED
    BY <2>3, <2>4, <2>5, <2>6
<1>4. /\ Table(t) /\ DOMAIN t = 1..m + n
      /\ (\A k \in 1..m : t[k] = t1[k]) /\ (\A k \in 1..n : t[m + k] = t2[k])
  <2>1. t = t1 \o t2
    OBVIOUS
  <2> HIDE DEF t, m, n
  <2>2. Len(t1) = m /\ Len(t2) = n
    BY <1>2
  <2>3. Table(t)
    BY <1>1, <2>1, <2>2, JoinIs
  <2>4. DOMAIN t = 1..m + n
    BY <1>1, <2>1, <2>2, JoinIs
  <2>5. \A k \in 1..m : t[k] = t1[k]
    BY <1>1, <2>1, <2>2, JoinIs
  <2>6. \A k \in 1..n : t[m + k] = t2[k]
    BY <1>1, <2>1, <2>2, JoinIs
  <2> QED
    BY <2>3, <2>4, <2>5, <2>6
<1> HIDE DEF s, t, m, n
<1>5. ASSUME NEW k \in 1..m + n PROVE t[k] = SwapSlot(s[k])
  <2>1. CASE k \in 1..m
    BY <1>1, <1>2, <1>3, <1>4, <2>1
  <2>2. CASE ~(k \in 1..m)
    <3> DEFINE l == k - m
    <3>1. l \in 1..n /\ m + l = k
      BY <1>2, <2>2
    <3> HIDE DEF l
    <3>2. t[m + l] = t2[l] /\ s[m + l] = s2[l] /\ t2[l] = SwapSlot(s2[l])
      BY <1>1, <1>2, <1>3, <1>4, <3>1
    <3> QED
      BY <3>1, <3>2
  <2> QED
    BY <2>1, <2>2
<1>6. Swapped(s, t)
  BY <1>3, <1>4, <1>5 DEF Swapped
<1> QED
  BY <1>6 DEF s, t

LEMMA GapSwaps ==
    ASSUME NEW a, NEW o, Table(o), NEW t, Table(t)
    PROVE  Swapped(GapSlots(a, o, t), GapSlots(a, t, o))
<1>1. CASE o # <<>> /\ t # <<>>
  <2>1. GapSlots(a, o, t) = <<Marker(a, o, t)>> /\ GapSlots(a, t, o) = <<Marker(a, t, o)>>
    BY <1>1, GapSlotsIs
  <2> QED
    BY <2>1, SwapMarker, SwapOne
<1>2. CASE o = <<>>
  <2>1. GapSlots(a, o, t) = Plains(t) /\ GapSlots(a, t, o) = Plains(t)
    BY <1>2, GapSlotsIs
  <2> QED
    BY <2>1, SwapPlains
<1>3. CASE t = <<>>
  <2>1. GapSlots(a, o, t) = Plains(o) /\ GapSlots(a, t, o) = Plains(o)
    BY <1>3, GapSlotsIs
  <2> QED
    BY <2>1, SwapPlains
<1> QED
  BY <1>1, <1>2, <1>3

LEMMA BaseSwaps ==
    ASSUME NEW a, NEW text, NEW o, Table(o.text), NEW t, Table(t.text)
    PROVE  Swapped(BaseSlots(a, text, o, t), BaseSlots(a, text, t, o))
<1>1. CASE o.type = "equal" /\ t.type = "equal"
  <2>1. BaseSlots(a, text, o, t) = <<Plain(text)>> /\ BaseSlots(a, text, t, o) = <<Plain(text)>>
    BY <1>1, BaseSlotsIs
  <2> QED
    BY <2>1, SwapPlain, SwapOne
<1>2. CASE o.type # "equal" /\ t.type = "equal"
  <2>1. BaseSlots(a, text, o, t) = Plains(o.text) /\ BaseSlots(a, text, t, o) = Plains(o.text)
    BY <1>2, BaseSlotsIs
  <2> QED
    BY <2>1, SwapPlains
<1>3. CASE o.type = "equal" /\ t.type # "equal"
  <2>1. BaseSlots(a, text, o, t) = Plains(t.text) /\ BaseSlots(a, text, t, o) = Plains(t.text)
    BY <1>3, BaseSlotsIs
  <2> QED
    BY <2>1, SwapPlains
<1>4. CASE o.type # "equal" /\ t.type # "equal" /\ o.text = t.text
  <2>1. BaseSlots(a, text, o, t) = Plains(o.text) /\ BaseSlots(a, text, t, o) = Plains(o.text)
    BY <1>4, BaseSlotsIs
  <2> QED
    BY <2>1, SwapPlains
<1>5. CASE o.type # "equal" /\ t.type # "equal" /\ o.text # t.text
  <2>1. /\ BaseSlots(a, text, o, t) = <<Marker(a, o.text, t.text)>>
        /\ BaseSlots(a, text, t, o) = <<Marker(a, t.text, o.text)>>
    BY <1>5, BaseSlotsIs
  <2> QED
    BY <2>1, SwapMarker, SwapOne
<1> QED
  BY <1>1, <1>2, <1>3, <1>4, <1>5

LEMMA SlotsAtSwap ==
    ASSUME NEW flat, NEW o, NEW opsO, AlignsSide(flat, o, opsO),
           NEW t, NEW opsT, AlignsSide(flat, t, opsT), NEW a \in 1..Len(flat) + 1
    PROVE  Swapped(SlotsAt(flat, o, opsO, t, opsT, a), SlotsAt(flat, t, opsT, o, opsO, a))
<1>1. Table(Inserted(opsO, o, a)) /\ Table(Inserted(opsT, t, a))
  BY InsertedTable
<1>2. Swapped(GapOf(flat, o, opsO, t, opsT, a), GapOf(flat, t, opsT, o, opsO, a))
  BY <1>1, GapSwaps DEF GapOf
<1>3. Len(flat) \in Nat
  BY TableFacts DEF AlignsSide
<1>4. Swapped(BaseOf(flat, o, opsO, t, opsT, a), BaseOf(flat, t, opsT, o, opsO, a))
  <2>1. CASE a > Len(flat)
    <3>1. Swapped(<<>>, <<>>)
      BY NoRow DEF Swapped
    <3> QED
      BY <2>1, <3>1 DEF BaseOf
  <2>2. CASE ~(a > Len(flat))
    <3>1. a \in 1..Len(flat)
      BY <1>3, <2>2
    <3>2. Table(SideChange(opsO, o, a).text) /\ Table(SideChange(opsT, t, a).text)
      BY <3>1, SideChangeIs
    <3>3. Swapped(BaseSlots(a, flat[a].text, SideChange(opsO, o, a), SideChange(opsT, t, a)),
                  BaseSlots(a, flat[a].text, SideChange(opsT, t, a), SideChange(opsO, o, a)))
      BY <3>2, BaseSwaps
    <3> QED
      BY <2>2, <3>3 DEF BaseOf
  <2> QED
    BY <2>1, <2>2
<1>5. /\ SlotsAt(flat, o, opsO, t, opsT, a) =
            GapOf(flat, o, opsO, t, opsT, a) \o BaseOf(flat, o, opsO, t, opsT, a)
      /\ SlotsAt(flat, t, opsT, o, opsO, a) =
            GapOf(flat, t, opsT, o, opsO, a) \o BaseOf(flat, t, opsT, o, opsO, a)
  BY SlotsAtIs
<1> QED
  BY <1>2, <1>4, <1>5, SwapJoin

LEMMA SlotsSwap ==
    ASSUME NEW flat, NEW o, NEW opsO, AlignsSide(flat, o, opsO),
           NEW t, NEW opsT, AlignsSide(flat, t, opsT)
    PROVE  LET slots == SlotsOf(flat, o, opsO, t, opsT)
               other == SlotsOf(flat, t, opsT, o, opsO) IN
           /\ Table(slots) /\ Table(other) /\ DOMAIN other = DOMAIN slots
           /\ \A k \in DOMAIN slots : /\ slots[k] = [para |-> slots[k].para, slot |-> slots[k].slot]
                                      /\ other[k] = [para |-> slots[k].para, slot |-> SwapSlot(slots[k].slot)]
<1> DEFINE rows == Rows(flat, o, opsO, t, opsT)
           back == Rows(flat, t, opsT, o, opsO)
           n == Len(flat) + 1
           at(a) == SlotsAt(flat, o, opsO, t, opsT, a)
           ta(a) == SlotsAt(flat, t, opsT, o, opsO, a)
           slots == SlotsOf(flat, o, opsO, t, opsT)
           other == SlotsOf(flat, t, opsT, o, opsO)
<1>1. /\ Table(rows) /\ Len(rows) = n /\ DOMAIN rows = 1..n
      /\ \A a \in 1..n :
            /\ Table(rows[a]) /\ DOMAIN rows[a] = DOMAIN at(a) /\ Len(rows[a]) = Len(at(a)) /\ Table(at(a))
            /\ \A i \in DOMAIN at(a) : rows[a][i] = [para |-> ParaOf(flat, a), slot |-> at(a)[i]]
  BY RowsAre
<1>2. /\ Table(back) /\ Len(back) = n /\ DOMAIN back = 1..n
      /\ \A a \in 1..n :
            /\ Table(back[a]) /\ DOMAIN back[a] = DOMAIN ta(a) /\ Len(back[a]) = Len(ta(a)) /\ Table(ta(a))
            /\ \A i \in DOMAIN ta(a) : back[a][i] = [para |-> ParaOf(flat, a), slot |-> ta(a)[i]]
  BY RowsAre
<1>3. \A a \in 1..n : DOMAIN ta(a) = DOMAIN at(a) /\ \A i \in DOMAIN at(a) : ta(a)[i] = SwapSlot(at(a)[i])
  BY SlotsAtSwap DEF Swapped
<1>4. slots = FlattenSeq(rows) /\ other = FlattenSeq(back)
  BY SlotsOfIs
<1> HIDE DEF rows, back, slots, other, n, at, ta
<1>5. ASSUME NEW a \in 1..n PROVE Len(at(a)) = Len(ta(a))
  <2>1. Len(at(a)) \in Nat /\ DOMAIN at(a) = 1..Len(at(a)) /\ Len(ta(a)) \in Nat /\ DOMAIN ta(a) = 1..Len(ta(a))
    BY <1>1, <1>2, TableFacts
  <2> DEFINE x == Len(at(a))
             y == Len(ta(a))
  <2>2. 1..x = 1..y
    BY <1>3, <2>1
  <2>3. x \in Nat /\ y \in Nat
    BY <2>1
  <2> HIDE DEF x, y
  <2>4. ~(x < y)
    <3>1. SUFFICES ASSUME x < y PROVE FALSE
      OBVIOUS
    <3>2. y \in 1..y /\ y \notin 1..x
      BY <2>3, <3>1
    <3> QED
      BY <2>2, <3>2
  <2>5. ~(y < x)
    <3>1. SUFFICES ASSUME y < x PROVE FALSE
      OBVIOUS
    <3>2. x \in 1..x /\ x \notin 1..y
      BY <2>3, <3>1
    <3> QED
      BY <2>2, <3>2
  <2>6. x = y
    BY <2>3, <2>4, <2>5
  <2> QED
    BY <2>6 DEF x, y
<1>6. /\ Len(rows) = Len(back)
      /\ \A a \in DOMAIN rows : Table(rows[a]) /\ Table(back[a]) /\ Len(rows[a]) = Len(back[a])
  BY <1>1, <1>2, <1>5
<1>7. /\ Table(FlattenSeq(rows)) /\ Table(FlattenSeq(back))
      /\ Len(FlattenSeq(rows)) = Len(FlattenSeq(back))
      /\ \E place : /\ Placing(rows, Len(rows), FlattenSeq(rows), place)
                    /\ Placing(back, Len(rows), FlattenSeq(back), place)
  BY <1>1, <1>2, <1>6, FlattenTogether
<1>8. PICK place : Placing(rows, n, slots, place) /\ Placing(back, n, other, place)
  BY <1>1, <1>4, <1>7
<1>9. Table(slots) /\ Table(other) /\ DOMAIN other = DOMAIN slots
  <2>1. Table(slots) /\ Table(other) /\ Len(slots) = Len(other)
    BY <1>4, <1>7
  <2> QED
    BY <2>1, TableFacts
<1>10. ASSUME NEW k \in DOMAIN slots
       PROVE  /\ slots[k] = [para |-> slots[k].para, slot |-> slots[k].slot]
              /\ other[k] = [para |-> slots[k].para, slot |-> SwapSlot(slots[k].slot)]
  <2> DEFINE a == place[k][1]
             i == place[k][2]
  <2>1. place[k] \in Spots(rows, n) /\ slots[k] = rows[a][i] /\ other[k] = back[a][i]
    BY <1>8, <1>9 DEF Placing
  <2>2. a \in 1..n /\ i \in DOMAIN rows[a]
    BY <2>1 DEF Spots
  <2> HIDE DEF a, i
  <2>3. i \in DOMAIN at(a) /\ slots[k] = [para |-> ParaOf(flat, a), slot |-> at(a)[i]]
    BY <1>1, <2>1, <2>2
  <2>4. other[k] = [para |-> ParaOf(flat, a), slot |-> ta(a)[i]] /\ ta(a)[i] = SwapSlot(at(a)[i])
    BY <1>2, <1>3, <2>1, <2>2, <2>3
  <2>5. slots[k].para = ParaOf(flat, a) /\ slots[k].slot = at(a)[i]
    BY <2>3
  <2> QED
    BY <2>3, <2>4, <2>5
<1> QED
  BY <1>9, <1>10 DEF slots, other

\* The sides of the merge are aligned with the base.
LEMMA SidesAlign ==
    ASSUME TypeOK, NEW side \in Side
    PROVE  AlignsSide(Flat(base), side, Alignment[BaseTexts][side])
<1>1. /\ BaseTexts \in Seq(Sentence) /\ side \in Seq(Sentence)
      /\ Covers(BaseTexts, side, Alignment[BaseTexts][side], 0, 0, Len(BaseTexts), Len(side))
  BY AlignmentIs
<1>2. /\ Table(Flat(base)) /\ Len(Flat(base)) = Len(BaseTexts)
      /\ \A k \in DOMAIN Flat(base) : Flat(base)[k].text = BaseTexts[k]
  BY BaseIsSide
<1> QED
  BY <1>1, <1>2 DEF AlignsSide

\* Merging theirs into ours is merging ours into theirs with the sides swapped.
LEMMA Symmetric ==
    ASSUME TypeOK
    PROVE  MergeIsSymmetric
<1> DEFINE flat == Flat(base)
           opsO == Alignment[BaseTexts][ours]
           opsT == Alignment[BaseTexts][theirs]
           slots == SlotsOf(flat, ours, opsO, theirs, opsT)
           other == SlotsOf(flat, theirs, opsT, ours, opsO)
           t == [k \in DOMAIN slots |-> [slots[k] EXCEPT !.slot = SwapSlot(@)]]
<1>1. Slots(base, ours, theirs) = slots /\ Slots(base, theirs, ours) = other
  BY DEF Slots, BaseTexts
<1>2. AlignsSide(flat, ours, opsO) /\ AlignsSide(flat, theirs, opsT)
  BY SidesAlign DEF TypeOK
<1> HIDE DEF opsO, opsT, flat
<1>3. /\ Table(slots) /\ Table(other) /\ DOMAIN other = DOMAIN slots
      /\ \A k \in DOMAIN slots : /\ slots[k] = [para |-> slots[k].para, slot |-> slots[k].slot]
                                 /\ other[k] = [para |-> slots[k].para, slot |-> SwapSlot(slots[k].slot)]
  BY <1>2, SlotsSwap
<1> HIDE DEF slots, other
<1>4. /\ DOMAIN t = DOMAIN slots /\ t = [k \in DOMAIN slots |-> t[k]]
      /\ \A k \in DOMAIN slots : t[k] = [slots[k] EXCEPT !.slot = SwapSlot(slots[k].slot)]
  OBVIOUS
<1>5. \A k \in DOMAIN slots : t[k] = other[k]
  <2>1. ASSUME NEW k \in DOMAIN slots PROVE t[k] = other[k]
    <3> DEFINE q == slots[k].para
               x == slots[k].slot
    <3>1. slots[k] = [para |-> q, slot |-> x] /\ other[k] = [para |-> q, slot |-> SwapSlot(x)]
      BY <1>3
    <3>2. t[k] = [slots[k] EXCEPT !.slot = SwapSlot(x)]
      BY <1>4
    <3> HIDE DEF q, x, t
    <3> QED
      BY <3>1, <3>2
  <2> QED
    BY <2>1
<1> HIDE DEF t
<1>6. Table(t)
  <2>1. Len(slots) \in Nat /\ DOMAIN slots = 1..Len(slots)
    BY <1>3, TableFacts
  <2> QED
    BY <1>4, <2>1, TableFrom
<1>7. other = t
  BY <1>3, <1>4, <1>5, <1>6, TableEqual
<1>8. Slots(base, theirs, ours) = [k \in DOMAIN slots |-> [slots[k] EXCEPT !.slot = SwapSlot(@)]]
  BY <1>1, <1>7 DEF t
<1> QED
  BY <1>1, <1>8 DEF MergeIsSymmetric, SwapSlot, Merged

-----------------------------------------------------------------------------
(* Nothing written is dropped.                                             *)

\* The op at k comes after at most all the base sentences.
LEMMA AnchorIs ==
    ASSUME NEW flat, NEW side, NEW ops, AlignsSide(flat, side, ops), NEW k \in DOMAIN ops
    PROVE  Anchor(ops)[k] \in 1..Len(flat) + 1
<1> DEFINE seen == {m \in 1..k : ops[m].old # 0}
           n == Len(flat)
           f == [m \in DOMAIN ops |-> ops[m].old]
<1>1. PICK old \in Seq(Sentence) : Len(old) = n /\ Covers(old, side, ops, 0, 0, Len(old), Len(side))
  BY DEF AlignsSide
<1>2. n \in Nat
  BY TableFacts DEF AlignsSide
<1>3. Table(ops) /\ Len(ops) \in Nat /\ DOMAIN ops = 1..Len(ops)
  BY <1>1, TableFacts DEF Covers
<1>4. Anchor(ops)[k] = Cardinality(seen) + 1
  BY DEF Anchor
<1>5. \A m \in seen : m \in DOMAIN ops /\ ops[m].old # 0 /\ f[m] = ops[m].old
  BY <1>3
<1>6. ASSUME NEW m \in seen PROVE f[m] \in 1..n
  <2>1. IsOp(old, side, ops[m], 0, 0, Len(old), Len(side)) /\ ops[m].old # 0
    BY <1>1, <1>5 DEF Covers
  <2>2. ops[m].old \in 0 + 1..n
    BY <1>1, <2>1 DEF IsOp
  <2> QED
    BY <1>5, <2>2
<1>7. ASSUME NEW l \in seen, NEW m \in seen, f[l] = f[m] PROVE l = m
  <2>1. SUFFICES ASSUME l # m PROVE FALSE
    OBVIOUS
  <2>2. l < m \/ m < l
    BY <1>3, <1>5, <2>1
  <2>3. InTurn(ops[l], ops[m]) \/ InTurn(ops[m], ops[l])
    BY <1>1, <1>5, <2>2 DEF Covers
  <2>4. ops[l].old < ops[m].old \/ ops[m].old < ops[l].old
    BY <1>5, <2>3 DEF InTurn
  <2>5. ops[l].old \in 1..n /\ ops[m].old = ops[l].old
    BY <1>5, <1>6, <1>7
  <2> QED
    BY <2>4, <2>5
<1> HIDE DEF seen, f
<1>8. IsFiniteSet(1..n) /\ Cardinality(1..n) = n
  <2>1. n \in Int /\ 1 \in Int
    BY <1>2
  <2>2. IsFiniteSet(1..n) /\ Cardinality(1..n) = IF 1 > n THEN 0 ELSE n - 1 + 1
    BY <2>1, FS_Interval
  <2> QED
    BY <1>2, <2>2
<1>9. IsFiniteSet(seen) /\ Cardinality(seen) <= n
  <2>1. IsFiniteSet(seen)
    BY <1>6, <1>7, <1>8, Injected
  <2>2. Cardinality(seen) <= Cardinality(1..n)
    BY <1>6, <1>7, <1>8, Injected
  <2> QED
    BY <1>8, <2>1, <2>2
<1>10. Cardinality(seen) \in Nat
  BY <1>9, FS_CardinalityType
<1> HIDE DEF n
<1>11. Cardinality(seen) + 1 \in 1..n + 1
  BY <1>2, <1>9, <1>10
<1> QED
  BY <1>4, <1>11 DEF n

\* An element of either part is one of the whole.
LEMMA JoinHolds ==
    ASSUME NEW s, Table(s), NEW t, Table(t)
    PROVE  /\ \A i \in DOMAIN s : i \in DOMAIN (s \o t) /\ (s \o t)[i] = s[i]
           /\ \A i \in DOMAIN t : Len(s) + i \in DOMAIN (s \o t) /\ (s \o t)[Len(s) + i] = t[i]
           /\ \A k \in DOMAIN (s \o t) : k \in DOMAIN s \/ (k - Len(s) \in DOMAIN t /\ k = Len(s) + (k - Len(s)))
<1> DEFINE u == s \o t
           m == Len(s)
           n == Len(t)
<1>1. DOMAIN u = 1..m + n
  BY TableConcat
<1>2. \A k \in DOMAIN s : u[k] = s[k]
  BY TableConcat
<1>3. \A k \in 1..n : u[m + k] = t[k]
  BY TableConcat
<1>4. m \in Nat /\ n \in Nat /\ DOMAIN s = 1..m /\ DOMAIN t = 1..n
  BY TableFacts
<1> HIDE DEF u, m, n
<1>5. \A i \in DOMAIN s : i \in DOMAIN u /\ u[i] = s[i]
  BY <1>1, <1>2, <1>4
<1>6. \A i \in DOMAIN t : m + i \in DOMAIN u /\ u[m + i] = t[i]
  BY <1>1, <1>3, <1>4
<1>7. \A k \in DOMAIN u : k \in DOMAIN s \/ (k - m \in DOMAIN t /\ k = m + (k - m))
  BY <1>1, <1>4
<1> QED
  BY <1>5, <1>6, <1>7 DEF u, m

KeptIn(slot, s, own) == IF slot.kind = "text" THEN slot.text = s ELSE s \in ToSet(slot[own])

LEMMA PlainKeeps ==
    ASSUME NEW s
    PROVE  KeptIn(Plain(s), s, "ours")
BY DEF KeptIn, Plain

LEMMA MarkerKeeps ==
    ASSUME NEW a, NEW o, NEW t, NEW i \in DOMAIN o
    PROVE  KeptIn(Marker(a, o, t), o[i], "ours")
BY DEF KeptIn, Marker, ToSet

LEMMA GapKeeps ==
    ASSUME NEW a, NEW o, Table(o), NEW t, Table(t), NEW i \in DOMAIN o
    PROVE  \E j \in DOMAIN GapSlots(a, o, t) : KeptIn(GapSlots(a, o, t)[j], o[i], "ours")
<1>1. o # <<>>
  BY NoRow
<1>2. CASE t = <<>>
  <2>1. GapSlots(a, o, t) = Plains(o)
    BY <1>2, GapSlotsIs
  <2>2. i \in DOMAIN Plains(o) /\ Plains(o)[i] = Plain(o[i])
    BY PlainsOf
  <2>3. KeptIn(Plains(o)[i], o[i], "ours")
    BY <2>2, PlainKeeps
  <2> QED
    BY <2>1, <2>2, <2>3
<1>3. CASE t # <<>>
  <2>1. GapSlots(a, o, t) = <<Marker(a, o, t)>>
    BY <1>1, <1>3, GapSlotsIs
  <2>2. 1 \in DOMAIN <<Marker(a, o, t)>> /\ <<Marker(a, o, t)>>[1] = Marker(a, o, t)
    BY OneRow
  <2> QED
    BY <2>1, <2>2, MarkerKeeps
<1> QED
  BY <1>2, <1>3

LEMMA BaseKeeps ==
    ASSUME NEW a, NEW text, NEW s, NEW o, o.text = <<s>>, o.type # "equal", NEW t, Table(t.text)
    PROVE  \E j \in DOMAIN BaseSlots(a, text, o, t) : KeptIn(BaseSlots(a, text, o, t)[j], s, "ours")
<1>1. Table(o.text) /\ DOMAIN o.text = {1} /\ o.text[1] = s
  BY OneRow
<1>2. CASE BaseSlots(a, text, o, t) = Plains(o.text)
  <2>1. 1 \in DOMAIN Plains(o.text) /\ Plains(o.text)[1] = Plain(s)
    BY <1>1, PlainsOf
  <2>2. KeptIn(Plains(o.text)[1], s, "ours")
    BY <2>1, PlainKeeps
  <2> QED
    BY <1>2, <2>1, <2>2
<1>3. CASE BaseSlots(a, text, o, t) = <<Marker(a, o.text, t.text)>>
  <2>1. 1 \in DOMAIN <<Marker(a, o.text, t.text)>> /\ <<Marker(a, o.text, t.text)>>[1] = Marker(a, o.text, t.text)
    BY OneRow
  <2>2. KeptIn(Marker(a, o.text, t.text), o.text[1], "ours")
    BY <1>1, MarkerKeeps
  <2> QED
    BY <1>1, <1>3, <2>1, <2>2
<1>4. \/ BaseSlots(a, text, o, t) = Plains(o.text)
      \/ BaseSlots(a, text, o, t) = <<Marker(a, o.text, t.text)>>
  BY <1>1, BaseSlotsIs
<1> QED
  BY <1>2, <1>3, <1>4

LEMMA RowKeeps ==
    ASSUME NEW flat, NEW o, NEW opsO, AlignsSide(flat, o, opsO),
           NEW t, NEW opsT, AlignsSide(flat, t, opsT),
           NEW k \in DOMAIN opsO, opsO[k].type \in {"edited", "insert"}
    PROVE  \E a \in 1..Len(flat) + 1 : \E i \in DOMAIN SlotsAt(flat, o, opsO, t, opsT, a) :
              KeptIn(SlotsAt(flat, o, opsO, t, opsT, a)[i], o[opsO[k].new], "ours")
<1> DEFINE s == o[opsO[k].new]
           gap(a) == GapOf(flat, o, opsO, t, opsT, a)
           rest(a) == BaseOf(flat, o, opsO, t, opsT, a)
           at(a) == SlotsAt(flat, o, opsO, t, opsT, a)
<1>1. \A a \in 1..Len(flat) + 1 : Table(gap(a)) /\ Table(rest(a)) /\ at(a) = gap(a) \o rest(a)
  BY SlotsAtIs
<1>2. Len(flat) \in Nat
  BY TableFacts DEF AlignsSide
<1>3. CASE opsO[k].type = "insert"
  <2> DEFINE a == Anchor(opsO)[k]
             x == Inserted(opsO, o, a)
             y == Inserted(opsT, t, a)
  <2>1. a \in 1..Len(flat) + 1
    BY AnchorIs
  <2>2. Table(opsO) /\ Table(x) /\ Table(y)
    BY InsertedTable
  <2>3. k \in InsertsAt(opsO, a) /\ WordsOf(opsO, o)[k] = s
    BY <1>3 DEF InsertsAt, WordsOf
  <2>4. \E at1 : Picks(x, InsertsAt(opsO, a), WordsOf(opsO, o), at1)
    BY <2>2, InsertedIs
  <2> HIDE DEF a, x, y, s
  <2>5. PICK i \in DOMAIN x : x[i] = s
    BY <2>3, <2>4 DEF Picks
  <2>6. PICK j \in DOMAIN GapSlots(a, x, y) : KeptIn(GapSlots(a, x, y)[j], s, "ours")
    BY <2>2, <2>5, GapKeeps
  <2>7. gap(a) = GapSlots(a, x, y)
    BY DEF GapOf, x, y
  <2> HIDE DEF gap, rest, at
  <2>8. j \in DOMAIN gap(a) /\ KeptIn(gap(a)[j], s, "ours")
    BY <2>6, <2>7
  <2>9. j \in DOMAIN at(a) /\ at(a)[j] = gap(a)[j]
    <3> DEFINE x1 == gap(a)
               x2 == rest(a)
               x3 == at(a)
    <3>1. Table(x1) /\ Table(x2) /\ x3 = x1 \o x2
      BY <1>1, <2>1
    <3>2. j \in DOMAIN x1
      BY <2>8
    <3> HIDE DEF x1, x2, x3
    <3>3. j \in DOMAIN (x1 \o x2)
      BY <3>1, <3>2, JoinHolds
    <3>4. (x1 \o x2)[j] = x1[j]
      BY <3>1, <3>2, JoinHolds
    <3>5. j \in DOMAIN x3 /\ x3[j] = x1[j]
      BY <3>1, <3>3, <3>4
    <3> QED
      BY <3>5 DEF x1, x3
  <2> QED
    BY <2>1, <2>8, <2>9 DEF at, s
<1>4. CASE opsO[k].type = "edited"
  <2> DEFINE a == opsO[k].old
             x == SideChange(opsO, o, a)
             y == SideChange(opsT, t, a)
             text == flat[a].text
  <2>1. a \in 1..Len(flat)
    <3>1. PICK old \in Seq(Sentence) : Len(old) = Len(flat) /\ Covers(old, o, opsO, 0, 0, Len(old), Len(o))
      BY DEF AlignsSide
    <3>2. IsOp(old, o, opsO[k], 0, 0, Len(old), Len(o))
      BY <3>1 DEF Covers
    <3>3. a \in 0 + 1..Len(flat)
      BY <1>4, <3>1, <3>2 DEF IsOp
    <3> QED
      BY <3>3
  <2>2. Change(opsO, a) = opsO[k]
    BY <2>1, ChangeIs
  <2>3. x.type = "edited" /\ x.text = <<s>>
    BY <1>4, <2>1, <2>2, SideChangeIs
  <2>4. Table(y.text)
    BY <2>1, SideChangeIs
  <2>5. rest(a) = BaseSlots(a, text, x, y)
    <3>1. ~(a > Len(flat))
      BY <1>2, <2>1
    <3> QED
      BY <3>1 DEF BaseOf
  <2> HIDE DEF a, x, y, s, text
  <2>6. PICK j \in DOMAIN BaseSlots(a, text, x, y) : KeptIn(BaseSlots(a, text, x, y)[j], s, "ours")
    BY <2>3, <2>4, BaseKeeps
  <2> HIDE DEF gap, rest, at
  <2>7. a \in 1..Len(flat) + 1
    BY <1>2, <2>1
  <2>8. j \in DOMAIN rest(a) /\ KeptIn(rest(a)[j], s, "ours")
    BY <2>5, <2>6
  <2>9. Len(gap(a)) + j \in DOMAIN at(a) /\ at(a)[Len(gap(a)) + j] = rest(a)[j]
    <3> DEFINE p == gap(a)
               q == rest(a)
    <3>1. Table(p) /\ Table(q) /\ at(a) = p \o q /\ j \in DOMAIN q
      BY <1>1, <2>7, <2>8
    <3> HIDE DEF p, q
    <3>2. Len(p) + j \in DOMAIN (p \o q)
      BY <3>1, JoinHolds
    <3>3. (p \o q)[Len(p) + j] = q[j]
      BY <3>1, JoinHolds
    <3>4. Len(p) + j \in DOMAIN at(a) /\ at(a)[Len(p) + j] = q[j]
      BY <3>1, <3>2, <3>3
    <3> QED
      BY <3>4 DEF p, q
  <2> QED
    BY <2>7, <2>8, <2>9 DEF at, s
<1> QED
  BY <1>3, <1>4

WrittenBy(ops, side) == {side[op.new] : op \in {op \in ToSet(ops) : op.type \in {"edited", "insert"}}}

LEMMA OursIsKept ==
    ASSUME NEW flat, NEW o, NEW opsO, AlignsSide(flat, o, opsO),
           NEW t, NEW opsT, AlignsSide(flat, t, opsT), NEW s \in WrittenBy(opsO, o)
    PROVE  \E k \in DOMAIN SlotsOf(flat, o, opsO, t, opsT) :
              KeptIn(SlotsOf(flat, o, opsO, t, opsT)[k].slot, s, "ours")
<1> DEFINE slots == SlotsOf(flat, o, opsO, t, opsT)
           n == Len(flat) + 1
           at == [a \in 1..n |-> SlotsAt(flat, o, opsO, t, opsT, a)]
<1>1. PICK k \in DOMAIN opsO : opsO[k].type \in {"edited", "insert"} /\ s = o[opsO[k].new]
  BY DEF WrittenBy, ToSet
<1>2. \E a \in 1..n : \E i \in DOMAIN SlotsAt(flat, o, opsO, t, opsT, a) :
              KeptIn(SlotsAt(flat, o, opsO, t, opsT, a)[i], o[opsO[k].new], "ours")
  BY <1>1, RowKeeps
<1>3. PICK a \in 1..n : \E i \in DOMAIN at[a] : KeptIn(at[a][i], s, "ours")
  BY <1>1, <1>2
<1>4. PICK i \in DOMAIN at[a] : KeptIn(at[a][i], s, "ours")
  BY <1>3
<1>5. \E place :
                 /\ \A l \in DOMAIN slots :
                       /\ place[l][1] \in 1..n /\ place[l][2] \in DOMAIN at[place[l][1]]
                       /\ slots[l].slot = at[place[l][1]][place[l][2]]
                 /\ \A c \in 1..n : \A j \in DOMAIN at[c] :
                       \E l \in DOMAIN slots : place[l][1] = c /\ place[l][2] = j
  BY SlotsPlaced
<1> HIDE DEF slots, at, n
<1>6. PICK l \in DOMAIN slots : slots[l].slot = at[a][i]
  BY <1>5
<1>7. KeptIn(slots[l].slot, s, "ours")
  BY <1>4, <1>6
<1> QED
  BY <1>7 DEF slots

\* What is on our side of a slot is on theirs of the slot swapped.
LEMMA SwapKeeps ==
    ASSUME NEW slot, NEW s, KeptIn(SwapSlot(slot), s, "ours")
    PROVE  KeptIn(slot, s, "theirs")
<1>1. CASE slot.kind = "text"
  BY <1>1 DEF KeptIn, SwapSlot
<1>2. CASE slot.kind # "text"
  <2> DEFINE m == Marker(slot.sid, slot.theirs, slot.ours)
  <2>1. SwapSlot(slot) = m /\ m.kind = "conflict" /\ m["ours"] = slot.theirs
    BY <1>2 DEF SwapSlot, Marker
  <2> HIDE DEF m
  <2>2. s \in ToSet(slot.theirs)
    BY <2>1 DEF KeptIn
  <2> QED
    BY <1>2, <2>2 DEF KeptIn
<1> QED
  BY <1>1, <1>2

\* Every sentence a writer rewrote or inserted is in the merged text or on the writer's
\* side of a conflict.
LEMMA NothingIsDropped ==
    ASSUME TypeOK
    PROVE  NothingDropped
<1> DEFINE flat == Flat(base)
           opsO == Alignment[BaseTexts][ours]
           opsT == Alignment[BaseTexts][theirs]
           slots == SlotsOf(flat, ours, opsO, theirs, opsT)
           other == SlotsOf(flat, theirs, opsT, ours, opsO)
<1>1. Merged = slots
  BY DEF Slots, BaseTexts, Merged
<1>2. AlignsSide(flat, ours, opsO) /\ AlignsSide(flat, theirs, opsT)
  BY SidesAlign DEF TypeOK
<1>3. NothingDropped <=>
         /\ \A s \in WrittenBy(opsO, ours) : \E k \in DOMAIN Merged : KeptIn(Merged[k].slot, s, "ours")
         /\ \A s \in WrittenBy(opsT, theirs) : \E k \in DOMAIN Merged : KeptIn(Merged[k].slot, s, "theirs")
  BY DEF NothingDropped, KeptIn, WrittenBy
<1> HIDE DEF opsO, opsT, flat
<1>4. \A s \in WrittenBy(opsO, ours) : \E k \in DOMAIN slots : KeptIn(slots[k].slot, s, "ours")
  BY <1>2, OursIsKept
<1>5. \A s \in WrittenBy(opsT, theirs) : \E k \in DOMAIN other : KeptIn(other[k].slot, s, "ours")
  BY <1>2, OursIsKept
<1>6. /\ DOMAIN other = DOMAIN slots
      /\ \A k \in DOMAIN slots : other[k] = [para |-> slots[k].para, slot |-> SwapSlot(slots[k].slot)]
  BY <1>2, SlotsSwap
<1> HIDE DEF slots, other
<1>7. \A k \in DOMAIN slots : other[k].slot = SwapSlot(slots[k].slot)
  BY <1>6
<1>8. ASSUME NEW s \in WrittenBy(opsT, theirs) PROVE \E k \in DOMAIN slots : KeptIn(slots[k].slot, s, "theirs")
  <2>1. PICK k \in DOMAIN slots : KeptIn(SwapSlot(slots[k].slot), s, "ours")
    BY <1>5, <1>6, <1>7
  <2>2. KeptIn(slots[k].slot, s, "theirs")
    BY <2>1, SwapKeeps
  <2> QED
    BY <2>2
<1> QED
  BY <1>1, <1>3, <1>4, <1>8

-----------------------------------------------------------------------------
(* Nothing comes back.                                                     *)

\* The gap an op of a side belongs to.
WhereOf(ops, m) == IF ops[m].type = "insert" THEN Anchor(ops)[m] ELSE ops[m].old

\* The text of `slot`, one of base sentence a, comes from x: the base sentence both kept, or
\* an op of a side.
Origin(flat, o, opsO, t, opsT, a, slot, x, types) ==
    \/ /\ x = <<"both", a>> /\ "equal" \in types /\ a \in 1..Len(flat) /\ slot = Plain(flat[a].text)
       /\ Change(opsO, a).type = "equal" /\ Change(opsT, a).type = "equal"
    \/ \E m \in DOMAIN opsO : /\ x = <<"ours", m>> /\ opsO[m].type \in types \cap {"edited", "insert"}
                              /\ WhereOf(opsO, m) = a /\ slot = Plain(o[opsO[m].new])
    \/ \E m \in DOMAIN opsT : /\ x = <<"theirs", m>> /\ opsT[m].type \in types \cap {"edited", "insert"}
                              /\ WhereOf(opsT, m) = a /\ slot = Plain(t[opsT[m].new])

\* The texts of a sequence of slots come each from a place of its own.
Sources(flat, o, opsO, t, opsT, a, row, src, types) ==
    /\ \A i \in DOMAIN row : row[i].kind = "text" => Origin(flat, o, opsO, t, opsT, a, row[i], src[i], types)
    /\ \A i, j \in DOMAIN row : row[i].kind = "text" /\ row[j].kind = "text" /\ src[i] = src[j] => i = j

LEMMA PlainIs ==
    ASSUME NEW s
    PROVE  Plain(s).kind = "text" /\ Plain(s).text = s
BY DEF Plain

LEMMA PlainsOne ==
    ASSUME NEW s
    PROVE  Plains(<<s>>) = <<Plain(s)>>
<1>1. Table(<<s>>) /\ DOMAIN <<s>> = {1} /\ <<s>>[1] = s
  BY OneRow
<1>2. Table(<<Plain(s)>>) /\ DOMAIN <<Plain(s)>> = {1} /\ <<Plain(s)>>[1] = Plain(s)
  BY OneRow
<1>3. /\ Table(Plains(<<s>>)) /\ DOMAIN Plains(<<s>>) = {1} /\ Plains(<<s>>)[1] = Plain(s)
  BY <1>1, PlainsOf
<1> QED
  BY <1>2, <1>3, TableEqual

LEMMA GapSources ==
    ASSUME NEW flat, NEW o, NEW opsO, AlignsSide(flat, o, opsO),
           NEW t, NEW opsT, AlignsSide(flat, t, opsT), NEW a
    PROVE  \E src : Sources(flat, o, opsO, t, opsT, a, GapOf(flat, o, opsO, t, opsT, a), src, {"insert"})
<1> DEFINE x == Inserted(opsO, o, a)
           y == Inserted(opsT, t, a)
           gap == GapSlots(a, x, y)
           Good(row, src) == Sources(flat, o, opsO, t, opsT, a, row, src, {"insert"})
<1>1. Table(opsO) /\ Table(x) /\ Table(opsT) /\ Table(y)
  BY InsertedTable
<1>2. PICK atO : Picks(x, InsertsAt(opsO, a), WordsOf(opsO, o), atO)
  BY <1>1, InsertedIs
<1>3. PICK atT : Picks(y, InsertsAt(opsT, a), WordsOf(opsT, t), atT)
  BY <1>1, InsertedIs
<1>4. /\ \A m \in InsertsAt(opsO, a) : /\ m \in DOMAIN opsO /\ opsO[m].type = "insert" /\ WhereOf(opsO, m) = a
                                       /\ WordsOf(opsO, o)[m] = o[opsO[m].new]
      /\ \A m \in InsertsAt(opsT, a) : /\ m \in DOMAIN opsT /\ opsT[m].type = "insert" /\ WhereOf(opsT, m) = a
                                       /\ WordsOf(opsT, t)[m] = t[opsT[m].new]
  BY DEF InsertsAt, WhereOf, WordsOf
<1>5. GapOf(flat, o, opsO, t, opsT, a) = gap
  BY DEF GapOf
<1>9. InsertsAt(opsO, a) \subseteq Int /\ InsertsAt(opsT, a) \subseteq Int
  <2>1. DOMAIN opsO = 1..Len(opsO) /\ Len(opsO) \in Nat /\ DOMAIN opsT = 1..Len(opsT) /\ Len(opsT) \in Nat
    BY <1>1, TableFacts
  <2> QED
    BY <1>4, <2>1
<1> HIDE DEF x, y
<1>6. CASE y = <<>>
  <2> DEFINE row == Plains(x)
             src == [i \in DOMAIN x |-> <<"ours", atO[i]>>]
  <2>1. gap = row
    BY <1>1, <1>6, GapSlotsIs
  <2>2. DOMAIN row = DOMAIN x /\ \A i \in DOMAIN x : row[i] = Plain(x[i])
    BY <1>1, PlainsOf
  <2>3. \A i \in DOMAIN x : src[i] = <<"ours", atO[i]>>
    OBVIOUS
  <2> HIDE DEF row, src
  <2>4. ASSUME NEW i \in DOMAIN row PROVE Origin(flat, o, opsO, t, opsT, a, row[i], src[i], {"insert"})
    <3> DEFINE m == atO[i]
    <3>1. m \in InsertsAt(opsO, a) /\ x[i] = WordsOf(opsO, o)[m]
      BY <1>2, <2>2 DEF Picks
    <3>2. row[i] = Plain(o[opsO[m].new]) /\ src[i] = <<"ours", m>>
      BY <1>4, <2>2, <2>3, <3>1
    <3> HIDE DEF m
    <3>3. m \in DOMAIN opsO /\ opsO[m].type \in {"insert"} \cap {"edited", "insert"} /\ WhereOf(opsO, m) = a
      BY <1>4, <3>1
    <3> QED
      BY <3>2, <3>3 DEF Origin
  <2>5. ASSUME NEW i \in DOMAIN row, NEW j \in DOMAIN row, src[i] = src[j] PROVE i = j
    <3>1. atO[i] = atO[j]
      BY <2>2, <2>3, <2>5
    <3> QED
      BY <1>1, <1>2, <1>9, <2>2, <3>1, PicksOnce
  <2>6. Good(row, src)
    BY <2>4, <2>5 DEF Sources
  <2> QED
    BY <1>5, <2>1, <2>6
<1>7. CASE x = <<>>
  <2> DEFINE row == Plains(y)
             src == [i \in DOMAIN y |-> <<"theirs", atT[i]>>]
  <2>1. gap = row
    BY <1>1, <1>7, GapSlotsIs
  <2>2. DOMAIN row = DOMAIN y /\ \A i \in DOMAIN y : row[i] = Plain(y[i])
    BY <1>1, PlainsOf
  <2>3. \A i \in DOMAIN y : src[i] = <<"theirs", atT[i]>>
    OBVIOUS
  <2> HIDE DEF row, src
  <2>4. ASSUME NEW i \in DOMAIN row PROVE Origin(flat, o, opsO, t, opsT, a, row[i], src[i], {"insert"})
    <3> DEFINE m == atT[i]
    <3>1. m \in InsertsAt(opsT, a) /\ y[i] = WordsOf(opsT, t)[m]
      BY <1>3, <2>2 DEF Picks
    <3>2. row[i] = Plain(t[opsT[m].new]) /\ src[i] = <<"theirs", m>>
      BY <1>4, <2>2, <2>3, <3>1
    <3> HIDE DEF m
    <3>3. m \in DOMAIN opsT /\ opsT[m].type \in {"insert"} \cap {"edited", "insert"} /\ WhereOf(opsT, m) = a
      BY <1>4, <3>1
    <3> QED
      BY <3>2, <3>3 DEF Origin
  <2>5. ASSUME NEW i \in DOMAIN row, NEW j \in DOMAIN row, src[i] = src[j] PROVE i = j
    <3>1. atT[i] = atT[j]
      BY <2>2, <2>3, <2>5
    <3> QED
      BY <1>1, <1>3, <1>9, <2>2, <3>1, PicksOnce
  <2>6. Good(row, src)
    BY <2>4, <2>5 DEF Sources
  <2> QED
    BY <1>5, <2>1, <2>6
<1>8. CASE x # <<>> /\ y # <<>>
  <2> DEFINE row == <<Marker(a, x, y)>>
  <2>1. gap = row
    BY <1>1, <1>8, GapSlotsIs
  <2>2. \A i \in DOMAIN row : row[i].kind # "text"
    <3>1. DOMAIN row = {1} /\ row[1] = Marker(a, x, y)
      BY OneRow
    <3> QED
      BY <3>1 DEF Marker
  <2> HIDE DEF row
  <2>3. Good(row, <<>>)
    BY <2>2 DEF Sources
  <2> QED
    BY <1>5, <2>1, <2>3
<1> QED
  BY <1>6, <1>7, <1>8

LEMMA BaseSources ==
    ASSUME NEW flat, NEW o, NEW opsO, AlignsSide(flat, o, opsO),
           NEW t, NEW opsT, AlignsSide(flat, t, opsT), NEW a \in 1..Len(flat) + 1
    PROVE  \E src : Sources(flat, o, opsO, t, opsT, a, BaseOf(flat, o, opsO, t, opsT, a), src, {"equal", "edited"})
<1> DEFINE Good(row, src) == Sources(flat, o, opsO, t, opsT, a, row, src, {"equal", "edited"})
           Sprung(slot, z) == Origin(flat, o, opsO, t, opsT, a, slot, z, {"equal", "edited"})
           x == SideChange(opsO, o, a)
           y == SideChange(opsT, t, a)
           rest == BaseOf(flat, o, opsO, t, opsT, a)
<1>1. Len(flat) \in Nat
  BY TableFacts DEF AlignsSide
<1>2. ASSUME NEW slot, NEW z, slot.kind = "text" => Sprung(slot, z) PROVE \E src : Good(<<slot>>, src)
  <2> DEFINE src == [i \in {1} |-> z]
  <2>1. DOMAIN <<slot>> = {1} /\ <<slot>>[1] = slot
    BY OneRow
  <2>2. src[1] = z
    OBVIOUS
  <2> HIDE DEF src
  <2>3. Good(<<slot>>, src)
    BY <1>2, <2>1, <2>2 DEF Sources
  <2> QED
    BY <2>3
<1>3. \E src : Good(<<>>, src)
  <2>1. Good(<<>>, <<>>)
    BY NoRow DEF Sources
  <2> QED
    BY <2>1
<1>4. CASE a > Len(flat)
  <2>1. rest = <<>>
    BY <1>4 DEF BaseOf
  <2> QED
    BY <1>3, <2>1
<1>5. CASE ~(a > Len(flat))
  <2> DEFINE text == flat[a].text
  <2>1. a \in 1..Len(flat)
    BY <1>1, <1>5
  <2>2. rest = BaseSlots(a, text, x, y)
    BY <1>5 DEF BaseOf
  <2>3. PICK m \in DOMAIN opsO : Change(opsO, a) = opsO[m] /\ opsO[m].old = a
    BY <2>1, ChangeIs
  <2>4. PICK l \in DOMAIN opsT : Change(opsT, a) = opsT[l] /\ opsT[l].old = a
    BY <2>1, ChangeIs
  <2>5. /\ x.type = opsO[m].type /\ x.type \in {"equal", "edited", "delete"} /\ Table(x.text)
        /\ \/ x.type = "delete" /\ x.text = <<>>
           \/ x.type # "delete" /\ x.text = <<o[opsO[m].new]>>
    BY <2>1, <2>3, SideChangeIs
  <2>6. /\ y.type = opsT[l].type /\ y.type \in {"equal", "edited", "delete"} /\ Table(y.text)
        /\ \/ y.type = "delete" /\ y.text = <<>>
           \/ y.type # "delete" /\ y.text = <<t[opsT[l].new]>>
    BY <2>1, <2>4, SideChangeIs
  <2> HIDE DEF x, y, rest
  <2>7. ASSUME x.type # "equal" PROVE \E src : Good(Plains(x.text), src)
    <3>1. CASE x.text = <<>>
      <4>1. DOMAIN Plains(x.text) = {}
        BY <2>5, <3>1, PlainsOf, NoRow
      <4>2. Good(Plains(x.text), <<>>)
        BY <4>1 DEF Sources
      <4> QED
        BY <4>2
    <3>2. CASE x.type = "edited" /\ x.text = <<o[opsO[m].new]>>
      <4> DEFINE slot == Plain(o[opsO[m].new])
      <4>1. Plains(x.text) = <<slot>>
        BY <3>2, PlainsOne
      <4>2. Sprung(slot, <<"ours", m>>)
        <5>1. WhereOf(opsO, m) = a /\ opsO[m].type \in {"equal", "edited"} \cap {"edited", "insert"}
          BY <2>3, <2>5, <3>2 DEF WhereOf
        <5> QED
          BY <5>1 DEF Origin
      <4> HIDE DEF slot, Good, Sprung
      <4>3. \E src : Good(<<slot>>, src)
        BY <1>2, <4>2
      <4> QED
        BY <4>1, <4>3
    <3> QED
      BY <2>5, <2>7, <3>1, <3>2
  <2>8. ASSUME y.type # "equal" PROVE \E src : Good(Plains(y.text), src)
    <3>1. CASE y.text = <<>>
      <4>1. DOMAIN Plains(y.text) = {}
        BY <2>6, <3>1, PlainsOf, NoRow
      <4>2. Good(Plains(y.text), <<>>)
        BY <4>1 DEF Sources
      <4> QED
        BY <4>2
    <3>2. CASE y.type = "edited" /\ y.text = <<t[opsT[l].new]>>
      <4> DEFINE slot == Plain(t[opsT[l].new])
      <4>1. Plains(y.text) = <<slot>>
        BY <3>2, PlainsOne
      <4>2. Sprung(slot, <<"theirs", l>>)
        <5>1. WhereOf(opsT, l) = a /\ opsT[l].type \in {"equal", "edited"} \cap {"edited", "insert"}
          BY <2>4, <2>6, <3>2 DEF WhereOf
        <5> QED
          BY <5>1 DEF Origin
      <4> HIDE DEF slot, Good, Sprung
      <4>3. \E src : Good(<<slot>>, src)
        BY <1>2, <4>2
      <4> QED
        BY <4>1, <4>3
    <3> QED
      BY <2>6, <2>8, <3>1, <3>2
  <2>9. CASE x.type = "equal" /\ y.type = "equal"
    <3>1. rest = <<Plain(text)>>
      BY <2>2, <2>5, <2>6, <2>9, BaseSlotsIs
    <3>2. Sprung(Plain(text), <<"both", a>>)
      BY <2>1, <2>3, <2>4, <2>5, <2>6, <2>9 DEF Origin
    <3> HIDE DEF Good, Sprung
    <3>3. \E src : Good(<<Plain(text)>>, src)
      BY <1>2, <3>2
    <3> QED
      BY <3>1, <3>3 DEF rest, Good
  <2>10. CASE x.type # "equal" /\ y.type = "equal"
    <3>1. rest = Plains(x.text)
      BY <2>2, <2>5, <2>6, <2>10, BaseSlotsIs
    <3> QED
      BY <2>7, <2>10, <3>1 DEF rest
  <2>11. CASE x.type = "equal" /\ y.type # "equal"
    <3>1. rest = Plains(y.text)
      BY <2>2, <2>5, <2>6, <2>11, BaseSlotsIs
    <3> QED
      BY <2>8, <2>11, <3>1 DEF rest
  <2>12. CASE x.type # "equal" /\ y.type # "equal" /\ x.text = y.text
    <3>1. rest = Plains(x.text)
      BY <2>2, <2>5, <2>6, <2>12, BaseSlotsIs
    <3> QED
      BY <2>7, <2>12, <3>1 DEF rest
  <2>13. CASE x.type # "equal" /\ y.type # "equal" /\ x.text # y.text
    <3> DEFINE slot == Marker(a, x.text, y.text)
    <3>1. rest = <<slot>>
      BY <2>2, <2>5, <2>6, <2>13, BaseSlotsIs
    <3>2. slot.kind # "text"
      BY DEF Marker
    <3> HIDE DEF Good, Sprung, slot
    <3>3. \E src : Good(<<slot>>, src)
      BY <1>2, <3>2
    <3> QED
      BY <3>1, <3>3 DEF rest, Good
  <2> QED
    BY <2>9, <2>10, <2>11, <2>12, <2>13
<1> QED
  BY <1>4, <1>5

AllOps == {"equal", "edited", "insert"}

LEMMA OriginWider ==
    ASSUME NEW flat, NEW o, NEW opsO, NEW t, NEW opsT, NEW a, NEW slot, NEW x,
           NEW types, types \subseteq AllOps, Origin(flat, o, opsO, t, opsT, a, slot, x, types)
    PROVE  Origin(flat, o, opsO, t, opsT, a, slot, x, AllOps)
BY DEF Origin, AllOps

\* An insert is not where an edit or a base sentence comes from.
LEMMA OriginsDiffer ==
    ASSUME NEW flat, NEW o, NEW opsO, NEW t, NEW opsT, NEW a, NEW b, NEW s1, NEW s2, NEW x,
           Origin(flat, o, opsO, t, opsT, a, s1, x, {"insert"}),
           Origin(flat, o, opsO, t, opsT, b, s2, x, {"equal", "edited"})
    PROVE  FALSE
<1>1. \/ \E m \in DOMAIN opsO : x = <<"ours", m>> /\ opsO[m].type = "insert"
      \/ \E m \in DOMAIN opsT : x = <<"theirs", m>> /\ opsT[m].type = "insert"
  BY DEF Origin
<1>2. \/ x = <<"both", b>>
      \/ \E m \in DOMAIN opsO : x = <<"ours", m>> /\ opsO[m].type = "edited"
      \/ \E m \in DOMAIN opsT : x = <<"theirs", m>> /\ opsT[m].type = "edited"
  BY DEF Origin
<1>3. x[1] \in {"ours", "theirs", "both"}
  BY <1>1
<1> QED
  BY <1>1, <1>2

LEMMA RowSources ==
    ASSUME NEW flat, NEW o, NEW opsO, AlignsSide(flat, o, opsO),
           NEW t, NEW opsT, AlignsSide(flat, t, opsT), NEW a \in 1..Len(flat) + 1
    PROVE  \E src : Sources(flat, o, opsO, t, opsT, a, SlotsAt(flat, o, opsO, t, opsT, a), src, AllOps)
<1> DEFINE gap == GapOf(flat, o, opsO, t, opsT, a)
           rest == BaseOf(flat, o, opsO, t, opsT, a)
           row == SlotsAt(flat, o, opsO, t, opsT, a)
           n == Len(gap)
           From(slot, x, types) == Origin(flat, o, opsO, t, opsT, a, slot, x, types)
<1>1. Table(gap) /\ Table(rest) /\ row = gap \o rest
  BY SlotsAtIs
<1>2. PICK src1 : Sources(flat, o, opsO, t, opsT, a, gap, src1, {"insert"})
  BY GapSources
<1>3. PICK src2 : Sources(flat, o, opsO, t, opsT, a, rest, src2, {"equal", "edited"})
  BY BaseSources
<1>4. /\ \A i \in DOMAIN gap : gap[i].kind = "text" => From(gap[i], src1[i], {"insert"})
      /\ \A i, j \in DOMAIN gap : gap[i].kind = "text" /\ gap[j].kind = "text" /\ src1[i] = src1[j] => i = j
      /\ \A i \in DOMAIN rest : rest[i].kind = "text" => From(rest[i], src2[i], {"equal", "edited"})
      /\ \A i, j \in DOMAIN rest : rest[i].kind = "text" /\ rest[j].kind = "text" /\ src2[i] = src2[j] => i = j
  BY <1>2, <1>3 DEF Sources
<1>5. n \in Nat /\ DOMAIN gap = 1..n /\ Len(rest) \in Nat /\ DOMAIN rest = 1..Len(rest)
  BY <1>1, TableFacts
<1> HIDE DEF gap, rest, row, n
<1>6. /\ \A i \in DOMAIN gap : row[i] = gap[i]
      /\ \A i \in DOMAIN rest : row[n + i] = rest[i]
      /\ \A k \in DOMAIN row : k \in DOMAIN gap \/ (k - n \in DOMAIN rest /\ k = n + (k - n))
  <2>1. \A i \in DOMAIN gap : (gap \o rest)[i] = gap[i]
    BY <1>1, JoinHolds
  <2>2. \A i \in DOMAIN rest : (gap \o rest)[Len(gap) + i] = rest[i]
    BY <1>1, JoinHolds
  <2>3. \A k \in DOMAIN (gap \o rest) : k \in DOMAIN gap \/ (k - Len(gap) \in DOMAIN rest /\ k = Len(gap) + (k - Len(gap)))
    BY <1>1, JoinHolds
  <2> QED
    BY <1>1, <2>1, <2>2, <2>3 DEF n
<1> DEFINE src == [k \in DOMAIN row |-> IF k \in DOMAIN gap THEN src1[k] ELSE src2[k - n]]
<1>7. ASSUME NEW k \in DOMAIN row
      PROVE  \/ k \in DOMAIN gap /\ row[k] = gap[k] /\ src[k] = src1[k]
             \/ k - n \in DOMAIN rest /\ k = n + (k - n) /\ row[k] = rest[k - n] /\ src[k] = src2[k - n]
  <2>1. CASE k \in DOMAIN gap
    <3>1. src[k] = src1[k]
      BY <2>1
    <3> QED
      BY <1>6, <2>1, <3>1
  <2>2. CASE k \notin DOMAIN gap
    <3>1. src[k] = src2[k - n]
      BY <2>2
    <3> QED
      BY <1>6, <2>2, <3>1
  <2> QED
    BY <2>1, <2>2
<1> HIDE DEF src
<1>8. ASSUME NEW k \in DOMAIN row, row[k].kind = "text"
      PROVE  From(row[k], src[k], AllOps)
  <2>1. CASE k \in DOMAIN gap /\ row[k] = gap[k] /\ src[k] = src1[k]
    <3>1. From(row[k], src[k], {"insert"})
      BY <1>4, <1>8, <2>1
    <3> QED
      BY <3>1, OriginWider DEF AllOps
  <2>2. CASE k - n \in DOMAIN rest /\ row[k] = rest[k - n] /\ src[k] = src2[k - n]
    <3>1. From(row[k], src[k], {"equal", "edited"})
      BY <1>4, <1>8, <2>2
    <3> QED
      BY <3>1, OriginWider DEF AllOps
  <2> QED
    BY <1>7, <2>1, <2>2
<1>9. ASSUME NEW k \in DOMAIN row, NEW l \in DOMAIN row, row[k].kind = "text", row[l].kind = "text",
             src[k] = src[l], k \in DOMAIN gap, row[k] = gap[k], src[k] = src1[k],
             l - n \in DOMAIN rest, row[l] = rest[l - n], src[l] = src2[l - n]
      PROVE  FALSE
  <2>1. From(row[k], src[k], {"insert"}) /\ From(row[l], src[k], {"equal", "edited"})
    BY <1>4, <1>9
  <2> QED
    BY <2>1, OriginsDiffer
<1>10. ASSUME NEW k \in DOMAIN row, NEW l \in DOMAIN row, row[k].kind = "text", row[l].kind = "text",
              src[k] = src[l]
       PROVE  k = l
  <2>1. CASE k \in DOMAIN gap /\ row[k] = gap[k] /\ src[k] = src1[k]
    <3>1. CASE l \in DOMAIN gap /\ row[l] = gap[l] /\ src[l] = src1[l]
      BY <1>4, <1>10, <2>1, <3>1
    <3>2. CASE l - n \in DOMAIN rest /\ row[l] = rest[l - n] /\ src[l] = src2[l - n]
      BY <1>9, <1>10, <2>1, <3>2
    <3> QED
      BY <1>7, <3>1, <3>2
  <2>2. CASE k - n \in DOMAIN rest /\ k = n + (k - n) /\ row[k] = rest[k - n] /\ src[k] = src2[k - n]
    <3>1. CASE l \in DOMAIN gap /\ row[l] = gap[l] /\ src[l] = src1[l]
      BY <1>9, <1>10, <2>2, <3>1
    <3>2. CASE l - n \in DOMAIN rest /\ l = n + (l - n) /\ row[l] = rest[l - n] /\ src[l] = src2[l - n]
      <4>1. k - n = l - n
        BY <1>4, <1>10, <2>2, <3>2
      <4> QED
        BY <2>2, <3>2, <4>1
    <3> QED
      BY <1>7, <3>1, <3>2
  <2> QED
    BY <1>7, <2>1, <2>2
<1>11. Sources(flat, o, opsO, t, opsT, a, row, src, AllOps)
  BY <1>8, <1>10 DEF Sources
<1> QED
  BY <1>11 DEF row

\* The same text has no two places in different gaps either.
LEMMA OriginPlace ==
    ASSUME NEW flat, NEW o, NEW opsO, NEW t, NEW opsT, NEW a, NEW b, NEW s1, NEW s2, NEW x, NEW types,
           Origin(flat, o, opsO, t, opsT, a, s1, x, types), Origin(flat, o, opsO, t, opsT, b, s2, x, types)
    PROVE  a = b
<1>1. \/ x = <<"both", a>>
      \/ \E m \in DOMAIN opsO : x = <<"ours", m>> /\ WhereOf(opsO, m) = a
      \/ \E m \in DOMAIN opsT : x = <<"theirs", m>> /\ WhereOf(opsT, m) = a
  BY DEF Origin
<1>2. \/ x = <<"both", b>>
      \/ \E m \in DOMAIN opsO : x = <<"ours", m>> /\ WhereOf(opsO, m) = b
      \/ \E m \in DOMAIN opsT : x = <<"theirs", m>> /\ WhereOf(opsT, m) = b
  BY DEF Origin
<1> QED
  BY <1>1, <1>2

KeptByBoth(flat, opsO, opsT, s) ==
    {a \in DOMAIN flat : /\ flat[a].text = s
                         /\ Change(opsO, a).type = "equal" /\ Change(opsT, a).type = "equal"}

Wrote(ops, side, s) == {k \in DOMAIN ops : ops[k].type \in {"edited", "insert"} /\ side[ops[k].new] = s}

LEMMA PlainSame ==
    ASSUME NEW s, NEW w, Plain(s) = Plain(w)
    PROVE  s = w
<1>1. Plain(s).text = Plain(w).text
  OBVIOUS
<1> QED
  BY <1>1, PlainIs

LEMMA TimesBounded ==
    ASSUME NEW flat, NEW o, NEW opsO, AlignsSide(flat, o, opsO),
           NEW t, NEW opsT, AlignsSide(flat, t, opsT), NEW s
    PROVE  Cardinality({k \in DOMAIN SlotsOf(flat, o, opsO, t, opsT) :
                            SlotsOf(flat, o, opsO, t, opsT)[k].slot = Plain(s)})
              <= Cardinality(KeptByBoth(flat, opsO, opsT, s))
                    + Cardinality(Wrote(opsO, o, s)) + Cardinality(Wrote(opsT, t, s))
<1> DEFINE slots == SlotsOf(flat, o, opsO, t, opsT)
           n == Len(flat) + 1
           at == [a \in 1..n |-> SlotsAt(flat, o, opsO, t, opsT, a)]
           K == {k \in DOMAIN slots : slots[k].slot = Plain(s)}
           A == KeptByBoth(flat, opsO, opsT, s)
           B == Wrote(opsO, o, s)
           C == Wrote(opsT, t, s)
           src == [a \in 1..n |-> CHOOSE q : Sources(flat, o, opsO, t, opsT, a, at[a], q, AllOps)]
<1>1. \E place :
         /\ \A k \in DOMAIN slots :
               /\ place[k][1] \in 1..n /\ place[k][2] \in DOMAIN at[place[k][1]]
               /\ slots[k].slot = at[place[k][1]][place[k][2]]
         /\ \A a \in 1..n : \A i \in DOMAIN at[a] :
               \E k \in DOMAIN slots : place[k][1] = a /\ place[k][2] = i
         /\ \A k, l \in DOMAIN slots :
               place[k][1] = place[l][1] /\ place[k][2] = place[l][2] => k = l
  BY SlotsPlaced
<1>2. ASSUME NEW a \in 1..n PROVE Sources(flat, o, opsO, t, opsT, a, at[a], src[a], AllOps)
  <2>1. \E q : Sources(flat, o, opsO, t, opsT, a, at[a], q, AllOps)
    BY RowSources
  <2> HIDE DEF at
  <2>2. src[a] = CHOOSE q : Sources(flat, o, opsO, t, opsT, a, at[a], q, AllOps)
    OBVIOUS
  <2> HIDE DEF src
  <2> QED
    BY <2>1, <2>2
<1> HIDE DEF slots, at, src, n
<1>3. PICK place :
         /\ \A k \in DOMAIN slots :
               /\ place[k][1] \in 1..n /\ place[k][2] \in DOMAIN at[place[k][1]]
               /\ slots[k].slot = at[place[k][1]][place[k][2]]
         /\ \A k, l \in DOMAIN slots :
               place[k][1] = place[l][1] /\ place[k][2] = place[l][2] => k = l
  BY <1>1
<1> DEFINE f == [k \in K |-> src[place[k][1]][place[k][2]]]
<1>4. ASSUME NEW k \in K
      PROVE  /\ place[k][1] \in 1..n /\ place[k][2] \in DOMAIN at[place[k][1]]
             /\ at[place[k][1]][place[k][2]] = Plain(s) /\ at[place[k][1]][place[k][2]].kind = "text"
             /\ f[k] = src[place[k][1]][place[k][2]]
             /\ Origin(flat, o, opsO, t, opsT, place[k][1], Plain(s), f[k], AllOps)
  <2> DEFINE a == place[k][1]
             i == place[k][2]
  <2>1. a \in 1..n /\ i \in DOMAIN at[a] /\ at[a][i] = Plain(s)
    BY <1>3
  <2>2. f[k] = src[a][i]
    OBVIOUS
  <2> HIDE DEF a, i, f
  <2>3. at[a][i].kind = "text"
    BY <2>1, PlainIs
  <2>4. Origin(flat, o, opsO, t, opsT, a, at[a][i], src[a][i], AllOps)
    BY <1>2, <2>1, <2>3 DEF Sources
  <2>5. Origin(flat, o, opsO, t, opsT, a, Plain(s), f[k], AllOps)
    BY <2>1, <2>2, <2>4
  <2> QED
    BY <2>1, <2>2, <2>3, <2>5 DEF a, i
<1> HIDE DEF f, K
<1>5. ASSUME NEW k \in K, NEW l \in K, f[k] = f[l] PROVE k = l
  <2> DEFINE a == place[k][1]
             i == place[k][2]
             j == place[l][2]
  <2>1. a = place[l][1]
    <3>1. Origin(flat, o, opsO, t, opsT, place[k][1], Plain(s), f[k], AllOps)
      BY <1>4
    <3>2. Origin(flat, o, opsO, t, opsT, place[l][1], Plain(s), f[k], AllOps)
      BY <1>4, <1>5
    <3> QED
      BY <3>1, <3>2, OriginPlace
  <2>2. /\ a \in 1..n /\ i \in DOMAIN at[a] /\ at[a][i].kind = "text" /\ f[k] = src[a][i]
        /\ j \in DOMAIN at[a] /\ at[a][j].kind = "text" /\ f[l] = src[a][j]
    BY <1>4, <2>1
  <2> HIDE DEF a, i, j
  <2>3. i = j
    BY <1>2, <1>5, <2>2 DEF Sources
  <2> QED
    BY <1>3, <2>1, <2>3 DEF K, a, i, j
<1>6. ASSUME NEW k \in K
      PROVE  \/ \E x \in A : f[k] = <<"both", x>>
             \/ \E x \in B : f[k] = <<"ours", x>>
             \/ \E x \in C : f[k] = <<"theirs", x>>
  <2> DEFINE a == place[k][1]
  <2>1. Origin(flat, o, opsO, t, opsT, a, Plain(s), f[k], AllOps)
    BY <1>4
  <2> HIDE DEF a
  <2>2. CASE /\ f[k] = <<"both", a>> /\ a \in 1..Len(flat) /\ Plain(s) = Plain(flat[a].text)
             /\ Change(opsO, a).type = "equal" /\ Change(opsT, a).type = "equal"
    <3>1. a \in DOMAIN flat
      BY <2>2, TableFacts DEF AlignsSide
    <3>2. flat[a].text = s
      BY <2>2, PlainSame
    <3>3. a \in A
      BY <2>2, <3>1, <3>2 DEF KeptByBoth
    <3> QED
      BY <2>2, <3>3
  <2>3. CASE \E m \in DOMAIN opsO : /\ f[k] = <<"ours", m>> /\ opsO[m].type \in {"edited", "insert"}
                                    /\ Plain(s) = Plain(o[opsO[m].new])
    <3>1. PICK m \in DOMAIN opsO : /\ f[k] = <<"ours", m>> /\ opsO[m].type \in {"edited", "insert"}
                                   /\ Plain(s) = Plain(o[opsO[m].new])
      BY <2>3
    <3>2. o[opsO[m].new] = s
      BY <3>1, PlainSame
    <3>3. m \in B
      BY <3>1, <3>2 DEF Wrote
    <3> QED
      BY <3>1, <3>3
  <2>4. CASE \E m \in DOMAIN opsT : /\ f[k] = <<"theirs", m>> /\ opsT[m].type \in {"edited", "insert"}
                                    /\ Plain(s) = Plain(t[opsT[m].new])
    <3>1. PICK m \in DOMAIN opsT : /\ f[k] = <<"theirs", m>> /\ opsT[m].type \in {"edited", "insert"}
                                   /\ Plain(s) = Plain(t[opsT[m].new])
      BY <2>4
    <3>2. t[opsT[m].new] = s
      BY <3>1, PlainSame
    <3>3. m \in C
      BY <3>1, <3>2 DEF Wrote
    <3> QED
      BY <3>1, <3>3
  <2>5. \/ /\ f[k] = <<"both", a>> /\ a \in 1..Len(flat) /\ Plain(s) = Plain(flat[a].text)
           /\ Change(opsO, a).type = "equal" /\ Change(opsT, a).type = "equal"
        \/ \E m \in DOMAIN opsO : /\ f[k] = <<"ours", m>> /\ opsO[m].type \in {"edited", "insert"}
                                  /\ Plain(s) = Plain(o[opsO[m].new])
        \/ \E m \in DOMAIN opsT : /\ f[k] = <<"theirs", m>> /\ opsT[m].type \in {"edited", "insert"}
                                  /\ Plain(s) = Plain(t[opsT[m].new])
    BY <2>1 DEF Origin
  <2> QED
    BY <2>2, <2>3, <2>4, <2>5
<1>7. IsFiniteSet(A) /\ IsFiniteSet(B) /\ IsFiniteSet(C)
  <2>1. Table(flat) /\ Table(opsO) /\ Table(opsT)
    BY DEF AlignsSide, Covers
  <2>2. IsFiniteSet(DOMAIN flat) /\ IsFiniteSet(DOMAIN opsO) /\ IsFiniteSet(DOMAIN opsT)
    BY <2>1, TableFinite
  <2>3. A \in SUBSET DOMAIN flat /\ B \in SUBSET DOMAIN opsO /\ C \in SUBSET DOMAIN opsT
    BY DEF KeptByBoth, Wrote
  <2> HIDE DEF A, B, C
  <2> QED
    BY <2>2, <2>3, FS_Subset
<1> HIDE DEF A, B, C
<1>8. Cardinality(K) <= Cardinality(A) + Cardinality(B) + Cardinality(C)
  <2>1. \A k \in K : \/ \E x \in A : f[k] = <<"both", x>>
                     \/ \E x \in B : f[k] = <<"ours", x>>
                     \/ \E x \in C : f[k] = <<"theirs", x>>
    BY <1>6
  <2>3. FromThree(K, f, A, B, C, "both", "ours", "theirs")
    BY <2>1 DEF FromThree
  <2>2. \A k, l \in K : f[k] = f[l] => k = l
    BY <1>5
  <2> QED
    BY <2>3, <2>2, <1>7, ThreeSources
<1> QED
  BY <1>8 DEF K, A, B, C, slots

\* What one side deleted or rewrote does not come back.
LEMMA NothingComesBack ==
    ASSUME TypeOK
    PROVE  NothingResurrected
<1> DEFINE flat == Flat(base)
           opsO == Alignment[BaseTexts][ours]
           opsT == Alignment[BaseTexts][theirs]
           slots == SlotsOf(flat, ours, opsO, theirs, opsT)
           both(s) == {a \in DOMAIN BaseTexts :
                          /\ BaseTexts[a] = s
                          /\ Change(opsO, a).type = "equal" /\ Change(opsT, a).type = "equal"}
<1>1. Merged = slots
  BY DEF Slots, BaseTexts, Merged
<1>2. AlignsSide(flat, ours, opsO) /\ AlignsSide(flat, theirs, opsT)
  BY SidesAlign DEF TypeOK
<1>3. DOMAIN BaseTexts = DOMAIN flat /\ \A k \in DOMAIN flat : flat[k].text = BaseTexts[k]
  BY BaseIsSide DEF BaseTexts, Texts
<1>4. NothingResurrected <=>
         \A s \in Sentence :
            Times(s, Merged) <= Cardinality(both(s)) + Cardinality(Wrote(opsO, ours, s))
                                   + Cardinality(Wrote(opsT, theirs, s))
  BY DEF NothingResurrected, Wrote
<1> HIDE DEF opsO, opsT
<1>5. \A s : both(s) = KeptByBoth(flat, opsO, opsT, s)
  BY <1>3 DEF KeptByBoth
<1> HIDE DEF flat, both
<1>6. ASSUME NEW s \in Sentence
      PROVE  Times(s, slots) <= Cardinality(both(s)) + Cardinality(Wrote(opsO, ours, s))
                                   + Cardinality(Wrote(opsT, theirs, s))
  <2>1. Times(s, slots) <= Cardinality(KeptByBoth(flat, opsO, opsT, s))
                              + Cardinality(Wrote(opsO, ours, s)) + Cardinality(Wrote(opsT, theirs, s))
    BY <1>2, TimesBounded DEF Times
  <2> QED
    BY <1>5, <2>1
<1> HIDE DEF slots
<1> QED
  BY <1>1, <1>4, <1>6

\* A merge treats its two writers alike, loses nothing they wrote and brings nothing back.
THEOREM MergesKeepBothSides == ProseSpec => []MergeKeepsBothSides
<1>1. TypeOK => MergeKeepsBothSides
  BY Symmetric, NothingIsDropped, NothingComesBack DEF MergeKeepsBothSides
<1> QED
  BY <1>1, VersionsAreDocuments, PTL

-----------------------------------------------------------------------------
(* A version within another one: its sentences are all equal.              *)

\* Two ops have no sentence in common.
LEMMA OpsApart ==
    ASSUME NEW old, NEW new, NEW ops, NEW i \in Nat, NEW j \in Nat, Covers(old, new, ops, 0, 0, i, j),
           NEW k \in DOMAIN ops, NEW l \in DOMAIN ops
    PROVE  /\ ops[k].old = ops[l].old /\ ops[k].old # 0 => k = l
           /\ ops[k].new = ops[l].new /\ ops[k].new # 0 => k = l
<1>1. Len(ops) \in Nat /\ DOMAIN ops = 1..Len(ops)
  BY TableFacts DEF Covers
<1>2. k = l \/ k < l \/ l < k
  BY <1>1
<1>3. k # l => InTurn(ops[k], ops[l]) \/ InTurn(ops[l], ops[k])
  BY <1>2 DEF Covers
<1>4. ops[k].old \in {0} \cup (0 + 1..i)
  <2>1. IsOp(old, new, ops[k], 0, 0, i, j)
    BY DEF Covers
  <2> QED
    BY <2>1, OpRange
<1>5. ~(ops[k].old < ops[k].old)
  BY <1>4
<1> QED
  BY <1>3, <1>5 DEF InTurn

\* Sentences that agree at a distance d are a matching, so as many ops are equal.
LEMMA Diagonal ==
    ASSUME NEW old \in Seq(Sentence), NEW new \in Seq(Sentence), NEW d \in Nat,
           Len(old) + d <= Len(new), \A i \in 1..Len(old) : SameHash(old, new, i, i + d)
    PROVE  Len(old) <= Cardinality(Equals(Align(old, new)))
<1> DEFINE n == Len(old)
           pair == [i \in 1..n |-> <<i, i + d>>]
           match == {pair[i] : i \in 1..n}
<1>1. n \in Nat /\ Len(new) \in Nat /\ DOMAIN old = 1..n /\ DOMAIN new = 1..Len(new)
  BY Bounds
<1>2. \A i \in 1..n : pair[i] = <<i, i + d>> /\ pair[i][1] = i /\ pair[i][2] = i + d
  OBVIOUS
<1>3. \A i \in 1..n : SameHash(old, new, i, i + d) /\ i + d \in 1..Len(new)
  BY <1>1
<1> HIDE DEF n, pair
<1>4. match \in SUBSET Pairs(old, new)
  <2>1. ASSUME NEW i \in 1..n PROVE pair[i] \in Pairs(old, new)
    <3>1. <<i, i + d>> \in (DOMAIN old) \X (DOMAIN new)
      BY <1>1, <1>3
    <3> QED
      BY <1>2, <1>3, <3>1 DEF Pairs
  <2> QED
    BY <2>1
<1>5. InOrder(match)
  <2>1. ASSUME NEW i \in 1..n, NEW j \in 1..n
        PROVE  \/ pair[i] = pair[j]
               \/ pair[i][1] < pair[j][1] /\ pair[i][2] < pair[j][2]
               \/ pair[j][1] < pair[i][1] /\ pair[j][2] < pair[i][2]
    <3>1. i = j \/ (i < j /\ i + d < j + d) \/ (j < i /\ j + d < i + d)
      BY <1>1
    <3> QED
      BY <1>2, <3>1
  <2> QED
    BY <2>1 DEF InOrder
<1>6. \A p \in match : p[1] <= Len(old) /\ p[2] <= Len(new)
  <2>1. ASSUME NEW i \in 1..n PROVE i <= n /\ i + d <= Len(new)
    BY <1>1, <1>3
  <2> QED
    BY <1>2, <2>1 DEF n
<1>7. match \in Matchings(old, new, Len(old), Len(new))
  BY <1>4, <1>5, <1>6 DEF Matchings
<1>8. Cardinality(1..n) = Cardinality(match) /\ Cardinality(1..n) = n
  <2>1. IsFiniteSet(match)
    BY <1>4, PairsFacts, FS_Subset
  <2>2. /\ \A i \in 1..n : pair[i] \in match
        /\ \A i, j \in 1..n : pair[i] = pair[j] => i = j
        /\ \A p \in match : \E i \in 1..n : pair[i] = p
    BY <1>2
  <2> HIDE DEF match
  <2>3. Cardinality(1..n) = Cardinality(match)
    BY <2>1, <2>2, Matched
  <2> QED
    BY <1>1, <2>3, FS_Interval
<1> HIDE DEF match
<1>9. /\ Cardinality(match) <= LcsTable(old, new)[<<Len(old), Len(new)>>]
      /\ LcsTable(old, new)[<<Len(old), Len(new)>>] \in Nat
  <2>1. Len(old) \in 0..Len(old) /\ Len(new) \in 0..Len(new)
    BY <1>1 DEF n
  <2> QED
    BY <1>7, <2>1, MatchingBound, LcsIsNat
<1>10. /\ LcsTable(old, new)[<<Len(old), Len(new)>>] <= Cardinality(Equals(Align(old, new)))
       /\ Cardinality(Equals(Align(old, new))) \in Nat
  <2>1. Table(Align(old, new))
    BY AlignCovers DEF Covers
  <2> QED
    BY <2>1, AlignCovers, EqualsFinite
<1>11. n <= Cardinality(Equals(Align(old, new)))
  BY <1>1, <1>8, <1>9, <1>10
<1> QED
  BY <1>11 DEF n

LEMMA EqualsAre ==
    ASSUME NEW old, NEW new, NEW ops, NEW i \in Nat, NEW j \in Nat, Covers(old, new, ops, 0, 0, i, j),
           NEW k \in Equals(ops)
    PROVE  /\ k \in DOMAIN ops /\ ops[k].type = "equal" /\ ops[k].old \in 1..i /\ ops[k].new \in 1..j
           /\ SameHash(old, new, ops[k].old, ops[k].new)
<1>1. k \in DOMAIN ops /\ ops[k].type = "equal"
  BY DEF Equals
<1>2. IsOp(old, new, ops[k], 0, 0, i, j)
  BY <1>1 DEF Covers
<1>3. ops[k].old \in 0 + 1..i /\ ops[k].new \in 0 + 1..j /\ SameHash(old, new, ops[k].old, ops[k].new)
  BY <1>1, <1>2 DEF IsOp
<1> QED
  BY <1>1, <1>3

\* As many equal ops as old sentences: every op of an old sentence is one.
LEMMA AllKept ==
    ASSUME NEW old, NEW new, NEW ops, NEW i \in Nat, NEW j \in Nat, Covers(old, new, ops, 0, 0, i, j),
           i <= Cardinality(Equals(ops)), NEW k \in DOMAIN ops, ops[k].old # 0
    PROVE  ops[k].type = "equal"
<1> DEFINE E == Equals(ops)
           f == [x \in DOMAIN ops |-> ops[x].old]
<1>1. \A x \in E : x \in DOMAIN ops /\ ops[x].type = "equal" /\ ops[x].old \in 1..i /\ ops[x].old # 0
  <2>1. ASSUME NEW x \in E
        PROVE  x \in DOMAIN ops /\ ops[x].type = "equal" /\ ops[x].old \in 1..i
    BY EqualsAre
  <2> QED
    BY <2>1
<1>2. \A x \in DOMAIN ops : f[x] = ops[x].old
  OBVIOUS
<1> HIDE DEF E, f
<1>3. \A x, y \in E : f[x] = f[y] => x = y
  BY <1>1, <1>2, OpsApart
<1>4. \A x \in E : f[x] \in 1..i
  BY <1>1, <1>2
<1>5. \A a \in 1..i : \E x \in E : f[x] = a
  BY <1>3, <1>4, Filled DEF E
<1>6. ops[k].old \in 1..i
  <2>1. IsOp(old, new, ops[k], 0, 0, i, j)
    BY DEF Covers
  <2>2. ops[k].old \in {0} \cup (0 + 1..i)
    BY <2>1, OpRange
  <2> QED
    BY <2>2
<1>7. PICK x \in E : ops[x].old = ops[k].old
  BY <1>1, <1>2, <1>5, <1>6
<1>8. x = k
  BY <1>1, <1>7, OpsApart
<1> QED
  BY <1>1, <1>8

\* As many equal ops as new sentences: every op of a new sentence is one.
LEMMA NoneAdded ==
    ASSUME NEW old, NEW new, NEW ops, NEW i \in Nat, NEW j \in Nat, Covers(old, new, ops, 0, 0, i, j),
           j <= Cardinality(Equals(ops)), NEW k \in DOMAIN ops, ops[k].new # 0
    PROVE  ops[k].type = "equal"
<1> DEFINE E == Equals(ops)
           f == [x \in DOMAIN ops |-> ops[x].new]
<1>1. \A x \in E : x \in DOMAIN ops /\ ops[x].type = "equal" /\ ops[x].new \in 1..j /\ ops[x].new # 0
  <2>1. ASSUME NEW x \in E
        PROVE  x \in DOMAIN ops /\ ops[x].type = "equal" /\ ops[x].new \in 1..j
    BY EqualsAre
  <2> QED
    BY <2>1
<1>2. \A x \in DOMAIN ops : f[x] = ops[x].new
  OBVIOUS
<1> HIDE DEF E, f
<1>3. \A x, y \in E : f[x] = f[y] => x = y
  BY <1>1, <1>2, OpsApart
<1>4. \A x \in E : f[x] \in 1..j
  BY <1>1, <1>2
<1>5. \A a \in 1..j : \E x \in E : f[x] = a
  BY <1>3, <1>4, Filled DEF E
<1>6. ops[k].new \in 1..j
  <2>1. IsOp(old, new, ops[k], 0, 0, i, j)
    BY DEF Covers
  <2>2. ops[k].new \in {0} \cup (0 + 1..j)
    BY <2>1, OpRange
  <2> QED
    BY <2>2
<1>7. PICK x \in E : ops[x].new = ops[k].new
  BY <1>1, <1>2, <1>5, <1>6
<1>8. x = k
  BY <1>1, <1>7, OpsApart
<1> QED
  BY <1>1, <1>8

\* A version aligned with itself: every op is equal.
LEMMA SelfAligned ==
    ASSUME NEW old \in Seq(Sentence), NEW k \in DOMAIN Align(old, old)
    PROVE  Align(old, old)[k].type = "equal"
<1> DEFINE ops == Align(old, old)
           n == Len(old)
<1>1. n \in Nat /\ Covers(old, old, ops, 0, 0, n, n)
  BY Bounds, AlignCovers
<1>2. n <= Cardinality(Equals(ops))
  <2>1. \A i \in 1..Len(old) : SameHash(old, old, i, i + 0)
    BY <1>1 DEF SameHash
  <2>2. Len(old) + 0 <= Len(old) /\ 0 \in Nat
    BY <1>1
  <2> QED
    BY <2>1, <2>2, Diagonal
<1> HIDE DEF ops, n
<1>3. k \in DOMAIN ops
  BY DEF ops
<1>4. IsOp(old, old, ops[k], 0, 0, n, n)
  BY <1>1, <1>3 DEF Covers
<1>5. CASE ops[k].old # 0
  BY <1>1, <1>2, <1>3, <1>5, AllKept DEF ops
<1>6. CASE ops[k].old = 0
  <2>1. ops[k].new # 0
    BY <1>1, <1>4, <1>6 DEF IsOp
  <2> QED
    BY <1>1, <1>2, <1>3, <2>1, NoneAdded DEF ops
<1> QED
  BY <1>5, <1>6

-----------------------------------------------------------------------------
(* The merge with an unchanged side.                                       *)

\* The ops, of these types, that put a sentence of their side at base sentence a.
TakenAt(ops, a, types) ==
    {m \in DOMAIN ops : ops[m].new # 0 /\ ops[m].type \in types /\ WhereOf(ops, m) = a}

\* The slots of `row` hold the sentences of these ops, as far as the hash tells.
Takes(ops, side, a, row, src, types) ==
    /\ \A i \in DOMAIN row :
          /\ src[i] \in TakenAt(ops, a, types) /\ row[i].kind = "text"
          /\ Hash[row[i].text] = Hash[side[ops[src[i]].new]]
    /\ \A m \in TakenAt(ops, a, types) : \E i \in DOMAIN row : src[i] = m
    /\ \A i, j \in DOMAIN row : src[i] = src[j] => i = j

\* A side without inserts adds nothing to a gap.
LEMMA NothingInserted ==
    ASSUME NEW ops, Table(ops), \A m \in DOMAIN ops : ops[m].type = "equal", NEW side, NEW a
    PROVE  Inserted(ops, side, a) = <<>>
<1>1. InsertsAt(ops, a) = {}
  BY DEF InsertsAt
<1>2. PICK at : Picks(Inserted(ops, side, a), InsertsAt(ops, a), WordsOf(ops, side), at)
  BY InsertedIs
<1>3. Table(Inserted(ops, side, a)) /\ DOMAIN Inserted(ops, side, a) = {}
  BY <1>1, <1>2 DEF Picks
<1> QED
  BY <1>3, EmptyTable

LEMMA GapTakes ==
    ASSUME NEW flat, NEW o, NEW opsO, AlignsSide(flat, o, opsO),
           NEW t, NEW opsT, AlignsSide(flat, t, opsT), NEW a, Inserted(opsT, t, a) = <<>>
    PROVE  \E src : Takes(opsO, o, a, GapOf(flat, o, opsO, t, opsT, a), src, {"insert"})
<1> DEFINE x == Inserted(opsO, o, a)
           y == Inserted(opsT, t, a)
           row == Plains(x)
           D == InsertsAt(opsO, a)
<1>1. Table(opsO) /\ Table(x) /\ Table(y) /\ y = <<>>
  BY InsertedTable
<1>2. PICK at : Picks(x, D, WordsOf(opsO, o), at)
  BY <1>1, InsertedIs
<1>3. GapOf(flat, o, opsO, t, opsT, a) = row
  <2>1. GapOf(flat, o, opsO, t, opsT, a) = GapSlots(a, x, y)
    BY DEF GapOf
  <2> QED
    BY <1>1, <2>1, GapSlotsIs
<1> HIDE DEF x, y
<1>4. DOMAIN row = DOMAIN x /\ \A i \in DOMAIN x : row[i] = Plain(x[i])
  BY <1>1, PlainsOf
<1>5. \A m \in DOMAIN opsO : opsO[m].type = "insert" => opsO[m].new # 0
  <2>1. PICK old \in Seq(Sentence) : Covers(old, o, opsO, 0, 0, Len(old), Len(o))
    BY DEF AlignsSide
  <2>2. ASSUME NEW m \in DOMAIN opsO, opsO[m].type = "insert" PROVE opsO[m].new # 0
    <3>1. IsOp(old, o, opsO[m], 0, 0, Len(old), Len(o))
      BY <2>1 DEF Covers
    <3>2. opsO[m].new \in 0 + 1..Len(o) /\ Len(o) \in Nat
      BY <2>2, <3>1, LenProperties DEF IsOp, AlignsSide
    <3> QED
      BY <3>2
  <2> QED
    BY <2>2
<1>6. TakenAt(opsO, a, {"insert"}) = D
  BY <1>5 DEF TakenAt, InsertsAt, WhereOf
<1>7. D \subseteq Int
  <2>1. DOMAIN opsO = 1..Len(opsO) /\ Len(opsO) \in Nat
    BY <1>1, TableFacts
  <2> QED
    BY <2>1 DEF InsertsAt
<1> HIDE DEF row, D
<1>8. ASSUME NEW i \in DOMAIN row
      PROVE  at[i] \in D /\ row[i].kind = "text" /\ row[i].text = o[opsO[at[i]].new]
  <2>1. at[i] \in D /\ x[i] = WordsOf(opsO, o)[at[i]] /\ row[i] = Plain(x[i])
    BY <1>2, <1>4 DEF Picks
  <2>2. x[i] = o[opsO[at[i]].new]
    BY <2>1 DEF D, InsertsAt, WordsOf
  <2> QED
    BY <2>1, <2>2, PlainIs
<1>9. \A i, j \in DOMAIN row : at[i] = at[j] => i = j
  <2>1. Picks(x, InsertsAt(opsO, a), WordsOf(opsO, o), at) /\ InsertsAt(opsO, a) \subseteq Int
    BY <1>2, <1>7 DEF D
  <2>2. ASSUME NEW i \in DOMAIN x, NEW j \in DOMAIN x, at[i] = at[j] PROVE i = j
    BY <1>1, <2>1, <2>2, PicksOnce
  <2> QED
    BY <1>4, <2>2
<1>10. \A m \in D : \E i \in DOMAIN row : at[i] = m
  BY <1>2, <1>4 DEF Picks
<1>11. Takes(opsO, o, a, row, at, {"insert"})
  BY <1>6, <1>8, <1>9, <1>10 DEF Takes
<1> QED
  BY <1>3, <1>11

LEMMA BaseTakes ==
    ASSUME NEW flat, NEW o, NEW opsO, AlignsSide(flat, o, opsO),
           NEW t, NEW opsT, AlignsSide(flat, t, opsT), \A m \in DOMAIN opsT : opsT[m].type = "equal",
           NEW a \in 1..Len(flat) + 1
    PROVE  \E src : Takes(opsO, o, a, BaseOf(flat, o, opsO, t, opsT, a), src, {"equal", "edited"})
<1> DEFINE x == SideChange(opsO, o, a)
           y == SideChange(opsT, t, a)
           rest == BaseOf(flat, o, opsO, t, opsT, a)
           Taken == TakenAt(opsO, a, {"equal", "edited"})
<1> SUFFICES \E src : Takes(opsO, o, a, rest, src, {"equal", "edited"})
  OBVIOUS
<1>1. PICK old \in Seq(Sentence) :
         /\ Len(old) = Len(flat) /\ \A k \in DOMAIN flat : flat[k].text = old[k]
         /\ Covers(old, o, opsO, 0, 0, Len(old), Len(o))
  BY DEF AlignsSide
<1>2. Len(flat) \in Nat /\ DOMAIN flat = 1..Len(flat) /\ Len(o) \in Nat
  BY TableFacts, LenProperties DEF AlignsSide
<1>3. Taken = {m \in DOMAIN opsO : opsO[m].new # 0 /\ opsO[m].type \in {"equal", "edited"} /\ opsO[m].old = a}
  BY DEF TakenAt, WhereOf
<1>4. ASSUME Taken = {}, rest = <<>>
      PROVE  \E src : Takes(opsO, o, a, rest, src, {"equal", "edited"})
  <2>1. Takes(opsO, o, a, <<>>, <<>>, {"equal", "edited"})
    BY <1>4, NoRow DEF Takes
  <2> QED
    BY <1>4, <2>1
<1>5. CASE a > Len(flat)
  <2>1. rest = <<>>
    BY <1>5 DEF BaseOf
  <2>2. ASSUME NEW m \in Taken PROVE FALSE
    <3>1. m \in DOMAIN opsO /\ opsO[m].type \in {"equal", "edited"} /\ opsO[m].old = a
      BY <1>3
    <3>2. IsOp(old, o, opsO[m], 0, 0, Len(old), Len(o))
      BY <1>1, <3>1 DEF Covers
    <3>3. opsO[m].old \in 0 + 1..Len(old)
      BY <3>1, <3>2 DEF IsOp
    <3> QED
      BY <1>1, <1>2, <1>5, <3>1, <3>3
  <2> HIDE DEF rest, Taken
  <2> QED
    BY <1>4, <2>1, <2>2
<1>6. CASE ~(a > Len(flat))
  <2> DEFINE text == flat[a].text
  <2>1. a \in 1..Len(flat)
    BY <1>2, <1>6
  <2>2. rest = BaseSlots(a, text, x, y)
    BY <1>6 DEF BaseOf
  <2>3. PICK m \in DOMAIN opsO :
           /\ Change(opsO, a) = opsO[m] /\ opsO[m].old = a
           /\ \A l \in DOMAIN opsO : opsO[l].old = a => l = m
           /\ opsO[m].type \in {"equal", "edited", "delete"}
    BY <2>1, ChangeIs
  <2>4. PICK l \in DOMAIN opsT : Change(opsT, a) = opsT[l] /\ opsT[l].old = a
    BY <2>1, ChangeIs
  <2>5. /\ x.type = opsO[m].type /\ Table(x.text)
        /\ \/ x.type = "delete" /\ x.text = <<>>
           \/ x.type # "delete" /\ x.text = <<o[opsO[m].new]>>
    BY <2>1, <2>3, SideChangeIs
  <2>6. y.type = "equal" /\ Table(y.text)
    BY <2>1, <2>4, SideChangeIs
  <2>7. IsOp(old, o, opsO[m], 0, 0, Len(old), Len(o))
    BY <1>1 DEF Covers
  <2>8. \A k \in Taken : k = m
    BY <1>3, <2>3
  <2>9. Taken \subseteq {m}
    BY <2>8
  <2>14. \/ rest = <<Plain(text)>> /\ x.type = "equal"
         \/ rest = Plains(x.text) /\ x.type # "equal"
    BY <2>2, <2>5, <2>6, BaseSlotsIs
  <2> HIDE DEF x, y, rest, Taken
  <2>10. ASSUME NEW s, rest = <<Plain(s)>>, Hash[s] = Hash[o[opsO[m].new]], m \in Taken
         PROVE  \E src : Takes(opsO, o, a, rest, src, {"equal", "edited"})
    <3> DEFINE src == [i \in {1} |-> m]
    <3>1. DOMAIN rest = {1} /\ rest[1] = Plain(s)
      BY <2>10, OneRow
    <3>2. src[1] = m
      OBVIOUS
    <3>3. rest[1].kind = "text" /\ rest[1].text = s
      BY <3>1, PlainIs
    <3> HIDE DEF src
    <3>4. Takes(opsO, o, a, rest, src, {"equal", "edited"})
      BY <2>8, <2>10, <3>1, <3>2, <3>3 DEF Takes, Taken
    <3> QED
      BY <3>4
  <2>11. CASE opsO[m].type = "equal"
    <3>1. opsO[m].new \in 0 + 1..Len(o) /\ SameHash(old, o, a, opsO[m].new)
      BY <2>3, <2>7, <2>11 DEF IsOp
    <3>2. Hash[text] = Hash[o[opsO[m].new]]
      BY <1>1, <1>2, <2>1, <3>1 DEF SameHash
    <3>3. m \in Taken
      BY <1>2, <1>3, <2>3, <2>11, <3>1
    <3>4. rest = <<Plain(text)>>
      BY <2>5, <2>11, <2>14
    <3> QED
      BY <2>10, <3>2, <3>3, <3>4
  <2>12. CASE opsO[m].type = "edited"
    <3>1. opsO[m].new \in 0 + 1..Len(o)
      BY <2>7, <2>12 DEF IsOp
    <3>2. m \in Taken
      BY <1>2, <1>3, <2>3, <2>12, <3>1
    <3>3. rest = Plains(<<o[opsO[m].new]>>)
      BY <2>5, <2>12, <2>14
    <3>4. rest = <<Plain(o[opsO[m].new])>>
      BY <3>3, PlainsOne
    <3> QED
      BY <2>10, <3>2, <3>4
  <2>13. CASE opsO[m].type = "delete"
    <3>1. m \notin Taken
      BY <1>3, <2>13
    <3>2. rest = Plains(<<>>)
      BY <2>5, <2>13, <2>14
    <3>3. rest = <<>>
      <4>1. Table(Plains(<<>>)) /\ DOMAIN Plains(<<>>) = {}
        BY NoRow, PlainsOf
      <4> QED
        BY <3>2, <4>1, EmptyTable
    <3> QED
      BY <1>4, <2>9, <3>1, <3>3
  <2> QED
    BY <2>3, <2>11, <2>12, <2>13
<1> QED
  BY <1>5, <1>6

LEMMA RowTakes ==
    ASSUME NEW flat, NEW o, NEW opsO, AlignsSide(flat, o, opsO),
           NEW t, NEW opsT, AlignsSide(flat, t, opsT), \A m \in DOMAIN opsT : opsT[m].type = "equal",
           NEW a \in 1..Len(flat) + 1
    PROVE  \E src : Takes(opsO, o, a, SlotsAt(flat, o, opsO, t, opsT, a), src, AllOps)
<1> DEFINE gap == GapOf(flat, o, opsO, t, opsT, a)
           rest == BaseOf(flat, o, opsO, t, opsT, a)
           row == SlotsAt(flat, o, opsO, t, opsT, a)
           n == Len(gap)
           T1 == TakenAt(opsO, a, {"insert"})
           T2 == TakenAt(opsO, a, {"equal", "edited"})
           T == TakenAt(opsO, a, AllOps)
           Is(slot, m) == slot.kind = "text" /\ Hash[slot.text] = Hash[o[opsO[m].new]]
<1> SUFFICES \E src : Takes(opsO, o, a, row, src, AllOps)
  OBVIOUS
<1>1. Table(gap) /\ Table(rest) /\ row = gap \o rest
  BY SlotsAtIs
<1>2. PICK src1 : Takes(opsO, o, a, gap, src1, {"insert"})
  <2>1. Table(opsT)
    BY InsertedTable
  <2>2. Inserted(opsT, t, a) = <<>>
    BY <2>1, NothingInserted
  <2> QED
    BY <2>2, GapTakes
<1>3. PICK src2 : Takes(opsO, o, a, rest, src2, {"equal", "edited"})
  BY BaseTakes
<1>4. /\ \A i \in DOMAIN gap : src1[i] \in T1 /\ Is(gap[i], src1[i])
      /\ \A m \in T1 : \E i \in DOMAIN gap : src1[i] = m
      /\ \A i, j \in DOMAIN gap : src1[i] = src1[j] => i = j
  BY <1>2 DEF Takes
<1>5. /\ \A i \in DOMAIN rest : src2[i] \in T2 /\ Is(rest[i], src2[i])
      /\ \A m \in T2 : \E i \in DOMAIN rest : src2[i] = m
      /\ \A i, j \in DOMAIN rest : src2[i] = src2[j] => i = j
  BY <1>3 DEF Takes
<1>6. T = T1 \cup T2 /\ \A m \in T1 : m \notin T2
  BY DEF TakenAt, AllOps
<1>7. n \in Nat /\ DOMAIN gap = 1..n /\ Len(rest) \in Nat /\ DOMAIN rest = 1..Len(rest)
  BY <1>1, TableFacts
<1>8. /\ \A i \in DOMAIN gap : i \in DOMAIN row /\ row[i] = gap[i]
      /\ \A i \in DOMAIN rest : n + i \in DOMAIN row /\ row[n + i] = rest[i]
      /\ \A k \in DOMAIN row : k \in DOMAIN gap \/ (k - n \in DOMAIN rest /\ k = n + (k - n))
  <2> HIDE DEF gap, rest, row
  <2>1. \A i \in DOMAIN gap : i \in DOMAIN (gap \o rest) /\ (gap \o rest)[i] = gap[i]
    BY <1>1, JoinHolds
  <2>2. \A i \in DOMAIN rest : Len(gap) + i \in DOMAIN (gap \o rest) /\ (gap \o rest)[Len(gap) + i] = rest[i]
    BY <1>1, JoinHolds
  <2>3. \A k \in DOMAIN (gap \o rest) : k \in DOMAIN gap \/ (k - Len(gap) \in DOMAIN rest /\ k = Len(gap) + (k - Len(gap)))
    BY <1>1, JoinHolds
  <2> QED
    BY <1>1, <2>1, <2>2, <2>3 DEF n
<1> DEFINE src == [k \in DOMAIN row |-> IF k \in DOMAIN gap THEN src1[k] ELSE src2[k - n]]
<1> HIDE DEF gap, rest, row, n, T1, T2, T, Is
<1>9. /\ \A i \in DOMAIN gap : src[i] = src1[i]
      /\ \A i \in DOMAIN rest : src[n + i] = src2[i]
  <2>1. ASSUME NEW i \in DOMAIN rest PROVE src[n + i] = src2[i]
    <3>1. n + i \notin DOMAIN gap /\ n + i \in DOMAIN row /\ (n + i) - n = i
      BY <1>7, <1>8
    <3> QED
      BY <3>1
  <2> QED
    BY <1>8, <2>1
<1> HIDE DEF src
<1>10. ASSUME NEW k \in DOMAIN row
       PROVE  \/ k \in DOMAIN gap /\ row[k] = gap[k] /\ src[k] = src1[k]
              \/ k - n \in DOMAIN rest /\ k = n + (k - n) /\ row[k] = rest[k - n] /\ src[k] = src2[k - n]
  <2>1. CASE k \in DOMAIN gap
    BY <1>8, <1>9, <2>1
  <2>2. CASE k - n \in DOMAIN rest /\ k = n + (k - n)
    <3> DEFINE i == k - n
    <3>1. i \in DOMAIN rest /\ k = n + i
      BY <2>2
    <3> HIDE DEF i
    <3>2. row[k] = rest[i] /\ src[k] = src2[i]
      BY <1>8, <1>9, <3>1
    <3> QED
      BY <2>2, <3>2 DEF i
  <2> QED
    BY <1>8, <2>1, <2>2
<1>11. ASSUME NEW k \in DOMAIN row PROVE src[k] \in T /\ Is(row[k], src[k])
  BY <1>4, <1>5, <1>6, <1>10
<1>12. ASSUME NEW m \in T PROVE \E k \in DOMAIN row : src[k] = m
  <2>1. CASE m \in T1
    <3>1. PICK i \in DOMAIN gap : src1[i] = m
      BY <1>4, <2>1
    <3> QED
      BY <1>8, <1>9, <3>1
  <2>2. CASE m \in T2
    <3>1. PICK i \in DOMAIN rest : src2[i] = m
      BY <1>5, <2>2
    <3>2. n + i \in DOMAIN row /\ src[n + i] = m
      BY <1>8, <1>9, <3>1
    <3> QED
      BY <3>2
  <2> QED
    BY <1>6, <2>1, <2>2
<1>13. ASSUME NEW k \in DOMAIN row, NEW l \in DOMAIN row, src[k] = src[l] PROVE k = l
  <2>1. CASE k \in DOMAIN gap /\ src[k] = src1[k]
    <3>1. src[l] \notin T2
      BY <1>4, <1>6, <1>13, <2>1
    <3>2. l \in DOMAIN gap /\ src[l] = src1[l]
      BY <1>5, <1>10, <3>1
    <3> QED
      BY <1>4, <1>13, <2>1, <3>2
  <2>2. CASE k - n \in DOMAIN rest /\ k = n + (k - n) /\ src[k] = src2[k - n]
    <3>1. src[l] \in T2
      BY <1>5, <1>13, <2>2
    <3>2. l - n \in DOMAIN rest /\ l = n + (l - n) /\ src[l] = src2[l - n]
      BY <1>4, <1>6, <1>10, <3>1
    <3>3. k - n = l - n
      BY <1>5, <1>13, <2>2, <3>2
    <3> QED
      BY <2>2, <3>2, <3>3
  <2> QED
    BY <1>10, <2>1, <2>2
<1>14. Takes(opsO, o, a, row, src, AllOps)
  BY <1>11, <1>12, <1>13 DEF Takes, T, Is
<1> QED
  BY <1>14

\* The ops of a side with a sentence of it.
LEMMA SideOps ==
    ASSUME NEW flat, NEW side, NEW ops, AlignsSide(flat, side, ops)
    PROVE  /\ \A m, l \in DOMAIN ops : ops[m].new = ops[l].new /\ ops[m].new # 0 => m = l
           /\ \A m \in DOMAIN ops : ops[m].new # 0 =>
                 ops[m].new \in DOMAIN side /\ ops[m].type \in AllOps /\ WhereOf(ops, m) \in 1..Len(flat) + 1
           /\ \A j \in DOMAIN side : j # 0 /\ \E m \in DOMAIN ops : ops[m].new = j
<1>1. PICK old \in Seq(Sentence) :
         Len(old) = Len(flat) /\ Covers(old, side, ops, 0, 0, Len(old), Len(side))
  BY DEF AlignsSide
<1>2. Len(flat) \in Nat /\ Len(side) \in Nat /\ DOMAIN side = 1..Len(side)
  BY TableFacts, LenProperties DEF AlignsSide
<1>3. \A m, l \in DOMAIN ops : ops[m].new = ops[l].new /\ ops[m].new # 0 => m = l
  BY <1>1, <1>2, OpsApart
<1>4. ASSUME NEW m \in DOMAIN ops, ops[m].new # 0
      PROVE  ops[m].new \in DOMAIN side /\ ops[m].type \in AllOps /\ WhereOf(ops, m) \in 1..Len(flat) + 1
  <2>1. IsOp(old, side, ops[m], 0, 0, Len(flat), Len(side))
    BY <1>1 DEF Covers
  <2>2. ops[m].new \in 0 + 1..Len(side) /\ ops[m].type \in AllOps
    BY <1>4, <2>1 DEF IsOp, AllOps
  <2>3. CASE ops[m].type = "insert"
    BY <1>2, <2>2, <2>3, AnchorIs DEF WhereOf
  <2>4. CASE ops[m].type # "insert"
    <3>1. ops[m].old \in 0 + 1..Len(flat)
      BY <2>1, <2>4 DEF IsOp
    <3> QED
      BY <1>2, <2>2, <2>4, <3>1 DEF WhereOf
  <2> QED
    BY <2>3, <2>4
<1>5. ASSUME NEW j \in DOMAIN side PROVE j # 0 /\ \E m \in DOMAIN ops : ops[m].new = j
  <2>1. j \in 0 + 1..Len(side) /\ j # 0
    BY <1>2
  <2> QED
    BY <1>1, <2>1 DEF Covers
<1> QED
  BY <1>3, <1>4, <1>5

\* With an unchanged side every slot holds a sentence of ours, each in one slot.
LEMMA OneSidedIs ==
    ASSUME NEW flat, NEW o, NEW opsO, AlignsSide(flat, o, opsO),
           NEW t, NEW opsT, AlignsSide(flat, t, opsT), \A m \in DOMAIN opsT : opsT[m].type = "equal"
    PROVE  LET slots == SlotsOf(flat, o, opsO, t, opsT) IN
           \E g : /\ \A k \in DOMAIN slots : /\ g[k] \in DOMAIN o /\ slots[k].slot.kind = "text"
                                             /\ Hash[slots[k].slot.text] = Hash[o[g[k]]]
                  /\ \A j \in DOMAIN o : \E k \in DOMAIN slots : g[k] = j
                  /\ \A k, l \in DOMAIN slots : g[k] = g[l] => k = l
<1> DEFINE slots == SlotsOf(flat, o, opsO, t, opsT)
           n == Len(flat) + 1
           at == [a \in 1..n |-> SlotsAt(flat, o, opsO, t, opsT, a)]
           src == [a \in 1..n |-> CHOOSE q : Takes(opsO, o, a, at[a], q, AllOps)]
<1>1. \E place :
         /\ \A k \in DOMAIN slots :
               /\ place[k][1] \in 1..n /\ place[k][2] \in DOMAIN at[place[k][1]]
               /\ slots[k].slot = at[place[k][1]][place[k][2]]
         /\ \A a \in 1..n : \A i \in DOMAIN at[a] :
               \E k \in DOMAIN slots : place[k][1] = a /\ place[k][2] = i
         /\ \A k, l \in DOMAIN slots :
               place[k][1] = place[l][1] /\ place[k][2] = place[l][2] => k = l
  BY SlotsPlaced
<1>2. ASSUME NEW a \in 1..n PROVE Takes(opsO, o, a, at[a], src[a], AllOps)
  <2>1. \E q : Takes(opsO, o, a, at[a], q, AllOps)
    BY RowTakes
  <2> HIDE DEF at
  <2>2. src[a] = CHOOSE q : Takes(opsO, o, a, at[a], q, AllOps)
    OBVIOUS
  <2> HIDE DEF src
  <2> QED
    BY <2>1, <2>2
<1> SUFFICES \E g : /\ \A k \in DOMAIN slots : /\ g[k] \in DOMAIN o /\ slots[k].slot.kind = "text"
                                               /\ Hash[slots[k].slot.text] = Hash[o[g[k]]]
                    /\ \A j \in DOMAIN o : \E k \in DOMAIN slots : g[k] = j
                    /\ \A k, l \in DOMAIN slots : g[k] = g[l] => k = l
  OBVIOUS
<1> HIDE DEF slots, at, src, n
<1>3. PICK place :
         /\ \A k \in DOMAIN slots :
               /\ place[k][1] \in 1..n /\ place[k][2] \in DOMAIN at[place[k][1]]
               /\ slots[k].slot = at[place[k][1]][place[k][2]]
         /\ \A a \in 1..n : \A i \in DOMAIN at[a] :
               \E k \in DOMAIN slots : place[k][1] = a /\ place[k][2] = i
         /\ \A k, l \in DOMAIN slots :
               place[k][1] = place[l][1] /\ place[k][2] = place[l][2] => k = l
  BY <1>1
<1> DEFINE w == [k \in DOMAIN slots |-> src[place[k][1]][place[k][2]]]
           g == [k \in DOMAIN slots |-> opsO[w[k]].new]
<1>4. \A k \in DOMAIN slots : w[k] = src[place[k][1]][place[k][2]] /\ g[k] = opsO[w[k]].new
  OBVIOUS
<1> HIDE DEF w, g
<1>5. ASSUME NEW a \in 1..n, NEW i \in DOMAIN at[a]
      PROVE  /\ src[a][i] \in DOMAIN opsO /\ opsO[src[a][i]].new # 0 /\ WhereOf(opsO, src[a][i]) = a
             /\ at[a][i].kind = "text" /\ Hash[at[a][i].text] = Hash[o[opsO[src[a][i]].new]]
  BY <1>2 DEF Takes, TakenAt
<1>6. ASSUME NEW k \in DOMAIN slots
      PROVE  /\ w[k] \in DOMAIN opsO /\ opsO[w[k]].new # 0 /\ WhereOf(opsO, w[k]) = place[k][1]
             /\ g[k] \in DOMAIN o /\ slots[k].slot.kind = "text"
             /\ Hash[slots[k].slot.text] = Hash[o[g[k]]]
  <2> DEFINE a == place[k][1]
             i == place[k][2]
  <2>1. a \in 1..n /\ i \in DOMAIN at[a] /\ slots[k].slot = at[a][i] /\ w[k] = src[a][i] /\ g[k] = opsO[w[k]].new
    BY <1>3, <1>4
  <2> HIDE DEF a, i
  <2>2. /\ w[k] \in DOMAIN opsO /\ opsO[w[k]].new # 0 /\ WhereOf(opsO, w[k]) = a
        /\ slots[k].slot.kind = "text" /\ Hash[slots[k].slot.text] = Hash[o[g[k]]]
    BY <1>5, <2>1
  <2>3. g[k] \in DOMAIN o
    BY <2>1, <2>2, SideOps
  <2> QED
    BY <2>2, <2>3 DEF a
<1>7. ASSUME NEW j \in DOMAIN o PROVE \E k \in DOMAIN slots : g[k] = j
  <2>1. PICK m \in DOMAIN opsO : opsO[m].new = j /\ opsO[m].new # 0
    BY SideOps
  <2> DEFINE a == WhereOf(opsO, m)
  <2>2. a \in 1..n /\ opsO[m].type \in AllOps
    BY <2>1, SideOps DEF n
  <2>3. m \in TakenAt(opsO, a, AllOps)
    BY <2>1, <2>2 DEF TakenAt
  <2> HIDE DEF a
  <2>4. PICK i \in DOMAIN at[a] : src[a][i] = m
    BY <1>2, <2>2, <2>3 DEF Takes
  <2>5. PICK k \in DOMAIN slots : place[k][1] = a /\ place[k][2] = i
    BY <1>3, <2>2
  <2>6. g[k] = j
    BY <1>4, <2>1, <2>4, <2>5
  <2> QED
    BY <2>6
<1>8. ASSUME NEW k \in DOMAIN slots, NEW l \in DOMAIN slots, g[k] = g[l] PROVE k = l
  <2>1. w[k] \in DOMAIN opsO /\ w[l] \in DOMAIN opsO /\ opsO[w[k]].new = opsO[w[l]].new /\ opsO[w[k]].new # 0
    BY <1>4, <1>6, <1>8
  <2>2. w[k] = w[l]
    BY <2>1, SideOps
  <2> DEFINE a == place[k][1]
             i == place[k][2]
             j == place[l][2]
  <2>3. a = place[l][1]
    BY <1>6, <2>2
  <2>4. a \in 1..n /\ i \in DOMAIN at[a] /\ j \in DOMAIN at[a] /\ src[a][i] = src[a][j]
    BY <1>3, <1>4, <2>2, <2>3
  <2> HIDE DEF a, i, j
  <2>5. i = j
    BY <1>2, <2>4 DEF Takes
  <2> QED
    BY <1>3, <2>3, <2>5 DEF a, i, j
<1> QED
  BY <1>6, <1>7, <1>8

\* Against an unchanged side the merge is clean and has our sentences, as far as the hash
\* tells them apart.
THEOREM OneSidedMergesAreOurs == ProseSpec => []OneSidedMergeHasOurWords
<1>1. ASSUME TypeOK, theirs = BaseTexts PROVE OneSidedMergeHasOurWords
  <2> DEFINE flat == Flat(base)
             opsO == Alignment[BaseTexts][ours]
             opsT == Alignment[BaseTexts][theirs]
             slots == SlotsOf(flat, ours, opsO, theirs, opsT)
             keep == [k \in DOMAIN slots |-> IF slots[k].slot.kind = "conflict" THEN <<slots[k]>> ELSE <<>>]
             K(h) == {k \in DOMAIN slots : Hash[slots[k].slot.text] = h}
             M(h) == {k \in DOMAIN ours : Hash[ours[k]] = h}
  <2>1. Merged = slots
    BY DEF Slots, BaseTexts, Merged
  <2>2. AlignsSide(flat, ours, opsO) /\ AlignsSide(flat, theirs, opsT)
    BY <1>1, SidesAlign DEF TypeOK
  <2>3. \A m \in DOMAIN opsT : opsT[m].type = "equal"
    <3>1. opsT = Align(BaseTexts, BaseTexts) /\ BaseTexts \in Seq(Sentence)
      BY <1>1, AlignmentIs DEF TypeOK
    <3> QED
      BY <3>1, SelfAligned
  <2>4. Table(slots)
    BY <2>2, SlotsPlaced
  <2>5. \E g : /\ \A k \in DOMAIN slots : /\ g[k] \in DOMAIN ours /\ slots[k].slot.kind = "text"
                                          /\ Hash[slots[k].slot.text] = Hash[ours[g[k]]]
               /\ \A j \in DOMAIN ours : \E k \in DOMAIN slots : g[k] = j
               /\ \A k, l \in DOMAIN slots : g[k] = g[l] => k = l
    BY <2>2, <2>3, OneSidedIs
  <2>6. IsFiniteSet(DOMAIN ours)
    <3>1. Table(ours)
      BY <2>2, SeqIsTable DEF AlignsSide
    <3> QED
      BY <3>1, TableFinite
  <2>7. OneSidedMergeHasOurWords <=>
           (Conflicts(slots) = <<>> /\ \A h \in Range(Hash) : Cardinality(K(h)) = Cardinality(M(h)))
    BY <1>1, <2>1 DEF OneSidedMergeHasOurWords
  <2>8. Conflicts(slots) = FlattenSeq(keep)
    BY DEF Conflicts
  <2> HIDE DEF slots
  <2>9. PICK g : /\ \A k \in DOMAIN slots : /\ g[k] \in DOMAIN ours /\ slots[k].slot.kind = "text"
                                            /\ Hash[slots[k].slot.text] = Hash[ours[g[k]]]
                 /\ \A j \in DOMAIN ours : \E k \in DOMAIN slots : g[k] = j
                 /\ \A k, l \in DOMAIN slots : g[k] = g[l] => k = l
    BY <2>5
  <2>10. Conflicts(slots) = <<>>
    <3>1. DOMAIN keep = DOMAIN slots /\ \A k \in DOMAIN keep : keep[k] = <<>>
      BY <2>9
    <3>2. Table(keep)
      <4>1. DOMAIN keep = 1..Len(slots) /\ Len(slots) \in Nat
        BY <2>4, TableFacts
      <4>2. keep = [k \in 1..Len(slots) |-> keep[k]]
        BY <4>1
      <4> HIDE DEF keep
      <4> QED
        BY <4>1, <4>2, TableFrom
    <3> HIDE DEF keep
    <3> QED
      BY <2>8, <3>1, <3>2, NothingPicked
  <2>11. ASSUME NEW h PROVE Cardinality(K(h)) = Cardinality(M(h))
    <3>1. IsFiniteSet(M(h))
      <4>1. M(h) \in SUBSET DOMAIN ours
        OBVIOUS
      <4> QED
        BY <2>6, <4>1, FS_Subset
    <3>2. /\ \A k \in K(h) : g[k] \in M(h)
          /\ \A k, l \in K(h) : g[k] = g[l] => k = l
          /\ \A j \in M(h) : \E k \in K(h) : g[k] = j
      BY <2>9
    <3> HIDE DEF K, M
    <3> QED
      BY <3>1, <3>2, Matched
  <2> HIDE DEF K, M
  <2> QED
    BY <2>7, <2>10, <2>11
<1>2. TypeOK => OneSidedMergeHasOurWords
  BY <1>1 DEF OneSidedMergeHasOurWords
<1> QED
  BY <1>2, VersionsAreDocuments, PTL

-----------------------------------------------------------------------------
(* A heading put in front of a document.                                   *)

\* The rows of the paragraphs, `d` paragraphs further down.
RowsBelow(doc, d) ==
    [p \in DOMAIN doc |-> [i \in DOMAIN doc[p] |-> [para |-> p + d, text |-> doc[p][i]]]]

LEMMA RowsBelowAre ==
    ASSUME NEW doc \in Seq(Seq(Sentence)), NEW d
    PROVE  LET rows == RowsBelow(doc, d) IN
           /\ Table(rows) /\ Len(rows) = Len(doc) /\ DOMAIN rows = 1..Len(doc) /\ Len(doc) \in Nat
           /\ \A p \in 1..Len(doc) :
                 /\ Table(rows[p]) /\ Len(rows[p]) = Len(doc[p]) /\ DOMAIN rows[p] = DOMAIN doc[p]
                 /\ \A i \in DOMAIN doc[p] : rows[p][i] = [para |-> p + d, text |-> doc[p][i]]
<1> DEFINE row(p) == [i \in DOMAIN doc[p] |-> [para |-> p + d, text |-> doc[p][i]]]
           rows == RowsBelow(doc, d)
           n == Len(doc)
<1>1. Table(doc) /\ n \in Nat /\ DOMAIN doc = 1..n /\ \A p \in DOMAIN doc : doc[p] \in Seq(Sentence)
  BY SeqIsTable, TableFacts
<1>2. ASSUME NEW p \in DOMAIN doc
      PROVE  /\ Table(row(p)) /\ Len(row(p)) = Len(doc[p]) /\ DOMAIN row(p) = DOMAIN doc[p]
             /\ \A i \in DOMAIN doc[p] : row(p)[i] = [para |-> p + d, text |-> doc[p][i]]
  <2> DEFINE r == row(p)
             m == Len(doc[p])
  <2>1. m \in Nat /\ DOMAIN doc[p] = 1..m
    BY <1>1, SeqIsTable, TableFacts
  <2>2. DOMAIN r = 1..m /\ r = [i \in 1..m |-> r[i]] /\ \A i \in 1..m : r[i] = [para |-> p + d, text |-> doc[p][i]]
    BY <2>1
  <2> HIDE DEF r, m
  <2>3. Table(r) /\ Len(r) = m
    BY <2>1, <2>2, TableFrom
  <2> QED
    BY <2>1, <2>2, <2>3 DEF r, m
<1>3. DOMAIN rows = 1..n /\ rows = [p \in 1..n |-> rows[p]] /\ \A p \in 1..n : rows[p] = row(p)
  BY <1>1 DEF RowsBelow
<1> HIDE DEF row, n, rows
<1>4. Table(rows) /\ Len(rows) = n
  BY <1>1, <1>3, TableFrom
<1>5. ASSUME NEW p \in 1..n
      PROVE  /\ Table(rows[p]) /\ Len(rows[p]) = Len(doc[p]) /\ DOMAIN rows[p] = DOMAIN doc[p]
             /\ \A i \in DOMAIN doc[p] : rows[p][i] = [para |-> p + d, text |-> doc[p][i]]
  BY <1>1, <1>2, <1>3
<1> QED
  BY <1>1, <1>3, <1>4, <1>5 DEF rows, n

LEMMA FlatIs ==
    ASSUME NEW doc \in Seq(Seq(Sentence))
    PROVE  Flat(doc) = FlattenSeq(RowsBelow(doc, 0))
<1>1. Table(doc) /\ Len(doc) \in Nat /\ DOMAIN doc = 1..Len(doc)
  BY SeqIsTable, TableFacts
<1>2. \A p \in DOMAIN doc : p + 0 = p
  BY <1>1
<1> QED
  BY <1>2 DEF Flat, RowsBelow

\* The document's sentences come after the heading, each one paragraph further down.
LEMMA HeadedIs ==
    ASSUME NEW doc \in Seq(Seq(Sentence)), NEW s \in Sentence
    PROVE  LET old == Flat(doc)
               new == Flat(<<<<s>>>> \o doc) IN
           /\ <<<<s>>>> \o doc \in Seq(Seq(Sentence))
           /\ Table(old) /\ Table(new) /\ Len(new) = Len(old) + 1 /\ new[1].text = s
           /\ \A k \in 1..Len(old) : /\ old[k].para \in Int
                                     /\ new[k + 1].para = old[k].para + 1 /\ new[k + 1].text = old[k].text
<1> DEFINE doc2 == <<<<s>>>> \o doc
           old == Flat(doc)
           new == Flat(doc2)
           ss == RowsBelow(doc2, 0)
           rr == RowsBelow(doc, 0)
           tt == RowsBelow(doc, 1)
           n == Len(doc)
           rest == FlattenSeq(tt)
<1>1. <<s>> \in Seq(Sentence) /\ <<<<s>>>> \in Seq(Seq(Sentence)) /\ doc2 \in Seq(Seq(Sentence))
  OBVIOUS
<1>2. /\ n \in Nat /\ DOMAIN doc = 1..n /\ Table(doc) /\ DOMAIN doc2 = 1..n + 1 /\ Len(doc2) = n + 1
      /\ doc2[1] = <<s>> /\ \A p \in 1..n : doc2[p + 1] = doc[p]
  <2>1. Table(doc) /\ n \in Nat /\ DOMAIN doc = 1..n /\ Table(<<<<s>>>>) /\ Len(<<<<s>>>>) = 1
        /\ <<<<s>>>>[1] = <<s>> /\ DOMAIN <<<<s>>>> = {1}
    BY SeqIsTable, TableFacts, OneRow
  <2>2. /\ Table(doc2) /\ DOMAIN doc2 = 1..Len(<<<<s>>>>) + Len(doc)
        /\ \A k \in DOMAIN <<<<s>>>> : doc2[k] = <<<<s>>>>[k]
        /\ \A k \in 1..Len(doc) : doc2[Len(<<<<s>>>>) + k] = doc[k]
    BY <2>1, TableConcat
  <2>3. DOMAIN doc2 = 1..Len(doc2) /\ Len(doc2) \in Nat
    BY <2>2, TableFacts
  <2> HIDE DEF n, doc2
  <2>4. DOMAIN doc2 = 1..n + 1 /\ Len(doc2) = n + 1
    <3>1. DOMAIN doc2 = 1..1 + n
      BY <2>1, <2>2 DEF n
    <3>2. 1 + n = n + 1 /\ n + 1 \in Nat
      BY <2>1 DEF n
    <3>3. 1..n + 1 = 1..Len(doc2)
      BY <2>3, <3>1, <3>2
    <3>4. n + 1 = Len(doc2)
      BY <2>3, <3>2, <3>3, SameUpTo
    <3> QED
      BY <3>1, <3>2, <3>4
  <2>5. ASSUME NEW p \in 1..n PROVE doc2[p + 1] = doc[p]
    <3>1. doc2[1 + p] = doc[p]
      BY <2>1, <2>2 DEF n
    <3>2. 1 + p = p + 1
      BY <2>1
    <3> QED
      BY <3>1, <3>2
  <2>6. doc2[1] = <<s>>
    BY <2>1, <2>2
  <2> QED
    BY <2>1, <2>4, <2>5, <2>6
<1>3. old = FlattenSeq(rr) /\ new = FlattenSeq(ss)
  BY <1>1, FlatIs
<1>4. /\ Table(rr) /\ Len(rr) = n /\ DOMAIN rr = 1..n
      /\ \A p \in 1..n :
            /\ Table(rr[p]) /\ Len(rr[p]) = Len(doc[p]) /\ DOMAIN rr[p] = DOMAIN doc[p]
            /\ \A i \in DOMAIN doc[p] : rr[p][i] = [para |-> p + 0, text |-> doc[p][i]]
  BY RowsBelowAre
<1>5. /\ Table(tt) /\ Len(tt) = n /\ DOMAIN tt = 1..n
      /\ \A p \in 1..n :
            /\ Table(tt[p]) /\ Len(tt[p]) = Len(doc[p]) /\ DOMAIN tt[p] = DOMAIN doc[p]
            /\ \A i \in DOMAIN doc[p] : tt[p][i] = [para |-> p + 1, text |-> doc[p][i]]
  BY RowsBelowAre
<1>6. /\ Table(ss) /\ Len(ss) = n + 1 /\ DOMAIN ss = 1..n + 1
      /\ \A p \in 1..n + 1 :
            /\ Table(ss[p]) /\ Len(ss[p]) = Len(doc2[p]) /\ DOMAIN ss[p] = DOMAIN doc2[p]
            /\ \A i \in DOMAIN doc2[p] : ss[p][i] = [para |-> p + 0, text |-> doc2[p][i]]
  <2> HIDE DEF doc2, n
  <2>1. /\ Table(ss) /\ Len(ss) = Len(doc2) /\ DOMAIN ss = 1..Len(doc2)
        /\ \A p \in 1..Len(doc2) :
              /\ Table(ss[p]) /\ Len(ss[p]) = Len(doc2[p]) /\ DOMAIN ss[p] = DOMAIN doc2[p]
              /\ \A i \in DOMAIN doc2[p] : ss[p][i] = [para |-> p + 0, text |-> doc2[p][i]]
    BY <1>1, RowsBelowAre
  <2> QED
    BY <1>2, <2>1
<1> SUFFICES /\ Table(old) /\ Table(new) /\ Len(new) = Len(old) + 1 /\ new[1].text = s
             /\ \A k \in 1..Len(old) : /\ old[k].para \in Int
                                       /\ new[k + 1].para = old[k].para + 1 /\ new[k + 1].text = old[k].text
  BY <1>1
<1> HIDE DEF doc2, old, new, ss, rr, tt, n, rest
<1>7. \A p \in DOMAIN tt : tt[p] = ss[p + 1]
  <2>1. ASSUME NEW p \in 1..n PROVE tt[p] = ss[p + 1]
    <3>1. p + 1 \in 1..n + 1 /\ doc2[p + 1] = doc[p] /\ p + 1 + 0 = p + 1
      BY <1>2
    <3>2. /\ Table(ss[p + 1]) /\ DOMAIN ss[p + 1] = DOMAIN doc[p]
          /\ \A i \in DOMAIN doc[p] : ss[p + 1][i] = [para |-> p + 1 + 0, text |-> doc[p][i]]
      BY <1>6, <3>1
    <3>3. \A i \in DOMAIN doc[p] : ss[p + 1][i] = [para |-> p + 1, text |-> doc[p][i]]
      BY <3>1, <3>2
    <3>4. DOMAIN tt[p] = DOMAIN ss[p + 1] /\ \A i \in DOMAIN tt[p] : tt[p][i] = ss[p + 1][i]
      BY <1>5, <3>2, <3>3
    <3> QED
      BY <1>5, <3>2, <3>4, TableEqual
  <2> QED
    BY <1>5, <2>1
<1>8. FlattenSeq(ss) = ss[1] \o FlattenSeq(tt)
  BY <1>5, <1>6, <1>7, FlattenFirst
<1>9. Table(ss[1]) /\ Len(ss[1]) = 1 /\ ss[1][1].text = s /\ DOMAIN ss[1] = {1}
  <2>1. 1 \in 1..n + 1 /\ Len(<<s>>) = 1 /\ DOMAIN <<s>> = {1} /\ <<s>>[1] = s
    BY <1>2, OneRow
  <2>2. /\ Table(ss[1]) /\ Len(ss[1]) = Len(doc2[1]) /\ DOMAIN ss[1] = DOMAIN doc2[1]
        /\ \A i \in DOMAIN doc2[1] : ss[1][i] = [para |-> 1 + 0, text |-> doc2[1][i]]
    BY <1>6, <2>1
  <2>3. 1 \in DOMAIN doc2[1] /\ doc2[1][1] = s
    BY <1>2, <2>1
  <2>4. ss[1][1] = [para |-> 1 + 0, text |-> s]
    BY <2>2, <2>3
  <2> QED
    BY <1>2, <2>1, <2>2, <2>4
<1>10. /\ Table(FlattenSeq(rr)) /\ Table(FlattenSeq(tt))
       /\ Len(FlattenSeq(rr)) = Len(FlattenSeq(tt))
       /\ \E place : /\ Placing(rr, Len(rr), FlattenSeq(rr), place)
                     /\ Placing(tt, Len(tt), FlattenSeq(tt), place)
  <2>1. Len(rr) = Len(tt) /\ \A p \in DOMAIN rr : Table(rr[p]) /\ Table(tt[p]) /\ Len(rr[p]) = Len(tt[p])
    BY <1>4, <1>5
  <2>2. Table(rr) /\ Table(tt)
    BY <1>4, <1>5
  <2> QED
    BY <2>1, <2>2, FlattenTogether
<1>11. PICK place : Placing(rr, n, old, place) /\ Placing(tt, n, rest, place)
  BY <1>3, <1>4, <1>5, <1>10 DEF rest
<1>12. Table(old) /\ Table(rest) /\ Len(rest) = Len(old)
  BY <1>3, <1>10 DEF rest
<1>13. Len(old) \in Nat /\ DOMAIN old = 1..Len(old) /\ DOMAIN rest = 1..Len(old)
  BY <1>12, TableFacts
<1>14. /\ Table(new) /\ DOMAIN new = 1..Len(ss[1]) + Len(rest)
       /\ \A k \in DOMAIN ss[1] : new[k] = ss[1][k]
       /\ \A k \in 1..Len(rest) : new[Len(ss[1]) + k] = rest[k]
  <2> DEFINE h == ss[1]
  <2>1. new = h \o rest
    BY <1>3, <1>8 DEF rest
  <2>2. Table(h)
    BY <1>9
  <2> HIDE DEF h
  <2>3. /\ Table(h \o rest) /\ DOMAIN (h \o rest) = 1..Len(h) + Len(rest)
        /\ \A k \in DOMAIN h : (h \o rest)[k] = h[k]
        /\ \A k \in 1..Len(rest) : (h \o rest)[Len(h) + k] = rest[k]
    <3>0. Table(rest)
      BY <1>12
    <3>1. Table(h \o rest)
      BY <3>0, <2>2, TableConcat
    <3>2. DOMAIN (h \o rest) = 1..Len(h) + Len(rest)
      BY <3>0, <2>2, TableConcat
    <3>3. \A k \in DOMAIN h : (h \o rest)[k] = h[k]
      BY <3>0, <2>2, TableConcat
    <3>4. \A k \in 1..Len(rest) : (h \o rest)[Len(h) + k] = rest[k]
      BY <3>0, <2>2, TableConcat
    <3> QED
      BY <3>1, <3>2, <3>3, <3>4
  <2>4. /\ Table(new) /\ DOMAIN new = 1..Len(h) + Len(rest)
        /\ \A k \in DOMAIN h : new[k] = h[k]
        /\ \A k \in 1..Len(rest) : new[Len(h) + k] = rest[k]
    BY <2>1, <2>3
  <2> QED
    BY <2>4 DEF h
<1>15. Len(new) = Len(old) + 1
  <2>1. DOMAIN new = 1..1 + Len(old) /\ DOMAIN new = 1..Len(new) /\ Len(new) \in Nat
    BY <1>9, <1>12, <1>14, TableFacts
  <2> QED
    BY <1>13, <2>1
<1>16. new[1].text = s
  BY <1>9, <1>14
<1>17. ASSUME NEW k \in 1..Len(old)
       PROVE  /\ old[k].para \in Int
              /\ new[k + 1].para = old[k].para + 1 /\ new[k + 1].text = old[k].text
  <2> DEFINE p == place[k][1]
             i == place[k][2]
  <2>1. place[k] \in Spots(rr, n) /\ old[k] = rr[p][i] /\ rest[k] = tt[p][i]
    BY <1>11, <1>13 DEF Placing
  <2>2. p \in 1..n /\ i \in DOMAIN rr[p]
    BY <2>1 DEF Spots
  <2> HIDE DEF p, i
  <2>3. old[k] = [para |-> p + 0, text |-> doc[p][i]] /\ rest[k] = [para |-> p + 1, text |-> doc[p][i]]
    BY <1>4, <1>5, <2>1, <2>2
  <2>4. new[k + 1] = rest[k]
    <3>1. new[1 + k] = rest[k] /\ 1 + k = k + 1
      BY <1>9, <1>12, <1>13, <1>14
    <3> QED
      BY <3>1
  <2>5. old[k].para = p + 0 /\ old[k].text = doc[p][i] /\ new[k + 1].para = p + 1 /\ new[k + 1].text = doc[p][i]
    BY <2>3, <2>4
  <2>6. p + 0 = p /\ p \in Int
    BY <1>2, <2>2
  <2> QED
    BY <2>5, <2>6
<1> QED
  BY <1>12, <1>14, <1>15, <1>16, <1>17

\* The old sentences follow one new one: each is paired with itself, one place later.
LEMMA ShiftedOps ==
    ASSUME NEW old \in Seq(Sentence), NEW new \in Seq(Sentence), Len(new) = Len(old) + 1,
           \A i \in 1..Len(old) : new[i + 1] = old[i] /\ ~SameHash(old, new, i, 1)
    PROVE  LET ops == Align(old, new) IN
           /\ Len(old) <= Cardinality(Equals(ops))
           /\ \A k \in Equals(ops) : ops[k].old \in 1..Len(old) /\ ops[k].new = ops[k].old + 1
<1> DEFINE ops == Align(old, new)
           n == Len(old)
           E == Equals(ops)
           g == [a \in 1..n |-> CHOOSE k \in E : ops[k].old = a]
           f == [a \in 1..n |-> ops[g[a]].new]
<1>1. n \in Nat /\ Len(new) = n + 1
  BY Bounds
<1>2. n <= Cardinality(E)
  <2>1. \A i \in 1..n : SameHash(old, new, i, i + 1)
    BY DEF SameHash
  <2>2. Len(old) + 1 <= Len(new)
    BY <1>1
  <2> QED
    BY <2>1, <2>2, Diagonal
<1>3. Covers(old, new, ops, 0, 0, n, n + 1)
  BY <1>1, AlignCovers
<1> SUFFICES \A k \in E : ops[k].old \in 1..n /\ ops[k].new = ops[k].old + 1
  BY <1>2
<1> HIDE DEF ops
<1>4. n + 1 \in Nat
  BY <1>1
<1>5. ASSUME NEW k \in E
      PROVE  /\ k \in DOMAIN ops /\ ops[k].type = "equal" /\ ops[k].old \in 1..n /\ ops[k].new \in 1..n + 1
             /\ SameHash(old, new, ops[k].old, ops[k].new)
  <2> HIDE DEF n
  <2> QED
    BY <1>1, <1>3, <1>4, EqualsAre
<1>6. \A k \in E : ops[k].new \in 2..n + 1
  <2>1. ASSUME NEW k \in E PROVE ops[k].new # 1
    BY <1>5
  <2>2. ASSUME NEW k \in E PROVE ops[k].new \in 2..n + 1
    BY <1>1, <1>5, <2>1
  <2> QED
    BY <2>2
<1>7. ASSUME NEW k \in E, NEW l \in E, ops[k].old = ops[l].old PROVE k = l
  <2>1. k \in DOMAIN ops /\ l \in DOMAIN ops /\ ops[k].old # 0
    BY <1>1, <1>5
  <2> HIDE DEF n
  <2> QED
    BY <1>1, <1>3, <1>4, <1>7, <2>1, OpsApart
<1>8. \A a \in 1..n : \E k \in E : ops[k].old = a
  <2> DEFINE h == [k \in E |-> ops[k].old]
  <2>1. (\A k \in E : h[k] \in 1..n) /\ \A k, l \in E : h[k] = h[l] => k = l
    BY <1>5, <1>7
  <2>2. \A k \in E : h[k] = ops[k].old
    OBVIOUS
  <2> HIDE DEF h, E, n
  <2>3. \A a \in 1..n : \E k \in E : h[k] = a
    BY <1>1, <1>2, <2>1, Filled
  <2> QED
    BY <2>2, <2>3
<1>9. \A a \in 1..n : g[a] \in E /\ ops[g[a]].old = a /\ f[a] = ops[g[a]].new
  BY <1>8
<1> HIDE DEF g, f
<1>10. ASSUME NEW a \in 1..n, NEW b \in 1..n, a < b PROVE f[a] < f[b]
  <2>1. /\ g[a] \in DOMAIN ops /\ g[b] \in DOMAIN ops /\ ops[g[a]].type = "equal" /\ ops[g[b]].type = "equal"
        /\ ops[g[a]].old = a /\ ops[g[b]].old = b
    BY <1>5, <1>9
  <2>2. DOMAIN ops = 1..Len(ops) /\ Len(ops) \in Nat
    BY <1>3, TableFacts DEF Covers
  <2>3. g[a] # g[b] /\ a \in Nat /\ b \in Nat /\ a # 0 /\ b # 0
    BY <1>1, <1>10, <2>1
  <2>4. ~(g[b] < g[a])
    <3>1. ASSUME g[b] < g[a] PROVE FALSE
      <4>1. InTurn(ops[g[b]], ops[g[a]])
        BY <1>3, <2>1, <3>1 DEF Covers
      <4>2. b < a
        BY <2>1, <2>3, <4>1 DEF InTurn
      <4> QED
        BY <1>10, <2>3, <4>2
    <3> QED
      BY <3>1
  <2>5. g[a] < g[b]
    BY <2>1, <2>2, <2>3, <2>4
  <2>6. InTurn(ops[g[a]], ops[g[b]])
    BY <1>3, <2>1, <2>5 DEF Covers
  <2> QED
    BY <1>9, <2>1, <2>6 DEF InTurn
<1>11. ASSUME NEW a \in 1..n PROVE f[a] = a + 1
  <2>1. \A b \in 1..n : f[b] \in 2..n + 1
    BY <1>6, <1>9
  <2> HIDE DEF n
  <2> QED
    BY <1>1, <1>10, <2>1, GrowsByOne
<1>12. ASSUME NEW k \in E PROVE ops[k].old \in 1..n /\ ops[k].new = ops[k].old + 1
  <2>1. ops[k].old \in 1..n
    BY <1>5
  <2>2. g[ops[k].old] = k
    BY <1>7, <1>9, <2>1
  <2> QED
    BY <1>9, <1>11, <2>1, <2>2
<1> QED
  BY <1>12

\* All the offsets are one and the same.
LEMMA ModalIs ==
    ASSUME NEW offsets, Table(offsets), Len(offsets) > 1, NEW v \in Int,
           \A i \in DOMAIN offsets : offsets[i] = v
    PROVE  ModalOffset(offsets) = v
<1> DEFINE count(o) == Cardinality({i \in DOMAIN offsets : offsets[i] = o})
           size(o) == IF o < 0 THEN -o ELSE o
           best == {o \in ToSet(offsets) : \A p \in ToSet(offsets) : count(p) <= count(o)}
           good(o) == \A p \in best : size(o) < size(p) \/ (size(o) = size(p) /\ o <= p)
<1>1. Cardinality(DOMAIN offsets) = Len(offsets) /\ Len(offsets) \in Nat /\ DOMAIN offsets = 1..Len(offsets)
  BY TableFacts, TableFinite
<1>2. count(v) = Len(offsets)
  <2>1. {i \in DOMAIN offsets : offsets[i] = v} = DOMAIN offsets
    OBVIOUS
  <2> QED
    BY <1>1, <2>1
<1>3. ToSet(offsets) = {v}
  <2>1. 1 \in DOMAIN offsets
    BY <1>1
  <2> QED
    BY <2>1 DEF ToSet
<1>4. best = {v}
  <2>1. count(v) <= count(v)
    BY <1>1, <1>2
  <2> HIDE DEF count
  <2> QED
    BY <1>3, <2>1
<1>5. count(v) > 1
  BY <1>1, <1>2
<1>6. ModalOffset(offsets) = IF \E o \in best : count(o) > 1 THEN CHOOSE o \in best : good(o) ELSE 0
  BY DEF ModalOffset
<1> HIDE DEF count
<1>7. good(v)
  BY <1>4
<1> HIDE DEF best, good
<1> QED
  BY <1>4, <1>5, <1>6, <1>7

LEMMA HeadingMovesNothing ==
    ASSUME NEW doc \in Seq(Seq(Sentence)), NEW s \in Sentence, Len(Texts(Flat(doc))) > 1,
           \A k \in DOMAIN Texts(Flat(doc)) : Hash[Texts(Flat(doc))[k]] # Hash[s],
           NEW change \in ToSet(Diff(doc, <<<<s>>>> \o doc))
    PROVE  change.status # "moved"
<1> DEFINE new == Flat(<<<<s>>>> \o doc)
           old == Flat(doc)
           O == Texts(old)
           N == Texts(new)
           ops == Align(O, N)
           offset(op) == new[op.new].para - old[op.old].para
           picks == [k \in DOMAIN ops |-> IF ops[k].type = "equal" THEN <<offset(ops[k])>> ELSE <<>>]
           offsets == FlattenSeq(picks)
           status(op) == IF op.type # "equal" THEN op.type
                         ELSE IF offset(op) # ModalOffset(offsets) THEN "moved" ELSE "unchanged"
<1>1. /\ <<<<s>>>> \o doc \in Seq(Seq(Sentence))
      /\ Table(old) /\ Table(new) /\ Len(new) = Len(old) + 1 /\ new[1].text = s
      /\ \A k \in 1..Len(old) : /\ old[k].para \in Int
                                /\ new[k + 1].para = old[k].para + 1 /\ new[k + 1].text = old[k].text
  BY HeadedIs
<1>2. O \in Seq(Sentence) /\ N \in Seq(Sentence)
  BY <1>1, TextsOf
<1>3. Diff(doc, <<<<s>>>> \o doc) = [k \in DOMAIN ops |-> [op |-> ops[k], status |-> status(ops[k])]]
  BY DEF Diff
<1>4. PICK k \in DOMAIN ops : change = [op |-> ops[k], status |-> status(ops[k])]
  <2> DEFINE d == [k \in DOMAIN ops |-> [op |-> ops[k], status |-> status(ops[k])]]
  <2>1. change \in {d[k] : k \in DOMAIN d}
    BY <1>3 DEF ToSet
  <2>2. DOMAIN d = DOMAIN ops /\ \A k \in DOMAIN ops : d[k] = [op |-> ops[k], status |-> status(ops[k])]
    OBVIOUS
  <2> HIDE DEF d
  <2> QED
    BY <2>1, <2>2
<1>5. /\ O = [i \in DOMAIN old |-> old[i].text] /\ N = [i \in DOMAIN new |-> new[i].text]
  BY DEF Texts
<1> SUFFICES status(ops[k]) # "moved"
  BY <1>4
<1> HIDE DEF old, new, O, N
<1>6. /\ Len(old) \in Nat /\ Len(new) \in Nat /\ DOMAIN old = 1..Len(old) /\ DOMAIN new = 1..Len(new)
      /\ Len(O) \in Nat /\ Len(N) \in Nat /\ DOMAIN O = 1..Len(O) /\ DOMAIN N = 1..Len(N)
      /\ DOMAIN O = DOMAIN old /\ DOMAIN N = DOMAIN new
  BY <1>1, <1>2, <1>5, Bounds, TableFacts
<1>7. Len(O) = Len(old) /\ Len(N) = Len(new)
  <2>1. 1..Len(O) = 1..Len(old) /\ 1..Len(N) = 1..Len(new)
    BY <1>6
  <2> QED
    BY <1>6, <2>1, SameUpTo
<1>8. N[1] = s /\ \A i \in 1..Len(O) : N[i + 1] = O[i]
  <2>1. 1 \in DOMAIN new /\ \A i \in 1..Len(old) : i \in DOMAIN old /\ i + 1 \in DOMAIN new
    BY <1>1, <1>6
  <2> QED
    BY <1>1, <1>5, <1>7, <2>1
<1>9. /\ Len(O) <= Cardinality(Equals(ops))
      /\ \A j \in Equals(ops) : ops[j].old \in 1..Len(O) /\ ops[j].new = ops[j].old + 1
  <2>1. \A i \in 1..Len(O) : ~SameHash(O, N, i, 1)
    BY <1>6, <1>8 DEF SameHash, O, old
  <2> QED
    BY <1>1, <1>2, <1>7, <1>8, <2>1, ShiftedOps
<1>10. Table(ops)
  BY <1>2, AlignCovers DEF Covers
<1> HIDE DEF ops
<1>11. ASSUME NEW j \in Equals(ops) PROVE offset(ops[j]) = 1
  <2> DEFINE a == ops[j].old
             b == ops[j].new
  <2>1. a \in 1..Len(old) /\ b = a + 1
    BY <1>7, <1>9
  <2> HIDE DEF a, b
  <2>2. old[a].para \in Int /\ new[b].para = old[a].para + 1
    BY <1>1, <2>1
  <2>3. new[b].para - old[a].para = 1
    BY <2>2
  <2> QED
    BY <2>3 DEF a, b
<1> HIDE DEF offset
<1>12. Table(offsets) /\ Len(offsets) > 1 /\ \A i \in DOMAIN offsets : offsets[i] = 1
  <2> DEFINE e == [j \in DOMAIN ops |-> offset(ops[j])]
  <2>1. /\ DOMAIN picks = DOMAIN ops /\ Equals(ops) \subseteq DOMAIN ops
        /\ \A j \in DOMAIN ops : picks[j] = IF j \in Equals(ops) THEN <<e[j]>> ELSE <<>>
    BY DEF Equals
  <2>2. Table(picks)
    <3>1. DOMAIN ops = 1..Len(ops) /\ Len(ops) \in Nat
      BY <1>10, TableFacts
    <3> QED
      BY <3>1, TableFrom
  <2> HIDE DEF picks
  <2>3. \E at : Picks(offsets, Equals(ops), e, at)
    BY <2>1, <2>2, FlattenPicks
  <2>4. \A j \in Equals(ops) : e[j] = 1
    BY <1>11, <2>1
  <2> HIDE DEF e, offsets
  <2>5. PICK at : Picks(offsets, Equals(ops), e, at)
    BY <2>3
  <2>6. Table(offsets) /\ \A i \in DOMAIN offsets : at[i] \in Equals(ops) /\ offsets[i] = 1
    BY <2>4, <2>5 DEF Picks
  <2>7. Equals(ops) \subseteq Int
    <3>1. DOMAIN ops = 1..Len(ops) /\ Len(ops) \in Nat
      BY <1>10, TableFacts
    <3> QED
      BY <2>1, <3>1
  <2>8. \A i, j \in DOMAIN offsets : at[i] = at[j] => i = j
    BY <2>5, <2>6, <2>7, PicksOnce
  <2>9. \A j \in Equals(ops) : \E i \in DOMAIN offsets : at[i] = j
    BY <2>5 DEF Picks
  <2>10. Cardinality(DOMAIN offsets) = Cardinality(Equals(ops))
    <3> DEFINE D == DOMAIN offsets
               T == Equals(ops)
    <3>1. IsFiniteSet(T)
      BY <1>10, EqualsFinite
    <3>2. /\ \A i \in D : at[i] \in T
          /\ \A i, j \in D : at[i] = at[j] => i = j
          /\ \A j \in T : \E i \in D : at[i] = j
      BY <2>6, <2>8, <2>9
    <3> HIDE DEF D, T
    <3>3. Cardinality(D) = Cardinality(T)
      BY <3>1, <3>2, Matched
    <3> QED
      BY <3>3 DEF D, T
  <2>11. Cardinality(DOMAIN offsets) = Len(offsets) /\ Len(offsets) \in Nat
    BY <2>6, TableFacts, TableFinite
  <2>12. Len(O) > 1
    BY DEF O, old
  <2> QED
    BY <1>6, <1>9, <2>6, <2>10, <2>11, <2>12
<1> HIDE DEF offsets
<1>13. ModalOffset(offsets) = 1
  BY <1>12, ModalIs
<1> QED
  <2>1. CASE ops[k].type = "equal"
    <3>1. offset(ops[k]) = 1
      BY <1>11, <2>1 DEF Equals
    <3> QED
      BY <1>13, <2>1, <3>1
  <2>2. CASE ops[k].type # "equal"
    <3>1. ops[k].type \in {"equal", "edited", "delete", "insert"}
      <4>1. IsOp(O, N, ops[k], 0, 0, Len(O), Len(N))
        BY <1>2, AlignCovers DEF Covers, ops
      <4> QED
        BY <4>1 DEF IsOp
    <3> QED
      BY <2>2, <3>1
  <2> QED
    BY <2>1, <2>2

\* A heading put in front of a document of two sentences or more moves none of them:
\* the paragraphs all shift by one, which is the modal offset.  (align.py:182-244)
THEOREM HeadingsMoveNothing == ProseSpec => []ShiftIsNoMove
<1>1. ASSUME TypeOK PROVE ShiftIsNoMove
  <2>1. base \in Seq(Seq(Sentence))
    BY <1>1, BaseIsSide
  <2>2. ASSUME Len(BaseTexts) > 1, NEW s \in Sentence,
               \A k \in DOMAIN BaseTexts : Hash[BaseTexts[k]] # Hash[s],
               NEW change \in ToSet(Diff(base, <<<<s>>>> \o base))
        PROVE  change.status # "moved"
    BY <2>1, <2>2, HeadingMovesNothing DEF BaseTexts
  <2> QED
    BY <2>2 DEF ShiftIsNoMove
<1> QED
  BY <1>1, VersionsAreDocuments, PTL

-----------------------------------------------------------------------------
(* The marker blocks of a merge: at most one to a base sentence and the    *)
(* gap before it.                                                          *)

LEMMA OpsSeen ==
    ASSUME NEW old, NEW new, NEW ops, NEW i \in Nat, NEW j \in Nat, Covers(old, new, ops, 0, 0, i, j),
           NEW k \in DOMAIN ops, ops[k].old # 0
    PROVE  LET seen == {l \in 1..k : ops[l].old # 0} IN
           IsFiniteSet(seen) /\ Cardinality(seen) = ops[k].old
<1> DEFINE seen == {l \in 1..k : ops[l].old # 0}
           a == ops[k].old
           f == [l \in DOMAIN ops |-> ops[l].old]
<1>1. DOMAIN ops = 1..Len(ops) /\ Len(ops) \in Nat /\ k \in Nat
  <2>1. DOMAIN ops = 1..Len(ops) /\ Len(ops) \in Nat
    BY TableFacts DEF Covers
  <2> QED
    BY <2>1
<1>2. \A l \in DOMAIN ops : ops[l].old # 0 => ops[l].old \in 1..i
  <2>1. ASSUME NEW l \in DOMAIN ops, ops[l].old # 0 PROVE ops[l].old \in 1..i
    <3>1. IsOp(old, new, ops[l], 0, 0, i, j)
      BY DEF Covers
    <3>2. ops[l].old \in {0} \cup (0 + 1..i)
      BY <3>1, OpRange
    <3> QED
      BY <2>1, <3>2
  <2> QED
    BY <2>1
<1>3. \A l \in seen : l \in DOMAIN ops /\ ops[l].old # 0 /\ l <= k /\ f[l] = ops[l].old
  BY <1>1
<1>4. a \in 1..i /\ a # 0 /\ a \in Nat
  BY <1>2
<1>5. ASSUME NEW l \in DOMAIN ops, NEW m \in DOMAIN ops, l < m, ops[l].old # 0, ops[m].old # 0
      PROVE  ops[l].old < ops[m].old
  BY <1>5 DEF Covers, InTurn
<1>6. \A l \in seen : f[l] \in 1..a
  <2>1. ASSUME NEW l \in seen PROVE f[l] \in 1..a
    <3>1. l = k \/ l < k
      BY <1>1, <1>3
    <3>2. ops[l].old \in 1..i /\ (ops[l].old = a \/ ops[l].old < a)
      BY <1>2, <1>3, <1>5, <3>1
    <3> QED
      BY <1>3, <1>4, <3>2
  <2> QED
    BY <2>1
<1>7. \A l, m \in seen : f[l] = f[m] => l = m
  <2>1. ASSUME NEW l \in seen, NEW m \in seen, f[l] = f[m] PROVE l = m
    <3>1. ops[l].old = ops[m].old /\ ops[l].old # 0 /\ l \in DOMAIN ops /\ m \in DOMAIN ops
      BY <1>3, <2>1
    <3> QED
      BY <3>1, OpsApart
  <2> QED
    BY <2>1
<1>8. \A b \in 1..a : \E l \in seen : f[l] = b
  <2>1. ASSUME NEW b \in 1..a PROVE \E l \in seen : f[l] = b
    <3>1. b \in 0 + 1..i /\ b # 0
      BY <1>4
    <3>2. PICK l \in DOMAIN ops : ops[l].old = b
      BY <3>1 DEF Covers
    <3>3. ~(k < l)
      <4>1. ASSUME k < l PROVE FALSE
        <5>1. a < b
          BY <1>4, <1>5, <3>1, <3>2, <4>1
        <5> QED
          BY <1>4, <5>1
      <4> QED
        BY <4>1
    <3>4. l \in 1..k
      BY <1>1, <3>3
    <3> QED
      BY <3>1, <3>2, <3>4
  <2> QED
    BY <2>1
<1>9. IsFiniteSet(1..a) /\ Cardinality(1..a) = a
  <2>1. a \in Int /\ 1 \in Int
    BY <1>4
  <2> HIDE DEF a
  <2>2. IsFiniteSet(1..a) /\ Cardinality(1..a) = IF 1 > a THEN 0 ELSE a - 1 + 1
    BY <2>1, FS_Interval
  <2> QED
    BY <1>4, <2>2
<1> HIDE DEF seen, a, f
<1>10. IsFiniteSet(seen) /\ Cardinality(seen) = Cardinality(1..a)
  <2> DEFINE T == 1..a
  <2>1. \A l \in seen : f[l] \in T
    BY <1>6
  <2>2. IsFiniteSet(T) /\ \A b \in T : \E l \in seen : f[l] = b
    BY <1>8, <1>9
  <2> HIDE DEF T
  <2>3. IsFiniteSet(seen)
    BY <1>7, <2>1, <2>2, Matched
  <2>4. Cardinality(seen) = Cardinality(T)
    BY <1>7, <2>1, <2>2, Matched
  <2> QED
    BY <2>3, <2>4 DEF T
<1> QED
  BY <1>9, <1>10 DEF seen, a

\* A side that inserted in the gap before a base sentence left that sentence alone:
\* _classify pairs the inserts of a gap with its deletes, and flushes it at an equal op.
LEMMA InsertedBeforeEqual ==
    ASSUME NEW flat, NEW side, NEW ops, AlignsSide(flat, side, ops), NEW a \in 1..Len(flat),
           Inserted(ops, side, a) # <<>>
    PROVE  SideChange(ops, side, a).type = "equal"
<1> DEFINE seen(k) == {l \in 1..k : ops[l].old # 0}
<1>1. PICK old \in Seq(Sentence) : Len(old) = Len(flat) /\ Covers(old, side, ops, 0, 0, Len(old), Len(side))
  BY DEF AlignsSide
<1>2. Table(ops) /\ DOMAIN ops = 1..Len(ops) /\ Len(ops) \in Nat /\ Len(flat) \in Nat /\ Len(side) \in Nat
  <2>1. Table(ops) /\ Table(flat)
    BY <1>1 DEF AlignsSide, Covers
  <2> QED
    BY <2>1, TableFacts, LenProperties DEF AlignsSide
<1>3. Covers(old, side, ops, 0, 0, Len(flat), Len(side))
  BY <1>1
<1>4. PICK m \in InsertsAt(ops, a) : TRUE
  <2>1. PICK at : Picks(Inserted(ops, side, a), InsertsAt(ops, a), WordsOf(ops, side), at)
    BY <1>2, InsertedIs
  <2>2. Table(Inserted(ops, side, a)) /\ \A k \in DOMAIN Inserted(ops, side, a) : at[k] \in InsertsAt(ops, a)
    BY <2>1 DEF Picks
  <2>3. DOMAIN Inserted(ops, side, a) # {}
    BY <2>2, EmptyTable
  <2> QED
    BY <2>2, <2>3
<1>5. m \in DOMAIN ops /\ ops[m].type = "insert" /\ Cardinality(seen(m)) + 1 = a /\ ops[m].old = 0
  <2>1. m \in DOMAIN ops /\ ops[m].type = "insert" /\ Anchor(ops)[m] = a
    BY DEF InsertsAt
  <2>2. IsOp(old, side, ops[m], 0, 0, Len(flat), Len(side))
    BY <1>3, <2>1 DEF Covers
  <2> QED
    BY <2>1, <2>2 DEF IsOp, Anchor
<1>6. PICK k \in DOMAIN ops : Change(ops, a) = ops[k] /\ ops[k].old = a
  BY ChangeIs
<1>7. a \in Nat /\ a # 0 /\ k \in Nat /\ m \in Nat /\ k # 0 /\ m # 0
  BY <1>2, <1>5
<1>8. IsFiniteSet(seen(k)) /\ Cardinality(seen(k)) = a
  BY <1>2, <1>3, <1>6, <1>7, OpsSeen
<1>9. IsFiniteSet(seen(m)) /\ Cardinality(seen(m)) \in Nat
  <2>1. IsFiniteSet(1..m)
    BY <1>7, FS_Interval
  <2>2. seen(m) \in SUBSET (1..m)
    OBVIOUS
  <2>3. IsFiniteSet(seen(m))
    BY <2>1, <2>2, FS_Subset
  <2> HIDE DEF seen
  <2> QED
    BY <2>3, FS_CardinalityType
<1>10. m < k
  <2>1. ASSUME k <= m PROVE FALSE
    <3>1. seen(k) \in SUBSET seen(m)
      BY <1>7, <2>1
    <3> HIDE DEF seen
    <3>2. Cardinality(seen(k)) <= Cardinality(seen(m))
      BY <1>9, <3>1, FS_Subset
    <3> QED
      BY <1>5, <1>7, <1>8, <1>9, <3>2
  <2> QED
    BY <1>7, <2>1
<1> DEFINE l == k - 1
<1>11. l \in DOMAIN ops /\ l \in Nat /\ l + 1 = k /\ m <= l /\ l < k
  BY <1>2, <1>7, <1>10
<1> HIDE DEF l
<1>12. ops[l].old = 0
  <2>1. ASSUME ops[l].old # 0 PROVE FALSE
    <3> DEFINE b == ops[l].old
    <3>1. IsFiniteSet(seen(l)) /\ Cardinality(seen(l)) = b
      BY <1>2, <1>3, <1>11, <2>1, OpsSeen
    <3>2. m # l
      BY <1>5, <2>1
    <3>3. seen(m) \cup {l} \in SUBSET seen(l) /\ l \notin seen(m)
      BY <1>7, <1>11, <2>1, <3>2
    <3>4. b < a
      <4>1. InTurn(ops[l], ops[k])
        BY <1>3, <1>11 DEF Covers
      <4> QED
        BY <1>6, <1>7, <2>1, <4>1 DEF InTurn
    <3>5. b \in Nat
      <4> HIDE DEF seen, b
      <4> QED
        BY <3>1, FS_CardinalityType
    <3> HIDE DEF seen, b
    <3>6. Cardinality(seen(m) \cup {l}) = Cardinality(seen(m)) + 1
      BY <1>9, <3>3, FS_AddElement
    <3>7. Cardinality(seen(m) \cup {l}) <= Cardinality(seen(l))
      BY <3>1, <3>3, FS_Subset
    <3> QED
      BY <1>5, <1>7, <1>9, <3>1, <3>4, <3>5, <3>6, <3>7
  <2> QED
    BY <2>1
<1>13. ops[l].type = "insert"
  <2>1. IsOp(old, side, ops[l], 0, 0, Len(flat), Len(side))
    BY <1>3, <1>11 DEF Covers
  <2> QED
    BY <1>2, <1>12, <2>1 DEF IsOp
<1>14. MayFollow(ops[l], ops[k])
  BY <1>3, <1>11 DEF Covers
<1>15. ops[k].type \in {"insert", "equal"}
  BY <1>13, <1>14 DEF MayFollow
<1>16. IsOp(old, side, ops[k], 0, 0, Len(flat), Len(side))
  BY <1>3 DEF Covers
<1>17. ops[k].type = "equal"
  BY <1>6, <1>7, <1>15, <1>16 DEF IsOp
<1> QED
  BY <1>6, <1>17, SideChangeIs

\* A sentence or the marker block of base sentence a.
SlotOf(a, slot) ==
    /\ slot.kind \in {"text", "conflict"}
    /\ slot.kind = "conflict" => slot.sid = a /\ Table(slot.ours) /\ Table(slot.theirs)

LEMMA PlainSlot ==
    ASSUME NEW a, NEW s
    PROVE  SlotOf(a, Plain(s)) /\ Plain(s).kind # "conflict"
BY DEF SlotOf, Plain

LEMMA MarkerSlot ==
    ASSUME NEW a, NEW o, Table(o), NEW t, Table(t)
    PROVE  SlotOf(a, Marker(a, o, t))
BY DEF SlotOf, Marker

\* Slots of base sentence a, with no marker block or with one and nothing else.
AtMostOne(a, row, marked) ==
    /\ Table(row) /\ \A i \in DOMAIN row : SlotOf(a, row[i])
    /\ marked => DOMAIN row = {1}
    /\ ~marked => \A i \in DOMAIN row : row[i].kind # "conflict"

LEMMA PlainsHaveNone ==
    ASSUME NEW a, NEW s, Table(s)
    PROVE  AtMostOne(a, Plains(s), FALSE)
<1>1. Table(Plains(s)) /\ DOMAIN Plains(s) = DOMAIN s /\ \A k \in DOMAIN s : Plains(s)[k] = Plain(s[k])
  BY PlainsOf
<1> QED
  BY <1>1, PlainSlot DEF AtMostOne

LEMMA OneMarker ==
    ASSUME NEW a, NEW o, Table(o), NEW t, Table(t)
    PROVE  AtMostOne(a, <<Marker(a, o, t)>>, TRUE)
<1> DEFINE x == Marker(a, o, t)
<1>1. SlotOf(a, x)
  BY MarkerSlot
<1> HIDE DEF x
<1>2. Table(<<x>>) /\ DOMAIN <<x>> = {1} /\ <<x>>[1] = x
  BY OneRow
<1>3. AtMostOne(a, <<x>>, TRUE)
  BY <1>1, <1>2 DEF AtMostOne
<1> QED
  BY <1>3 DEF x

LEMMA GapMarkers ==
    ASSUME NEW a, NEW o, Table(o), NEW t, Table(t)
    PROVE  AtMostOne(a, GapSlots(a, o, t), o # <<>> /\ t # <<>>)
<1>1. CASE o # <<>> /\ t # <<>>
  <2>1. GapSlots(a, o, t) = <<Marker(a, o, t)>> /\ ((o # <<>> /\ t # <<>>) = TRUE)
    BY <1>1, GapSlotsIs
  <2> QED
    BY <2>1, OneMarker
<1>2. CASE o = <<>>
  <2>1. GapSlots(a, o, t) = Plains(t) /\ ((o # <<>> /\ t # <<>>) = FALSE)
    BY <1>2, GapSlotsIs
  <2> QED
    BY <2>1, PlainsHaveNone
<1>3. CASE t = <<>>
  <2>1. GapSlots(a, o, t) = Plains(o) /\ ((o # <<>> /\ t # <<>>) = FALSE)
    BY <1>3, GapSlotsIs
  <2> QED
    BY <2>1, PlainsHaveNone
<1> QED
  BY <1>1, <1>2, <1>3

LEMMA BaseMarkers ==
    ASSUME NEW a, NEW text, NEW o, Table(o.text), NEW t, Table(t.text)
    PROVE  \E marked \in BOOLEAN : /\ marked => o.type # "equal" /\ t.type # "equal"
                                   /\ AtMostOne(a, BaseSlots(a, text, o, t), marked)
<1>1. Plains(<<text>>) = <<Plain(text)>> /\ Table(<<text>>)
  BY PlainsOne, OneRow
<1>2. CASE o.type = "equal" /\ t.type = "equal"
  <2>1. BaseSlots(a, text, o, t) = Plains(<<text>>)
    BY <1>1, <1>2, BaseSlotsIs
  <2> QED
    BY <1>1, <2>1, PlainsHaveNone
<1>3. CASE o.type # "equal" /\ t.type = "equal"
  <2>1. BaseSlots(a, text, o, t) = Plains(o.text)
    BY <1>3, BaseSlotsIs
  <2> QED
    BY <2>1, PlainsHaveNone
<1>4. CASE o.type = "equal" /\ t.type # "equal"
  <2>1. BaseSlots(a, text, o, t) = Plains(t.text)
    BY <1>4, BaseSlotsIs
  <2> QED
    BY <2>1, PlainsHaveNone
<1>5. CASE o.type # "equal" /\ t.type # "equal" /\ o.text = t.text
  <2>1. BaseSlots(a, text, o, t) = Plains(o.text)
    BY <1>5, BaseSlotsIs
  <2> QED
    BY <2>1, PlainsHaveNone
<1>6. CASE o.type # "equal" /\ t.type # "equal" /\ o.text # t.text
  <2>1. BaseSlots(a, text, o, t) = <<Marker(a, o.text, t.text)>>
    BY <1>6, BaseSlotsIs
  <2> QED
    BY <1>6, <2>1, OneMarker
<1> QED
  BY <1>2, <1>3, <1>4, <1>5, <1>6

\* Base sentence a and the gap before it: both cannot be in conflict.
LEMMA RowMarkers ==
    ASSUME NEW flat, NEW o, NEW opsO, AlignsSide(flat, o, opsO),
           NEW t, NEW opsT, AlignsSide(flat, t, opsT), NEW a \in 1..Len(flat) + 1
    PROVE  LET row == SlotsAt(flat, o, opsO, t, opsT, a) IN
           /\ \A i \in DOMAIN row : SlotOf(a, row[i])
           /\ \A i, j \in DOMAIN row : row[i].kind = "conflict" /\ row[j].kind = "conflict" => i = j
<1> DEFINE gap == GapOf(flat, o, opsO, t, opsT, a)
           rest == BaseOf(flat, o, opsO, t, opsT, a)
           row == SlotsAt(flat, o, opsO, t, opsT, a)
           n == Len(gap)
           x == Inserted(opsO, o, a)
           y == Inserted(opsT, t, a)
           both == x # <<>> /\ y # <<>>
<1>1. Table(gap) /\ Table(rest) /\ row = gap \o rest
  BY SlotsAtIs
<1>2. AtMostOne(a, gap, both)
  <2>1. Table(x) /\ Table(y)
    BY InsertedTable
  <2> HIDE DEF x, y
  <2>2. AtMostOne(a, GapSlots(a, x, y), both)
    BY <2>1, GapMarkers
  <2> QED
    BY <2>2 DEF GapOf, x, y
<1>3. \E marked \in BOOLEAN : (marked => ~both) /\ AtMostOne(a, rest, marked)
  <2>1. CASE a > Len(flat)
    <3>1. rest = <<>>
      BY <2>1 DEF BaseOf
    <3>2. AtMostOne(a, <<>>, FALSE)
      BY NoRow DEF AtMostOne
    <3> QED
      BY <3>1, <3>2
  <2>2. CASE ~(a > Len(flat))
    <3> DEFINE c == SideChange(opsO, o, a)
               d == SideChange(opsT, t, a)
    <3>1. a \in 1..Len(flat)
      <4>1. Len(flat) \in Nat
        BY TableFacts DEF AlignsSide
      <4> QED
        BY <2>2, <4>1
    <3>2. rest = BaseSlots(a, flat[a].text, c, d)
      BY <2>2 DEF BaseOf
    <3>3. Table(c.text) /\ Table(d.text)
      BY <3>1, SideChangeIs
    <3>4. (x # <<>> => c.type = "equal") /\ (y # <<>> => d.type = "equal")
      BY <3>1, InsertedBeforeEqual
    <3> HIDE DEF c, d, rest
    <3>5. PICK marked \in BOOLEAN :
             /\ marked => c.type # "equal" /\ d.type # "equal"
             /\ AtMostOne(a, BaseSlots(a, flat[a].text, c, d), marked)
      BY <3>3, BaseMarkers
    <3> QED
      BY <3>2, <3>4, <3>5
  <2> QED
    BY <2>1, <2>2
<1> SUFFICES /\ \A i \in DOMAIN row : SlotOf(a, row[i])
             /\ \A i, j \in DOMAIN row : row[i].kind = "conflict" /\ row[j].kind = "conflict" => i = j
  OBVIOUS
<1> HIDE DEF both, rest, gap, row
<1>4. PICK marked \in BOOLEAN : (marked => ~both) /\ AtMostOne(a, rest, marked)
  BY <1>3
<1>5. /\ \A i \in DOMAIN gap : i \in DOMAIN row /\ row[i] = gap[i]
      /\ \A i \in DOMAIN rest : n + i \in DOMAIN row /\ row[n + i] = rest[i]
      /\ \A k \in DOMAIN row : k \in DOMAIN gap \/ (k - n \in DOMAIN rest /\ k = n + (k - n))
  <2>1. \A i \in DOMAIN gap : i \in DOMAIN (gap \o rest) /\ (gap \o rest)[i] = gap[i]
    BY <1>1, JoinHolds
  <2>2. \A i \in DOMAIN rest : Len(gap) + i \in DOMAIN (gap \o rest) /\ (gap \o rest)[Len(gap) + i] = rest[i]
    BY <1>1, JoinHolds
  <2>3. \A k \in DOMAIN (gap \o rest) : k \in DOMAIN gap \/ (k - Len(gap) \in DOMAIN rest /\ k = Len(gap) + (k - Len(gap)))
    BY <1>1, JoinHolds
  <2> QED
    BY <1>1, <2>1, <2>2, <2>3
<1> HIDE DEF n
<1>6. ASSUME NEW i \in DOMAIN row PROVE SlotOf(a, row[i])
  BY <1>2, <1>4, <1>5 DEF AtMostOne
<1>7. ASSUME NEW i \in DOMAIN row, row[i].kind = "conflict"
      PROVE  (both /\ i = 1 /\ i \in DOMAIN gap) \/ (marked /\ i - n = 1 /\ i = n + (i - n))
  <2>1. CASE i \in DOMAIN gap
    BY <1>2, <1>5, <1>7, <2>1 DEF AtMostOne
  <2>2. CASE i - n \in DOMAIN rest /\ i = n + (i - n)
    <3>1. row[i] = rest[i - n]
      BY <1>5, <2>2
    <3> QED
      BY <1>4, <1>7, <2>2, <3>1 DEF AtMostOne
  <2> QED
    BY <1>5, <2>1, <2>2
<1>8. ASSUME NEW i \in DOMAIN row, NEW j \in DOMAIN row, row[i].kind = "conflict", row[j].kind = "conflict"
      PROVE  i = j
  BY <1>4, <1>7, <1>8
<1> QED
  BY <1>6, <1>8

\* What resolving needs of the slots: no two marker blocks have the same sid.
Resolvable(slots) ==
    /\ Table(slots)
    /\ \A k \in DOMAIN slots :
          /\ slots[k].slot.kind \in {"text", "conflict"}
          /\ slots[k].slot.kind = "conflict" => Table(slots[k].slot.ours) /\ Table(slots[k].slot.theirs)
    /\ \A k, l \in DOMAIN slots :
          /\ slots[k].slot.kind = "conflict" /\ slots[l].slot.kind = "conflict"
          /\ slots[k].slot.sid = slots[l].slot.sid
          => k = l

LEMMA SlotsResolvable ==
    ASSUME NEW flat, NEW o, NEW opsO, AlignsSide(flat, o, opsO),
           NEW t, NEW opsT, AlignsSide(flat, t, opsT)
    PROVE  Resolvable(SlotsOf(flat, o, opsO, t, opsT))
<1> DEFINE slots == SlotsOf(flat, o, opsO, t, opsT)
           n == Len(flat) + 1
           at == [a \in 1..n |-> SlotsAt(flat, o, opsO, t, opsT, a)]
<1>1. /\ Table(slots)
      /\ \E place :
            /\ \A k \in DOMAIN slots :
                  /\ place[k][1] \in 1..n /\ place[k][2] \in DOMAIN at[place[k][1]]
                  /\ slots[k].slot = at[place[k][1]][place[k][2]]
            /\ \A a \in 1..n : \A i \in DOMAIN at[a] :
                  \E k \in DOMAIN slots : place[k][1] = a /\ place[k][2] = i
            /\ \A k, l \in DOMAIN slots :
                  place[k][1] = place[l][1] /\ place[k][2] = place[l][2] => k = l
  BY SlotsPlaced
<1>2. ASSUME NEW a \in 1..n
      PROVE  /\ \A i \in DOMAIN at[a] : SlotOf(a, at[a][i])
             /\ \A i, j \in DOMAIN at[a] : at[a][i].kind = "conflict" /\ at[a][j].kind = "conflict" => i = j
  BY RowMarkers
<1> HIDE DEF slots, n, at
<1>3. PICK place :
            /\ \A k \in DOMAIN slots :
                  /\ place[k][1] \in 1..n /\ place[k][2] \in DOMAIN at[place[k][1]]
                  /\ slots[k].slot = at[place[k][1]][place[k][2]]
            /\ \A k, l \in DOMAIN slots :
                  place[k][1] = place[l][1] /\ place[k][2] = place[l][2] => k = l
  BY <1>1
<1>4. ASSUME NEW k \in DOMAIN slots PROVE SlotOf(place[k][1], slots[k].slot)
  BY <1>2, <1>3
<1>5. ASSUME NEW k \in DOMAIN slots, NEW l \in DOMAIN slots,
             slots[k].slot.kind = "conflict", slots[l].slot.kind = "conflict",
             slots[k].slot.sid = slots[l].slot.sid
      PROVE  k = l
  <2>1. place[k][1] = place[l][1]
    BY <1>4, <1>5 DEF SlotOf
  <2> DEFINE a == place[k][1]
             i == place[k][2]
             j == place[l][2]
  <2>2. /\ a \in 1..n /\ i \in DOMAIN at[a] /\ j \in DOMAIN at[a]
        /\ slots[k].slot = at[a][i] /\ slots[l].slot = at[a][j]
    BY <1>3, <2>1
  <2> HIDE DEF a, i, j
  <2>3. i = j
    BY <1>2, <1>5, <2>2
  <2> QED
    BY <1>3, <2>1, <2>3 DEF i, j
<1>6. Resolvable(slots)
  BY <1>1, <1>4, <1>5 DEF Resolvable, SlotOf
<1> QED
  BY <1>6 DEF slots

Marked(slots) == {k \in DOMAIN slots : slots[k].slot.kind = "conflict"}

LEMMA ConflictsAre ==
    ASSUME NEW slots, Table(slots)
    PROVE  \E at : Picks(Conflicts(slots), Marked(slots), slots, at)
<1> DEFINE ss == [k \in DOMAIN slots |-> IF slots[k].slot.kind = "conflict" THEN <<slots[k]>> ELSE <<>>]
<1>1. DOMAIN slots = 1..Len(slots) /\ Len(slots) \in Nat
  BY TableFacts
<1>2. Table(ss) /\ DOMAIN ss = DOMAIN slots
  BY <1>1, TableFrom
<1>3. \A k \in DOMAIN ss : ss[k] = IF k \in Marked(slots) THEN <<slots[k]>> ELSE <<>>
  BY DEF Marked
<1>4. Conflicts(slots) = FlattenSeq(ss)
  BY DEF Conflicts
<1>5. Marked(slots) \subseteq DOMAIN ss
  BY DEF Marked
<1> HIDE DEF ss
<1>6. \E at : Picks(FlattenSeq(ss), Marked(slots), slots, at)
  BY <1>2, <1>3, <1>5, FlattenPicks
<1> QED
  BY <1>4, <1>6

Number(slots, k) == Cardinality({m \in 1..k : slots[m].slot.kind = "conflict"})

\* The d-th conflict is the d-th marker block.
LEMMA NumberIs ==
    ASSUME NEW slots, Table(slots), NEW at, Picks(Conflicts(slots), Marked(slots), slots, at),
           NEW d \in DOMAIN Conflicts(slots)
    PROVE  at[d] \in Marked(slots) /\ Number(slots, at[d]) = d
<1> DEFINE cs == Conflicts(slots)
           T == {m \in 1..at[d] : slots[m].slot.kind = "conflict"}
<1>1. DOMAIN slots = 1..Len(slots) /\ Len(slots) \in Nat
  BY TableFacts
<1>2. DOMAIN cs = 1..Len(cs) /\ Len(cs) \in Nat /\ d \in Nat /\ d # 0
  <2>1. DOMAIN cs = 1..Len(cs) /\ Len(cs) \in Nat
    BY TableFacts DEF Picks
  <2> QED
    BY <2>1
<1>3. \A c \in DOMAIN cs : at[c] \in Marked(slots) /\ at[c] \in DOMAIN slots /\ at[c] \in Nat
  BY <1>1 DEF Picks, Marked
<1> HIDE DEF cs
<1>4. d \in DOMAIN cs /\ \A b, c \in DOMAIN cs : b < c => at[b] < at[c]
  BY DEF Picks, cs
<1>5. \A m \in Marked(slots) : \E c \in DOMAIN cs : at[c] = m
  BY DEF Picks, cs
<1>6. \A c \in 1..d : at[c] \in T
  <2>1. ASSUME NEW c \in 1..d PROVE at[c] \in T
    <3>1. c \in DOMAIN cs /\ (c = d \/ c < d)
      BY <1>2, <1>4
    <3>2. at[c] \in Marked(slots) /\ at[c] \in 1..Len(slots) /\ at[d] \in Nat /\ (at[c] = at[d] \/ at[c] < at[d])
      BY <1>1, <1>3, <1>4, <3>1
    <3>3. at[c] \in 1..at[d]
      BY <1>1, <3>2
    <3> QED
      BY <3>2, <3>3 DEF Marked
  <2> QED
    BY <2>1
<1>7. \A b, c \in 1..d : at[b] = at[c] => b = c
  <2>1. ASSUME NEW b \in 1..d, NEW c \in 1..d, at[b] = at[c] PROVE b = c
    <3>1. b \in DOMAIN cs /\ c \in DOMAIN cs /\ (b = c \/ b < c \/ c < b)
      BY <1>2, <1>4
    <3>2. ~(at[b] < at[c]) /\ ~(at[c] < at[b])
      BY <1>3, <2>1, <3>1
    <3> QED
      BY <1>4, <3>1, <3>2
  <2> QED
    BY <2>1
<1>8. \A m \in T : \E c \in 1..d : at[c] = m
  <2>1. ASSUME NEW m \in T PROVE \E c \in 1..d : at[c] = m
    <3>1. at[d] \in 1..Len(slots)
      BY <1>1, <1>3, <1>4
    <3>2. m \in DOMAIN slots /\ m <= at[d] /\ m \in Nat
      BY <1>1, <3>1
    <3>3. PICK c \in DOMAIN cs : at[c] = m
      BY <1>5, <3>2 DEF Marked
    <3>4. ~(d < c)
      <4>1. ASSUME d < c PROVE FALSE
        <5>1. at[d] < m
          BY <1>4, <3>3, <4>1
        <5> QED
          BY <3>1, <3>2, <5>1
      <4> QED
        BY <4>1
    <3>5. c \in 1..d
      BY <1>2, <3>4
    <3> QED
      BY <3>3, <3>5
  <2> QED
    BY <2>1
<1>9. IsFiniteSet(T)
  <2>1. T \in SUBSET DOMAIN slots
    <3>1. at[d] \in 1..Len(slots)
      BY <1>1, <1>3, <1>4
    <3> QED
      BY <1>1, <3>1
  <2>2. IsFiniteSet(DOMAIN slots)
    BY TableFinite
  <2> HIDE DEF T
  <2> QED
    BY <2>1, <2>2, FS_Subset
<1> DEFINE S == 1..d
<1>10. IsFiniteSet(S) /\ Cardinality(S) = d
  <2>1. d \in Int /\ 1 \in Int
    BY <1>2
  <2>2. IsFiniteSet(1..d) /\ Cardinality(1..d) = IF 1 > d THEN 0 ELSE d - 1 + 1
    BY <2>1, FS_Interval
  <2> QED
    BY <1>2, <2>2
<1> HIDE DEF S, T
<1>11. Cardinality(S) = Cardinality(T)
  <2>1. \A c \in S : at[c] \in T
    BY <1>6 DEF S
  <2>2. \A b, c \in S : at[b] = at[c] => b = c
    BY <1>7 DEF S
  <2>3. \A m \in T : \E c \in S : at[c] = m
    BY <1>8 DEF S
  <2> QED
    BY <1>9, <2>1, <2>2, <2>3, Matched
<1> QED
  BY <1>3, <1>4, <1>10, <1>11 DEF T, Number

\* A resolution as rows of the merged text.
Words(para, text) == [m \in DOMAIN text |-> [para |-> para, slot |-> Plain(text[m])]]

LEMMA WordsAre ==
    ASSUME NEW para, NEW text, Table(text)
    PROVE  /\ Table(Words(para, text)) /\ DOMAIN Words(para, text) = DOMAIN text
           /\ \A m \in DOMAIN text : Words(para, text)[m].slot.kind = "text"
<1>1. DOMAIN text = 1..Len(text) /\ Len(text) \in Nat
  BY TableFacts
<1>2. Table(Words(para, text)) /\ DOMAIN Words(para, text) = DOMAIN text
  BY <1>1, TableFrom DEF Words
<1>3. ASSUME NEW m \in DOMAIN text PROVE Words(para, text)[m].slot.kind = "text"
  <2>1. Words(para, text)[m] = [para |-> para, slot |-> Plain(text[m])]
    BY DEF Words
  <2> QED
    BY <2>1, PlainIs
<1> QED
  BY <1>2, <1>3



\* compose_final_text goes through the conflicts one by one.
ReplaceStep(resolution, text, conflict) ==
    LET k == Min({m \in DOMAIN text : text[m] = conflict})
        final == resolution[conflict.slot.sid] IN
    SubSeq(text, 1, k - 1) \o Words(conflict.para, final) \o SubSeq(text, k + 1, Len(text))

ReplacesBy(resolution, slots, steps, N, f) ==
    f = [s \in SUBSET (1..N) |-> IF s = {} THEN slots ELSE ReplaceStep(resolution, f[s \ {Max(s)}], steps[Max(s)])]

LEMMA ReplaceExists ==
    ASSUME NEW resolution, NEW slots, NEW steps, NEW N \in Nat
    PROVE  \E f : ReplacesBy(resolution, slots, steps, N, f)
<1> DEFINE S == {n \in 0..N : \E f : ReplacesBy(resolution, slots, steps, n, f)}
<1>1. 0 \in S
  <2> DEFINE f == [s \in SUBSET (1..0) |-> slots]
  <2>1. \A s \in SUBSET (1..0) : s = {}
    OBVIOUS
  <2>2. ReplacesBy(resolution, slots, steps, 0, f)
    BY <2>1 DEF ReplacesBy
  <2> QED
    BY <2>2
<1>2. ASSUME NEW n \in 0..(N - 1), n \in S
      PROVE  n + 1 \in S
  <2>1. PICK f : ReplacesBy(resolution, slots, steps, n, f)
    BY <1>2
  <2>2. n \in Nat /\ n + 1 \in 0..N /\ n + 1 \in Nat
    OBVIOUS
  <2> DEFINE D == SUBSET (1..n + 1)
             g == [s \in D |-> IF n + 1 \in s THEN ReplaceStep(resolution, f[s \ {n + 1}], steps[n + 1]) ELSE f[s]]
  <2>3. ASSUME NEW s \in D
        PROVE  g[s] = IF s = {} THEN slots ELSE ReplaceStep(resolution, g[s \ {Max(s)}], steps[Max(s)])
    <3>1. CASE n + 1 \in s
      <4>1. \A k \in s : k <= n + 1
        BY <2>2
      <4>2. Max(s) = n + 1
        BY <2>2, <3>1, <4>1, LargestIs
      <4>3. s \ {n + 1} \in SUBSET (1..n + 1) /\ n + 1 \notin s \ {n + 1}
        BY <2>2
      <4>4. g[s \ {n + 1}] = f[s \ {n + 1}]
        BY <4>3
      <4> QED
        BY <3>1, <4>2, <4>4
    <3>2. CASE n + 1 \notin s
      <4>1. s \in SUBSET (1..n)
        BY <2>2, <3>2
      <4>2. f[s] = IF s = {} THEN slots ELSE ReplaceStep(resolution, f[s \ {Max(s)}], steps[Max(s)])
        BY <2>1, <4>1 DEF ReplacesBy
      <4>3. s \ {Max(s)} \in D /\ n + 1 \notin s \ {Max(s)}
        BY <3>2
      <4>4. g[s \ {Max(s)}] = f[s \ {Max(s)}] /\ g[s] = f[s]
        BY <3>2, <4>3
      <4> HIDE DEF g, D
      <4> QED
        BY <4>2, <4>4
    <3> QED
      BY <3>1, <3>2
  <2>4. g = [s \in D |-> g[s]]
    OBVIOUS
  <2> HIDE DEF g
  <2>5. g = [s \in D |-> IF s = {} THEN slots ELSE ReplaceStep(resolution, g[s \ {Max(s)}], steps[Max(s)])]
    BY <2>3, <2>4
  <2>6. ReplacesBy(resolution, slots, steps, n + 1, g)
    BY <2>5 DEF ReplacesBy
  <2> QED
    BY <2>2, <2>6
<1>3. 0..N \subseteq S
  <2> HIDE DEF S
  <2> QED
    BY <1>1, <1>2, Induct
<1> QED
  BY <1>3

LEMMA ReplaceInOrder ==
    ASSUME NEW resolution, NEW slots, NEW steps, NEW N \in Nat
    PROVE  LET f == CHOOSE f : ReplacesBy(resolution, slots, steps, N, f) IN
           /\ f[1..0] = slots
           /\ \A k \in 0..(N - 1) : f[1..k + 1] = ReplaceStep(resolution, f[1..k], steps[k + 1])
<1> DEFINE f == CHOOSE f : ReplacesBy(resolution, slots, steps, N, f)
<1>1. ReplacesBy(resolution, slots, steps, N, f)
  BY ReplaceExists
<1> HIDE DEF f
<1>2. f[1..0] = slots
  <2>1. 1..0 = {} /\ 1..0 \in SUBSET (1..N)
    OBVIOUS
  <2> QED
    BY <1>1, <2>1 DEF ReplacesBy
<1>3. ASSUME NEW k \in 0..(N - 1)
      PROVE  f[1..k + 1] = ReplaceStep(resolution, f[1..k], steps[k + 1])
  <2>1. 1..k + 1 \in SUBSET (1..N) /\ k + 1 \in Nat /\ k + 1 \in 1..k + 1
    OBVIOUS
  <2>2. Max(1..k + 1) = k + 1
    <3>1. /\ 1..k + 1 \in SUBSET (1..k + 1)
          /\ \A j \in 1..k + 1 : j <= k + 1
      OBVIOUS
    <3> QED
      BY <2>1, <3>1, LargestIs
  <2>3. (1..k + 1) \ {k + 1} = 1..k
    OBVIOUS
  <2> QED
    BY <1>1, <2>1, <2>2, <2>3 DEF ReplacesBy
<1> QED
  BY <1>2, <1>3 DEF f


ReplacedBy(slots, resolution, text) ==
    /\ text[0] = slots
    /\ \A c \in 0..(Len(Conflicts(slots)) - 1) :
          text[c + 1] = ReplaceStep(resolution, text[c], Conflicts(slots)[c + 1])
    /\ Composed(slots, resolution) = Paragraphs(text[Len(Conflicts(slots))])

LEMMA ComposedInOrder ==
    ASSUME NEW slots, NEW resolution, Table(Conflicts(slots))
    PROVE  \E text : ReplacedBy(slots, resolution, text)
<1> DEFINE cs == Conflicts(slots)
           N == Len(cs)
           f == CHOOSE f : ReplacesBy(resolution, slots, cs, N, f)
           text == [k \in 0..N |-> f[1..k]]
<1>1. N \in Nat /\ DOMAIN cs = 1..N
  BY TableFacts
<1>2. Composed(slots, resolution) = Paragraphs(f[1..N])
  <2>1. Composed(slots, resolution) = Paragraphs(
           (CHOOSE g : g = [s \in SUBSET (DOMAIN cs) |-> IF s = {} THEN slots
                         ELSE ReplaceStep(resolution, g[s \ {Max(s)}], cs[Max(s)])])[DOMAIN cs])
    BY DEF Composed, ReplaceStep, Words, FoldLeft, MapThenFoldSet
  <2> QED
    BY <1>1, <2>1 DEF ReplacesBy
<1> HIDE DEF N, cs
<1>3. /\ f[1..0] = slots
      /\ \A k \in 0..(N - 1) : f[1..k + 1] = ReplaceStep(resolution, f[1..k], cs[k + 1])
  BY <1>1, ReplaceInOrder
<1> HIDE DEF f
<1>4. \A k \in 0..N : text[k] = f[1..k]
  OBVIOUS
<1>5. /\ 0 \in 0..N /\ N \in 0..N
      /\ \A k \in 0..(N - 1) : k \in 0..N /\ k + 1 \in 0..N
  BY <1>1
<1> HIDE DEF text
<1>6. ReplacedBy(slots, resolution, text)
  BY <1>2, <1>3, <1>4, <1>5 DEF ReplacedBy, N, cs
<1> QED
  BY <1>6

LEMMA ResolutionIs ==
    ASSUME NEW slots, Resolvable(slots), NEW at, Picks(Conflicts(slots), Marked(slots), slots, at),
           NEW choice, NEW d \in DOMAIN Conflicts(slots)
    PROVE  Resolutions(Conflicts(slots), choice)[Conflicts(slots)[d].slot.sid] = choice[d]
<1> DEFINE cs == Conflicts(slots)
           sid == cs[d].slot.sid
           S == {k \in DOMAIN cs : cs[k].slot.sid = sid}
<1>1. Table(cs) /\ DOMAIN cs = 1..Len(cs) /\ Len(cs) \in Nat
  BY TableFacts DEF Picks
<1>2. ASSUME NEW k \in DOMAIN cs PROVE cs[k] = slots[at[k]] /\ at[k] \in Marked(slots)
  BY DEF Picks
<1>3. ASSUME NEW k \in S PROVE k = d
  <2>1. k \in DOMAIN cs /\ d \in DOMAIN cs /\ cs[k].slot.sid = cs[d].slot.sid
    OBVIOUS
  <2>2. cs[k] = slots[at[k]] /\ cs[d] = slots[at[d]] /\ at[k] \in Marked(slots) /\ at[d] \in Marked(slots)
    BY <1>2, <2>1
  <2>3. at[k] = at[d]
    BY <2>1, <2>2 DEF Resolvable, Marked
  <2>4. Marked(slots) \subseteq Int
    <3>1. DOMAIN slots = 1..Len(slots) /\ Len(slots) \in Nat
      BY TableFacts DEF Resolvable
    <3> QED
      BY <3>1 DEF Marked
  <2> QED
    BY <1>1, <2>1, <2>3, <2>4, PicksOnce
<1>4. d \in S
  OBVIOUS
<1>5. Resolutions(cs, choice) = [s \in {cs[k].slot.sid : k \in DOMAIN cs} |->
                                     choice[Max({k \in DOMAIN cs : cs[k].slot.sid = s})]]
  BY DEF Resolutions
<1>6. Resolutions(cs, choice)[sid] = choice[Max(S)]
  BY <1>5
<1> HIDE DEF S, sid, cs
<1>7. Max(S) = d
  <2>1. S \in SUBSET (1..Len(cs)) /\ \A k \in S : k <= d
    <3>1. d \in DOMAIN cs
      BY DEF cs
    <3> QED
      BY <1>1, <1>3, <3>1
  <2> QED
    BY <1>1, <1>4, <2>1, LargestIs
<1> QED
  BY <1>6, <1>7 DEF cs, sid

\* The rows of a slot once the first c conflicts are resolved.
Resolved(slots, choice, c) ==
    [k \in DOMAIN slots |->
        IF slots[k].slot.kind = "text" \/ Number(slots, k) > c THEN <<slots[k]>>
        ELSE Words(slots[k].para, choice[Number(slots, k)])]

LEMMA ResolvedRows ==
    ASSUME NEW slots, Resolvable(slots), NEW at, Picks(Conflicts(slots), Marked(slots), slots, at),
           NEW choice, \A d \in DOMAIN Conflicts(slots) : Table(choice[d]), NEW c \in Nat
    PROVE  LET rows == Resolved(slots, choice, c) IN
           /\ Table(rows) /\ DOMAIN rows = DOMAIN slots
           /\ \A k \in DOMAIN slots :
                 /\ Table(rows[k])
                 /\ \A i \in DOMAIN rows[k] : rows[k][i] = slots[k] \/ rows[k][i].slot.kind = "text"
<1> DEFINE rows == Resolved(slots, choice, c)
<1>1. Table(rows) /\ DOMAIN rows = DOMAIN slots
  <2>1. DOMAIN slots = 1..Len(slots) /\ Len(slots) \in Nat
    BY TableFacts DEF Resolvable
  <2> QED
    BY <2>1, TableFrom DEF Resolved
<1>2. ASSUME NEW k \in DOMAIN slots
      PROVE  /\ Table(rows[k])
             /\ \A i \in DOMAIN rows[k] : rows[k][i] = slots[k] \/ rows[k][i].slot.kind = "text"
  <2>1. CASE slots[k].slot.kind = "text" \/ Number(slots, k) > c
    <3> DEFINE x == slots[k]
    <3>1. rows[k] = <<x>>
      BY <2>1 DEF Resolved
    <3> HIDE DEF x, rows
    <3>2. Table(<<x>>) /\ DOMAIN <<x>> = {1} /\ <<x>>[1] = x
      BY OneRow
    <3> QED
      BY <3>1, <3>2 DEF x
  <2>2. CASE ~(slots[k].slot.kind = "text" \/ Number(slots, k) > c)
    <3> DEFINE d == Number(slots, k)
               text == choice[d]
               words == Words(slots[k].para, text)
    <3>1. rows[k] = words
      BY <2>2 DEF Resolved
    <3>2. k \in Marked(slots)
      BY <2>2 DEF Resolvable, Marked
    <3>3. PICK e \in DOMAIN Conflicts(slots) : at[e] = k
      BY <3>2 DEF Picks
    <3>4. d = e
      BY <3>3, NumberIs DEF Resolvable
    <3>5. Table(text)
      BY <3>3, <3>4
    <3> HIDE DEF rows, text
    <3>6. Table(words) /\ DOMAIN words = DOMAIN text /\ \A m \in DOMAIN text : words[m].slot.kind = "text"
      BY <3>5, WordsAre
    <3> HIDE DEF words
    <3> QED
      BY <3>1, <3>6
  <2> QED
    BY <2>1, <2>2
<1> QED
  BY <1>1, <1>2

Places(rows, x) == {m \in DOMAIN rows : rows[m] = x}
Absent(rows, x) == \A k \in DOMAIN rows : rows[k] # x

\* The first block equal to a marker is the marker itself: nothing before it is equal.
LEMMA FirstMarker ==
    ASSUME NEW pre, Table(pre), NEW post, Table(post), NEW x, NEW text, text = (pre \o <<x>>) \o post,
           Absent(pre, x)
    PROVE  Min(Places(text, x)) = Len(pre) + 1
<1> DEFINE S == Places(text, x)
           k == Len(pre) + 1
<1>1. Len(pre) \in Nat /\ DOMAIN pre = 1..Len(pre)
  BY TableFacts
<1>2. Table(text) /\ k \in DOMAIN text /\ text[k] = x /\ \A i \in DOMAIN pre : text[i] = pre[i]
  <2>1. k = Len(pre) + 1
    OBVIOUS
  <2> HIDE DEF k
  <2>2. Table(text)
    BY <2>1, AroundOne
  <2>3. k \in DOMAIN text
    BY <2>1, AroundOne
  <2>4. text[k] = x
    BY <2>1, AroundOne
  <2>5. \A i \in DOMAIN pre : text[i] = pre[i]
    BY <2>1, AroundOne
  <2> QED
    BY <2>2, <2>3, <2>4, <2>5
<1>3. S \in SUBSET Nat /\ k \in S /\ S # {}
  <2>1. DOMAIN text = 1..Len(text) /\ Len(text) \in Nat
    BY <1>2, TableFacts
  <2> QED
    BY <1>2, <2>1 DEF Places
<1>4. \A m \in S : ~(m \in DOMAIN pre)
  BY <1>2 DEF Absent, Places
<1>5. \A m \in S : m >= 1
  <2>1. DOMAIN text = 1..Len(text) /\ Len(text) \in Nat
    BY <1>2, TableFacts
  <2> QED
    BY <2>1 DEF Places
<1> HIDE DEF S
<1>6. Min(S) \in S /\ Min(S) <= k
  BY <1>3, Smallest
<1>7. Min(S) = k
  <2> DEFINE m == Min(S)
  <2>1. m \in S /\ m <= k /\ m \in Nat
    BY <1>3, <1>6
  <2>2. m >= 1 /\ m \notin 1..Len(pre)
    BY <1>1, <1>4, <1>5, <2>1
  <2> HIDE DEF m
  <2>3. m = k
    BY <1>1, <2>1, <2>2
  <2> QED
    BY <2>3 DEF m
<1> QED
  BY <1>7 DEF S

Before(text, pre, x, post) ==
    Table(pre) /\ Table(post) /\ text = (pre \o <<x>>) \o post /\ Absent(pre, x)
Around(pre, middle, post) == (pre \o middle) \o post

LEMMA ReplaceIs ==
    ASSUME NEW text, NEW pre, NEW x, NEW post, Before(text, pre, x, post), NEW resolution
    PROVE  ReplaceStep(resolution, text, x) = Around(pre, Words(x.para, resolution[x.slot.sid]), post)
<1>a. Table(pre) /\ Table(post) /\ text = (pre \o <<x>>) \o post /\ Absent(pre, x)
  BY DEF Before
<1>0. Min(Places(text, x)) = Len(pre) + 1
  BY <1>a, FirstMarker
<1> DEFINE k == Min(Places(text, x))
           final == resolution[x.slot.sid]
<1>1. k = Len(pre) + 1
  BY <1>0
<1>2. ReplaceStep(resolution, text, x) =
         SubSeq(text, 1, k - 1) \o Words(x.para, final) \o SubSeq(text, k + 1, Len(text))
  BY DEF ReplaceStep, Places
<1> HIDE DEF k, final
<1>3. SubSeq(text, 1, k - 1) = pre /\ SubSeq(text, k + 1, Len(text)) = post
  BY <1>1, <1>a, AroundOne
<1> QED
  BY <1>2, <1>3 DEF final, Around

LEMMA ReplaceResolves ==
    ASSUME NEW slots, Resolvable(slots), NEW at, Picks(Conflicts(slots), Marked(slots), slots, at),
           NEW choice, \A d \in DOMAIN Conflicts(slots) : Table(choice[d]),
           NEW c \in Nat, c + 1 \in DOMAIN Conflicts(slots)
    PROVE  ReplaceStep(Resolutions(Conflicts(slots), choice),
                       FlattenSeq(Resolved(slots, choice, c)), Conflicts(slots)[c + 1])
              = FlattenSeq(Resolved(slots, choice, c + 1))
<1> DEFINE cs == Conflicts(slots)
           d == c + 1
           p == at[d]
           x == slots[p]
           ss == Resolved(slots, choice, c)
           tt == Resolved(slots, choice, d)
           resolution == Resolutions(cs, choice)
           words == Words(x.para, choice[d])
<1>1. d \in DOMAIN cs /\ d \in Nat /\ d # 0
  OBVIOUS
<1>2. cs[d] = x /\ p \in Marked(slots) /\ p \in DOMAIN slots /\ x.slot.kind = "conflict"
  BY <1>1 DEF Picks, Marked
<1>3. Number(slots, p) = d
  BY <1>1, NumberIs DEF Resolvable
<1>4. resolution[x.slot.sid] = choice[d]
  <2>1. Resolutions(cs, choice)[cs[d].slot.sid] = choice[d]
    BY <1>1, ResolutionIs
  <2> QED
    BY <1>2, <2>1
<1>5. /\ Table(ss) /\ DOMAIN ss = DOMAIN slots
      /\ \A k \in DOMAIN slots :
            /\ Table(ss[k])
            /\ \A i \in DOMAIN ss[k] : ss[k][i] = slots[k] \/ ss[k][i].slot.kind = "text"
  BY ResolvedRows
<1>6. /\ Table(tt) /\ DOMAIN tt = DOMAIN slots /\ \A k \in DOMAIN slots : Table(tt[k])
  <2> HIDE DEF d
  <2>1. LET rows == Resolved(slots, choice, d) IN
           /\ Table(rows) /\ DOMAIN rows = DOMAIN slots
           /\ \A k \in DOMAIN slots :
                 /\ Table(rows[k])
                 /\ \A i \in DOMAIN rows[k] : rows[k][i] = slots[k] \/ rows[k][i].slot.kind = "text"
    BY <1>1, ResolvedRows
  <2> QED
    BY <2>1
<1>7. ss[p] = <<x>> /\ tt[p] = words
  <2>1. d > c /\ ~(d > d)
    OBVIOUS
  <2> HIDE DEF d, p
  <2>2. ss[p] = <<x>>
    BY <1>2, <1>3, <2>1 DEF Resolved
  <2>3. tt[p] = words
    BY <1>2, <1>3, <2>1 DEF Resolved
  <2> QED
    BY <2>2, <2>3
<1>8. ASSUME NEW k \in DOMAIN slots, k # p PROVE tt[k] = ss[k]
  <2>1. CASE slots[k].slot.kind = "text"
    BY <2>1 DEF Resolved
  <2>2. CASE slots[k].slot.kind # "text"
    <3>1. k \in Marked(slots)
      BY <2>2 DEF Resolvable, Marked
    <3>2. PICK e \in DOMAIN Conflicts(slots) : at[e] = k
      BY <3>1 DEF Picks
    <3>3. Number(slots, k) = e /\ e # d
      BY <1>8, <3>2, NumberIs DEF Resolvable
    <3>4. e \in Nat
      <4>1. DOMAIN Conflicts(slots) = 1..Len(Conflicts(slots)) /\ Len(Conflicts(slots)) \in Nat
        BY TableFacts DEF Picks
      <4> QED
        BY <3>2, <4>1
    <3>5. e > d <=> e > c
      BY <3>3, <3>4
    <3> HIDE DEF d
    <3> QED
      BY <3>3, <3>5 DEF Resolved
  <2> QED
    BY <2>1, <2>2
<1> SUFFICES ReplaceStep(resolution, FlattenSeq(ss), x) = FlattenSeq(tt)
  BY <1>2
<1>9. ASSUME NEW k \in DOMAIN slots, k # p, NEW i \in DOMAIN ss[k] PROVE ss[k][i] # x
  <2>1. ss[k][i] = slots[k] \/ ss[k][i].slot.kind = "text"
    BY <1>5
  <2>2. slots[k] # x
    BY <1>2, <1>9 DEF Resolvable
  <2> HIDE DEF ss
  <2> QED
    BY <1>2, <2>1, <2>2
<1> HIDE DEF x, ss, tt, words, d, resolution
<1> HIDE DEF p
<1>10. \E pre, post : Replacing(ss, tt, p, pre, post)
  <2>1. p \in DOMAIN ss /\ DOMAIN tt = DOMAIN ss
    BY <1>2, <1>5, <1>6
  <2>2. Table(ss) /\ Table(tt) /\ Table(tt[p])
    BY <1>2, <1>5, <1>6
  <2>3. \A k \in DOMAIN ss : Table(ss[k])
    BY <1>5
  <2>4. \A k \in DOMAIN ss : k # p => tt[k] = ss[k]
    BY <1>5, <1>8
  <2> QED
    BY <2>1, <2>2, <2>3, <2>4, FlattenReplaced
<1>11. PICK pre, post : Replacing(ss, tt, p, pre, post)
  BY <1>10
<1>12. /\ Table(pre) /\ Table(post)
       /\ FlattenSeq(ss) = (pre \o <<x>>) \o post /\ FlattenSeq(tt) = (pre \o words) \o post
  BY <1>7, <1>11 DEF Replacing
<1>13. Absent(pre, x)
  <2>1. ASSUME NEW k \in DOMAIN pre PROVE pre[k] # x
    <3>1. PICK j \in DOMAIN ss : j # p /\ \E i \in DOMAIN ss[j] : pre[k] = ss[j][i]
      BY <1>11 DEF Replacing
    <3> QED
      BY <1>5, <1>9, <3>1
  <2> QED
    BY <2>1 DEF Absent
<1> DEFINE text == FlattenSeq(ss)
<1>14. text = (pre \o <<x>>) \o post
  BY <1>12
<1> HIDE DEF text
<1>15. ReplaceStep(resolution, text, x) = Around(pre, Words(x.para, resolution[x.slot.sid]), post)
  <2>1. Before(text, pre, x, post)
    BY <1>12, <1>13, <1>14 DEF Before
  <2> QED
    BY <2>1, ReplaceIs
<1>16. Words(x.para, resolution[x.slot.sid]) = words
  BY <1>4 DEF words
<1> QED
  BY <1>12, <1>15, <1>16 DEF text, Around

LEMMA ComposedIs ==
    ASSUME NEW slots, Resolvable(slots), NEW choice,
           \A d \in DOMAIN Conflicts(slots) : Table(choice[d])
    PROVE  Composed(slots, Resolutions(Conflicts(slots), choice)) =
              Paragraphs(FlattenSeq(Resolved(slots, choice, Len(Conflicts(slots)))))
<1> DEFINE cs == Conflicts(slots)
           N == Len(cs)
           resolution == Resolutions(cs, choice)
           rows(c) == FlattenSeq(Resolved(slots, choice, c))
<1>1. PICK at : Picks(cs, Marked(slots), slots, at)
  BY ConflictsAre DEF Resolvable
<1>2. Table(cs) /\ DOMAIN cs = 1..N /\ N \in Nat
  BY <1>1, TableFacts DEF Picks
<1>3. PICK text : ReplacedBy(slots, resolution, text)
  BY <1>2, ComposedInOrder
<1>4. /\ text[0] = slots
      /\ \A c \in 0..(N - 1) : text[c + 1] = ReplaceStep(resolution, text[c], cs[c + 1])
      /\ Composed(slots, resolution) = Paragraphs(text[N])
  BY <1>3 DEF ReplacedBy
<1>5. ASSUME NEW c \in 0..(N - 1)
      PROVE  ReplaceStep(resolution, rows(c), cs[c + 1]) = rows(c + 1)
  <2>1. c \in Nat /\ c + 1 \in DOMAIN cs
    BY <1>2
  <2> QED
    BY <1>1, <2>1, ReplaceResolves
<1>6. rows(0) = slots
  <2> DEFINE ss == Resolved(slots, choice, 0)
  <2>1. Table(ss) /\ DOMAIN ss = DOMAIN slots
    <3> DEFINE z == 0
    <3>1. z \in Nat
      OBVIOUS
    <3> HIDE DEF z
    <3>2. LET rw == Resolved(slots, choice, z) IN
           /\ Table(rw) /\ DOMAIN rw = DOMAIN slots
           /\ \A k \in DOMAIN slots :
                 /\ Table(rw[k])
                 /\ \A i \in DOMAIN rw[k] : rw[k][i] = slots[k] \/ rw[k][i].slot.kind = "text"
      BY <1>1, <3>1, ResolvedRows
    <3> QED
      BY <3>2 DEF z
  <2>2. ASSUME NEW k \in DOMAIN slots PROVE ss[k] = <<slots[k]>>
    <3>1. CASE slots[k].slot.kind = "text"
      BY <3>1 DEF Resolved
    <3>2. CASE slots[k].slot.kind # "text"
      <4>1. k \in Marked(slots)
        BY <3>2 DEF Resolvable, Marked
      <4>2. PICK e \in DOMAIN cs : at[e] = k
        BY <1>1, <4>1 DEF Picks
      <4>3. Number(slots, k) = e
        BY <1>1, <4>2, NumberIs DEF Resolvable
      <4>4. e > 0
        BY <1>2, <4>2
      <4> QED
        BY <4>3, <4>4 DEF Resolved
    <3> QED
      BY <3>1, <3>2
  <2> HIDE DEF ss
  <2>3. FlattenSeq(ss) = slots
    BY <2>1, <2>2, FlattenSingles DEF Resolvable
  <2> QED
    BY <2>3 DEF ss
<1> HIDE DEF rows, N, cs, resolution
<1> DEFINE S == {c \in 0..N : text[c] = rows(c)}
<1>7. 0 \in S
  BY <1>2, <1>4, <1>6
<1>8. ASSUME NEW c \in 0..(N - 1), c \in S PROVE c + 1 \in S
  <2>1. c + 1 \in 0..N /\ text[c] = rows(c)
    BY <1>2, <1>8
  <2>2. text[c + 1] = rows(c + 1)
    BY <1>4, <1>5, <2>1
  <2> QED
    BY <2>1, <2>2
<1>9. 0..N \subseteq S
  <2> HIDE DEF S
  <2> QED
    BY <1>2, <1>7, <1>8, Induct
<1>10. text[N] = rows(N)
  BY <1>2, <1>9
<1> QED
  BY <1>4, <1>10 DEF rows, N, cs, resolution

\* After the last conflict every marker has given way to its own resolution.
LEMMA AllResolved ==
    ASSUME NEW slots, Resolvable(slots), NEW choice, NEW k \in DOMAIN slots
    PROVE  Resolved(slots, choice, Len(Conflicts(slots)))[k] =
              IF slots[k].slot.kind = "text" THEN <<slots[k]>>
              ELSE Words(slots[k].para, choice[Number(slots, k)])
<1>1. CASE slots[k].slot.kind = "text"
  BY <1>1 DEF Resolved
<1>2. CASE slots[k].slot.kind # "text"
  <2>1. PICK at : Picks(Conflicts(slots), Marked(slots), slots, at)
    BY ConflictsAre DEF Resolvable
  <2>2. k \in Marked(slots)
    BY <1>2 DEF Resolvable, Marked
  <2>3. PICK e \in DOMAIN Conflicts(slots) : at[e] = k
    BY <2>1, <2>2 DEF Picks
  <2>4. Number(slots, k) = e
    BY <2>1, <2>3, NumberIs DEF Resolvable
  <2>5. DOMAIN Conflicts(slots) = 1..Len(Conflicts(slots)) /\ Len(Conflicts(slots)) \in Nat
    BY <2>1, TableFacts DEF Picks
  <2>6. ~(Number(slots, k) > Len(Conflicts(slots)))
    BY <2>3, <2>4, <2>5
  <2> QED
    BY <1>2, <2>6 DEF Resolved
<1> QED
  BY <1>1, <1>2

Options(c) == {c.slot.ours, c.slot.theirs, <<>>}

\* A choice for a conflict is a table of sentences: a side of the conflict, or nothing.
LEMMA ChoicesAreTables ==
    ASSUME NEW slots, Resolvable(slots), NEW choice,
           \A d \in DOMAIN Conflicts(slots) : choice[d] \in Options(Conflicts(slots)[d])
    PROVE  \A d \in DOMAIN Conflicts(slots) : Table(choice[d])
<1>1. PICK at : Picks(Conflicts(slots), Marked(slots), slots, at)
  BY ConflictsAre DEF Resolvable
<1>2. ASSUME NEW d \in DOMAIN Conflicts(slots) PROVE Table(choice[d])
  <2> DEFINE c == Conflicts(slots)[d]
  <2>1. c = slots[at[d]] /\ at[d] \in Marked(slots)
    BY <1>1 DEF Picks
  <2>2. Table(c.slot.ours) /\ Table(c.slot.theirs)
    BY <2>1 DEF Resolvable, Marked
  <2>3. choice[d] \in {c.slot.ours, c.slot.theirs, <<>>}
    BY DEF Options
  <2> HIDE DEF c
  <2> QED
    BY <2>2, <2>3, NoRow
<1> QED
  BY <1>2

\* Resolving a merge is exact: whatever is chosen for each conflict (a side of it,
\* or nothing), the composed text is the merged text with each marker replaced by
\* the sentences chosen for its own conflict, in its place and its paragraph, and
\* no marker is left (compose_final_text, three_way.py:256-278: "each marker
\* carries its sid and is unique, so replacement is exact").
THEOREM ResolutionsAreExact == ProseSpec => []ResolutionIsExact
<1>1. ASSUME TypeOK PROVE ResolutionIsExact
  <2> DEFINE flat == Flat(base)
             opsO == Alignment[BaseTexts][ours]
             opsT == Alignment[BaseTexts][theirs]
             slots == SlotsOf(flat, ours, opsO, theirs, opsT)
             cs == Conflicts(slots)
             final(choice, k) == IF slots[k].slot.kind = "text" THEN <<slots[k]>>
                                 ELSE Words(slots[k].para, choice[Number(slots, k)])
  <2>1. Merged = slots
    BY DEF Slots, BaseTexts, Merged
  <2>2. AlignsSide(flat, ours, opsO) /\ AlignsSide(flat, theirs, opsT)
    BY <1>1, SidesAlign DEF TypeOK
  <2>3. Resolvable(slots)
    BY <2>2, SlotsResolvable
  <2> HIDE DEF slots
  <2>4. ASSUME NEW choice, \A d \in DOMAIN cs : choice[d] \in Options(cs[d])
        PROVE  Composed(slots, Resolutions(cs, choice)) =
                  Paragraphs(FlattenSeq([k \in DOMAIN slots |-> final(choice, k)]))
    <3>1. \A d \in DOMAIN cs : Table(choice[d])
      BY <2>3, <2>4, ChoicesAreTables
    <3>2. Composed(slots, Resolutions(cs, choice)) =
             Paragraphs(FlattenSeq(Resolved(slots, choice, Len(cs))))
      BY <2>3, <3>1, ComposedIs
    <3>3. \A k \in DOMAIN slots : Resolved(slots, choice, Len(cs))[k] = final(choice, k)
      BY <2>3, AllResolved
    <3>4. Resolved(slots, choice, Len(cs)) = [k \in DOMAIN slots |-> final(choice, k)]
      BY <3>3 DEF Resolved
    <3> QED
      BY <3>2, <3>4
  <2> DEFINE choices == {f \in [DOMAIN cs -> UNION {Options(c) : c \in ToSet(cs)}] :
                            \A d \in DOMAIN cs : f[d] \in Options(cs[d])}
             Exact(choice) == Composed(slots, Resolutions(cs, choice)) =
                                 Paragraphs(FlattenSeq([k \in DOMAIN slots |-> final(choice, k)]))
  <2>5. ResolutionIsExact <=> \A choice \in choices : Exact(choice)
    BY <2>1 DEF ResolutionIsExact, Options, Words, Number
  <2>6. ASSUME NEW choice \in choices PROVE Exact(choice)
    <3>1. \A d \in DOMAIN cs : choice[d] \in Options(cs[d])
      OBVIOUS
    <3> HIDE DEF cs
    <3> QED
      BY <2>4, <3>1
  <2> HIDE DEF choices, Exact
  <2> QED
    BY <2>5, <2>6
<1>2. TypeOK => ResolutionIsExact
  BY <1>1
<1> QED
  BY <1>2, VersionsAreDocuments, PTL
=============================================================================
