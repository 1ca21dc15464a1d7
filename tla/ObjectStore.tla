---------------------------- MODULE ObjectStore ----------------------------
(***************************************************************************)
(* core/objects/store.py under its real callers.  FastAPI runs every       *)
(* synchronous handler in a thread pool, and all threads share ONE sqlite3 *)
(* connection (check_same_thread=False).  Writers take the store's RLock   *)
(* in _tx(); readers such as head() take no lock, so they see the tables   *)
(* as the open transaction left them; delete_artifact writes and calls     *)
(* db.commit() without the lock.                                           *)
(*                                                                         *)
(* The connection is modelled by what its statements do: `db` is what any  *)
(* SELECT on it returns, `saved` is its undo stack: BEGIN IMMEDIATE or     *)
(* SAVEPOINT pushes, COMMIT or RELEASE pops, ROLLBACK [TO] pops into db,   *)
(* and a stray db.commit() empties it.  What a crash leaves is Durable.    *)
(*                                                                         *)
(* A commit id is a SHA-256 of the commit's fields, so the id IS the       *)
(* record of those fields: two commits with equal fields are one row.      *)
(***************************************************************************)
EXTENDS Naturals, Sequences, FiniteSets

CONSTANTS
    Thread,        \* worker threads of the server
    Artifact,      \* versioned artifacts (documents, repositories)
    Branch,        \* branch names
    Main,          \* the branch create_artifact commits to
    Content,       \* blob contents; a root hash is its content
    Stamp,         \* (message, author, author_date): the rest of the identity
    NoCommit,      \* SQL NULL / Python None where a commit id is expected
    Deletable,     \* artifacts that some client deletes
    BlindCommits,  \* may a client commit without base_commit?
    MaxCommits     \* bound on the commit rows of one behaviour

ASSUME StoreAssumption ==
    /\ Main \in Branch
    /\ Content # {} /\ Stamp # {}
    /\ Deletable \subseteq Artifact
    /\ BlindCommits \in BOOLEAN
    /\ MaxCommits \in Nat

VARIABLES
    db,        \* the tables as the shared connection shows them
    saved,     \* the connection's open transaction and savepoints
    files,     \* blob files under data/objects
    pc,        \* where each thread is
    depth,     \* how many _tx() frames each thread has open (holds the RLock iff > 0)
    call,      \* arguments of each thread's store.commit / store.create_branch
    base,      \* the heads a thread has read, in the order it lists them as parents
    pending,   \* moves done inside the thread's outermost _tx, not yet acknowledged
    acked,     \* moves a client got a 2xx for
    removal    \* progress of delete_artifact

vars == <<db, saved, files, pc, depth, call, base, pending, acked, removal>>
caller == <<call, base, pending, acked>>

Ref == Artifact \X Branch

\* commit_id hashes the parent LIST (sorted), so it sees how often a parent is
\* given; commit_parents has PRIMARY KEY(commit_id, parent_id), so it does not.
Multiplicity(s) == [p \in {s[i] : i \in DOMAIN s} |->
                        Cardinality({i \in DOMAIN s : s[i] = p})]

CommitId(a, root, parents, stamp) ==
    [artifact |-> a, root |-> root, parents |-> Multiplicity(parents), stamp |-> stamp]

\* The rows of commit_parents for commit c.
Parents(c) == DOMAIN c.parents

RootContent == CHOOSE r \in Content : TRUE
RootStamp == CHOOSE s \in Stamp : TRUE
RootCommit(a) == CommitId(a, RootContent, <<>>, RootStamp)

Durable == IF saved = <<>> THEN db ELSE saved[1]

LockFreeFor(t) == \A u \in Thread \ {t} : depth[u] = 0

Idle == [ref |-> <<>>, expected |-> NoCommit, cid |-> NoCommit]

-----------------------------------------------------------------------------
\* Every artifact has been created and committed once (create_artifact).
InitialTables ==
    [objects  |-> {RootContent},
     commits  |-> {RootCommit(a) : a \in Artifact},
     refs     |-> [r \in Ref |-> IF r[2] = Main THEN RootCommit(r[1]) ELSE NoCommit],
     branches |-> [r \in Ref |-> IF r[2] = Main THEN RootCommit(r[1]) ELSE NoCommit],
     claimed  |-> {RootCommit(a) : a \in Artifact},
     tombs    |-> {}]

Init ==
    /\ db = InitialTables
    /\ saved = <<>>
    /\ files = {RootContent}
    /\ pc = [t \in Thread |-> "idle"]
    /\ depth = [t \in Thread |-> 0]
    /\ call = [t \in Thread |-> Idle]
    /\ base = [t \in Thread |-> <<>>]
    /\ pending = [t \in Thread |-> {}]
    /\ acked = {}
    /\ removal = [a \in Artifact |-> "none"]

-----------------------------------------------------------------------------
(* _tx(): enter and leave one frame.                                       *)

Enter(t) ==
    /\ LockFreeFor(t)
    /\ saved' = Append(saved, db)
    /\ depth' = [depth EXCEPT ![t] = @ + 1]

\* RELEASE SAVEPOINT or COMMIT; with nothing open sqlite raises instead.
Leave(t, next) ==
    /\ depth' = [depth EXCEPT ![t] = @ - 1]
    /\ \/ /\ saved # <<>>
          /\ saved' = SubSeq(saved, 1, Len(saved) - 1)
          /\ pc' = [pc EXCEPT ![t] = next]
       \/ /\ saved = <<>>
          /\ pc' = [pc EXCEPT ![t] = IF depth[t] = 1 THEN "failed" ELSE "raise"]
          /\ UNCHANGED saved
    /\ UNCHANGED db

\* Mutant of Unwind: RELEASE without ROLLBACK TO.
UnwindKeeping(t) ==
    /\ pc[t] = "raise"
    /\ depth' = [depth EXCEPT ![t] = @ - 1]
    /\ pc' = [pc EXCEPT ![t] = IF depth[t] = 1 THEN "failed" ELSE "raise"]
    /\ saved' = IF saved = <<>> THEN saved ELSE SubSeq(saved, 1, Len(saved) - 1)
    /\ UNCHANGED <<db, files, caller, removal>>

\* Mutant of Unwind: the error path forgets to release the lock.
UnwindHolding(t) ==
    /\ pc[t] = "raise"
    /\ pc' = [pc EXCEPT ![t] = "failed"]
    /\ UNCHANGED <<db, saved, files, depth, caller, removal>>

\* An exception leaves the innermost frame: ROLLBACK [TO SAVEPOINT].  With
\* nothing open the ROLLBACK itself raises and db keeps what was written.
Unwind(t) ==
    /\ pc[t] = "raise"
    /\ depth' = [depth EXCEPT ![t] = @ - 1]
    /\ pc' = [pc EXCEPT ![t] = IF depth[t] = 1 THEN "failed" ELSE "raise"]
    /\ \/ /\ saved # <<>>
          /\ db' = saved[Len(saved)]
          /\ saved' = SubSeq(saved, 1, Len(saved) - 1)
       \/ /\ saved = <<>>
          /\ UNCHANGED <<db, saved>>
    /\ UNCHANGED <<files, caller, removal>>

\* The handler answers with the error.
Fail(t) ==
    /\ pc[t] = "failed"
    /\ pc' = [pc EXCEPT ![t] = "idle"]
    /\ call' = [call EXCEPT ![t] = Idle]
    /\ base' = [base EXCEPT ![t] = <<>>]
    /\ pending' = [pending EXCEPT ![t] = {}]
    /\ UNCHANGED <<db, saved, files, depth, acked, removal>>

-----------------------------------------------------------------------------
(* What a handler does before it calls the store.                          *)

\* A handler reads the branch head through the shared connection, no lock.
ReadHead(t, ref) ==
    /\ pc[t] = "idle"
    /\ ref[1] \notin db.tombs
    /\ db.refs[ref] # NoCommit \/ BlindCommits
    /\ Cardinality(db.commits) < MaxCommits
    /\ base' = [base EXCEPT ![t] = IF db.refs[ref] = NoCommit THEN <<>> ELSE <<db.refs[ref]>>]
    /\ call' = [call EXCEPT ![t].ref = ref]
    /\ pc' = [pc EXCEPT ![t] = "read"]
    /\ UNCHANGED <<db, saved, files, depth, pending, acked, removal>>

\* merge() reads a second head, theirs, of the same artifact.
ReadTheirs(t, ref) ==
    /\ pc[t] = "read"
    /\ Len(base[t]) = 1
    /\ ref[1] = call[t].ref[1]
    /\ db.refs[ref] # NoCommit
    /\ base' = [base EXCEPT ![t] = Append(@, db.refs[ref])]
    /\ UNCHANGED <<db, saved, files, pc, depth, call, pending, acked, removal>>

\* Mutant of PutBlob: the row is only inserted with the file.
PutBlobIfNew(root) ==
    /\ files' = files \cup {root}
    /\ db' = IF root \in files THEN db ELSE [db EXCEPT !.objects = @ \cup {root}]

\* put_blob: the file is written once and survives a rollback; the row is
\* inserted whenever it is missing, file or no file.
PutBlob(root) ==
    /\ files' = files \cup {root}
    /\ db' = [db EXCEPT !.objects = @ \cup {root}]

\* The blob is stored and the arguments of store.commit are fixed.  Merges and
\* guarded commits pass the head they read; a blind commit passes None.
Prepare(t, root, stamp) ==
    /\ pc[t] = "read"
    /\ LockFreeFor(t)
    /\ PutBlob(root)
    /\ \E e \in {IF base[t] = <<>> THEN NoCommit ELSE base[t][1]}
                \cup (IF BlindCommits /\ Len(base[t]) = 1 THEN {NoCommit} ELSE {}) :
          call' = [call EXCEPT ![t].expected = e,
                               ![t].cid = CommitId(call[t].ref[1], root, base[t], stamp)]
    /\ pc' = [pc EXCEPT ![t] = "commit"]
    /\ UNCHANGED <<saved, depth, base, pending, acked, removal>>

\* A client asks for a branch at a commit it has seen.
AskBranch(t, ref) ==
    /\ pc[t] = "idle"
    /\ ref[1] \notin db.tombs
    /\ \E c \in db.commits : call' = [call EXCEPT ![t].ref = ref, ![t].cid = c]
    /\ pc' = [pc EXCEPT ![t] = "branch"]
    /\ UNCHANGED <<db, saved, files, depth, base, pending, acked, removal>>

-----------------------------------------------------------------------------
(* store.commit, statement by statement inside its _tx.                    *)

BeginCommit(t) ==
    /\ pc[t] = "commit"
    /\ Enter(t)
    /\ pc' = [pc EXCEPT ![t] = "insert"]
    /\ UNCHANGED <<db, files, caller, removal>>

\* Mutant of InsertCommit: the parents are taken on trust.
InsertUnchecked(t) ==
    /\ pc[t] = "insert"
    /\ db' = [db EXCEPT !.commits = @ \cup {call[t].cid}]
    /\ pc' = [pc EXCEPT ![t] = "advance"]
    /\ UNCHANGED <<saved, files, depth, caller, removal>>

\* The root object and every parent must exist; a parent of another artifact
\* does not count.  INSERT OR IGNORE of the commit and commit_parents rows.
InsertCommit(t) ==
    LET c == call[t].cid IN
    /\ pc[t] = "insert"
    /\ \/ /\ c.root \in db.objects
          /\ \A p \in Parents(c) : p \in db.commits /\ p.artifact = c.artifact
          /\ db' = [db EXCEPT !.commits = @ \cup {c}]
          /\ pc' = [pc EXCEPT ![t] = "advance"]
       \/ /\ \/ c.root \notin db.objects
             \/ \E p \in Parents(c) : p \notin db.commits \/ p.artifact # c.artifact
          /\ pc' = [pc EXCEPT ![t] = "raise"]
          /\ UNCHANGED db
    /\ UNCHANGED <<saved, files, depth, caller, removal>>

\* Mutant of CasAdvance: the expected head is not compared.
AdvanceAlways(t) ==
    /\ pc[t] = "advance"
    /\ db' = [db EXCEPT !.refs[call[t].ref] = call[t].cid]
    /\ pc' = [pc EXCEPT ![t] = IF db.refs[call[t].ref] = NoCommit THEN "mirror new" ELSE "mirror"]
    /\ UNCHANGED <<saved, files, depth, caller, removal>>

\* _cas_advance: create the ref, or leave it when it already is the commit, or
\* move it from the expected head, or raise RefConflictError.
CasAdvance(t) ==
    LET ref == call[t].ref
        cid == call[t].cid
        expected == call[t].expected
        current == db.refs[ref] IN
    /\ pc[t] = "advance"
    /\ \/ /\ current = NoCommit /\ expected = NoCommit
          /\ db' = [db EXCEPT !.refs[ref] = cid]
          /\ pc' = [pc EXCEPT ![t] = "mirror new"]
       \/ /\ current = cid
          /\ pc' = [pc EXCEPT ![t] = "capture"]
          /\ UNCHANGED db
       \/ /\ current \notin {NoCommit, cid}
          /\ expected \in {NoCommit, current}
          /\ db' = [db EXCEPT !.refs[ref] = cid]
          /\ pc' = [pc EXCEPT ![t] = "mirror"]
       \/ /\ current # cid
          /\ expected \notin {NoCommit, current}
          /\ pc' = [pc EXCEPT ![t] = "raise"]
          /\ UNCHANGED db
    /\ UNCHANGED <<saved, files, depth, caller, removal>>

\* Mutant of Mirror: only a new ref is mirrored.
MirrorNewOnly(t) ==
    /\ pc[t] \in {"mirror new", "mirror"}
    /\ db' = IF pc[t] = "mirror new" THEN [db EXCEPT !.branches[call[t].ref] = call[t].cid] ELSE db
    /\ pc' = [pc EXCEPT ![t] = "capture"]
    /\ UNCHANGED <<saved, files, depth, caller, removal>>

\* The branches row follows: INSERT OR IGNORE for a new ref, else UPDATE.
Mirror(t) ==
    LET ref == call[t].ref IN
    /\ \/ /\ pc[t] = "mirror new" /\ db.branches[ref] = NoCommit
          /\ db' = [db EXCEPT !.branches[ref] = call[t].cid]
       \/ /\ pc[t] = "mirror" /\ db.branches[ref] # NoCommit
          /\ db' = [db EXCEPT !.branches[ref] = call[t].cid]
       \/ /\ \/ pc[t] = "mirror new" /\ db.branches[ref] # NoCommit
             \/ pc[t] = "mirror" /\ db.branches[ref] = NoCommit
          /\ UNCHANGED db
    /\ pc' = [pc EXCEPT ![t] = "capture"]
    /\ UNCHANGED <<saved, files, depth, caller, removal>>

\* capture_commit writes the commit's edge and claims in a nested _tx.
Capture(t) ==
    /\ pc[t] = "capture"
    /\ Enter(t)
    /\ db' = [db EXCEPT !.claimed = @ \cup {call[t].cid}]
    /\ pc' = [pc EXCEPT ![t] = "captured"]
    /\ UNCHANGED <<files, caller, removal>>

EndCapture(t) ==
    /\ pc[t] = "captured"
    /\ Leave(t, "leave")
    /\ pending' = [pending EXCEPT ![t] = @ \cup {[ref |-> call[t].ref, cid |-> call[t].cid]}]
    /\ UNCHANGED <<files, call, base, acked, removal>>

\* Mutant of EndCommit: a commit inside a batch answers for the batch.
EndCommitDone(t) ==
    /\ pc[t] = "leave"
    /\ Leave(t, "done")
    /\ UNCHANGED <<files, caller, removal>>

\* store.commit's own frame ends; in a batch the outer frame is still open.
EndCommit(t) ==
    /\ pc[t] = "leave"
    /\ Leave(t, IF depth[t] = 1 THEN "done" ELSE "batch")
    /\ UNCHANGED <<files, caller, removal>>

\* Mutant of Acknowledge: the answer may be sent before COMMIT returns.
AcknowledgeEarly(t) ==
    /\ pc[t] \in {"leave", "done"}
    /\ acked' = acked \cup pending[t]
    /\ pending' = [pending EXCEPT ![t] = {}]
    /\ pc' = [pc EXCEPT ![t] = IF @ = "done" THEN "idle" ELSE @]
    /\ UNCHANGED <<db, saved, files, depth, call, base, removal>>

\* The handler returns and the client sees success.
Acknowledge(t) ==
    /\ pc[t] = "done"
    /\ acked' = acked \cup pending[t]
    /\ pending' = [pending EXCEPT ![t] = {}]
    /\ pc' = [pc EXCEPT ![t] = "idle"]
    /\ call' = [call EXCEPT ![t] = Idle]
    /\ base' = [base EXCEPT ![t] = <<>>]
    /\ UNCHANGED <<db, saved, files, depth, removal>>

-----------------------------------------------------------------------------
(* store.create_branch.                                                    *)

BeginBranch(t) ==
    /\ pc[t] = "branch"
    /\ Enter(t)
    /\ pc' = [pc EXCEPT ![t] = "fork"]
    /\ UNCHANGED <<db, files, caller, removal>>

\* Mutant of Fork: the commit is taken on trust.
ForkUnchecked(t) ==
    LET ref == call[t].ref IN
    /\ pc[t] = "fork"
    /\ db.refs[ref] = NoCommit
    /\ db' = [db EXCEPT !.refs[ref] = call[t].cid]
    /\ pc' = [pc EXCEPT ![t] = "fork mirror"]
    /\ UNCHANGED <<saved, files, depth, caller, removal>>

Fork(t) ==
    LET ref == call[t].ref
        c == call[t].cid
        allowed == c \in db.commits /\ c.artifact = ref[1] /\ db.refs[ref] = NoCommit IN
    /\ pc[t] = "fork"
    /\ \/ /\ allowed
          /\ db' = [db EXCEPT !.refs[ref] = c]
          /\ pc' = [pc EXCEPT ![t] = "fork mirror"]
       \/ /\ ~allowed
          /\ pc' = [pc EXCEPT ![t] = "raise"]
          /\ UNCHANGED db
    /\ UNCHANGED <<saved, files, depth, caller, removal>>

\* A plain INSERT: a branches row already there is a primary-key error.
ForkMirror(t) ==
    LET ref == call[t].ref IN
    /\ pc[t] = "fork mirror"
    /\ \/ /\ db.branches[ref] = NoCommit
          /\ db' = [db EXCEPT !.branches[ref] = call[t].cid]
          /\ pending' = [pending EXCEPT ![t] = {[ref |-> ref, cid |-> call[t].cid]}]
          /\ pc' = [pc EXCEPT ![t] = "leave"]
       \/ /\ db.branches[ref] # NoCommit
          /\ pc' = [pc EXCEPT ![t] = "raise"]
          /\ UNCHANGED <<db, pending>>
    /\ UNCHANGED <<saved, files, depth, call, base, acked, removal>>

-----------------------------------------------------------------------------
(* Repositories.upload / edit / publish: several commits in one outer _tx. *)
(* Each is the only commit of its artifact in the batch, its parent is the *)
(* head read under the lock, and validation may fail after some of them.   *)

BeginBatch(t) ==
    /\ pc[t] = "idle"
    /\ Cardinality(db.commits) < MaxCommits
    /\ Enter(t)
    /\ pc' = [pc EXCEPT ![t] = "batch"]
    /\ UNCHANGED <<db, files, caller, removal>>

BatchCommit(t, ref, root, stamp) ==
    LET head == db.refs[ref]
        parents == IF head = NoCommit THEN <<>> ELSE <<head>> IN
    /\ pc[t] = "batch"
    /\ \A m \in pending[t] : m.ref[1] # ref[1]
    /\ ref[1] \notin db.tombs
    /\ Cardinality(db.commits) < MaxCommits
    /\ PutBlob(root)
    /\ call' = [call EXCEPT ![t] = [ref |-> ref, expected |-> head,
                                    cid |-> CommitId(ref[1], root, parents, stamp)]]
    /\ pc' = [pc EXCEPT ![t] = "commit"]
    /\ UNCHANGED <<saved, depth, base, pending, acked, removal>>

EndBatch(t) ==
    /\ pc[t] = "batch"
    /\ pending[t] # {}
    /\ Leave(t, "done")
    /\ UNCHANGED <<files, caller, removal>>

\* A blank message, an oversized file, a parse error, a name collision.
AbortBatch(t) ==
    /\ pc[t] = "batch"
    /\ pc' = [pc EXCEPT ![t] = "raise"]
    /\ UNCHANGED <<db, saved, files, depth, caller, removal>>

-----------------------------------------------------------------------------
(* delete_artifact: three statements on the shared connection, no lock.    *)

\* _ensure_tombstones: CREATE TABLE IF NOT EXISTS, then db.commit(), which
\* commits whatever transaction another thread has open.
EnsureTombstones(a) ==
    /\ a \in Deletable
    /\ removal[a] = "none"
    /\ saved' = <<>>
    /\ removal' = [removal EXCEPT ![a] = "ensured"]
    /\ UNCHANGED <<db, files, pc, depth, caller>>

\* The INSERT joins the open transaction, if there is one.
InsertTombstone(a) ==
    /\ removal[a] = "ensured"
    /\ db' = [db EXCEPT !.tombs = @ \cup {a}]
    /\ removal' = [removal EXCEPT ![a] = "inserted"]
    /\ UNCHANGED <<saved, files, pc, depth, caller>>

CommitTombstone(a) ==
    /\ removal[a] = "inserted"
    /\ saved' = <<>>
    /\ removal' = [removal EXCEPT ![a] = "deleted"]
    /\ UNCHANGED <<db, files, pc, depth, caller>>

-----------------------------------------------------------------------------
\* The process dies and restarts: sqlite rolls the open transaction back, the
\* blob files stay, every request in flight is gone without an answer.
Crash ==
    /\ db' = Durable
    /\ saved' = <<>>
    /\ pc' = [t \in Thread |-> "idle"]
    /\ depth' = [t \in Thread |-> 0]
    /\ call' = [t \in Thread |-> Idle]
    /\ base' = [t \in Thread |-> <<>>]
    /\ pending' = [t \in Thread |-> {}]
    /\ removal' = [a \in Artifact |-> IF removal[a] = "deleted" THEN "deleted" ELSE "none"]
    /\ UNCHANGED <<files, acked>>

\* The steps a thread takes once it has called into the store.
Continue(t) ==
    \/ BeginCommit(t) \/ InsertCommit(t) \/ CasAdvance(t) \/ Mirror(t)
    \/ Capture(t) \/ EndCapture(t) \/ EndCommit(t) \/ Acknowledge(t)
    \/ BeginBranch(t) \/ Fork(t) \/ ForkMirror(t)
    \/ EndBatch(t) \/ AbortBatch(t)
    \/ Unwind(t) \/ Fail(t)

Request(t) ==
    \/ \E ref \in Ref : ReadHead(t, ref) \/ ReadTheirs(t, ref) \/ AskBranch(t, ref)
    \/ \E root \in Content, stamp \in Stamp : Prepare(t, root, stamp)
    \/ BeginBatch(t)
    \/ \E ref \in Ref, root \in Content, stamp \in Stamp : BatchCommit(t, ref, root, stamp)

Delete(a) == EnsureTombstones(a) \/ InsertTombstone(a) \/ CommitTombstone(a)

Next ==
    \/ \E t \in Thread : Continue(t) \/ Request(t)
    \/ \E a \in Artifact : Delete(a)
    \/ Crash

Spec == Init /\ [][Next]_vars

\* The operating system schedules every thread; a statement on a local sqlite
\* file returns.  Nothing is assumed of the clients.
FairSpec == Spec /\ \A t \in Thread : WF_vars(Continue(t))

-----------------------------------------------------------------------------
(* Properties.                                                             *)

IsCommit(c) ==
    /\ c.artifact \in Artifact
    /\ c.root \in Content
    /\ c.stamp \in Stamp

Resting == {"idle", "read", "branch", "done", "failed"}
Framed == {"batch", "fork", "fork mirror"}
Committing == {"insert", "advance", "mirror new", "mirror", "capture", "leave"}
States == Resting \cup Framed \cup Committing \cup {"commit", "captured", "raise"}

\* The _tx frames a thread may have open: a batch adds one to a commit's.
Fits(n, state) ==
    /\ state \in Resting => n = 0
    /\ state \in Framed => n = 1
    /\ state = "commit" => n \in {0, 1}
    /\ state \in Committing => n \in {1, 2}
    /\ state = "captured" => n \in {2, 3}
    /\ state = "raise" => n \in {1, 2, 3}

Tables(d) ==
    /\ DOMAIN d = {"objects", "commits", "refs", "branches", "claimed", "tombs"}
    /\ d.objects \subseteq Content
    /\ \A c \in d.commits : IsCommit(c)
    /\ d.refs \in [Ref -> d.commits \cup {NoCommit}]
    /\ d.branches \in [Ref -> d.commits \cup {NoCommit}]
    /\ d.claimed \subseteq d.commits
    /\ d.tombs \subseteq Artifact

\* The type invariant: the tables every snapshot of the connection holds, the
\* shape of each thread's state, and how deep its _tx frames are at each point.
TypeOK ==
    /\ Tables(db)
    /\ \A i \in 1..Len(saved) : Tables(saved[i])
    /\ files \subseteq Content
    /\ pc \in [Thread -> States]
    /\ depth \in [Thread -> 0..3]
    /\ \A t \in Thread : Fits(depth[t], pc[t])
    /\ DOMAIN call = Thread /\ DOMAIN base = Thread /\ DOMAIN pending = Thread
    /\ \A t \in Thread : DOMAIN call[t] = {"ref", "expected", "cid"}
    /\ removal \in [Artifact -> {"none", "ensured", "inserted", "deleted"}]

\* The history is closed: the root and every parent of a commit row exist, and
\* a parent belongs to the same artifact, although the parents were read
\* without the lock, perhaps from a transaction that was rolled back since.
\* (store.commit's existence checks, store.py:159-163)
HistoryClosed ==
    \A d \in {db, Durable} : \A c \in d.commits :
        /\ c.root \in d.objects
        /\ \A p \in Parents(c) : p \in d.commits /\ p.artifact = c.artifact

\* A head is always a commit row of the ref's own artifact, for every reader
\* and after every crash.  (_cas_advance and create_branch)
HeadsResolve ==
    \A d \in {db, Durable} : \A ref \in Ref :
        d.refs[ref] # NoCommit =>
            d.refs[ref] \in d.commits /\ d.refs[ref].artifact = ref[1]

\* What survives a crash is whole commits: the branches table agrees with refs,
\* and every commit row comes with its provenance edge and claims.
\* ("both are kept in sync inside this tx", store.py:184-185)
CommitsAreWhole ==
    /\ Durable.branches = Durable.refs
    /\ Durable.commits \subseteq Durable.claimed

\* A commit is never refused for want of a blob the same request just stored,
\* even when an earlier rollback left the file without its row.
\* (put_blob registers the row whether or not the file exists, store.py:108-113)
StoredRootIsRegistered ==
    \A t \in Thread : pc[t] = "insert" => call[t].cid.root \in db.objects

\* A client that was told its commit or branch exists will find it after any
\* crash.  (the handler answers only after COMMIT returned)
AcknowledgedIsDurable ==
    \A m \in acked : m.cid \in Durable.commits /\ Durable.refs[m.ref] # NoCommit

\* What verify() reports clean: every commit id can be recomputed from its rows,
\* where commit_parents holds each parent once.  (store.py:343-365)
VerifyClean ==
    \A c \in db.commits : c.parents = [p \in Parents(c) |-> 1]

\* delete_artifact answered 204, so the artifact stays hidden.
DeletedStaysHidden ==
    \A a \in Artifact : removal[a] = "deleted" => a \in Durable.tombs

Versions(d) == <<d.commits, d.refs, d.branches, d.claimed>>

\* Nothing of a transaction becomes durable except by the successful end of a
\* thread's outermost _tx; a request that fails leaves no trace.
\* ("an upload batch either commits its metadata/tree or rolls back")
AllOrNothing ==
    [][Versions(Durable') # Versions(Durable) =>
          \E t \in Thread : depth[t] = 1 /\ depth'[t] = 0 /\ pc'[t] = "done"]_vars

\* A branch only moves from its head to a child of that head, so no commit that
\* was on a branch ever leaves it.  (the CAS of _cas_advance, with the expected
\* head among the parents)
FastForward ==
    [][\A ref \in Ref :
          Durable.refs[ref] \notin {NoCommit, Durable'.refs[ref]} =>
              Durable.refs[ref] \in Parents(Durable'.refs[ref])]_vars

\* Whatever the requests do, the store's lock is always given back.
LockIsReleased == \A t \in Thread : depth[t] > 0 ~> depth[t] = 0

Home(ref, c) == c.artifact = ref[1]

\* The durable tables, as a crash would leave them, implement the abstract
\* store: every step of a handler publishes one transaction or nothing.
Abstract == INSTANCE VersionedRefs WITH
    history <- Durable.commits,
    heads <- Durable.refs,
    Commit <- IsCommit

ImplementsVersionedRefs == Abstract!Spec
=============================================================================
