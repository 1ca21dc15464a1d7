# ReGit: a TLA+ verification project

ReGit is a versioned research workspace: a FastAPI server (one process, one
uvicorn worker) over a content-addressed object store in SQLite, with branches,
three-way merge, repositories of files, live collaborative editing and a search
index. This directory holds TLA+ models of the parts whose correctness depends
on the order of events, the TLC configurations that check them, and proofs
checked by TLAPS.

Paths below are relative to `backend/src/` unless they say otherwise.

## 1. The system

| component | state it keeps | operations |
|---|---|---|
| Object store (`core/objects`) | SQLite tables objects, commits, commit_parents, refs, branches; blob files | put_blob, commit, create_branch, head, merge_base, history, verify |
| Provenance (`provenance`) | edges, claims | capture_commit (inside every commit), get_claim, ancestors, claims_at |
| Artifact API (`api/main.py`) | artifacts, tombstones, merges, conflicts | create, commit, branch, merge, resolve, delete, ingest, search |
| Repositories (`repositories`) | manifests (blobs pinned by commits), child branches | create, folder, upload, edit, delete, branch, prepare_live, publish_live |
| Live rooms (`core/collaboration`, `realtime`) | rooms in memory: CRDT text, base commit, clients, presence; tables collab_ops, collab_documents | join, update, presence, commit, reset, leave, idle cleanup |
| Merge and diff (`core/merge`, `core/diff`) | none | align, merge_prose, compose_final_text |
| Retrieval (`retrieval`) | tables chunks and chunks_fts, derived from commits | chunk, reindex, rebuild (`scripts/reindex.py`), search, historical search |
| Ingestion (`ingestion`) | sources, artifacts, edges, claims, repository_entries | parse, ingest, commit_roots, write_claims, the legacy folder endpoints |
| Web client (`src/frontend`) | a CRDT replica and a socket | connect, reconnect, edit, commit, reset |

How they interact: every synchronous handler runs on a thread of FastAPI's
pool and calls the store directly; all threads share one `sqlite3` connection.
Writers enter `_tx()`, which takes one `RLock` and opens BEGIN IMMEDIATE or,
when nested, a SAVEPOINT. Readers take no lock. The websocket handlers are
coroutines of the event loop; they interleave at their awaits with each other
and with the thread pool. Repositories and rooms are callers of the store; the
index is called after (not in) the commit's transaction, except by repository
imports and edits. An import is a chain of transactions: rows, then a root
commit per unit, then the claims, one by one, then the tree entry.

What is hard: threads on one connection (dirty reads, a commit call that ends
someone else's transaction), nested rollback, compare-and-swap on heads read
earlier, crashes between transactions, acknowledgements, sockets that come back,
derived tables (the index, the provenance graph) updated beside or behind the
commits they derive from.
`PROJECT.json` lists each hazard at its line.

What makes each component correct:
- store: history closed under parents; heads resolve; branches fast-forward;
  all-or-nothing transactions; acknowledged means durable; ids recomputable.
- merge review: a merge is resolved once, on the heads that were reviewed.
- repositories: pins move forward along the child's history; nothing unpublished is lost.
- rooms: replicas of a room converge; no acknowledged update is lost; a live
  commit contains what the room showed; no room exists twice.
- merge: clean merges keep both sides' edits.
- chunking and ranking: what a payload says reaches the index, what the index
  matches reaches the results.
- index: a hit quotes the commit it cites, which its branch has had; a branch has the chunks of the commit
  indexed last; a rebuild is complete; the search of an old revision agrees.
- ingestion and provenance: a commit and its explanation appear together; a
  claim leads to its own source; no unit of an import is left half-made.

## 2. The modules

| module | models | composition |
|---|---|---|
| `VersionedRefs` | abstract: a growing, parent-closed history and heads that only fast-forward | refined by ObjectStore |
| `ObjectStore` | `core/objects/store.py` statement by statement, under the handlers of `api/main.py` and `repositories/service.py` that write through it, and `provenance/service.py`'s nested transaction | `INSTANCE VersionedRefs` |
| `ObjectStoreProofs` | the theorems about it | extends ObjectStore |
| `VersionDag` | merge_base and history as operators on a commit table | used by MergeReview |
| `MergeReview` | merge and resolve_merge as requests that race with commits | extends VersionDag |
| `Repositories` | `repositories/service.py` and plain commits on the child branches | |
| `LiveRooms` | `core/collaboration/rooms.py`, `realtime/ws.py` and the browser's `lib/ws.ts` | |
| `ProseAlign` | `core/diff/align.py` | used by ProseMerge |
| `ProseMerge` | `core/merge/three_way.py` | extends ProseAlign |
| `MergeProofs` | theorems about MergeReview, and about ProseAlign and ProseMerge | extends MergeReview, ProseMerge, TableLemmas |
| `RepositoriesProofs` | theorems about Repositories | extends Repositories, TableLemmas |
| `LiveRoomsProofs` | theorems about LiveRooms | extends LiveRooms |
| `RetrievalProofs` | theorems about Retrieval | extends Retrieval, TableLemmas |
| `PassagesProofs` | theorems about Chunking, ChatImport and Ranking as Passages feeds them | extends Passages, TableLemmas |
| `TableLemmas` | lemmas: sequences of rows (append, update, join, flatten), induction over the naturals, the commit graph (ancestors, the history walk) | used by all proofs but those of ObjectStore and LiveRooms |
| `Retrieval` | `retrieval/indexer.py`, the historical search of `retrieval/service.py`, `scripts/reindex.py` | extends VersionDag |
| `Chunking` | `retrieval/chunkers.py` | used by Passages and MCRetrieval |
| `ChatImport` | `ingestion/parsers/chat_common.py` | used by Passages |
| `Ranking` | both legs, filter and rerank of `retrieval/service.py` | used by Passages |
| `Passages` | payloads that grow, and what is indexed and found of them | extends Chunking, ChatImport, Ranking |
| `Ingestion` | `ingestion/pipeline.py`, `provenance/service.py` and the handlers of `api/main.py` that call them | |
| `IngestionProofs` | theorems about Ingestion | extends Ingestion, TableLemmas |
| `MC<module>` | the small instance of a module for TLC | extends it |

They form layers. `ObjectStore` has a step per SQL statement and shows that a
commit, a fork or a batch takes effect in one step; `MergeReview` and
`Repositories` take it as one step and look at what requests make of it;
`LiveRooms` takes a REST commit as two (its transaction open, then ended),
because the event loop reads through the same connection while it is open.
`Retrieval` and `Ingestion` take a commit as one step too: what interleaves there
is the transactions of one request with those of another. `MCRetrieval` indexes
documents whose chunks are what `Chunking` cuts (an assumption TLC evaluates).

### ObjectStore

`db` is what a SELECT on the shared connection returns, `saved` the
connection's undo stack: `BEGIN IMMEDIATE` and `SAVEPOINT` push, `COMMIT` and
`RELEASE` pop, `ROLLBACK` pops into `db`, a stray `db.commit()` empties it.
`Durable`, the bottom of the stack (`db` when it is empty), is what a crash
leaves. `depth[t]` counts a thread's open `_tx()` frames; a thread holds the
RLock iff it is positive. Per thread, `pc`, `call`, `base` and `pending` are the
handler's program counter and locals. A commit id is the SHA-256 of the commit's
fields, so the id is the record of those fields.

| code | actions |
|---|---|
| what handlers read outside the lock: the head of commit_artifact, both heads of merge, a blob put before the commit | ReadHead, ReadTheirs, Prepare |
| `ObjectStore.commit` (store.py:129-198) | BeginCommit, InsertCommit, CasAdvance, Mirror, EndCommit, with provenance's nested Capture and EndCapture; then Acknowledge |
| `ObjectStore.create_branch` (store.py:224-241) | AskBranch, BeginBranch, Fork, ForkMirror |
| a batch of `Repositories` inside one outer `_tx` | BeginBatch, BatchCommit, EndBatch, or AbortBatch |
| `_tx` (store.py:67-87) | Enter and Leave in each of these; Unwind gives back one frame a step, Fail ends the request |
| delete_artifact (main.py:446-460) | EnsureTombstones, InsertTombstone, CommitTombstone, without the lock |
| the process stops | Crash: `db` becomes Durable, every thread starts over |

### MergeReview

The commit table is a sequence; merge rows carry the two heads, the base, the
state and the recorded resolutions. `request[c]` is what client `c`'s handler
has read so far. ReadOurs, ReadTheirs, then MergeCleanly or OpenReview are the
merge handler (main.py:621-689); BeginResolve, CheckTarget, CommitResolution,
Finalise are resolve_merge (main.py:692-771), a step per access to the store.
Where the base differs from both heads, whether they conflict is open: the merge
engine is the subject of ProseMerge. The code breaks ties among merge bases by the smallest hash, which
may be any of them: the model picks one.

### Repositories

`trees` are the repository's commits (manifests), `heads` its branches,
`versions` the commits of all file artifacts, `child[b][a]` the head of the
child branch of artifact `a` for repository branch `b`. Every operation of
`Repositories` runs in one `_tx()` and is one action: AddFolder, Upload, Edit,
DeleteEntry, CreateBranch, PrepareLive, PublishLive, DeleteRepository. An upload
is a whole batch: the loop over its files fails at the first file that is in a
folder's place or below another file, in whatever order they come (`MayUpload`),
so what it leaves is stated in closed form. A plain
commit (main.py:463-507, also what a live room does) is ReadChild, the handler's
read of the head, then CommitChild; MergeChild is a clean merge. Its author wrote
the text on a version he had loaded, any the branch has had (`loaded`), which the
request names as its base or leaves out (`blind`); the handler's own read is
something else, the parent. A version's `past` are its ancestors, and its `unseen`
says that the branch had, when it moved, a version its author had not loaded.

### LiveRooms

A handler runs from one await to the next: an action is such a stretch. `busy`
is the handler in which a store transaction blocks the whole loop, because a
REST thread holds the store's lock. A CRDT document is the set of items ever
inserted (who inserted it, which word) and the set of those deleted; applying an
update is a union, and a text is the set of live words.

| code | actions |
|---|---|
| accept, `RoomHub.get_room`, `_seed`, `LiveRoom.join`, both state vectors | Accept |
| a received sync request; a received update, applied and stored; its relay, one peer at a time | ServeSync, ServeUpdate, Relay |
| a reset request, under the artifact lock, sent out by the same Relay | ServeReset |
| a commit request: the draft read, `commit_live`'s transaction, `persist_room` | ServeCommit, StoreCommit, PersistRoom |
| the end of a handler: leave, cleanup of idle rooms, the lock given back | Hangup (and Quit inside the others, on an exception) |
| `CollabClient`: connect, local edits, requests, frames | Connect, Type, Erase, Ask, ClientRead |
| a connection breaks with its frames; the process stops | Drop; Restart |
| a REST commit beside the room | RestBegin, RestEnd |

Four constants switch on behaviours that break a property by themselves, so
that the other properties are checked apart from it: `Overlap` (a reconnect
before the server noticed the old socket's end), `Rollbacks` (a REST
transaction that rolls back after moving the head), `BrokenReset` (the
requester's connection breaks while its reset is sent out), `Faults` (a write of
the room's rows fails). Section 4 says which property each one breaks.

### ProseAlign and ProseMerge

A document is a sequence of paragraphs, these of sentences. The engine uses the
hash of a sentence's normal form and difflib's ratio of two sentences, both
constants. `LcsTable`, `LcsScript` and `Align` are the dynamic program, its
backtrack and the pairing of gaps; `Diff` is diff_prose; `Slots`, `Conflicts`
and `Composed` are merge_prose and compose_final_text. The state is a base and
two sides that their writers change; the properties compare the engine's answer
with reference definitions.

### Retrieval

`rows[b]` is what `chunks` holds of branch `b`: chunk id to text, sentence ids
and the commit that introduced it. `jobs[w]` are the commits a handler (or the
script) still has to index, `plan[w]` the delta `_plan_delta` made, `open` the
write transaction in progress with the rows it would restore. `Shown(w)`: server
handlers share a connection and see each other's unfinished rows, the script has
its own. `index[b]` is history only: the commit of the last delta, and whether
the deltas followed a line of first parents. So is `past[b]`, the heads the branch
has had: commit_artifact reads the head before its transaction (main.py:474), and
without base_commit moves the branch to a commit built on it even if the branch has
moved since (`ParentLists`); a cited commit then leaves the branch's history.

| code | actions |
|---|---|
| a handler's commit, then `_index_commit` (main.py:906-928) | SaveThenIndex; then Plan, BeginWrite, EndWrite |
| `Repositories._import`, `edit`: commit and reindex in one transaction | SaveAndIndex |
| create_branch, which indexes nothing | Fork |
| an exception while indexing, logged and dropped; the process stops | Fail; Crash |
| `rebuild()`: wipe, then every branch's history, oldest first | Rebuild, FetchBranch, and the same Plan, BeginWrite, EndWrite |

`Introduced` and `Snapshot` are what `SearchService._historical` computes for an
old commit.

### Chunking, ChatImport, Ranking, Passages

The chunkers, the linearisation of a conversation tree and the scoring are
operators. `Passages` makes their inputs grow the way their writers do:
EditParagraph (a Markdown document), PrintParagraph (a PDF), Reply (a node of a
chat, its JSON key anywhere), WriteLine (a line of a source file, outside or inside a
definition), Match (one more index row matches the query). A sentence has a size and a
slug; a score is an exact integer. A source file is where each of its lines ends, in
characters and in bytes, and which lines its definitions take. tree-sitter counts in
bytes, and chunkers.py:218 and :247 use its counts as positions in the text: `Spans`
does the same, and a chunk's text is a range of characters.

### Ingestion

`todo[t]` is what is left of a request: steps "ingest", "commit", "claim" and
"entry", each a transaction or several statements without one. `artifacts`,
`commits`, `claims`, `edges` and `entries` are the tables; `cut` records the
artifacts whose request a crash ended.

| code | actions |
|---|---|
| `POST /api/ingest`; legacy upload; create_artifact | IngestRequest, UploadRequest, CreateRequest |
| a file that does not parse | SkipFile |
| `pipeline.ingest`: source, artifacts, edges in one transaction | IngestFile |
| `commit_roots`, with `capture_commit` inside the commit | CommitRoot |
| `write_claims`, one claim at a time | WriteClaim |
| the uploaded file's row in repository_entries; the IndexError of a file without units | PutEntry; GiveUp |
| commit_artifact; legacy folder create and delete; the process stops | Revise; MakeFolder, DeleteEntry; Crash |

## 3. The runs

`tlc -workers 2 -config <cfg> <MC module>`; the cfg of run `r` of module `M` is
`MCM_r.cfg`. All but `reconnect` pass.

| run | question | bounds |
|---|---|---|
| batch | are transactions all or nothing, is what was acknowledged durable? | 2 threads, 2 artifacts, 1 branch, 4 commits |
| guarded | do guarded commits implement VersionedRefs? | 2 threads, 1 artifact, 2 branches, 3 commits |
| fair | is the lock always given back, with blind commits and a deletion beside? | 2 threads, 2 contents, 2 commits, a deletable artifact |
| review | can a reviewed merge be lost, doubled or mis-recorded? | 2 clients, 2 branches, 4 plain and merge commits, 1 review |
| drafts | do replicas converge, is a draft what was typed, on its base, stored? | 2 browsers (one erases), 2 sockets, 1 room, 1 word, 2 commits, 2 writes, 1 frame per socket and direction |
| lock | is the artifact lock freed and a room never made twice, whoever vanishes? | 2 browsers, 2 rooms, 1 commit, faults and broken resets |
| reconnect | (violated) does convergence survive a reconnect that overtakes the old socket's end? | 2 browsers, 3 sockets, 1 commit, with Overlap |
| repos | do manifests stay well formed and pins and live work never go back? | a folder or text file, a file in it, a binary; 4 trees, 4 versions, batches of 2 |
| merge | are alignment, merge, conflict resolution and moves what they promise? | 4 sentences, three pairs of them alike, one with a ratio of exactly 0.7; bases of up to 2, sides of up to 3, both together 5 |
| passages | does what a payload says reach the index, and a match the results? | 2 headings, a short and a long sentence, documents of up to 5; chats of 4 nodes; source files of up to 3 definitions and 16 bytes; 3 matching rows of 3 artifacts |
| index | do citations stay exact, and search and rebuild agree, while indexing interleaves and fails? | 2 handlers and the script, 2 of them indexing at a time, 2 branches, 2 contents, 3 commits, 1 rebuild, faults |
| ingest | does an import leave every commit explained and every unit committed? | 2 requests, 4 kinds of file, 1 file a request, 2 sources, artifacts and commits |

Why these bounds are enough. Store: a race here is between two threads, one
inside `_tx` and one outside; the deepest nesting (batch, commit, provenance)
and a rollback at each of its levels are reached. Three commits hold a root, two
heads that diverge and the merge or the losing CAS. Review: what matters is one
review and commits that overtake it from either side; four commits let both
branches move before, during and after. Repositories: a folder, a file that
replaces it, a nested file and a binary meet every branch of the path rules;
four versions hold a pin, a live commit past it and a fork. Rooms: an update
needs a sender, a reader and a server, a stale socket needs two sockets of one
user. Merge: two base sentences are the least with an order, a gap between and
gaps at both ends; three on a side add an insertion to each.
Passages: the limits of the chunkers are small, so that five sentences make
several overlapping windows and one sentence can exceed a window by itself; four
nodes hold a regenerated reply below another. A line of code has two characters and two
or four bytes: a file of 16 bytes has a definition longer than a block, overloads of one
name, and a definition behind a shifted one. Index: a second
handler, or the script, can overtake the first between plan and write (`MaxBusy`: more
than two at a time the proofs cover), and three commits hold a root, two
successors that do not know of each other, or one and a merge or a second branch. Ingestion: two artifacts of
one export and a crash between them; the note repeats a claim its own text
states, so both writers of claims meet.
Symmetry is used over threads, clients, sockets, rooms, workers and payloads,
which no definition tells apart, and never with a liveness property. Deadlock is
checked except in review, repos, passages, index and ingest, where the bounds
end a behaviour.

Fairness. `ObjectStore!FairSpec`: the operating system schedules every thread
that is not waiting and a statement on a local SQLite file returns, so
`Continue(t)` is weakly fair; nothing is assumed of clients, who may never call.
`LiveRooms!FairSpec`: the event loop runs every ready handler, a REST
transaction ends (that is LockIsReleased), and a browser reads its socket or
loses it, because uvicorn's keepalive closes dead peers. Strong fairness is used
nowhere.

## 4. What the checks show

The passing runs hold: transactions, history, refs and acknowledgements of the
store are sound for guarded clients; a review is resolved at most once; pins and
live work only advance unless somebody forces a branch; rooms converge, keep
their drafts and free their lock; the merge engine drops nothing and keeps both
sides' edits; every sentence, message and line of code is indexed under the
provisos its property names; a hit always quotes the commit it cites, which its
branch has had, although indexing runs behind the commits and beside a rebuild;
imports leave no unexplained commit.

One disagreement is a run of its own and a finding in `PROJECT.json`:
**reconnect**. A room's clients are keyed by user, and the late end of an old
connection removes the new socket (`realtime/ws.py:306`); `ws.py:127` says that
a reconnect heals.

Further counterexamples have a configuration and no run; each is reproduced
with its own cfg and the module named in it (`tlc -continue` where a cfg has two or more).

| cfg | violated property | what the code does |
|---|---|---|
| MCObjectStore_blind | FastForward | a commit without base_commit compares the ref with itself (main.py:485), so a concurrent commit leaves the branch; store.py:4-6 |
| MCObjectStore_stray | AllOrNothing | `delete_artifact` calls `store.db.commit()` on the shared connection without the lock (main.py:459, also :160); it ends another thread's open transaction, so a failed batch stays in part |
| MCObjectStore_verify | VerifyClean | a merge of two equal heads hashes the parent twice (store.py:170) and stores it once: verify recomputes another id (store.py:346) |
| MCObjectStore_stray | DeletedStaysHidden | the tombstone joins another thread's transaction (main.py:455) and is undone with it after the client got its 204 |
| MCLiveRooms_split | OneRoom | with Overlap, a room whose connected user is no longer listed counts as idle and is made a second time (rooms.py:168) |
| MCLiveRooms_abort | QuietMeansConverged | a reset is sent to its requester first (ws.py:242); if that send raises, the peers never get it; README.md:110 of the repository |
| MCLiveRooms_phantom | DraftIsPersisted | with Faults, an update is applied in memory before it is stored (ws.py:173); if the write fails, memory stays ahead |
| MCLiveRooms_phantom | DraftBaseExists | `_seed` reads a head another thread then rolls back (rooms.py:229); the room refuses every commit |
| MCMergeReview_base | MergeBaseIsLowest | `merge_base` minimises the sum of distances (store.py:308), which is not a lowest common ancestor when a merge commit is a shortcut |
| MCMergeReview_lostreview | MergedStaysMerged | a blind commit drops a merge result from its branch |
| MCRepositories_wedge | PublishedIsReachable | a blind commit takes the child branch off the published version: edit and publish both refuse the file from then on |
| MCRepositories_wedge | StaleWritersConflict | a commit without base_commit gets the head its own handler read as its expected head: a text written on an older version replaces the newer one, README.md:106 of the repository |
| MCProseMerge_onesided | OneSidedMergeTakesThatSide | a change of case or punctuation only is equal to the engine, which keeps the base's text; three_way.py:8 |
| MCProseMerge_threshold | EditedFromThreshold | a pair whose ratio is exactly 0.7 stays a deletion and an insertion: the best ratio starts at the threshold and must be exceeded (align.py:130-135), where align.py:6, align.py:106 and docs/specs/diff-spec.md:11 say that at least 0.7 is edited. AlignmentIsOptimal leaves the boundary open: what is called edited has at least the threshold |
| MCPassages_bytes | SpansAreIndexed | tree-sitter's byte offsets are used as positions in a Python string (chunkers.py:209, :218, :247): behind a character of more than one byte every span is shifted, and lines of a definition are in no chunk; chunkers.py:8. This is why CodeIsIndexed asks for ASCII up to the definition's end |
| MCPassages_gaps | EverySentenceIsIndexedAlways | two sections with one path get the same chunk ids, and the second replaces the first (indexer.py:223) |
| MCPassages_gaps | KeyOrderIsExcluded | messages off the thread of first replies come in the order of the JSON object's keys, which chat_common.py:4-5 says is excluded from the identity |
| MCPassages_gaps | BestMatchFirst | bm25() is the less the better the match, and rerank normalises it so that the least gets 0 (service.py:78): without vectors the best keyword match comes last |
| MCPassages_gaps | BranchIsSearched | the keyword leg's LIMIT is applied before the branch filter (service.py:128): matches of other branches crowd a branch's own out |
| MCRetrieval_contract | DeterministicByContract | chunks keep the sentence ids and the introducing commit of the path by which the index got there; indexer.py:18 says that only the commit matters |
| MCRetrieval_contract | IndexFollowsHead | two handlers index in the other order than they committed: the branch is left at the older text, and nothing failed |
| MCRetrieval_contract | SidsAreCurrent | a section that moved with its text unchanged keeps the sentence ids of its old place |
| MCRetrieval_contract | CitationsAreInHistory | a commit without base_commit is built on a head read earlier (main.py:474-498): what the branch got in between leaves its history, while rows still cite it |
| MCIngestion_gaps | NoOrphanClaims | a claim of an artifact made by hand has no source; docs/specs/provenance-spec.md:27 |
| MCIngestion_gaps | FoldersAreKept | deleting a legacy folder's entry leaves the files below it without a folder, and an upload can replace a folder by a file |

A review whose process stops between the commit of its result and the update of
its row (main.py:752-769) stays pending for good: every later resolve answers
STALE_MERGE. The disjunct `crashed` of ReviewIsRecorded is that case.

Each property of a passing run has a mutant of the code's model, listed in
`PROJECT.json`, under which TLC finds it violated.

## 5. What is proved

`ObjectStoreProofs` proves about `ObjectStore`, for any threads, artifacts,
branches, contents and bound on commits, from `StoreAssumption` and what the
table names:

| theorem | says |
|---|---|
| TypeCorrect | Spec => []TypeOK |
| HistoryIsClosed | Spec => []HistoryClosed: roots and parents of every commit exist, in what readers see and in what a crash leaves |
| HeadsAlwaysResolve | Spec => []HeadsResolve |
| BranchesOnlyAdvance | Spec => FastForward, if BlindCommits = FALSE |
| StoreImplementsVersionedRefs | Spec => ImplementsVersionedRefs, if BlindCommits = FALSE |
| AnswersAreDurable | Spec => []AcknowledgedIsDurable, if NULL is no commit (NullIsNoCommit) |
| RootsStayRegistered | Spec => []StoredRootIsRegistered |
| CommitsStayWhole | Spec => []CommitsAreWhole, if Deletable = {} |
| TransactionsAreAllOrNothing | Spec => AllOrNothing, if Deletable = {} |

All but those with a condition on BlindCommits or Deletable allow blind commits,
stray commits of the connection, and crashes. Deletions cannot be admitted in the
last two: MCObjectStore_stray (section 4) is their counterexample. NullIsNoCommit
says of the constant NoCommit, SQL's NULL, that it is not a record of the shape of
a commit id. None of the properties is inductive: a rollback restores a snapshot the
property does not speak of. The invariant is `IndInv == Locks /\ Calls /\ Data /\
Rest`. *Locks*: at most one thread has frames open, the undo stack is no longer
than its frames, and each position of a handler fits its depth. *Calls*: a
commit under way belongs to the artifact of its ref. *Data*: `db` and every
snapshot on the stack are sound tables (history closed, heads resolve), and a
commit that was inserted is in `db`; lemmas say that each statement keeps
tables sound. *Rest*: files and tombstones. The last two theorems add *Plans*
(a commit about to move a ref has the expected head among its parents) and
*Moves* (`db` and every snapshot are forward of what a crash leaves, and differ
from it only in refs the open transaction touched); that the stack need not be
as deep as the frames is what a stray `db.commit()` does. Moving from
`FastForward` to the abstract specification is one step more: each step either
leaves the durable tables alone or publishes sound tables.

The last four theorems need invariants of their own on top of `IndInv`. *Answers*:
`db` and every snapshot still hold the commits and branches of what a crash
leaves (*Stacked*); a request finds the moves it made in `db`, and in the durable
tables as soon as its frames are closed (*Promise*): this is why it may answer
then, and a stray `db.commit()` only brings that moment forward. *Registered*: a
root registered outside a transaction is in `db` and in every snapshot, so no
rollback takes it away. *Exact* (no deletions: the undo stack is as deep as the
frames of the thread that holds the lock) and *Wholes* (each position of a handler
says what its transaction still has to write, and every snapshot is whole but the
savepoint that `capture_commit` opened before its claims).

`MergeProofs` proves about `MergeReview`, for any clients, branches,
payloads, conflicts and bounds, from `ReviewAssumption`:

| theorem | says |
|---|---|
| ReviewsAreRecorded | Spec => []ReviewIsRecorded: a resolved row names a commit of the two reviewed heads, made of the resolutions it records; only a crash leaves a committed result without its row |
| OneResultPerReview | ~BlindCommits => (Spec => []ResolvedAtMostOnce) |
| MergesStay | ~BlindCommits => (Spec => []MergesAreFinal): and the result stays behind the head of its branch |
| HistoriesAreComplete | Spec => []HistoryIsComplete: the breadth-first walk lists every ancestor of a head once |

For the first, `RInv == Types /\ DoneMatches /\ ReviewIsRecorded`: between the
commit and the update of the row the only evidence is the request itself, so
*DoneMatches* says that a request past its commit knows the number of a commit
that resolves its review. For the second, `Single` adds that a review with a
result has seen its branch move: commits are numbered as they are written, with
base_commit a head only moves to a higher number (lemma HeadsGrow), so the
reviewed head never comes back and the compare-and-swap refuses a second result.
MergesStay adds MergedStaysMerged, inductive with `Single` and `Dag(commits)` (the
parents of a commit are earlier commits): a head moves to a child of the commit it
was at (*HeadsFollow*), a new result is the head, on top of theirs (*ResultsOnTop*),
and being an ancestor is transitive and unchanged by commits added to the table.
Without base_commit a head leaves its history: MCMergeReview_lostreview.

It also proves about `ProseAlign` and `ProseMerge`, for any sentences, hashes,
likenesses and bounds, from `SentenceAssumption` and `BoundAssumption`, every property
that the run merge checks:

| theorem | says |
|---|---|
| VersionsAreDocuments | ProseSpec => []TypeOK |
| AlignmentsAreOptimal | ProseSpec => []AlignmentIsOptimal |
| MergesKeepBothSides | ProseSpec => []MergeKeepsBothSides |
| OneSidedMergesAreOurs | ProseSpec => []OneSidedMergeHasOurWords |
| ResolutionsAreExact | ProseSpec => []ResolutionIsExact |
| HeadingsMoveNothing | ProseSpec => []ShiftIsNoMove |

The only state here is a base and two sides, and the only invariant needed is
VersionsAreDocuments; the weight is in what the algorithms compute, for inputs of any
length. Each is an induction by *Induct* over something the code runs through:

- the table of `_lcs_backtrack`, by diagonals (*TableGoesOn*: the recursion is defined;
  *MatchingBound*: no matching is longer than its cell), and the backtrack, by the
  length of its path (*ScriptPath*: it takes both versions in order and has as many
  equal pairs as the table says);
- `_classify`, op by op (*AlignInOrder*), with what is pending of a gap as its state
  (*GapAt*), and the pairing of a gap, insert by insert (*PairStepPairs*: nobody is
  paired twice). What a run of ops accounts for is stated once, as `Covers(old, new, ops, i0,
  j0, i, j)`, and joined (*CoversJoin*); with as many equal ops as the table says,
  and no more than a matching has (*EqualPairs*), it is optimal (*CoversOptimally*);
- the slots of a merge, base position by base position. `AlignsSide` says what an
  alignment gives merge_prose; every slot has one position and one place in it
  (*SlotsPlaced*), so that symmetry is symmetry at a position (*SlotsAtSwap*), what a
  side wrote is kept where its op is anchored (*RowKeeps*), and every slot has an op
  it comes from, no two the same (*Origin*): this bounds how often a sentence is
  there;
- the conflicts, in the order compose_final_text replaces them: after c of them the
  text is the slots with the first c markers resolved (*ReplaceResolves*). A
  marker is the first block equal to itself because no earlier block is a marker with
  its sid (*Resolvable*) and no word written so far is a marker (*ResolvedRows*).

`FoldLeft`, which the code's loops are written with, is the value at the whole domain of a
recursive function on sets of indexes: *AlignInOrder*, *PartnersInOrder* and
*ComposedInOrder* say that this is the loop, in order.

HistoriesAreComplete and the lemmas on ancestors are inductions over the numbers of
commits. The library's induction theorems take an operator as a parameter, which no
installed prover can instantiate; `TableLemmas` goes round it: a non-empty set of
naturals has a least element (*Least*, from WFMin and NatLessThanWellFounded, which
speak of sets), so a set with 0 that goes on to its successors is an interval
(*Induct*), and a recursive function exists because the set of n up to which it does
has this shape (*PastExists*, *WalkExists*, *EndsExist*). *Walked* is the walk's
invariant: what it has listed or queued are ancestors, the parents of what it has
listed are listed or queued, nothing is listed twice, and each turn either lists a
commit or drops one of the at most two that a listing queued, so 2n + 1 turns suffice.

`IngestionProofs` proves about `Ingestion`, for any threads, files, texts, paths
and bounds, from `IngestionAssumption`:

| theorem | says |
|---|---|
| CommitsAlwaysExplained | Spec => []CommitsAreExplained |
| UnitsAlwaysCommitted | Spec => []EveryUnitIsCommitted |
| ChainsAlwaysEndAtTheirSource | Spec => []ChainsEndAtTheirSource, if Text is finite |

`IInv == Tables /\ (\A c : Explained(c)) /\ Queues /\ Accounted /\ Listed`. The
weight is in *Queues*, about what is left of each request: its steps name rows
that exist (*Queue*), an entry comes after the commit of its artifact
(*Promised*), and no commit stands behind an entry or a file of the same queue
(*Orderly*), so that a request that gives up at an entry drops no commit that
its artifacts need. Joining and shortening queues keeps each part, by lemma.
Commits are explained because `capture_commit` runs in their transaction; the
claims written one by one later add rows for texts that are not there yet.

ChainsAlwaysEndAtTheirSource is about a walk over a graph that several requests
write. Its invariant says what the graph is, exactly: `edges = Imports \cup Versions
\cup Statements` (*Recorded*), the edges the three tables imply and no others. Then
every edge joins two nodes with the same source (*EdgesJoinKin*), so the walk never
leaves the kin of the claim's source, whatever its length; and it is long enough to
reach the source (one turn) and the artifact (two). This is where a queued claim must
name the artifact of its commit (*Fits*): written for another artifact, it would lead
to a second source. The walk takes one turn per edge, hence the hypothesis that the
texts, and with them the edges, are finitely many.

`RetrievalProofs` proves about `Retrieval`, for any workers, branches, contents,
chunks and bounds, with failures and crashes (`Faults` is free), from
`RetrievalAssumption`, if NULL is neither a transaction nor a delta (NullIsApart), every
property that the run index checks:

| theorem | says |
|---|---|
| CitationsStayExact | Spec => []CitationsAreExact, with commits built on older heads |
| IndexStaysCurrent | Spec => []IndexIsCurrent |
| SearchesAgree | Spec => []TimeTravelAgrees |
| RebuildsAreComplete | Spec => []RebuildIsComplete |

`Shape == Types /\ Planned /\ Writing`: a plan is the delta of the request's next
commit for the rows it found, and while a transaction is open the rows are those of
its start less its deletions. So `Committed`, the rows without it, is what the other
invariants speak of, and *StepEffect* says once what a step does to it: nothing,
a delta of a commit that the branch has had in its history (*Held*), or the wipe of a
rebuild. What a branch has had is kept apart from what it has, because a commit without
base_commit takes commits out of its history; while none did, its head has all it has had
behind it, and the cited commit with it.
Then a delta, even one made for rows that have changed since, writes rows that quote
its own commit (*Exact*); one made for the rows it finds leaves the commit's chunks
(*Current*); along first parents it cites what the historical walk finds, because the
walk goes on exactly from the chunks a delta keeps (*Agree*); and each branch of
an undisturbed rebuild waits, is being replayed up to its head, or is done
(*Rebuilding*, with HistoryOf: the walk replayed in reverse ends at the head).

`RepositoriesProofs` proves about `Repositories`, for any clients, branches,
paths, binaries and bounds, from `RepositoryAssumption`, every property that the
run repos checks:

| theorem | says |
|---|---|
| ManifestsStayWellFormed | Spec => []TreesAreWellFormed |
| FilesAlwaysEditable | Spec => []FilesStayEditable |
| WorkAlwaysKept | Spec => []LiveWorkIsKept |
| NoBlindOverwrite | Spec => []NoUnseenOverwrite: a version that replaced one its author had not loaded named no base |
| PinsAlwaysAdvance | Spec => PinsOnlyAdvance |

`RInv == Trees /\ Versions /\ Children /\ Readings /\ Work /\ Pins`. *Versions*
says that `past` is transitive, which is what lets "descends from" pass from one
move of a child branch to the next. *Work* and *Pins* are LiveWorkIsKept and
FilesStayEditable; what makes them inductive is that a child branch only ever
moves to a version with its former head behind it, or is forced (`Moves`, shown
of each operation), and, in *Trees*, that no two paths of a manifest pin one
artifact: else opening one path for live editing would fork the child branch at
that path's version, beside the other's pin. A batch of files founds artifacts
with numbers no pin has yet (`Founds`). The lemmas on paths (a prefix of a prefix
is a prefix, PrefixesNest; what is below a deleted folder is deleted with it,
BelowNests) carry the first theorem.

`PassagesProofs` proves about `Passages`, for any sentences, headings, lengths, slugs,
window sizes and overlap, names, chunk ids, artifacts and branches, limits of the
search, and bounds on the payloads, from `ChunkingAssumption`, `RankingAssumption` and
`PassagesAssumption`, every property that the run passages checks:

| theorem | says |
|---|---|
| NoLineIsLost | Spec => []CodeIsIndexed: if no name is defined three times and the file is ASCII up to the definition's end |
| NoSentenceIsLost | Spec => []EverySentenceIsIndexed: if no two sections have one path |
| SectionsStay | Spec => SectionsKeepTheirChunks |
| ResultsAlwaysSpan | Spec => []ResultsSpanArtifacts |
| ThreadsStayWhole | Spec => []ThreadsAreWhole |

The conditions are part of the properties; the cfgs gaps and bytes of section 4 show
what happens without them. The inductive invariant, `Shaped`, only says what the
payload of each kind is; the weight is in the lemmas about the chunkers, inductions
again by *Induct*. *WindowsCover*: since the next window starts after the start of this
one and not after its end plus one (*WindowSteps*, where the rounding of the overlap is
bounded), the recursion is defined and leaves no sentence out. *FlattenPlaces*: a
flattened sequence has each element of each sequence in one place. *DictKeeps*: where an
id names one chunk the dict by id loses none, and ids do: a section's begin with
its path and go on with the number of the window (*SplitIs*), and those of source code
are kept apart by `emit`, whose appended number is larger than every number appended
before and can only meet the mark of a block of a third definition of the name
(*EverySpanIsIndexed*); where the file is ASCII a line ends at the same position in bytes
and in characters, so the blocks of a definition are runs of its own lines. *SectionIsKept*: the windows depend on the texts of a section
alone, not on its place (*SplitAlike*).

The last two need an invariant each. *Matching*: the matches are finitely many rows, no
two with one chunk id. So `Before` orders the candidates, the k-th has k - 1 of
them before it, and sorting gives each its own place (*InOrder*); if all match alike
the second sort only moves the first match of each artifact in front of the others,
and the first m places have as many artifacts as m places can (*FirstArtifacts*).
*Exported*: every node is written after its parent and has its key once. The thread
of a node is then defined, by induction from the latest node back (*ThreadingExists*),
and goes down to a node without replies (*ThreadDescends*). The walks keep a path that
has no node twice and with a node its first reply (*WalksDown*): a walk that stops
at a node already seen loses nothing because the rest of its thread was seen too
(*WalkGoesDown*). *VisitedIs* says it of the whole loop, with every node that has a
text on the path at the end.

`LiveRoomsProofs` proves about `LiveRooms`, for any browsers, sockets, rooms, words
and bounds, from `RoomAssumption`. Each theorem names the switches it needs off;
`Rollbacks` is free in all of them:

| theorem | says |
|---|---|
| RoomsAlwaysTyped | Spec => []TypeOK |
| OneRoomIsServed | ~Overlap => (Spec => []OneRoom) |
| ShownIsStored | ~Overlap /\ ~Faults => (Spec => []NothingShownIsLost) |
| DraftAlwaysPersisted | ~Overlap /\ ~Faults => (Spec => []DraftIsPersisted) |
| WordsAreSingle | ~Overlap /\ ~Faults => (Spec => []NoDuplicates) |
| DraftsBuildOnBase | ~Overlap /\ ~Faults => (Spec => []DraftExtendsBase) |
| ReplicasConverge | ~Overlap /\ ~Faults /\ ~BrokenReset => (Spec => []QuietMeansConverged) |

The switches cannot be dropped: the runs and cfgs of section 4 (reconnect, split,
abort, phantom) violate the properties with them on. For each action a lemma
(`AcceptEffect`, `RelayEffect`, ...) says once what it changes; the invariants are
layers, each inductive with those before it:

1. *Typed*, the types with the bookkeeping of handlers.
2. *Hub*: who is listed in a room serves it, who is connected and served is listed,
   and a browser has one socket that anyone still knows.
3. *Drafts*: the served document is the stored one, but for what the loop is about to
   store; its op log, what is being relayed and what is in flight to browsers are
   parts of it; a browser has nothing of others that is not stored.
4. *Words*: every item was typed by a browser that still has it, or written by the
   server, and then any browser that typed that word has its item stored (*Settled*,
   also of every word of a commit). This is what makes a word that an update
   brings differ from all stored ones.
5. *Bases*: each document has no word twice and extends its base.
6. *Converging*, on 1-3: for every open socket, what one side has the other has, or it
   is on its way, or a sync request that will ask for it is on its way. When all
   queues are empty this is equality. *AgreesGrows* is the step all actions share.

`tlapm <module>.tla` checks them; the check of a module takes half a minute to ten
minutes.

Only model-checked: liveness (LockIsReleased, LockIsFreed), which needs ENABLED. Every
other property of a passing run is stated by a theorem, for every value of the constants
its assumptions and switches admit.

## 6. What is not modelled

- Retrieval: vectors' values and the Chroma collection (optional, and outside the
  transaction), `replaces` and `sentence_index` (no search reads them), escaping
  of a query, the line scan used when tree-sitter is missing, caches of query
  vectors.
- Ingestion: the parsers other than the chat linearisation, sentence splitting,
  difflib, path normalisation, size limits: stateless conversions; their results
  are constants or choices.
- Provenance: artifact_sources and claims_at (one join over the modelled rows),
  snippets.
- Command line, ids and data classes: one call into the store each; new_id is
  fresh by assumption.
- crdt_ops replay: used only for rooms stored before crdt_documents existed.
- Awareness, presence and JSON notices: they change no draft.
- Several branches of one artifact in LiveRooms: rooms of other branches share
  only the artifact's lock.
- The idle time to live: a room with no listed client may be dropped at any time.
- A REST branch created with the name of a child branch: the names are opaque ids.
- `GR_AUTHOR_DATE`: a commit's date is part of `Stamp`, which two commits may share.
- Code files: blank lines and a last line without a newline (no definition then ends at
  the end of the file), and methods of classes: tree-sitter puts them under the class's
  body, where the chunker does not look.
- In Retrieval a repository's own artifact, whose payload the rebuild cannot load, is a
  Fail; a commit equal to an existing one, which store.commit answers with the old id,
  and a merge of two equal heads do not occur.
- In Ingestion commit_artifact (Revise) needs a head, create_artifact's `source_id`
  names an existing source (main.py:290 does not check it), and store.commit raises
  nothing.
- In ProseMerge a resolution is one of its options; `resolved_text`, free text, is not.
  three_way.py:12 and :43-47 and docs/specs/merge-spec.md:20 still say that inserts
  of both sides at one place are kept without a conflict; the code, a test of it and
  the model make them one.
- In Passages a section path is the sequence of its slugs, which the code joins.
- Pages of the frontend: they render state.

## 7. Plan

Done, in this order: ObjectStore with its abstract specification and proofs,
LiveRooms, ProseAlign and ProseMerge, VersionDag and MergeReview, Repositories,
Chunking, ChatImport, Ranking and Passages, Retrieval, Ingestion, and the proofs
about all of them.

What is left is outside the prover's reach (liveness) or outside the models (section 6).
