---------------------------- MODULE Repositories ----------------------------
(***************************************************************************)
(* repositories/service.py: a repository branch points at an immutable     *)
(* tree that pins, for each text file, a version of the file's artifact.   *)
(* The artifact has a branch of its own per repository branch, its child   *)
(* branch, which live editing and plain commits move between two repository*)
(* commits.  Every repository operation runs inside one store._tx(), so it *)
(* is one step here (ObjectStore shows that a batch is all or nothing).  A *)
(* plain commit is written on what its author loaded some time before, and *)
(* its handler reads the head before its transaction.                      *)
(***************************************************************************)
EXTENDS Integers, Sequences, FiniteSets, Functions, SequencesExt

CONSTANTS
    Client,        \* clients of the artifact API, live rooms included
    Branch, Main,  \* branch names
    Path,          \* paths in use: sequences of names
    None,
    BinaryPath,    \* paths whose suffix is that of a binary file
    BlindCommits,  \* may a client of the artifact API leave out base_commit?
    MaxTrees, MaxVersions, MaxBatch

ASSUME RepositoryAssumption ==
    /\ Main \in Branch
    /\ Path \subseteq Seq(STRING) \ {<<>>}
    /\ \A p \in Path : \A k \in 1..Len(p) : SubSeq(p, 1, k) \in Path
    /\ BinaryPath \subseteq Path
    /\ None \notin Nat
    /\ BlindCommits \in BOOLEAN
    /\ MaxTrees \in Nat /\ MaxVersions \in Nat /\ MaxBatch \in Nat

VARIABLES
    trees,     \* commits of the repository: manifests
    heads,     \* the tree each repository branch points at; 0: no such branch
    versions,  \* commits of the file artifacts
    child,     \* the head of each artifact's child branch, per repository branch
    reading,   \* the head each client's plain commit has read
    deleted    \* is the repository tombstoned?

vars == <<trees, heads, versions, child, reading, deleted>>

-----------------------------------------------------------------------------
(* Manifests.  A file's entry pins a version of its artifact; an entry     *)
(* without artifact is a binary file.                                      *)

Entry(artifact, version) == [artifact |-> artifact, version |-> version]
Binary == Entry(None, None)
Editable(tree, path) == path \in DOMAIN tree.files /\ tree.files[path] # Binary

PathsTo(path) == {SubSeq(path, 1, k) : k \in 1..Len(path)}
Above(path) == PathsTo(path) \ {path}

\* _folders: no file may be in the way.
MayHaveFolders(tree, path) == PathsTo(path) \cap DOMAIN tree.files = {}
WithFolders(tree, path) == [tree EXCEPT !.folders = @ \cup PathsTo(path)]
WithFile(tree, path, entry) == [tree EXCEPT !.files = [p \in DOMAIN @ \cup {path} |->
                                                           IF p = path THEN entry ELSE @[p]]]

\* Mutant of Without: only the entry itself goes.
WithoutOne(tree, path) ==
    [tree EXCEPT !.folders = {p \in @ : p # path},
                 !.files = [p \in {p \in DOMAIN @ : p # path} |-> @[p]]]

Without(tree, path) ==
    LET kept(p) == ~IsPrefix(path, p) IN
    [tree EXCEPT !.folders = {p \in @ : kept(p)},
                 !.files = [p \in {p \in DOMAIN @ : kept(p)} |-> @[p]]]

\* Mutant of Current: the expected head is not compared.
CurrentAnyway(b, expected) == ~deleted /\ heads[b] # 0

\* _tree and _current: the live repository at its head, which the request names.
Current(b, expected) == ~deleted /\ heads[b] # 0 /\ heads[b] = expected

Tree(b) == trees[heads[b]]

\* The version a client that loaded a tree saw at a path.
SeenIn(tree, path) == IF path \in DOMAIN tree.files THEN tree.files[path].version ELSE None

\* _save
Save(b, tree) ==
    /\ Len(trees) < MaxTrees
    /\ trees' = Append(trees, tree)
    /\ heads' = [heads EXCEPT ![b] = Len(trees) + 1]

-----------------------------------------------------------------------------
(* Versions.  `past` is what ancestors() finds from a version: commits are *)
(* immutable, so it is fixed when the version is made.  An artifact is     *)
(* named by its first version.  `seen` is the version its author had before *)
(* him; `unseen` records that the branch had another one when it moved, and*)
(* `blind` that the author left out the base.                              *)

Child(b, a) == IF a \in DOMAIN child[b] THEN child[b][a] ELSE None

Version(v, artifact, parents, seen, b, blind) ==
    [artifact |-> artifact, branch |-> b, blind |-> blind,
     unseen |-> Child(b, artifact) \notin {None, seen},
     past |-> {v} \cup UNION {versions[p].past : p \in parents}]

SetChild(b, a, v) ==
    child' = [child EXCEPT ![b] = [x \in DOMAIN @ \cup {a} |-> IF x = a THEN v ELSE @[x]]]

\* Mutant of CommitOn: the child branch's head is not compared.
CommitOnAny(b, a, parents, expected, seen, blind) ==
    /\ Len(versions) < MaxVersions
    /\ versions' = Append(versions, Version(Len(versions) + 1, a, parents, seen, b, blind))
    /\ SetChild(b, a, Len(versions) + 1)

\* store.commit on a child branch, guarded by the head it expects.
CommitOn(b, a, parents, expected, seen, blind) ==
    /\ Len(versions) < MaxVersions
    /\ Child(b, a) = expected
    /\ versions' = Append(versions, Version(Len(versions) + 1, a, parents, seen, b, blind))
    /\ SetChild(b, a, Len(versions) + 1)

-----------------------------------------------------------------------------
(* Operations of the repository service.                                   *)

Init ==
    /\ trees = <<[folders |-> {}, files |-> <<>>]>>
    /\ heads = [b \in Branch |-> IF b = Main THEN 1 ELSE 0]
    /\ versions = <<>>
    /\ child = [b \in Branch |-> <<>>]
    /\ reading = [c \in Client |-> None]
    /\ deleted = FALSE

AddFolder(b, expected, path) ==
    /\ Current(b, expected)
    /\ path \notin Tree(b).folders /\ MayHaveFolders(Tree(b), path)
    /\ Save(b, WithFolders(Tree(b), path))
    /\ UNCHANGED <<versions, child, reading, deleted>>

\* The loop over the files, which a file in a folder's place or below another file
\* ends: in whatever order they come, none may be where another needs a folder.
MayUpload(tree, paths) ==
    \A path \in paths :
        /\ path \notin tree.folders
        /\ Above(path) \cap (DOMAIN tree.files \cup paths) = {}

\* A batch of distinct paths.  Each text file becomes an artifact with a first version
\* on the child branch; that of a path in use is replaced.
Upload(b, expected) ==
    /\ Current(b, expected)
    /\ \E texts \in SeqOf(Path \ BinaryPath, MaxBatch), binaries \in SUBSET BinaryPath :
       LET n == Len(versions)
           paths == Range(texts) \cup binaries
           version(path) == n + CHOOSE k \in DOMAIN texts : texts[k] = path
           imported(path) == IF path \in binaries THEN Binary
                             ELSE Entry(version(path), version(path))
       IN
       /\ IsInjective(texts)
       /\ Len(texts) + Cardinality(binaries) \in 1..MaxBatch
       /\ n + Len(texts) <= MaxVersions
       /\ MayUpload(Tree(b), paths)
       /\ versions' = versions \o [k \in DOMAIN texts |-> Version(n + k, n + k, {}, None, b, FALSE)]
       /\ child' = [child EXCEPT ![b] = [a \in DOMAIN @ \cup n + 1..n + Len(texts) |->
                                             IF a > n THEN a ELSE @[a]]]
       /\ Save(b, [folders |-> Tree(b).folders \cup UNION {Above(path) : path \in paths},
                   files |-> [path \in DOMAIN Tree(b).files \cup paths |->
                                 IF path \in paths THEN imported(path) ELSE Tree(b).files[path]]])
    /\ UNCHANGED <<reading, deleted>>

\* Mutant of Edit: the child branch's own head is not looked at.
EditOver(b, expected, path) ==
    /\ Current(b, expected) /\ Editable(Tree(b), path)
    /\ LET pin == Tree(b).files[path]
           seen == SeenIn(trees[expected], path) IN
       /\ CommitOn(b, pin.artifact, {pin.version}, Child(b, pin.artifact), seen, FALSE)
       /\ Save(b, WithFile(Tree(b), path, Entry(pin.artifact, Len(versions) + 1)))
    /\ UNCHANGED <<reading, deleted>>

\* A child branch that does not exist yet is forked at the pinned version; one
\* that has moved on refuses the edit.
Edit(b, expected, path) ==
    /\ Current(b, expected) /\ Editable(Tree(b), path)
    /\ LET pin == Tree(b).files[path]
           seen == SeenIn(trees[expected], path) IN
       /\ Child(b, pin.artifact) \in {None, pin.version}
       /\ CommitOn(b, pin.artifact, {pin.version}, Child(b, pin.artifact), seen, FALSE)
       /\ Save(b, WithFile(Tree(b), path, Entry(pin.artifact, Len(versions) + 1)))
    /\ UNCHANGED <<reading, deleted>>

DeleteEntry(b, expected, path) ==
    /\ Current(b, expected)
    /\ path \in Tree(b).folders \cup DOMAIN Tree(b).files
    /\ Save(b, Without(Tree(b), path))
    /\ UNCHANGED <<versions, child, reading, deleted>>

CreateBranch(b, from) ==
    /\ ~deleted /\ heads[b] = 0
    /\ heads' = [heads EXCEPT ![b] = from]
    /\ UNCHANGED <<trees, versions, child, reading, deleted>>

PrepareLive(b, expected, path) ==
    /\ Current(b, expected) /\ Editable(Tree(b), path)
    /\ LET pin == Tree(b).files[path] IN
       /\ Child(b, pin.artifact) = None
       /\ SetChild(b, pin.artifact, pin.version)
    /\ UNCHANGED <<trees, heads, versions, reading, deleted>>

\* Mutant of PublishLive: the live head need not descend from the pinned version.
PublishAny(b, expected, path) ==
    /\ Current(b, expected) /\ Editable(Tree(b), path)
    /\ LET pin == Tree(b).files[path]
           latest == Child(b, pin.artifact) IN
       /\ latest \notin {None, pin.version}
       /\ Save(b, WithFile(Tree(b), path, Entry(pin.artifact, latest)))
    /\ UNCHANGED <<versions, child, reading, deleted>>

PublishLive(b, expected, path) ==
    /\ Current(b, expected) /\ Editable(Tree(b), path)
    /\ LET pin == Tree(b).files[path]
           latest == Child(b, pin.artifact) IN
       /\ latest \notin {None, pin.version}
       /\ pin.version \in versions[latest].past
       /\ Save(b, WithFile(Tree(b), path, Entry(pin.artifact, latest)))
    /\ UNCHANGED <<versions, child, reading, deleted>>

DeleteRepository ==
    /\ ~deleted /\ deleted' = TRUE
    /\ UNCHANGED <<trees, heads, versions, child, reading>>

-----------------------------------------------------------------------------
(* Commits on child branches: the artifact API and live rooms.             *)

ReadChild(c, b, a) ==
    /\ reading[c] = None /\ Len(versions) < MaxVersions
    /\ reading' = [reading EXCEPT ![c] = [branch |-> b, artifact |-> a, head |-> child[b][a]]]
    /\ UNCHANGED <<trees, heads, versions, child, deleted>>

\* The author had some version of the branch before him when he wrote his text, or none.
\* A client that names it as its base is refused when it is not the head that was read,
\* and again when the branch has moved since; one that names none is not.
CommitChild(c, loaded, blind) ==
    /\ reading[c] # None
    /\ LET r == reading[c]
           expected == IF blind THEN Child(r.branch, r.artifact) ELSE loaded IN
       /\ loaded \in versions[r.head].past \cup {None}
       /\ IF blind THEN BlindCommits ELSE loaded = r.head
       /\ \/ CommitOn(r.branch, r.artifact, {r.head}, expected, loaded, blind)
          \/ expected # Child(r.branch, r.artifact) /\ UNCHANGED <<versions, child>>
    /\ reading' = [reading EXCEPT ![c] = None]
    /\ UNCHANGED <<trees, heads, deleted>>

\* A clean merge of the file's child branch on another repository branch (MergeReview
\* has the reads and the race).
MergeChild(b, from, a) ==
    /\ a \in DOMAIN child[b] \cap DOMAIN child[from]
    /\ CommitOn(b, a, {child[b][a], child[from][a]}, child[b][a], child[b][a], FALSE)
    /\ UNCHANGED <<trees, heads, reading, deleted>>

Next ==
    \/ \E b \in Branch, expected \in DOMAIN trees :
          \/ \E path \in Path :
                \/ AddFolder(b, expected, path) \/ Edit(b, expected, path)
                \/ DeleteEntry(b, expected, path)
                \/ PrepareLive(b, expected, path) \/ PublishLive(b, expected, path)
          \/ Upload(b, expected) \/ CreateBranch(b, expected)
    \/ DeleteRepository
    \/ \E c \in Client, b \in Branch : \E a \in DOMAIN child[b] : ReadChild(c, b, a)
    \/ \E c \in Client, loaded \in DOMAIN versions \cup {None}, blind \in BOOLEAN :
          CommitChild(c, loaded, blind)
    \/ \E b, from \in Branch : \E a \in DOMAIN child[b] : MergeChild(b, from, a)

Spec == Init /\ [][Next]_vars
-----------------------------------------------------------------------------
(* Properties.                                                             *)

\* Every pin, head and pending read refers to a row that exists.
TypeOK ==
    /\ heads \in [Branch -> 0..Len(trees)] /\ heads[Main] # 0
    /\ \A t \in DOMAIN trees : trees[t].folders \subseteq Path /\ DOMAIN trees[t].files \subseteq Path
    /\ \A t \in DOMAIN trees : \A p \in DOMAIN trees[t].files : LET pin == trees[t].files[p] IN
          pin = Binary \/ (pin.version \in DOMAIN versions /\ versions[pin.version].artifact = pin.artifact)
    /\ DOMAIN child = Branch
    /\ \A b \in Branch : \A a \in DOMAIN child[b] :
          child[b][a] \in DOMAIN versions /\ versions[child[b][a]].artifact = a
    /\ \A v \in DOMAIN versions : versions[v].past \subseteq 1..v /\ v \in versions[v].past
    /\ deleted \in BOOLEAN

\* In every snapshot no path is both file and folder, and the folders above every
\* entry exist, whatever batches, deletions and branches led to it.
\* (service.py:113-120, 182-189, 229-238)
TreesAreWellFormed ==
    \A t \in DOMAIN trees : LET tree == trees[t] IN
        /\ DOMAIN tree.files \cap tree.folders = {}
        /\ \A p \in DOMAIN tree.files \cup tree.folders : Above(p) \subseteq tree.folders

\* While a file keeps its artifact, its published version only moves to descendants:
\* no published version is dropped by a publish or an edit.
\* (service.py:202-227, 268-292)
PinsOnlyAdvance ==
    [][\A b \in Branch : heads[b] \notin {0, heads'[b]} =>
          \A p \in DOMAIN Tree(b).files \cap DOMAIN trees'[heads'[b]].files :
             LET old == Tree(b).files[p]
                 new == trees'[heads'[b]].files[p] IN
             old # Binary /\ new.artifact = old.artifact =>
                 old.version \in versions'[new.version].past]_vars

\* Was the child branch ever moved by a commit that named no base?
Forced(b, a) == \E v \in DOMAIN versions :
    versions[v].blind /\ versions[v].branch = b /\ versions[v].artifact = a

\* A text file can always be edited or its live revision published: unless a commit
\* named no base, the child branch descends from the pinned version.
\* (service.py:213-217, 276-282)
FilesStayEditable ==
    \A b \in Branch : heads[b] # 0 => \A p \in DOMAIN Tree(b).files :
        LET pin == Tree(b).files[p] IN
        pin # Binary /\ pin.artifact \in DOMAIN child[b] =>
            pin.version \in versions[child[b][pin.artifact]].past \/ Forced(b, pin.artifact)

\* Work committed on a child branch is overwritten neither by a repository edit nor
\* by a commit that named its base.  (service.py:213-219, main.py:474-482)
LiveWorkIsKept ==
    \A v \in DOMAIN versions : LET ver == versions[v] IN
        v \in versions[child[ver.branch][ver.artifact]].past \/ Forced(ver.branch, ver.artifact)

\* Nothing published becomes unreachable from its file's child branch.  ("a stale
\* writer receives a conflict instead of overwriting another change", README.md:106)
PublishedIsReachable ==
    \A b \in Branch : heads[b] # 0 => \A p \in DOMAIN Tree(b).files :
        LET pin == Tree(b).files[p] IN
        pin # Binary /\ pin.artifact \in DOMAIN child[b] =>
            pin.version \in versions[child[b][pin.artifact]].past

\* Whoever replaced a version that he had not had before him named no base: between
\* the moment an author loads a text and the moment the branch moves no other edit,
\* merge, publication or commit can slip in, on branches forced before included.
\* (service.py:101-105, 213-219, main.py:477-482, store.py:166-170)
NoUnseenOverwrite ==
    \A v \in DOMAIN versions : LET ver == versions[v] IN
        ver.unseen => ver.blind

\* The same of every writer.  ("a stale writer receives a conflict instead of
\* overwriting another change", README.md:106)
StaleWritersConflict ==
    \A v \in DOMAIN versions : ~versions[v].unseen
=============================================================================
