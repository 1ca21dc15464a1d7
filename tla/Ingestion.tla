----------------------------- MODULE Ingestion -----------------------------
(***************************************************************************)
(* ingestion/pipeline.py and provenance/service.py under the REST handlers *)
(* that import files (POST /api/ingest, the files of a legacy repository)  *)
(* and create or revise documents.  An import is a chain of transactions,  *)
(* one per step of `todo`; other requests run between any two, and a crash *)
(* leaves what is done.  store.commit itself is ObjectStore's: here it is  *)
(* one step, the claims it captures included.  What the parsers make of a  *)
(* file is a constant; ChatImport models the one that orders messages.     *)
(***************************************************************************)
EXTENDS Naturals, Sequences, FiniteSets

CONSTANTS
    Thread,
    File, Unreadable,  \* uploads; those whose parser raises ParseError
    Units,     \* File -> the parsed units: [claims, stored], the claims the parser
               \* read (in order) and those capture_commit reads in the stored bytes
    Text,      \* claims
    Path,      \* paths in the one legacy repository: sequences of names
    Name,      \* File -> its name, a path
    None,
    MaxFiles, MaxSources, MaxArtifacts, MaxCommits

ASSUME IngestionAssumption ==
    /\ Unreadable \subseteq File
    /\ Units \in [File -> Seq([claims : Seq(Text), stored : SUBSET Text])]
    /\ Name \in [File -> Path]
    /\ {MaxFiles, MaxSources, MaxArtifacts, MaxCommits} \subseteq Nat

VARIABLES
    sources,    \* how many rows
    artifacts,  \* rows: [source, imported], source 0 for none
    commits,    \* rows: [artifact, says]
    claims,     \* rows: [commit, text, copy]
    edges,      \* provenance_edges: <<from, relation, to>>
    entries,    \* repository_entries: path -> [type, artifact]
    todo,       \* the steps each request has before it
    cut         \* history: artifacts whose request a crash ended

vars == <<sources, artifacts, commits, claims, edges, entries, todo, cut>>

Init ==
    /\ sources = 0
    /\ artifacts = <<>> /\ commits = <<>>
    /\ claims = {} /\ edges = {}
    /\ entries = [p \in {} |-> None]
    /\ todo = [t \in Thread |-> <<>>]
    /\ cut = {}

-----------------------------------------------------------------------------
(* Provenance rows.                                                        *)

Source(s) == <<"source", s>>
Artifact(a) == <<"artifact", a>>
Version(c) == <<"version", c>>   \* a commit as what an artifact has ...
Stating(c) == <<"commit", c>>    \* ... and as what states a claim: two node kinds
Claim(k) == <<"claim", k>>

Present(table, c, x) == \E k \in table : k.commit = c /\ k.text = x

\* write_claims and capture_commit: of the texts, those the commit does not state yet.
NewClaims(c, texts) ==
    {[commit |-> c, text |-> x, copy |-> 1] : x \in {x \in texts : ~Present(claims, c, x)}}

ClaimEdges(c, new, s) ==
    {<<Stating(c), "states", Claim(k)>> : k \in new}
        \cup {<<Claim(k), "derived_from", Source(src)>> : k \in new, src \in {s} \ {0}}

\* capture_commit, inside the commit's transaction.
Capture(a, c, says) ==
    LET new == NewClaims(c, says) IN
    /\ claims' = claims \cup new
    /\ edges' = edges \cup {<<Artifact(a), "has_version", Version(c)>>}
                      \cup ClaimEdges(c, new, artifacts[a].source)

\* store.commit of a version of the artifact.
SaveVersion(a, says) ==
    /\ Len(commits) < MaxCommits
    /\ commits' = Append(commits, [artifact |-> a, says |-> says])
    /\ Capture(a, Len(commits) + 1, says)

HasHead(a) == \E c \in DOMAIN commits : commits[c].artifact = a

-----------------------------------------------------------------------------
(* Requests: each queues its steps.                                        *)

Idle(t) == todo[t] = <<>>
Steps(t, steps) == todo' = [todo EXCEPT ![t] = steps]

Batches == UNION {[1..n -> File] : n \in 1..MaxFiles}

\* POST /api/ingest: the files one after the other.
IngestRequest(t) ==
    /\ Idle(t)
    /\ \E files \in Batches :
          Steps(t, [k \in DOMAIN files |-> [do |-> "ingest", file |-> files[k], path |-> None]])
    /\ UNCHANGED <<sources, artifacts, commits, claims, edges, entries, cut>>

FoldersTo(path) == {SubSeq(path, 1, k) : k \in 1..Len(path)}

\* INSERT OR IGNORE of a folder and those above it.
WithFolders(path) ==
    [p \in DOMAIN entries \cup FoldersTo(path) |->
        IF p \in DOMAIN entries THEN entries[p] ELSE [type |-> "folder", artifact |-> None]]

\* upload_repository_files: its folder rows, then the files.
UploadRequest(t) ==
    /\ Idle(t)
    /\ \E files \in Batches, folder \in Path \cup {<<>>} :
          /\ \A k \in DOMAIN files : folder \o Name[files[k]] \in Path
          /\ entries' = WithFolders(folder)
          /\ Steps(t, [k \in DOMAIN files |-> [do |-> "ingest", file |-> files[k],
                                               path |-> folder \o Name[files[k]]]])
    /\ UNCHANGED <<sources, artifacts, commits, claims, edges, cut>>

\* create_artifact: the row, which may name a source, then its commit.
CreateRequest(t) ==
    /\ Idle(t)
    /\ Len(artifacts) < MaxArtifacts
    /\ \E s \in 0..sources, says \in SUBSET Text :
          /\ artifacts' = Append(artifacts, [source |-> s, imported |-> FALSE])
          /\ Steps(t, <<[do |-> "commit", artifact |-> Len(artifacts) + 1, says |-> says,
                         claims |-> <<>>]>>)
    /\ UNCHANGED <<sources, commits, claims, edges, entries, cut>>

-----------------------------------------------------------------------------
(* Steps of a request.                                                     *)

NextStep(t, kind) == todo[t] # <<>> /\ Head(todo[t]).do = kind

\* The for loop's error paths: a file that does not parse is reported and skipped.
SkipFile(t) ==
    /\ NextStep(t, "ingest")
    /\ Head(todo[t]).file \in Unreadable
    /\ Steps(t, Tail(todo[t]))
    /\ UNCHANGED <<sources, artifacts, commits, claims, edges, entries, cut>>

\* Mutant of CommitSteps: only the first unit gets its root commit.
CommitFirst(file, a) ==
    [k \in 1..(IF Units[file] = <<>> THEN 0 ELSE 1) |->
        [do |-> "commit", artifact |-> a + k, says |-> Units[file][k].stored,
         claims |-> Units[file][k].claims]]

\* commit_roots: a commit for each of the artifacts numbered from a + 1 on.
CommitSteps(file, a) ==
    [k \in DOMAIN Units[file] |->
        [do |-> "commit", artifact |-> a + k, says |-> Units[file][k].stored,
         claims |-> Units[file][k].claims]]

\* An upload's entry is for outcome.artifacts[0], if there is one; /api/ingest has none.
EntryStep(file, path, a) ==
    IF path = None THEN <<>>
    ELSE <<[do |-> "entry", path |-> path, artifact |-> IF Units[file] = <<>> THEN None ELSE a + 1]>>

FileSteps(file, path, a) == CommitSteps(file, a) \o EntryStep(file, path, a)

\* pipeline.ingest: source, artifacts and their edges in one transaction.
IngestFile(t) ==
    /\ NextStep(t, "ingest")
    /\ LET step == Head(todo[t])
           n == Len(Units[step.file])
           a == Len(artifacts)
           new == [k \in 1..n |-> [source |-> sources + 1, imported |-> TRUE]]
       IN /\ step.file \notin Unreadable
          /\ sources < MaxSources /\ a + n <= MaxArtifacts
          /\ sources' = sources + 1
          /\ artifacts' = artifacts \o new
          /\ edges' = edges \cup {<<Source(sources + 1), "imported_as", Artifact(a + k)>> : k \in 1..n}
          /\ Steps(t, FileSteps(step.file, step.path, a) \o Tail(todo[t]))
    /\ UNCHANGED <<commits, claims, entries, cut>>

\* One turn of commit_roots: the commit, then the claims the parser read.
CommitRoot(t) ==
    /\ NextStep(t, "commit")
    /\ LET step == Head(todo[t])
           c == Len(commits) + 1
           write(x) == [do |-> "claim", artifact |-> step.artifact, commit |-> c, text |-> x]
       IN /\ SaveVersion(step.artifact, step.says)
          /\ Steps(t, [k \in DOMAIN step.claims |-> write(step.claims[k])] \o Tail(todo[t]))
    /\ UNCHANGED <<sources, artifacts, entries, cut>>

\* Mutant of WriteClaim: the row is not looked up first.
WriteClaimAgain(t) ==
    /\ NextStep(t, "claim")
    /\ LET step == Head(todo[t])
           new == [commit |-> step.commit, text |-> step.text,
                   copy |-> 1 + Cardinality({k \in claims : k.commit = step.commit /\ k.text = step.text})]
       IN /\ claims' = claims \cup {new}
          /\ edges' = edges \cup ClaimEdges(step.commit, {new}, artifacts[step.artifact].source)
    /\ Steps(t, Tail(todo[t]))
    /\ UNCHANGED <<sources, artifacts, commits, entries, cut>>

\* One turn of write_claims.
WriteClaim(t) ==
    /\ NextStep(t, "claim")
    /\ LET step == Head(todo[t])
           new == NewClaims(step.commit, {step.text})
       IN /\ claims' = claims \cup new
          /\ edges' = edges \cup ClaimEdges(step.commit, new, artifacts[step.artifact].source)
    /\ Steps(t, Tail(todo[t]))
    /\ UNCHANGED <<sources, artifacts, commits, entries, cut>>

\* INSERT OR REPLACE of an uploaded file's entry.
PutEntry(t) ==
    /\ NextStep(t, "entry")
    /\ LET step == Head(todo[t]) IN
       /\ step.artifact # None
       /\ entries' = [p \in DOMAIN entries \cup {step.path} |->
                         IF p = step.path THEN [type |-> "file", artifact |-> step.artifact]
                         ELSE entries[p]]
    /\ Steps(t, Tail(todo[t]))
    /\ UNCHANGED <<sources, artifacts, commits, claims, edges, cut>>

\* A file without units: IndexError, and the files after it are not read.
GiveUp(t) ==
    /\ NextStep(t, "entry")
    /\ Head(todo[t]).artifact = None
    /\ Steps(t, <<>>)
    /\ UNCHANGED <<sources, artifacts, commits, claims, edges, entries, cut>>

-----------------------------------------------------------------------------
(* Requests of one step, and the end of the process.                       *)

\* commit_artifact: another version.
Revise ==
    /\ \E a \in DOMAIN artifacts, says \in SUBSET Text : HasHead(a) /\ SaveVersion(a, says)
    /\ UNCHANGED <<sources, artifacts, entries, todo, cut>>

\* create_repository_folder.
MakeFolder ==
    /\ \E path \in Path : entries' = WithFolders(path)
    /\ UNCHANGED <<sources, artifacts, commits, claims, edges, todo, cut>>

\* delete_repository_entry: the row of that path alone.
DeleteEntry ==
    /\ \E path \in DOMAIN entries : entries' = [p \in DOMAIN entries \ {path} |-> entries[p]]
    /\ UNCHANGED <<sources, artifacts, commits, claims, edges, todo, cut>>

ToCommit(t) == {todo[t][k].artifact : k \in {k \in DOMAIN todo[t] : todo[t][k].do = "commit"}}

Crash ==
    /\ \E t \in Thread : ~Idle(t)
    /\ cut' = cut \cup UNION {ToCommit(t) : t \in Thread}
    /\ todo' = [t \in Thread |-> <<>>]
    /\ UNCHANGED <<sources, artifacts, commits, claims, edges, entries>>

Next ==
    \/ \E t \in Thread :
          \/ IngestRequest(t) \/ UploadRequest(t) \/ CreateRequest(t)
          \/ SkipFile(t) \/ IngestFile(t) \/ CommitRoot(t) \/ WriteClaim(t)
          \/ PutEntry(t) \/ GiveUp(t)
    \/ Revise \/ MakeFolder \/ DeleteEntry \/ Crash

Spec == Init /\ [][Next]_vars

-----------------------------------------------------------------------------
(* get_claim: the nodes it walks over from a claim.                        *)

\* Mutant of Beside: edges are followed towards their origin only.
BesideBackwards(nodes) == {e[1] : e \in {e \in edges : e[3] \in nodes}}

Beside(nodes) ==
    {e[1] : e \in {e \in edges : e[3] \in nodes}} \cup {e[3] : e \in {e \in edges : e[1] \in nodes}}

ProvenanceChain(k) ==
    LET seen[n \in Nat] == IF n = 0 THEN {Claim(k)} ELSE seen[n - 1] \cup Beside(seen[n - 1])
    IN seen[Cardinality(edges)]

-----------------------------------------------------------------------------
(* Properties.                                                             *)

TypeOK ==
    /\ sources \in Nat
    /\ artifacts \in Seq([source : 0..sources, imported : BOOLEAN])
    /\ commits \in Seq([artifact : DOMAIN artifacts, says : SUBSET Text])
    /\ \A k \in claims : k.commit \in DOMAIN commits /\ k.text \in Text
    /\ \A p \in DOMAIN entries : p \in Path /\ entries[p].type \in {"file", "folder"}

SourceOf(c) == artifacts[commits[c].artifact].source

\* A commit and the record of what it states become visible together, whatever request
\* wrote it and wherever a crash fell; and though two writers record claims and a text
\* may repeat one, the commit states each once.  ("Capture explicit prose claims in the
\* same transaction as a new commit", provenance/service.py:17)
CommitsAreExplained ==
    /\ \A c \in DOMAIN commits :
        /\ <<Artifact(commits[c].artifact), "has_version", Version(c)>> \in edges
        /\ \A x \in commits[c].says : \E k \in claims :
              /\ k.commit = c /\ k.text = x
              /\ ClaimEdges(c, {k}, SourceOf(c)) \subseteq edges
    /\ \A k, l \in claims : k.commit = l.commit /\ k.text = l.text => k = l

\* "Where did this claim come from?" (provenance/service.py:5): the chain holds the
\* commit and the source, for an import also the artifact, and no other source.
ChainsEndAtTheirSource ==
    \A k \in claims :
        LET chain == ProvenanceChain(k)
            a == commits[k.commit].artifact
        IN /\ Stating(k.commit) \in chain
           /\ {s \in 1..sources : Source(s) \in chain} = {SourceOf(k.commit)} \ {0}
           /\ artifacts[a].imported => Artifact(a) \in chain

\* Every conversation of an export gets its root commit: an artifact without a head
\* belongs to a request under way or to one a crash ended, and no tree lists it.
EveryUnitIsCommitted ==
    /\ \A a \in DOMAIN artifacts :
          HasHead(a) \/ a \in cut \/ \E t \in Thread : a \in ToCommit(t)
    /\ \A p \in DOMAIN entries : entries[p].type = "file" => HasHead(entries[p].artifact)

-----------------------------------------------------------------------------
(* What does not hold.                                                     *)

\* "No orphan claims: every claim has >= 1 path to a source."
\* (docs/specs/provenance-spec.md:27)
NoOrphanClaims ==
    \A k \in claims : \E s \in 1..sources : Source(s) \in ProvenanceChain(k)

\* What the legacy tree lists as a folder stays one while it has files.
FoldersAreKept ==
    \A p \in DOMAIN entries : \A q \in FoldersTo(p) \ {p} :
        q \in DOMAIN entries /\ entries[q].type = "folder"
=============================================================================
