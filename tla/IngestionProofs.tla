--------------------------- MODULE IngestionProofs ---------------------------
(***************************************************************************)
(* Three properties of Ingestion, for any files, threads, paths and bounds: *)
(* a commit never appears without its provenance, no artifact is left       *)
(* without a root commit unless a crash ended its request, and the walk     *)
(* from a claim over the provenance graph ends at the source it came from.  *)
(***************************************************************************)
EXTENDS Ingestion, TableLemmas

-----------------------------------------------------------------------------
(* The queue of a request.                                                 *)

Step ==
    [do : {"ingest"}, file : File, path : Path \cup {None}]
        \cup [do : {"commit"}, artifact : Nat, says : SUBSET Text, claims : Seq(Text)]
        \cup [do : {"claim"}, artifact : Nat, commit : Nat, text : Text]
        \cup [do : {"entry"}, path : Path \cup {None}, artifact : Nat \cup {None}]

\* A step refers to rows of the tables A (artifacts) and C (commits).
Fits(step, A, C) ==
    /\ step.do = "commit" => step.artifact \in DOMAIN A
    /\ step.do = "claim" => step.commit \in DOMAIN C /\ step.artifact = C[step.commit].artifact

Queue(q, A, C) == q \in Seq(Step) /\ \A k \in 1..Len(q) : Fits(q[k], A, C)

Pending(q) == {q[k].artifact : k \in {k \in 1..Len(q) : q[k].do = "commit"}}

Headed(C) == {C[c].artifact : c \in DOMAIN C}

\* An entry is written for an artifact of H, or after the artifact's commit.
Promised(q, H) ==
    \A k \in 1..Len(q) : q[k].do = "entry" /\ q[k].artifact # None =>
        q[k].artifact \in H \/ \E j \in 1..k - 1 : q[j].do = "commit" /\ q[j].artifact = q[k].artifact

\* No commit is queued behind the next file or an entry: a request that gives up leaves
\* no artifact of an earlier file without its commit.
Orderly(q) ==
    \A k \in 1..Len(q) : q[k].do = "commit" =>
        \A j \in 1..k - 1 : q[j].do \in {"commit", "claim"}

\* The tables only grow.
Grow(A, C, B, D) ==
    /\ DOMAIN A \subseteq DOMAIN B
    /\ DOMAIN C \subseteq DOMAIN D /\ \A c \in DOMAIN C : D[c] = C[c]

LEMMA TailFacts ==
    ASSUME NEW S, NEW q \in Seq(S), q # <<>>
    PROVE  /\ Len(q) \in Nat \ {0} /\ Head(q) = q[1] /\ q[1] \in S
           /\ Tail(q) \in Seq(S) /\ Len(Tail(q)) = Len(q) - 1
           /\ \A k \in 1..Len(q) - 1 : Tail(q)[k] = q[k + 1]
<1>1. Len(q) \in Nat \ {0} /\ Head(q) = q[1] /\ q[1] \in S
  BY EmptySeq, LenProperties
<1>2. Tail(q) \in Seq(S) /\ Len(Tail(q)) = Len(q) - 1
  BY HeadTailProperties
<1>3. \A k \in 1..Len(q) - 1 : Tail(q)[k] = q[k + 1]
  BY HeadTailProperties
<1> QED
  BY <1>1, <1>2, <1>3

LEMMA JoinFacts ==
    ASSUME NEW S, NEW p \in Seq(S), NEW q \in Seq(S)
    PROVE  /\ p \o q \in Seq(S) /\ Len(p) \in Nat /\ Len(q) \in Nat
           /\ Len(p \o q) = Len(p) + Len(q)
           /\ \A k \in 1..Len(p) : (p \o q)[k] = p[k]
           /\ \A k \in 1..Len(q) : (p \o q)[Len(p) + k] = q[k]
BY ConcatProperties, LenProperties

LEMMA QueueStays ==
    ASSUME NEW q, NEW A, NEW C, NEW B, NEW D, Queue(q, A, C), Grow(A, C, B, D)
    PROVE  Queue(q, B, D)
BY DEF Queue, Fits, Grow

LEMMA QueueTail ==
    ASSUME NEW q, NEW A, NEW C, Queue(q, A, C), q # <<>>
    PROVE  Queue(Tail(q), A, C) /\ Head(q) \in Step /\ Fits(Head(q), A, C)
<1>1. /\ Len(q) \in Nat \ {0} /\ Head(q) = q[1] /\ q[1] \in Step
      /\ Tail(q) \in Seq(Step) /\ Len(Tail(q)) = Len(q) - 1
      /\ \A k \in 1..Len(q) - 1 : Tail(q)[k] = q[k + 1]
  BY TailFacts DEF Queue
<1>2. \A k \in 1..Len(q) : Fits(q[k], A, C)
  BY DEF Queue
<1>3. \A k \in 1..Len(q) - 1 : k + 1 \in 1..Len(q) /\ Fits(Tail(q)[k], A, C)
  BY <1>1, <1>2
<1> QED
  BY <1>1, <1>2, <1>3 DEF Queue

LEMMA QueueJoin ==
    ASSUME NEW p, NEW q, NEW A, NEW C, Queue(p, A, C), Queue(q, A, C)
    PROVE  Queue(p \o q, A, C)
<1>1. /\ p \o q \in Seq(Step) /\ Len(p) \in Nat /\ Len(q) \in Nat
      /\ Len(p \o q) = Len(p) + Len(q)
      /\ \A k \in 1..Len(p) : (p \o q)[k] = p[k]
      /\ \A k \in 1..Len(q) : (p \o q)[Len(p) + k] = q[k]
  BY JoinFacts DEF Queue
<1>2. SUFFICES ASSUME NEW k \in 1..Len(p \o q) PROVE Fits((p \o q)[k], A, C)
  BY <1>1 DEF Queue
<1>3. CASE k \in 1..Len(p)
  BY <1>1, <1>3 DEF Queue
<1>4. CASE k \notin 1..Len(p)
  <2>1. k - Len(p) \in 1..Len(q) /\ k = Len(p) + (k - Len(p))
    BY <1>1, <1>4
  <2> QED
    BY <1>1, <2>1 DEF Queue
<1> QED
  BY <1>3, <1>4

\* What the head of a queue leaves to be done, and to be promised.
LEMMA PromisedTail ==
    ASSUME NEW q \in Seq(Step), NEW H, NEW J, q # <<>>, Promised(q, H), H \subseteq J,
           Head(q).do = "commit" => Head(q).artifact \in J
    PROVE  Promised(Tail(q), J)
<1>1. /\ Len(q) \in Nat \ {0} /\ Head(q) = q[1]
      /\ Len(Tail(q)) = Len(q) - 1
      /\ \A k \in 1..Len(q) - 1 : Tail(q)[k] = q[k + 1]
  BY TailFacts
<1>2. SUFFICES ASSUME NEW k \in 1..Len(q) - 1, q[k + 1].do = "entry", q[k + 1].artifact # None,
                      q[k + 1].artifact \notin J
               PROVE  \E j \in 1..k - 1 : q[j + 1].do = "commit" /\ q[j + 1].artifact = q[k + 1].artifact
  BY <1>1 DEF Promised
<1>3. PICK i \in 1..k : q[i].do = "commit" /\ q[i].artifact = q[k + 1].artifact
  BY <1>1, <1>2 DEF Promised
<1>4. i # 1
  BY <1>1, <1>2, <1>3
<1>5. i - 1 \in 1..k - 1 /\ (i - 1) + 1 = i
  BY <1>1, <1>3, <1>4
<1> QED
  BY <1>3, <1>5

LEMMA PromisedJoin ==
    ASSUME NEW p \in Seq(Step), NEW q \in Seq(Step), NEW H, Promised(p, H), Promised(q, H)
    PROVE  Promised(p \o q, H)
<1>1. /\ Len(p) \in Nat /\ Len(q) \in Nat
      /\ Len(p \o q) = Len(p) + Len(q)
      /\ \A k \in 1..Len(p) : (p \o q)[k] = p[k]
      /\ \A k \in 1..Len(q) : (p \o q)[Len(p) + k] = q[k]
  BY JoinFacts
<1>2. SUFFICES ASSUME NEW k \in 1..Len(p \o q), (p \o q)[k].do = "entry",
                      (p \o q)[k].artifact # None, (p \o q)[k].artifact \notin H
               PROVE  \E j \in 1..k - 1 : (p \o q)[j].do = "commit"
                                          /\ (p \o q)[j].artifact = (p \o q)[k].artifact
  BY DEF Promised
<1>3. CASE k \in 1..Len(p)
  BY <1>1, <1>2, <1>3 DEF Promised
<1>4. CASE k \notin 1..Len(p)
  <2> DEFINE m == k - Len(p)
  <2>1. m \in 1..Len(q) /\ k = Len(p) + m
    BY <1>1, <1>4
  <2>2. PICK i \in 1..m - 1 : q[i].do = "commit" /\ q[i].artifact = q[m].artifact
    BY <1>1, <1>2, <2>1 DEF Promised
  <2>3. Len(p) + i \in 1..k - 1 /\ i \in 1..Len(q)
    BY <1>1, <2>1, <2>2
  <2> QED
    BY <1>1, <2>1, <2>2, <2>3
<1> QED
  BY <1>3, <1>4

LEMMA PendingTail ==
    ASSUME NEW q \in Seq(Step), q # <<>>
    PROVE  \A a \in Pending(q) : a \in Pending(Tail(q)) \/ (Head(q).do = "commit" /\ a = Head(q).artifact)
<1>1. /\ Len(q) \in Nat \ {0} /\ Head(q) = q[1]
      /\ Len(Tail(q)) = Len(q) - 1
      /\ \A k \in 1..Len(q) - 1 : Tail(q)[k] = q[k + 1]
  BY TailFacts
<1>2. ASSUME NEW k \in 1..Len(q), q[k].do = "commit", k # 1
      PROVE  q[k].artifact \in Pending(Tail(q))
  <2>1. k - 1 \in 1..Len(Tail(q)) /\ (k - 1) + 1 = k
    BY <1>1, <1>2
  <2>2. Tail(q)[k - 1] = q[k]
    BY <1>1, <2>1
  <2> QED
    BY <1>2, <2>1, <2>2 DEF Pending
<1>3. SUFFICES ASSUME NEW a \in Pending(q)
               PROVE  a \in Pending(Tail(q)) \/ (Head(q).do = "commit" /\ a = Head(q).artifact)
  OBVIOUS
<1>4. PICK k \in 1..Len(q) : q[k].do = "commit" /\ a = q[k].artifact
  BY <1>3 DEF Pending
<1> QED
  BY <1>1, <1>2, <1>4

LEMMA PendingJoin ==
    ASSUME NEW p \in Seq(Step), NEW q \in Seq(Step)
    PROVE  Pending(p) \subseteq Pending(p \o q) /\ Pending(q) \subseteq Pending(p \o q)
<1>1. /\ Len(p) \in Nat /\ Len(q) \in Nat
      /\ Len(p \o q) = Len(p) + Len(q)
      /\ \A k \in 1..Len(p) : (p \o q)[k] = p[k]
      /\ \A k \in 1..Len(q) : (p \o q)[Len(p) + k] = q[k]
  BY JoinFacts
<1>2. \A k \in 1..Len(p) : k \in 1..Len(p \o q)
  BY <1>1
<1>3. \A k \in 1..Len(q) : Len(p) + k \in 1..Len(p \o q)
  BY <1>1
<1>4. ASSUME NEW k \in 1..Len(p), p[k].do = "commit"
      PROVE  p[k].artifact \in Pending(p \o q)
  BY <1>1, <1>2, <1>4 DEF Pending
<1>5. ASSUME NEW k \in 1..Len(q), q[k].do = "commit"
      PROVE  q[k].artifact \in Pending(p \o q)
  BY <1>1, <1>3, <1>5 DEF Pending
<1> QED
  BY <1>4, <1>5 DEF Pending

LEMMA OrderlyTail ==
    ASSUME NEW q \in Seq(Step), q # <<>>, Orderly(q)
    PROVE  /\ Orderly(Tail(q))
           /\ Head(q).do \notin {"commit", "claim"} => Pending(Tail(q)) = {}
<1>1. /\ Len(q) \in Nat \ {0} /\ Head(q) = q[1]
      /\ Len(Tail(q)) = Len(q) - 1
      /\ \A k \in 1..Len(q) - 1 : Tail(q)[k] = q[k + 1]
  BY TailFacts
<1>2. ASSUME NEW k \in 1..Len(Tail(q)), Tail(q)[k].do = "commit", NEW j \in 1..k - 1
      PROVE  Tail(q)[j].do \in {"commit", "claim"}
  <2>1. /\ k + 1 \in 1..Len(q) /\ q[k + 1].do = "commit" /\ j + 1 \in 1..(k + 1) - 1
        /\ Tail(q)[j] = q[j + 1]
    BY <1>1, <1>2
  <2> QED
    BY <2>1 DEF Orderly
<1>3. ASSUME NEW k \in 1..Len(Tail(q)), Tail(q)[k].do = "commit"
      PROVE  Head(q).do \in {"commit", "claim"}
  <2>1. k + 1 \in 1..Len(q) /\ q[k + 1].do = "commit" /\ 1 \in 1..(k + 1) - 1
    BY <1>1, <1>3
  <2> QED
    BY <1>1, <2>1 DEF Orderly
<1> QED
  BY <1>2, <1>3 DEF Orderly, Pending

LEMMA OrderlyJoin ==
    ASSUME NEW p \in Seq(Step), NEW q \in Seq(Step), Orderly(p), Orderly(q),
           \/ \A j \in 1..Len(p) : p[j].do \in {"commit", "claim"}
           \/ Pending(q) = {}
    PROVE  Orderly(p \o q)
<1>1. /\ Len(p) \in Nat /\ Len(q) \in Nat
      /\ Len(p \o q) = Len(p) + Len(q)
      /\ \A k \in 1..Len(p) : (p \o q)[k] = p[k]
      /\ \A k \in 1..Len(q) : (p \o q)[Len(p) + k] = q[k]
  BY JoinFacts
<1>2. SUFFICES ASSUME NEW k \in 1..Len(p \o q), (p \o q)[k].do = "commit", NEW j \in 1..k - 1
               PROVE  (p \o q)[j].do \in {"commit", "claim"}
  BY DEF Orderly
<1>3. CASE k \in 1..Len(p)
  BY <1>1, <1>2, <1>3 DEF Orderly
<1>4. CASE k \notin 1..Len(p)
  <2> DEFINE m == k - Len(p)
  <2>1. m \in 1..Len(q) /\ k = Len(p) + m /\ q[m].do = "commit"
    BY <1>1, <1>2, <1>4
  <2>2. q[m].artifact \in Pending(q)
    BY <2>1 DEF Pending
  <2>3. CASE j \in 1..Len(p)
    BY <1>1, <2>2, <2>3
  <2>4. CASE j \notin 1..Len(p)
    <3>1. j - Len(p) \in 1..m - 1 /\ j = Len(p) + (j - Len(p)) /\ j - Len(p) \in 1..Len(q)
      BY <1>1, <1>2, <2>1, <2>4
    <3>2. q[j - Len(p)].do \in {"commit", "claim"}
      BY <2>1, <3>1 DEF Orderly
    <3> QED
      BY <1>1, <3>1, <3>2
  <2> QED
    BY <2>3, <2>4
<1> QED
  BY <1>3, <1>4

-----------------------------------------------------------------------------
(* The tables.                                                             *)

Tables ==
    /\ sources \in Nat
    /\ artifacts \in Seq([source : Nat, imported : BOOLEAN])
    /\ commits \in Seq([artifact : Nat, says : SUBSET Text])
    /\ \A c \in DOMAIN commits : commits[c].artifact \in DOMAIN artifacts
    /\ claims \subseteq [commit : DOMAIN commits, text : Text, copy : {1}]

\* The part of CommitsAreExplained about one commit.
Explained(c) ==
    /\ <<Artifact(commits[c].artifact), "has_version", Version(c)>> \in edges
    /\ \A x \in commits[c].says : \E k \in claims :
          /\ k.commit = c /\ k.text = x
          /\ ClaimEdges(c, {k}, SourceOf(c)) \subseteq edges

LEMMA AppendFacts ==
    ASSUME NEW S, NEW q \in Seq(S), NEW x \in S
    PROVE  /\ Append(q, x) \in Seq(S) /\ Len(q) \in Nat
           /\ DOMAIN q = 1..Len(q) /\ DOMAIN Append(q, x) = 1..Len(q) + 1
           /\ \A k \in 1..Len(q) : Append(q, x)[k] = q[k]
           /\ Append(q, x)[Len(q) + 1] = x
BY AppendProperties, LenProperties

\* Rows of claims are told apart by commit and text: that there is one each is a fact
\* about how they are written.
LEMMA OneRowEach ==
    ASSUME Tables
    PROVE  \A k, l \in claims : k.commit = l.commit /\ k.text = l.text => k = l
<1>1. ASSUME NEW k \in claims
      PROVE  k = [commit |-> k.commit, text |-> k.text, copy |-> 1]
  BY DEF Tables
<1> QED
  BY <1>1

LEMMA EdgesOfOne ==
    ASSUME NEW c, NEW new, NEW s, NEW k \in new
    PROVE  ClaimEdges(c, {k}, s) \subseteq ClaimEdges(c, new, s)
BY DEF ClaimEdges

\* What was explained stays so while rows are only added.
LEMMA ExplainedStays ==
    ASSUME NEW c \in DOMAIN commits, Explained(c), claims \subseteq claims', edges \subseteq edges',
           commits'[c] = commits[c], artifacts'[commits[c].artifact] = artifacts[commits[c].artifact]
    PROVE  Explained(c)'
<1>1. SourceOf(c)' = SourceOf(c)
  BY DEF SourceOf
<1>2. <<Artifact(commits'[c].artifact), "has_version", Version(c)>> \in edges'
  BY DEF Explained
<1>3. ASSUME NEW x \in commits'[c].says
      PROVE  \E k \in claims' : /\ k.commit = c /\ k.text = x
                                /\ ClaimEdges(c, {k}, SourceOf(c)') \subseteq edges'
  BY <1>1, <1>3 DEF Explained
<1> QED
  BY <1>2, <1>3 DEF Explained, Artifact, Version, ClaimEdges, Stating, Claim, Source

\* A version is saved with its provenance: store.commit and capture_commit in one step.
LEMMA SaveVersionExplains ==
    ASSUME Tables, \A c \in DOMAIN commits : Explained(c),
           NEW a \in DOMAIN artifacts, NEW says \in SUBSET Text, SaveVersion(a, says),
           UNCHANGED <<sources, artifacts>>
    PROVE  /\ Tables' /\ \A c \in DOMAIN commits' : Explained(c)'
           /\ Grow(artifacts, commits, artifacts', commits')
           /\ Headed(commits') = Headed(commits) \cup {a}
           /\ Len(commits) + 1 \in DOMAIN commits'
<1> DEFINE c0 == Len(commits) + 1
           row == [artifact |-> a, says |-> says]
           new == NewClaims(c0, says)
<1>1. row \in [artifact : Nat, says : SUBSET Text]
  BY LenProperties DEF Tables
<1>2. /\ commits' = Append(commits, row)
      /\ commits' \in Seq([artifact : Nat, says : SUBSET Text]) /\ Len(commits) \in Nat
      /\ DOMAIN commits = 1..Len(commits) /\ DOMAIN commits' = 1..c0
      /\ \A k \in 1..Len(commits) : commits'[k] = commits[k]
      /\ commits'[c0] = row
  BY <1>1, AppendFacts DEF Tables, SaveVersion
<1>3. /\ claims' = claims \cup new
      /\ edges' = edges \cup {<<Artifact(a), "has_version", Version(c0)>>}
                        \cup ClaimEdges(c0, new, artifacts[a].source)
  BY DEF SaveVersion, Capture
<1>4. Grow(artifacts, commits, artifacts', commits')
  BY <1>2 DEF Grow
<1>5. Headed(commits') = Headed(commits) \cup {a}
  BY <1>2 DEF Headed
<1>6. Tables'
  <2>1. new \subseteq [commit : DOMAIN commits', text : Text, copy : {1}]
    BY <1>2 DEF NewClaims
  <2>2. claims \subseteq [commit : DOMAIN commits', text : Text, copy : {1}]
    BY <1>2 DEF Tables
  <2>3. \A c \in DOMAIN commits' : commits'[c].artifact \in DOMAIN artifacts'
    BY <1>2 DEF Tables
  <2> QED
    BY <1>2, <1>3, <2>1, <2>2, <2>3 DEF Tables
<1>7. ASSUME NEW c \in 1..Len(commits)
      PROVE  Explained(c)'
  <2>1. commits'[c] = commits[c] /\ Explained(c) /\ c \in DOMAIN commits
    BY <1>2
  <2> QED
    BY <1>3, <2>1, ExplainedStays
<1>8. ASSUME NEW c, c = c0
      PROVE  Explained(c)'
  <2>1. commits'[c].artifact = a /\ commits'[c].says = says /\ artifacts' = artifacts
    BY <1>2, <1>8
  <2>2. SourceOf(c)' = artifacts[a].source
    BY <2>1 DEF SourceOf
  <2>3. <<Artifact(a), "has_version", Version(c)>> \in edges'
    BY <1>3, <1>8
  <2>4. ASSUME NEW x \in says
        PROVE  \E k \in claims' : /\ k.commit = c /\ k.text = x
                                  /\ ClaimEdges(c, {k}, artifacts[a].source) \subseteq edges'
    <3> DEFINE k == [commit |-> c, text |-> x, copy |-> 1]
    <3>1. ~Present(claims, c, x)
      BY <1>2, <1>8 DEF Present, Tables
    <3>2. k \in new
      BY <1>8, <2>4, <3>1 DEF NewClaims
    <3> QED
      BY <1>3, <1>8, <3>2, EdgesOfOne
  <2>5. <<Artifact(commits'[c].artifact), "has_version", Version(c)>> \in edges'
    BY <2>1, <2>3
  <2>6. \A x \in commits'[c].says : \E k \in claims' :
            k.commit = c /\ k.text = x /\ ClaimEdges(c, {k}, SourceOf(c)') \subseteq edges'
    BY <2>1, <2>2, <2>4
  <2> QED
    BY <2>5, <2>6 DEF Explained, Artifact, Version, ClaimEdges, Stating, Claim, Source
<1>9. \A c \in DOMAIN commits' : Explained(c)'
  BY <1>2, <1>7, <1>8
<1> QED
  BY <1>2, <1>4, <1>5, <1>6, <1>9

-----------------------------------------------------------------------------
(* The inductive invariant.                                                *)

Queues ==
    /\ todo \in [Thread -> Seq(Step)]
    /\ \A t \in Thread : /\ Queue(todo[t], artifacts, commits)
                         /\ Promised(todo[t], Headed(commits))
                         /\ Orderly(todo[t])

Accounted ==
    \A a \in DOMAIN artifacts :
        a \in Headed(commits) \/ a \in cut \/ \E t \in Thread : a \in Pending(todo[t])

Listed ==
    \A p \in DOMAIN entries : entries[p].type = "file" => entries[p].artifact \in Headed(commits)

IInv ==
    /\ Tables /\ \A c \in DOMAIN commits : Explained(c)
    /\ Queues /\ Accounted /\ Listed

\* One request goes from a queue to the queue q.
LEMMA RequestMoves ==
    ASSUME IInv, NEW t \in Thread, NEW q, Steps(t, q), cut' = cut,
           Queue(q, artifacts', commits'), Promised(q, Headed(commits')), Orderly(q),
           Grow(artifacts, commits, artifacts', commits'),
           Pending(todo[t]) \subseteq Pending(q) \cup Headed(commits'),
           DOMAIN artifacts' \subseteq DOMAIN artifacts \cup Pending(q)
    PROVE  Queues' /\ Accounted'
<1>1. /\ todo \in [Thread -> Seq(Step)] /\ todo' = [todo EXCEPT ![t] = q] /\ q \in Seq(Step)
  BY DEF IInv, Queues, Steps, Queue
<1>2. todo' \in [Thread -> Seq(Step)] /\ todo'[t] = q /\ \A u \in Thread \ {t} : todo'[u] = todo[u]
  BY <1>1
<1>3. Headed(commits) \subseteq Headed(commits')
  BY DEF Headed, Grow
<1>4. ASSUME NEW u \in Thread \ {t}
      PROVE  /\ Queue(todo'[u], artifacts', commits') /\ Promised(todo'[u], Headed(commits'))
             /\ Orderly(todo'[u])
  <2>1. /\ Queue(todo[u], artifacts, commits) /\ Promised(todo[u], Headed(commits))
        /\ Orderly(todo[u])
    BY DEF IInv, Queues
  <2>2. Queue(todo[u], artifacts', commits')
    BY <2>1, QueueStays
  <2>3. Promised(todo[u], Headed(commits'))
    BY <1>3, <2>1 DEF Promised
  <2> QED
    BY <1>2, <2>1, <2>2, <2>3
<1>5. Queues'
  BY <1>2, <1>4 DEF Queues
<1>6. ASSUME NEW a \in DOMAIN artifacts'
      PROVE  a \in Headed(commits') \/ a \in cut' \/ \E u \in Thread : a \in Pending(todo'[u])
  <2>1. CASE a \in Pending(q)
    BY <1>2, <2>1
  <2>2. CASE a \notin Pending(q)
    <3>1. a \in DOMAIN artifacts
      BY <2>2
    <3>2. a \in Headed(commits) \/ a \in cut \/ \E u \in Thread : a \in Pending(todo[u])
      BY <3>1 DEF IInv, Accounted
    <3>3. ASSUME NEW u \in Thread, a \in Pending(todo[u])
          PROVE  a \in Headed(commits') \/ a \in Pending(todo'[u])
      BY <1>2, <2>2, <3>3
    <3> QED
      BY <1>3, <3>2, <3>3
  <2> QED
    BY <2>1, <2>2
<1>7. Accounted'
  BY <1>6 DEF Accounted
<1> QED
  BY <1>5, <1>7

\* The request does its first step and goes on with the rest.
LEMMA RequestStep ==
    ASSUME IInv, NEW t \in Thread, todo[t] # <<>>, Steps(t, Tail(todo[t])), cut' = cut,
           Head(todo[t]).do # "commit", UNCHANGED <<artifacts, commits>>
    PROVE  Queues' /\ Accounted'
<1> DEFINE q == Tail(todo[t])
<1>1. /\ todo[t] \in Seq(Step) /\ Queue(todo[t], artifacts, commits)
      /\ Promised(todo[t], Headed(commits)) /\ Orderly(todo[t])
  BY DEF IInv, Queues, Queue
<1>2. Queue(q, artifacts', commits')
  BY <1>1, QueueTail
<1>3. Promised(q, Headed(commits'))
  BY <1>1, PromisedTail
<1>4. Orderly(q)
  BY <1>1, OrderlyTail
<1>5. Pending(todo[t]) \subseteq Pending(q)
  BY <1>1, PendingTail
<1>6. Grow(artifacts, commits, artifacts', commits')
  BY DEF Grow
<1> QED
  BY <1>2, <1>3, <1>4, <1>5, <1>6, RequestMoves

\* The same tables, whatever edges are added.
LEMMA TablesStay ==
    ASSUME IInv, UNCHANGED <<sources, artifacts, commits, claims>>, edges \subseteq edges'
    PROVE  Tables' /\ \A c \in DOMAIN commits' : Explained(c)'
<1>1. Tables'
  BY DEF IInv, Tables
<1>2. ASSUME NEW c \in DOMAIN commits
      PROVE  Explained(c)'
  BY <1>2, ExplainedStays DEF IInv
<1> QED
  BY <1>1, <1>2

\* A new queue of an idle request.
LEMMA QueueOf ==
    ASSUME NEW n \in Nat, NEW q, q \in [1..n -> Step], NEW A, NEW C,
           \A k \in 1..n : Fits(q[k], A, C)
    PROVE  Queue(q, A, C) /\ Len(q) = n
<1>1. q \in Seq(Step) /\ Len(q) = n
  BY LenProperties
<1> QED
  BY <1>1 DEF Queue

LEMMA FilesQueued ==
    ASSUME NEW files \in Batches, NEW q, q \in [DOMAIN files -> Step],
           \A k \in DOMAIN files : q[k].do = "ingest",
           NEW A, NEW C, NEW H
    PROVE  Queue(q, A, C) /\ Promised(q, H) /\ Orderly(q) /\ Pending(q) = {}
<1>1. PICK n \in 1..MaxFiles : files \in [1..n -> File]
  BY DEF Batches
<1>2. n \in Nat /\ DOMAIN files = 1..n
  BY <1>1, IngestionAssumption
<1>3. Queue(q, A, C) /\ Len(q) = n
  BY <1>2, QueueOf DEF Fits
<1> QED
  BY <1>2, <1>3 DEF Promised, Orderly, Pending

LEMMA IngestRequestKeeps == ASSUME IInv, NEW t \in Thread, IngestRequest(t) PROVE IInv'
<1>1. PICK files \in Batches :
        Steps(t, [k \in DOMAIN files |-> [do |-> "ingest", file |-> files[k], path |-> None]])
  BY DEF IngestRequest
<1> DEFINE q == [k \in DOMAIN files |-> [do |-> "ingest", file |-> files[k], path |-> None]]
<1>2. UNCHANGED <<sources, artifacts, commits, claims, edges, entries, cut>> /\ todo[t] = <<>>
  BY DEF IngestRequest, Idle
<1>3. Queue(q, artifacts', commits') /\ Promised(q, Headed(commits')) /\ Orderly(q)
  <2>1. DOMAIN files = DOMAIN q /\ \A k \in DOMAIN files : files[k] \in File
    BY DEF Batches
  <2>2. q \in [DOMAIN files -> Step] /\ \A k \in DOMAIN files : q[k].do = "ingest"
    BY <2>1 DEF Step
  <2> QED
    BY <2>2, FilesQueued
<1>4. Pending(todo[t]) = {}
  BY <1>2, EmptySeq DEF Pending
<1>5. Queues' /\ Accounted'
  BY <1>1, <1>2, <1>3, <1>4, RequestMoves DEF Grow
<1>6. Tables' /\ \A c \in DOMAIN commits' : Explained(c)'
  BY <1>2, TablesStay
<1>7. Listed'
  BY <1>2 DEF IInv, Listed
<1> QED
  BY <1>5, <1>6, <1>7 DEF IInv

LEMMA UploadRequestKeeps == ASSUME IInv, NEW t \in Thread, UploadRequest(t) PROVE IInv'
<1>1. PICK files \in Batches, folder \in Path \cup {<<>>} :
        /\ \A k \in DOMAIN files : folder \o Name[files[k]] \in Path
        /\ entries' = WithFolders(folder)
        /\ Steps(t, [k \in DOMAIN files |-> [do |-> "ingest", file |-> files[k],
                                            path |-> folder \o Name[files[k]]]])
  BY DEF UploadRequest
<1> DEFINE q == [k \in DOMAIN files |-> [do |-> "ingest", file |-> files[k],
                                        path |-> folder \o Name[files[k]]]]
<1>2. UNCHANGED <<sources, artifacts, commits, claims, edges, cut>> /\ todo[t] = <<>>
  BY DEF UploadRequest, Idle
<1>3. Queue(q, artifacts', commits') /\ Promised(q, Headed(commits')) /\ Orderly(q)
  <2>1. \A k \in DOMAIN files : files[k] \in File
    BY DEF Batches
  <2>2. q \in [DOMAIN files -> Step] /\ \A k \in DOMAIN files : q[k].do = "ingest"
    BY <1>1, <2>1 DEF Step
  <2> QED
    BY <2>2, FilesQueued
<1>4. Pending(todo[t]) = {}
  BY <1>2, EmptySeq DEF Pending
<1>5. Queues' /\ Accounted'
  BY <1>1, <1>2, <1>3, <1>4, RequestMoves DEF Grow
<1>6. Tables' /\ \A c \in DOMAIN commits' : Explained(c)'
  BY <1>2, TablesStay
<1>7. Listed'
  BY <1>1, <1>2 DEF IInv, Listed, WithFolders
<1> QED
  BY <1>5, <1>6, <1>7 DEF IInv

LEMMA CreateRequestKeeps == ASSUME IInv, NEW t \in Thread, CreateRequest(t) PROVE IInv'
<1> DEFINE a == Len(artifacts) + 1
<1>1. PICK s \in 0..sources, says \in SUBSET Text :
        /\ artifacts' = Append(artifacts, [source |-> s, imported |-> FALSE])
        /\ Steps(t, <<[do |-> "commit", artifact |-> a, says |-> says, claims |-> <<>>]>>)
  BY DEF CreateRequest
<1> DEFINE step == [do |-> "commit", artifact |-> a, says |-> says, claims |-> <<>>]
           q == <<step>>
<1>2. UNCHANGED <<sources, commits, claims, edges, entries, cut>> /\ todo[t] = <<>>
  BY DEF CreateRequest, Idle
<1>3. /\ artifacts' \in Seq([source : Nat, imported : BOOLEAN])
      /\ DOMAIN artifacts = 1..Len(artifacts) /\ Len(artifacts) \in Nat
      /\ DOMAIN artifacts' = 1..a
      /\ \A k \in DOMAIN artifacts : artifacts'[k] = artifacts[k]
  <2>1. [source |-> s, imported |-> FALSE] \in [source : Nat, imported : BOOLEAN]
    BY DEF IInv, Tables
  <2> QED
    BY <1>1, <2>1, AppendFacts DEF IInv, Tables
<1>4. step \in Step /\ Fits(step, artifacts', commits')
  BY <1>3 DEF Step, Fits
<1>5. /\ q \in [1..1 -> Step] /\ q[1] = step /\ Len(q) = 1
      /\ \A k \in 1..1 : Fits(q[k], artifacts', commits')
  BY <1>4
<1>6. Queue(q, artifacts', commits')
  BY <1>5, QueueOf
<1>7. Promised(q, Headed(commits')) /\ Orderly(q) /\ a \in Pending(q)
  BY <1>5 DEF Promised, Orderly, Pending
<1>8. Pending(todo[t]) = {}
  BY <1>2, EmptySeq DEF Pending
<1>9. Queues' /\ Accounted'
  <2>1. Grow(artifacts, commits, artifacts', commits')
    BY <1>2, <1>3 DEF Grow
  <2>2. DOMAIN artifacts' \subseteq DOMAIN artifacts \cup Pending(q)
    BY <1>3, <1>7
  <2> QED
    BY <1>1, <1>2, <1>6, <1>7, <1>8, <2>1, <2>2, RequestMoves
<1>10. Tables'
  BY <1>2, <1>3 DEF IInv, Tables
<1>11. ASSUME NEW c \in DOMAIN commits
       PROVE  Explained(c)'
  <2>1. commits[c].artifact \in DOMAIN artifacts
    BY DEF IInv, Tables
  <2> QED
    BY <1>2, <1>3, <2>1, ExplainedStays DEF IInv
<1>12. Listed'
  BY <1>2 DEF IInv, Listed
<1> QED
  BY <1>2, <1>9, <1>10, <1>11, <1>12 DEF IInv

LEMMA SkipFileKeeps == ASSUME IInv, NEW t \in Thread, SkipFile(t) PROVE IInv'
<1>1. Queues' /\ Accounted'
  BY RequestStep DEF SkipFile, NextStep
<1>2. Tables' /\ \A c \in DOMAIN commits' : Explained(c)'
  BY TablesStay DEF SkipFile
<1>3. Listed'
  BY DEF SkipFile, IInv, Listed
<1> QED
  BY <1>1, <1>2, <1>3 DEF IInv

LEMMA WriteClaimKeeps == ASSUME IInv, NEW t \in Thread, WriteClaim(t) PROVE IInv'
<1> DEFINE step == Head(todo[t])
           new == NewClaims(step.commit, {step.text})
<1>1. /\ NextStep(t, "claim") /\ Steps(t, Tail(todo[t])) /\ claims' = claims \cup new
      /\ edges \subseteq edges' /\ UNCHANGED <<sources, artifacts, commits, entries, cut>>
  BY DEF WriteClaim
<1>2. Queues' /\ Accounted'
  BY <1>1, RequestStep DEF NextStep
<1>3. step \in Step /\ step.do = "claim" /\ Fits(step, artifacts, commits)
  BY <1>1, QueueTail DEF IInv, Queues, NextStep
<1>4. step.text \in Text /\ step.commit \in DOMAIN commits
  BY <1>3 DEF Step, Fits
<1>5. new \subseteq [commit : DOMAIN commits, text : Text, copy : {1}]
  BY <1>4 DEF NewClaims
<1>6. Tables'
  BY <1>1, <1>5 DEF IInv, Tables
<1>7. ASSUME NEW c \in DOMAIN commits
      PROVE  Explained(c)'
  BY <1>1, <1>7, ExplainedStays DEF IInv
<1>8. Listed'
  BY <1>1 DEF IInv, Listed
<1> QED
  BY <1>1, <1>2, <1>6, <1>7, <1>8 DEF IInv

LEMMA PutEntryKeeps == ASSUME IInv, NEW t \in Thread, PutEntry(t) PROVE IInv'
<1> DEFINE step == Head(todo[t])
<1>1. /\ NextStep(t, "entry") /\ Steps(t, Tail(todo[t])) /\ step.artifact # None
      /\ UNCHANGED <<sources, artifacts, commits, claims, edges, cut>>
  BY DEF PutEntry
<1>2. Queues' /\ Accounted'
  BY <1>1, RequestStep DEF NextStep
<1>3. Tables' /\ \A c \in DOMAIN commits' : Explained(c)'
  BY <1>1, TablesStay
<1>4. step.artifact \in Headed(commits)
  <2>1. /\ todo[t] \in Seq(Step) /\ todo[t] # <<>> /\ step.do = "entry"
        /\ Promised(todo[t], Headed(commits))
    BY <1>1 DEF IInv, Queues, NextStep
  <2>2. step = todo[t][1] /\ 1 \in 1..Len(todo[t])
    BY <2>1, TailFacts
  <2> QED
    BY <1>1, <2>1, <2>2 DEF Promised
<1>5. Listed'
  BY <1>1, <1>4 DEF PutEntry, IInv, Listed
<1> QED
  BY <1>2, <1>3, <1>5 DEF IInv

LEMMA GiveUpKeeps == ASSUME IInv, NEW t \in Thread, GiveUp(t) PROVE IInv'
<1>1. /\ NextStep(t, "entry") /\ Steps(t, <<>>)
      /\ UNCHANGED <<sources, artifacts, commits, claims, edges, entries, cut>>
  BY DEF GiveUp
<1>2. Pending(todo[t]) = {}
  <2>1. todo[t] \in Seq(Step) /\ todo[t] # <<>> /\ Orderly(todo[t]) /\ Head(todo[t]).do = "entry"
    BY <1>1 DEF IInv, Queues, NextStep
  <2> QED
    BY <2>1, OrderlyTail, PendingTail
<1>3. Queue(<<>>, artifacts', commits') /\ Promised(<<>>, Headed(commits')) /\ Orderly(<<>>)
  BY EmptySeq DEF Queue, Promised, Orderly
<1>4. Queues' /\ Accounted'
  BY <1>1, <1>2, <1>3, RequestMoves DEF Grow
<1>5. Tables' /\ \A c \in DOMAIN commits' : Explained(c)'
  BY <1>1, TablesStay
<1>6. Listed'
  BY <1>1 DEF IInv, Listed
<1> QED
  BY <1>4, <1>5, <1>6 DEF IInv

\* Requests of one step leave the queues alone.
LEMMA QueuesStay ==
    ASSUME IInv, UNCHANGED <<todo, artifacts, cut>>, Grow(artifacts, commits, artifacts', commits')
    PROVE  Queues' /\ Accounted'
<1>1. Headed(commits) \subseteq Headed(commits')
  BY DEF Headed, Grow
<1>2. ASSUME NEW t \in Thread
      PROVE  Queue(todo[t], artifacts', commits') /\ Promised(todo[t], Headed(commits')) /\ Orderly(todo[t])
  <2>1. /\ Queue(todo[t], artifacts, commits) /\ Promised(todo[t], Headed(commits))
        /\ Orderly(todo[t])
    BY DEF IInv, Queues
  <2>2. Queue(todo[t], artifacts', commits')
    BY <2>1, QueueStays
  <2> QED
    BY <1>1, <2>1, <2>2 DEF Promised
<1>3. Queues'
  BY <1>2 DEF IInv, Queues
<1>4. Accounted'
  BY <1>1 DEF IInv, Accounted
<1> QED
  BY <1>3, <1>4

LEMMA ReviseKeeps == ASSUME IInv, Revise PROVE IInv'
<1>1. PICK a \in DOMAIN artifacts, says \in SUBSET Text : SaveVersion(a, says)
  BY DEF Revise
<1>2. UNCHANGED <<sources, artifacts, entries, todo, cut>>
  BY DEF Revise
<1>3. /\ Tables' /\ \A c \in DOMAIN commits' : Explained(c)'
      /\ Grow(artifacts, commits, artifacts', commits')
      /\ Headed(commits') = Headed(commits) \cup {a}
  BY <1>1, <1>2, SaveVersionExplains DEF IInv
<1>4. Queues' /\ Accounted'
  BY <1>2, <1>3, QueuesStay
<1>5. Listed'
  BY <1>2, <1>3 DEF IInv, Listed
<1> QED
  BY <1>3, <1>4, <1>5 DEF IInv

LEMMA TreeKeeps == ASSUME IInv, MakeFolder \/ DeleteEntry PROVE IInv'
<1>1. UNCHANGED <<sources, artifacts, commits, claims, edges, todo, cut>>
  BY DEF MakeFolder, DeleteEntry
<1>2. Queues' /\ Accounted'
  BY <1>1, QueuesStay DEF Grow
<1>3. Tables' /\ \A c \in DOMAIN commits' : Explained(c)'
  BY <1>1, TablesStay
<1>4. CASE MakeFolder
  <2>1. PICK path \in Path : entries' = WithFolders(path)
    BY <1>4 DEF MakeFolder
  <2> QED
    BY <1>1, <1>2, <1>3, <2>1 DEF WithFolders, IInv, Listed
<1>5. CASE DeleteEntry
  <2>1. PICK path \in DOMAIN entries : entries' = [p \in DOMAIN entries \ {path} |-> entries[p]]
    BY <1>5 DEF DeleteEntry
  <2> QED
    BY <1>1, <1>2, <1>3, <2>1 DEF IInv, Listed
<1> QED
  BY <1>4, <1>5

LEMMA CrashKeeps == ASSUME IInv, Crash PROVE IInv'
<1>1. /\ cut' = cut \cup UNION {ToCommit(t) : t \in Thread} /\ todo' = [t \in Thread |-> <<>>]
      /\ UNCHANGED <<sources, artifacts, commits, claims, edges, entries>>
  BY DEF Crash
<1>2. Queues'
  <2>1. Queue(<<>>, artifacts', commits') /\ Promised(<<>>, Headed(commits')) /\ Orderly(<<>>)
    BY EmptySeq DEF Queue, Promised, Orderly
  <2>2. todo' \in [Thread -> Seq(Step)] /\ \A t \in Thread : todo'[t] = <<>>
    BY <1>1, EmptySeq
  <2> QED
    BY <2>1, <2>2 DEF Queues
<1>3. Accounted'
  <2>1. ASSUME NEW t \in Thread
        PROVE  Pending(todo[t]) = ToCommit(t)
    BY LenProperties DEF IInv, Queues, Pending, ToCommit
  <2> QED
    BY <1>1, <2>1 DEF IInv, Accounted
<1>4. Tables' /\ \A c \in DOMAIN commits' : Explained(c)'
  BY <1>1, TablesStay
<1>5. Listed'
  BY <1>1 DEF IInv, Listed
<1> QED
  BY <1>2, <1>3, <1>4, <1>5 DEF IInv

LEMMA CommitRootKeeps == ASSUME IInv, NEW t \in Thread, CommitRoot(t) PROVE IInv'
<1> DEFINE step == Head(todo[t])
           c == Len(commits) + 1
           p == [k \in DOMAIN step.claims |->
                   [do |-> "claim", artifact |-> step.artifact, commit |-> c, text |-> step.claims[k]]]
           q == p \o Tail(todo[t])
<1>1. /\ NextStep(t, "commit") /\ SaveVersion(step.artifact, step.says) /\ Steps(t, q)
      /\ UNCHANGED <<sources, artifacts, entries, cut>>
  BY DEF CommitRoot
<1>2. /\ todo[t] \in Seq(Step) /\ todo[t] # <<>> /\ step.do = "commit"
      /\ Queue(todo[t], artifacts, commits) /\ Promised(todo[t], Headed(commits))
      /\ Orderly(todo[t])
  BY <1>1 DEF IInv, Queues, NextStep
<1>3. step \in Step /\ Fits(step, artifacts, commits)
  BY <1>2, QueueTail
<1>4. /\ step.artifact \in DOMAIN artifacts /\ step.says \in SUBSET Text
      /\ step.claims \in Seq(Text)
  BY <1>2, <1>3 DEF Step, Fits
<1>5. /\ Tables' /\ \A d \in DOMAIN commits' : Explained(d)'
      /\ Grow(artifacts, commits, artifacts', commits')
      /\ Headed(commits') = Headed(commits) \cup {step.artifact}
      /\ c \in DOMAIN commits'
  BY <1>1, <1>4, SaveVersionExplains DEF IInv
<1>6. /\ Queue(p, artifacts', commits') /\ Promised(p, Headed(commits')) /\ Orderly(p)
      /\ \A j \in 1..Len(p) : p[j].do \in {"commit", "claim"}
  <2>1. PICK n \in Nat : n = Len(step.claims) /\ DOMAIN step.claims = 1..n
                         /\ step.claims \in [1..n -> Text]
    BY <1>4, LenProperties
  <2>2. step.artifact \in Nat /\ c \in Nat
    <3>1. Len(commits) \in Nat /\ DOMAIN artifacts = 1..Len(artifacts)
      BY LenProperties DEF IInv, Tables
    <3> QED
      BY <1>4, <3>1
  <2>3. /\ p \in [1..n -> Step]
        /\ \A k \in 1..n : p[k].do = "claim" /\ p[k].commit = c /\ p[k].artifact = step.artifact
    BY <2>1, <2>2 DEF Step
  <2>4. commits'[c].artifact = step.artifact
    <3> DEFINE row == [artifact |-> step.artifact, says |-> step.says]
    <3>1. commits' = Append(commits, row) /\ commits \in Seq([artifact : Nat, says : SUBSET Text])
      BY <1>1 DEF SaveVersion, IInv, Tables
    <3>2. row \in [artifact : Nat, says : SUBSET Text]
      BY <1>4, <2>2
    <3> HIDE DEF row
    <3>3. commits'[c] = row
      BY <3>1, <3>2, AppendFacts
    <3> QED
      BY <3>3 DEF row
  <2>5. \A k \in 1..n : Fits(p[k], artifacts', commits')
    BY <1>5, <2>3, <2>4 DEF Fits
  <2>6. Queue(p, artifacts', commits') /\ Len(p) = n
    BY <2>3, <2>5, QueueOf
  <2> QED
    BY <2>3, <2>6 DEF Promised, Orderly
<1>7. /\ Queue(Tail(todo[t]), artifacts', commits') /\ Promised(Tail(todo[t]), Headed(commits'))
      /\ Orderly(Tail(todo[t]))
  <2>1. Queue(Tail(todo[t]), artifacts, commits)
    BY <1>2, QueueTail
  <2>2. Queue(Tail(todo[t]), artifacts', commits')
    BY <1>5, <2>1, QueueStays
  <2>3. Promised(Tail(todo[t]), Headed(commits'))
    BY <1>2, <1>5, PromisedTail
  <2> QED
    BY <1>2, <2>2, <2>3, OrderlyTail
<1>8. Queue(q, artifacts', commits')
  BY <1>6, <1>7, QueueJoin
<1>9. p \in Seq(Step) /\ Tail(todo[t]) \in Seq(Step)
  BY <1>6, <1>7 DEF Queue
<1>10. Promised(q, Headed(commits'))
  BY <1>6, <1>7, <1>9, PromisedJoin
<1>11. Orderly(q)
  BY <1>6, <1>7, <1>9, OrderlyJoin
<1>12. Pending(todo[t]) \subseteq Pending(q) \cup Headed(commits')
  BY <1>2, <1>5, <1>9, PendingTail, PendingJoin
<1>13. Queues' /\ Accounted'
  BY <1>1, <1>5, <1>8, <1>10, <1>11, <1>12, RequestMoves
<1>14. Listed'
  BY <1>1, <1>5 DEF IInv, Listed
<1> QED
  BY <1>5, <1>13, <1>14 DEF IInv

\* The steps of a file fit the rows its transaction adds.
LEMMA FileStepsFit ==
    ASSUME NEW file \in File, NEW path \in Path \cup {None}, NEW a \in Nat,
           NEW A, DOMAIN A = 1..a + Len(Units[file]), NEW C, NEW H
    PROVE  /\ Queue(FileSteps(file, path, a), A, C) /\ Promised(FileSteps(file, path, a), H)
           /\ Orderly(FileSteps(file, path, a))
           /\ \A k \in 1..Len(Units[file]) : a + k \in Pending(FileSteps(file, path, a))
<1> DEFINE p == CommitSteps(file, a)
           q == EntryStep(file, path, a)
           n == Len(Units[file])
<1>1. /\ n \in Nat /\ DOMAIN Units[file] = 1..n
      /\ \A k \in 1..n : Units[file][k] \in [claims : Seq(Text), stored : SUBSET Text]
  <2>1. Units[file] \in Seq([claims : Seq(Text), stored : SUBSET Text])
    BY IngestionAssumption
  <2> QED
    BY <2>1, LenProperties
<1>2. p \in [1..n -> Step] /\ \A k \in 1..n : p[k].do = "commit" /\ p[k].artifact = a + k
  BY <1>1 DEF CommitSteps, Step
<1>3. \A k \in 1..n : Fits(p[k], A, C)
  BY <1>1, <1>2 DEF Fits
<1>4. Queue(p, A, C) /\ Len(p) = n
  BY <1>1, <1>2, <1>3, QueueOf
<1>5. Orderly(p) /\ Promised(p, H) /\ \A j \in 1..Len(p) : p[j].do \in {"commit", "claim"}
  BY <1>1, <1>2, <1>4 DEF Orderly, Promised
<1>6. Queue(q, A, C) /\ Orderly(q)
      /\ \A k \in 1..Len(q) : q[k].artifact # None => n # 0 /\ q[k].artifact = a + 1
  <2>1. CASE path = None
    <3>1. q = <<>>
      BY <2>1 DEF EntryStep
    <3> QED
      BY <3>1, EmptySeq DEF Queue, Orderly
  <2>2. CASE path # None
    <3> DEFINE step == [do |-> "entry", path |-> path,
                        artifact |-> IF Units[file] = <<>> THEN None ELSE a + 1]
    <3>1. q = <<step>>
      BY <2>2 DEF EntryStep
    <3>2. step \in Step /\ Fits(step, A, C)
      BY DEF Step, Fits
    <3>3. /\ q \in [1..1 -> Step] /\ q[1] = step /\ Len(q) = 1
          /\ \A k \in 1..1 : Fits(q[k], A, C)
      BY <3>1, <3>2
    <3>4. Queue(q, A, C)
      BY <3>3, QueueOf
    <3>5. Units[file] # <<>> => n # 0
      BY IngestionAssumption, EmptySeq
    <3> QED
      BY <3>3, <3>4, <3>5 DEF Orderly
  <2> QED
    BY <2>1, <2>2
<1>7. p \in Seq(Step) /\ q \in Seq(Step) /\ FileSteps(file, path, a) = p \o q
  BY <1>4, <1>6 DEF Queue, FileSteps
<1>8. Queue(p \o q, A, C)
  BY <1>4, <1>6, QueueJoin
<1>9. Orderly(p \o q)
  BY <1>5, <1>6, <1>7, OrderlyJoin
<1>10. \A k \in 1..n : a + k \in Pending(p)
  BY <1>2, <1>4 DEF Pending
<1>11. \A k \in 1..n : a + k \in Pending(p \o q)
  BY <1>7, <1>10, PendingJoin
<1>12. Promised(p \o q, H)
  <2>1. /\ Len(q) \in Nat /\ Len(p \o q) = n + Len(q)
        /\ \A k \in 1..n : (p \o q)[k] = p[k]
        /\ \A k \in 1..Len(q) : (p \o q)[n + k] = q[k]
    <3>1. /\ Len(q) \in Nat /\ Len(p \o q) = Len(p) + Len(q)
          /\ \A k \in 1..Len(p) : (p \o q)[k] = p[k]
          /\ \A k \in 1..Len(q) : (p \o q)[Len(p) + k] = q[k]
      BY <1>7, JoinFacts
    <3> HIDE DEF p, q
    <3> QED
      BY <1>4, <3>1
  <2>2. SUFFICES ASSUME NEW k \in 1..Len(p \o q), (p \o q)[k].do = "entry",
                        (p \o q)[k].artifact # None
                 PROVE  \E j \in 1..k - 1 : (p \o q)[j].do = "commit"
                                            /\ (p \o q)[j].artifact = (p \o q)[k].artifact
    BY DEF Promised
  <2>3. k \notin 1..n
    BY <1>2, <2>1, <2>2
  <2>4. k - n \in 1..Len(q) /\ k = n + (k - n)
    BY <1>1, <2>1, <2>3
  <2>5. n # 0 /\ (p \o q)[k].artifact = a + 1
    BY <1>6, <2>1, <2>2, <2>4
  <2>6. 1 \in 1..n /\ 1 \in 1..k - 1
    BY <1>1, <2>1, <2>3, <2>5
  <2> QED
    BY <1>2, <2>1, <2>5, <2>6
<1> QED
  BY <1>7, <1>8, <1>9, <1>11, <1>12

LEMMA IngestFileKeeps == ASSUME IInv, NEW t \in Thread, IngestFile(t) PROVE IInv'
<1> DEFINE step == Head(todo[t])
           n == Len(Units[step.file])
           a == Len(artifacts)
           new == [k \in 1..n |-> [source |-> sources + 1, imported |-> TRUE]]
           p == FileSteps(step.file, step.path, a)
           q == p \o Tail(todo[t])
<1>1. /\ NextStep(t, "ingest") /\ sources' = sources + 1 /\ artifacts' = artifacts \o new
      /\ edges \subseteq edges' /\ Steps(t, q) /\ UNCHANGED <<commits, claims, entries, cut>>
  BY DEF IngestFile
<1>2. /\ todo[t] \in Seq(Step) /\ todo[t] # <<>> /\ step.do = "ingest"
      /\ Queue(todo[t], artifacts, commits) /\ Promised(todo[t], Headed(commits))
      /\ Orderly(todo[t])
  BY <1>1 DEF IInv, Queues, NextStep
<1>3. step.file \in File /\ step.path \in Path \cup {None}
  BY <1>2, QueueTail DEF Step
<1>4. n \in Nat /\ a \in Nat /\ DOMAIN artifacts = 1..a
  <2>1. Units[step.file] \in Seq([claims : Seq(Text), stored : SUBSET Text])
    BY <1>3, IngestionAssumption
  <2> QED
    BY <2>1, LenProperties DEF IInv, Tables
<1>5. /\ artifacts' \in Seq([source : Nat, imported : BOOLEAN]) /\ DOMAIN artifacts' = 1..a + n
      /\ \A k \in 1..a : artifacts'[k] = artifacts[k]
  <2>1. new \in [1..n -> [source : Nat, imported : BOOLEAN]]
    BY DEF IInv, Tables
  <2>2. new \in Seq([source : Nat, imported : BOOLEAN])
    BY <1>4, <2>1, SeqDef
  <2>3. Len(new) = n
    BY <1>4, <2>1, <2>2, LenProperties
  <2>4. artifacts \in Seq([source : Nat, imported : BOOLEAN]) /\ artifacts' = artifacts \o new
    BY <1>1 DEF IInv, Tables
  <2> HIDE DEF new, n
  <2>5. /\ artifacts' \in Seq([source : Nat, imported : BOOLEAN]) /\ Len(artifacts') = a + n
        /\ \A k \in 1..a : artifacts'[k] = artifacts[k]
    BY <2>2, <2>3, <2>4, JoinFacts
  <2>6. DOMAIN artifacts' = 1..Len(artifacts')
    BY <2>5, LenProperties
  <2> QED
    BY <2>5, <2>6
<1>6. Grow(artifacts, commits, artifacts', commits')
  <2> HIDE DEF n
  <2>1. 1..a \subseteq 1..a + n
    BY <1>4
  <2>2. UNCHANGED commits
    BY <1>1
  <2> QED
    BY <1>4, <1>5, <2>1, <2>2 DEF Grow
<1>7. /\ Queue(p, artifacts', commits') /\ Promised(p, Headed(commits')) /\ Orderly(p)
      /\ \A k \in 1..n : a + k \in Pending(p)
  BY <1>3, <1>4, <1>5, FileStepsFit
<1>8. /\ Queue(Tail(todo[t]), artifacts', commits') /\ Promised(Tail(todo[t]), Headed(commits'))
      /\ Orderly(Tail(todo[t])) /\ Pending(Tail(todo[t])) = {}
  <2>1. Queue(Tail(todo[t]), artifacts', commits')
    BY <1>2, <1>6, QueueTail, QueueStays
  <2>2. Promised(Tail(todo[t]), Headed(commits'))
    BY <1>1, <1>2, PromisedTail
  <2> QED
    BY <1>2, <2>1, <2>2, OrderlyTail
<1>9. p \in Seq(Step) /\ Tail(todo[t]) \in Seq(Step)
  BY <1>7, <1>8 DEF Queue
<1>10. Queue(q, artifacts', commits') /\ Promised(q, Headed(commits')) /\ Orderly(q)
  BY <1>7, <1>8, <1>9, QueueJoin, PromisedJoin, OrderlyJoin
<1>11. Pending(todo[t]) = {}
  BY <1>2, <1>8, PendingTail
<1>12. DOMAIN artifacts' \subseteq DOMAIN artifacts \cup Pending(q)
  <2>1. ASSUME NEW x \in 1..a + n, x \notin 1..a
        PROVE  x \in Pending(q)
    <3>1. x - a \in 1..n /\ x = a + (x - a)
      BY <1>4, <2>1
    <3>2. x \in Pending(p)
      BY <1>7, <3>1
    <3> QED
      BY <1>9, <3>2, PendingJoin
  <2> QED
    BY <1>4, <1>5, <2>1
<1>13. Queues' /\ Accounted'
  BY <1>1, <1>6, <1>10, <1>11, <1>12, RequestMoves
<1>14. Tables'
  <2>1. /\ sources \in Nat /\ commits \in Seq([artifact : Nat, says : SUBSET Text])
        /\ claims \subseteq [commit : DOMAIN commits, text : Text, copy : {1}]
        /\ \A c \in DOMAIN commits : commits[c].artifact \in 1..a
    BY <1>4 DEF IInv, Tables
  <2>2. sources' = sources + 1 /\ UNCHANGED <<commits, claims>>
    BY <1>1
  <2>3. sources' \in Nat
    BY <2>1, <2>2
  <2>4. 1..a \subseteq DOMAIN artifacts'
    <3> HIDE DEF n
    <3> QED
      BY <1>4, <1>5
  <2>5. \A c \in DOMAIN commits : commits[c].artifact \in DOMAIN artifacts'
    BY <2>1, <2>4
  <2> QED
    BY <1>5, <2>1, <2>2, <2>3, <2>5 DEF Tables
<1>15. ASSUME NEW c \in DOMAIN commits
       PROVE  Explained(c)'
  <2>1. commits[c].artifact \in 1..a
    BY <1>4 DEF IInv, Tables
  <2> QED
    BY <1>1, <1>5, <1>15, <2>1, ExplainedStays DEF IInv
<1>16. Listed'
  BY <1>1 DEF IInv, Listed
<1> QED
  BY <1>1, <1>13, <1>14, <1>15, <1>16 DEF IInv

-----------------------------------------------------------------------------
(* The walk of get_claim.                                                  *)

Seen(start, seen) ==
    seen = [n \in Nat |-> IF n = 0 THEN start ELSE seen[n - 1] \cup Beside(seen[n - 1])]

\* The recursion has a solution: the first n turns have one, and two of them agree.
LEMMA SeenExists == ASSUME NEW start PROVE \E seen : Seen(start, seen)
<1> DEFINE Turn0(f, m) == IF m = 0 THEN start ELSE f[m - 1] \cup Beside(f[m - 1])
           Upto(n, f) == f = [m \in 0..n |-> Turn0(f, m)]
<1>1. ASSUME NEW n \in Nat PROVE \E f : Upto(n, f)
  <2> DEFINE S == {k \in 0..n : \E f : Upto(k, f)}
  <2>1. 0 \in S
    <3> DEFINE f == [m \in 0..0 |-> start]
               h == [m \in 0..0 |-> Turn0(f, m)]
    <3>1. f = h
      OBVIOUS
    <3> HIDE DEF f
    <3>2. Upto(0, f)
      BY <3>1
    <3> QED
      BY <3>2
  <2>2. ASSUME NEW k \in 0..(n - 1), k \in S
        PROVE  k + 1 \in S
    <3>1. PICK f : Upto(k, f)
      BY <2>2
    <3> DEFINE g == [m \in 0..k + 1 |-> IF m = k + 1 THEN Turn0(f, m) ELSE f[m]]
               h == [m \in 0..k + 1 |-> Turn0(g, m)]
               f0 == [m \in 0..k |-> Turn0(f, m)]
    <3>2. ASSUME NEW m \in 0..k + 1 PROVE g[m] = h[m]
      <4>1. m # 0 => m - 1 \in 0..k /\ m - 1 \in 0..k + 1 /\ m - 1 # k + 1
        OBVIOUS
      <4>2. Turn0(g, m) = Turn0(f, m)
        BY <4>1
      <4>3. m # k + 1 => f0[m] = Turn0(f, m)
        OBVIOUS
      <4>4. g[m] = Turn0(f, m)
        <5>1. g[m] = IF m = k + 1 THEN Turn0(f, m) ELSE f[m]
          OBVIOUS
        <5>2. f = f0
          BY <3>1
        <5> HIDE DEF g, f0, Turn0
        <5> QED
          BY <4>3, <5>1, <5>2
      <4>5. h[m] = Turn0(g, m)
        OBVIOUS
      <4> HIDE DEF g, h, f0, Turn0
      <4> QED
        BY <4>2, <4>4, <4>5
    <3>3. g = h
      BY <3>2
    <3>4. Upto(k + 1, g)
      <4> HIDE DEF g
      <4> QED
        BY <3>3
    <3> HIDE DEF Upto
    <3> QED
      BY <3>4
  <2> HIDE DEF S
  <2>3. 0..n \subseteq S
    BY <2>1, <2>2, Induct
  <2>4. n \in S
    BY <2>3
  <2> QED
    BY <2>4 DEF S
<1>2. ASSUME NEW n \in Nat, NEW f, Upto(n, f), NEW m \in 0..n
      PROVE  f[m] = Turn0(f, m)
  <2> DEFINE f0 == [k \in 0..n |-> Turn0(f, k)]
  <2>1. f = f0 /\ f0[m] = Turn0(f, m)
    BY <1>2
  <2> HIDE DEF f0, Turn0
  <2> QED
    BY <2>1
<1>3. ASSUME NEW n \in Nat, NEW f, Upto(n, f), NEW g, Upto(n + 1, g)
      PROVE  f[n] = g[n]
  <2> DEFINE S == {k \in 0..n : f[k] = g[k]}
  <2>1. \A k \in 0..n : f[k] = Turn0(f, k)
    BY <1>2, <1>3
  <2>2. \A k \in 0..n : g[k] = Turn0(g, k)
    <3>1. n + 1 \in Nat /\ \A k \in 0..n : k \in 0..n + 1
      OBVIOUS
    <3> HIDE DEF Upto, Turn0
    <3> QED
      BY <1>2, <1>3, <3>1
  <2> HIDE DEF Upto
  <2>3. 0 \in S
    <3>1. 0 \in 0..n /\ Turn0(f, 0) = start /\ Turn0(g, 0) = start
      OBVIOUS
    <3> HIDE DEF Turn0
    <3> QED
      BY <2>1, <2>2, <3>1
  <2>4. ASSUME NEW k \in 0..(n - 1), k \in S
        PROVE  k + 1 \in S
    <3>1. k + 1 \in 0..n /\ k + 1 # 0 /\ (k + 1) - 1 = k
      OBVIOUS
    <3>2. Turn0(f, k + 1) = Turn0(g, k + 1)
      BY <2>4, <3>1
    <3> HIDE DEF Turn0
    <3> QED
      BY <2>1, <2>2, <3>1, <3>2
  <2> HIDE DEF S
  <2>5. 0..n \subseteq S
    BY <2>3, <2>4, Induct
  <2>6. n \in S
    BY <2>5
  <2> QED
    BY <2>6 DEF S
<1> DEFINE first(n) == CHOOSE f : Upto(n, f)
           seen == [n \in Nat |-> first(n)[n]]
           h == [n \in Nat |-> Turn0(seen, n)]
<1>4. \A n \in Nat : Upto(n, first(n))
  <2> HIDE DEF Upto
  <2> QED
    BY <1>1
<1>5. ASSUME NEW n \in Nat PROVE seen[n] = h[n]
  <2>1. first(n)[n] = Turn0(first(n), n)
    <3> HIDE DEF Upto, Turn0, first
    <3>1. n \in 0..n
      OBVIOUS
    <3> QED
      BY <1>2, <1>4, <3>1
  <2>2. n # 0 => first(n)[n - 1] = first(n - 1)[n - 1] /\ n - 1 \in Nat
    <3>1. n # 0 => n - 1 \in Nat /\ (n - 1) + 1 = n
      OBVIOUS
    <3> HIDE DEF Upto, first
    <3> QED
      BY <1>3, <1>4, <3>1
  <2> HIDE DEF first
  <2>3. seen[n] = first(n)[n] /\ h[n] = Turn0(seen, n)
    OBVIOUS
  <2>4. n # 0 => seen[n - 1] = first(n)[n - 1]
    BY <2>2
  <2> HIDE DEF seen, h
  <2> QED
    BY <2>1, <2>3, <2>4
<1>6. seen = h
  <2> HIDE DEF first, Turn0
  <2> QED
    BY <1>5
<1> HIDE DEF seen
<1>7. Seen(start, seen)
  BY <1>6 DEF Seen
<1> QED
  BY <1>7

\* What the walk holds after one turn and after two, and how far it gets at all.
LEMMA SeenFacts ==
    ASSUME NEW start, NEW seen, Seen(start, seen), NEW N \in Nat
    PROVE  /\ \A n \in 0..N : start \subseteq seen[n]
           /\ N >= 1 => Beside(start) \subseteq seen[N]
           /\ N >= 2 => Beside(Beside(start)) \subseteq seen[N]
           /\ \A S : start \subseteq S /\ Beside(S) \subseteq S => seen[N] \subseteq S
<1> DEFINE h == [n \in Nat |-> IF n = 0 THEN start ELSE seen[n - 1] \cup Beside(seen[n - 1])]
<1>1. ASSUME NEW n \in Nat
      PROVE  seen[n] = IF n = 0 THEN start ELSE seen[n - 1] \cup Beside(seen[n - 1])
  <2>1. seen = h /\ h[n] = IF n = 0 THEN start ELSE seen[n - 1] \cup Beside(seen[n - 1])
    BY DEF Seen
  <2> HIDE DEF h
  <2> QED
    BY <2>1
<1>2. \A S, T : S \subseteq T => Beside(S) \subseteq Beside(T)
  BY DEF Beside
<1>3. ASSUME NEW m \in 0..N PROVE seen[m] \subseteq seen[N]
  <2> DEFINE S == {n \in 0..N : m <= n => seen[m] \subseteq seen[n]}
  <2>1. 0 \in S
    OBVIOUS
  <2>2. ASSUME NEW n \in 0..(N - 1), n \in S
        PROVE  n + 1 \in S
    <3>1. n + 1 \in Nat /\ n + 1 # 0 /\ (n + 1) - 1 = n /\ n + 1 \in 0..N
      OBVIOUS
    <3>2. seen[n] \subseteq seen[n + 1]
      BY <1>1, <3>1
    <3>3. m <= n + 1 => m <= n \/ m = n + 1
      OBVIOUS
    <3> QED
      BY <2>2, <3>1, <3>2, <3>3
  <2> HIDE DEF S
  <2>3. 0..N \subseteq S
    BY <2>1, <2>2, Induct
  <2>4. N \in S
    BY <2>3
  <2> QED
    BY <2>4 DEF S
<1>4. seen[0] = start
  BY <1>1
<1>5. seen[1] = start \cup Beside(start)
  <2>1. 1 \in Nat /\ 1 # 0 /\ 1 - 1 = 0
    OBVIOUS
  <2> QED
    BY <1>1, <1>4, <2>1
<1>6. Beside(Beside(start)) \subseteq seen[2]
  <2>1. seen[2] = seen[1] \cup Beside(seen[1])
    <3>1. 2 \in Nat /\ 2 # 0 /\ 2 - 1 = 1
      OBVIOUS
    <3> QED
      BY <1>1, <3>1
  <2> QED
    BY <1>2, <1>5, <2>1
<1>7. ASSUME NEW n \in 0..N PROVE start \subseteq seen[n]
  <2> DEFINE S == {k \in 0..N : start \subseteq seen[k]}
  <2>1. 0 \in S
    BY <1>4
  <2>2. ASSUME NEW k \in 0..(N - 1), k \in S
        PROVE  k + 1 \in S
    <3>1. k + 1 \in Nat /\ k + 1 # 0 /\ (k + 1) - 1 = k /\ k + 1 \in 0..N
      OBVIOUS
    <3> QED
      BY <1>1, <2>2, <3>1
  <2> HIDE DEF S
  <2>3. 0..N \subseteq S
    BY <2>1, <2>2, Induct
  <2>4. n \in S
    BY <2>3
  <2> QED
    BY <2>4 DEF S
<1>8. ASSUME NEW T, start \subseteq T, Beside(T) \subseteq T PROVE seen[N] \subseteq T
  <2> DEFINE S == {k \in 0..N : seen[k] \subseteq T}
  <2>1. 0 \in S
    BY <1>4, <1>8
  <2>2. ASSUME NEW k \in 0..(N - 1), k \in S
        PROVE  k + 1 \in S
    <3>1. k + 1 \in Nat /\ k + 1 # 0 /\ (k + 1) - 1 = k /\ k + 1 \in 0..N
      OBVIOUS
    <3>2. seen[k + 1] = seen[k] \cup Beside(seen[k])
      BY <1>1, <3>1
    <3> QED
      BY <1>2, <1>8, <2>2, <3>1, <3>2
  <2> HIDE DEF S
  <2>3. 0..N \subseteq S
    BY <2>1, <2>2, Induct
  <2>4. N \in S
    BY <2>3
  <2> QED
    BY <2>4 DEF S
<1>9. N >= 1 => 1 \in 0..N
  OBVIOUS
<1>10. N >= 2 => 2 \in 0..N
  OBVIOUS
<1> QED
  BY <1>3, <1>5, <1>6, <1>7, <1>8, <1>9, <1>10

-----------------------------------------------------------------------------
(* The graph of provenance, exactly.                                       *)

Imports ==
    {<<Source(artifacts[a].source), "imported_as", Artifact(a)>> :
        a \in {a \in DOMAIN artifacts : artifacts[a].imported}}

Versions == {<<Artifact(commits[c].artifact), "has_version", Version(c)>> : c \in DOMAIN commits}

Statements == UNION {ClaimEdges(k.commit, {k}, SourceOf(k.commit)) : k \in claims}

Recorded == edges = Imports \cup Versions \cup Statements

Sourced ==
    \A a \in DOMAIN artifacts :
        artifacts[a].source \in 0..sources /\ (artifacts[a].imported => artifacts[a].source # 0)

Chained == Recorded /\ Sourced /\ IsFiniteSet(edges)

\* Everything that goes back to the source s, or, for s = 0, to none.
Kin(s) ==
    {Source(s)}
        \cup {Artifact(a) : a \in {a \in DOMAIN artifacts : artifacts[a].source = s}}
        \cup {Version(c) : c \in {c \in DOMAIN commits : SourceOf(c) = s}}
        \cup {Stating(c) : c \in {c \in DOMAIN commits : SourceOf(c) = s}}
        \cup {Claim(k) : k \in {k \in claims : SourceOf(k.commit) = s}}

LEMMA Names ==
    ASSUME NEW x, NEW y
    PROVE  /\ Source(x) = Source(y) => x = y
           /\ Artifact(x) = Artifact(y) => x = y
           /\ Version(x) = Version(y) => x = y
           /\ Stating(x) = Stating(y) => x = y
           /\ Claim(x) = Claim(y) => x = y
           /\ Source(x) # Artifact(y) /\ Source(x) # Version(y) /\ Source(x) # Stating(y)
           /\ Source(x) # Claim(y) /\ Artifact(x) # Version(y) /\ Artifact(x) # Stating(y)
           /\ Artifact(x) # Claim(y) /\ Version(x) # Stating(y) /\ Version(x) # Claim(y)
           /\ Stating(x) # Claim(y)
BY DEF Source, Artifact, Version, Stating, Claim

\* An edge joins two nodes with the same source.
LEMMA EdgesJoinKin ==
    ASSUME Tables, Recorded, NEW e \in edges, NEW s
    PROVE  e[1] \in Kin(s) <=> e[3] \in Kin(s)
<1>1. CASE e \in Imports
  <2>1. PICK a \in DOMAIN artifacts : e = <<Source(artifacts[a].source), "imported_as", Artifact(a)>>
    BY <1>1 DEF Imports
  <2>2. e[1] = Source(artifacts[a].source) /\ e[3] = Artifact(a)
    BY <2>1
  <2>3. Source(artifacts[a].source) \in Kin(s) <=> artifacts[a].source = s
    BY Names DEF Kin
  <2>4. Artifact(a) \in Kin(s) <=> artifacts[a].source = s
    BY Names DEF Kin
  <2> QED
    BY <2>2, <2>3, <2>4
<1>2. CASE e \in Versions
  <2>1. PICK c \in DOMAIN commits : e = <<Artifact(commits[c].artifact), "has_version", Version(c)>>
    BY <1>2 DEF Versions
  <2>2. e[1] = Artifact(commits[c].artifact) /\ e[3] = Version(c)
    BY <2>1
  <2>3. commits[c].artifact \in DOMAIN artifacts
    BY DEF Tables
  <2>4. Artifact(commits[c].artifact) \in Kin(s) <=> SourceOf(c) = s
    BY <2>3, Names DEF Kin, SourceOf
  <2>5. Version(c) \in Kin(s) <=> SourceOf(c) = s
    BY Names DEF Kin
  <2> QED
    BY <2>2, <2>4, <2>5
<1>3. CASE e \in Statements
  <2>1. PICK k \in claims : e \in ClaimEdges(k.commit, {k}, SourceOf(k.commit))
    BY <1>3 DEF Statements
  <2>2. k.commit \in DOMAIN commits
    BY DEF Tables
  <2>3. Claim(k) \in Kin(s) <=> SourceOf(k.commit) = s
    BY Names DEF Kin
  <2>4. Stating(k.commit) \in Kin(s) <=> SourceOf(k.commit) = s
    BY <2>2, Names DEF Kin
  <2>5. Source(SourceOf(k.commit)) \in Kin(s) <=> SourceOf(k.commit) = s
    BY Names DEF Kin
  <2>6. CASE e = <<Stating(k.commit), "states", Claim(k)>>
    BY <2>3, <2>4, <2>6
  <2>7. CASE e = <<Claim(k), "derived_from", Source(SourceOf(k.commit))>>
    BY <2>3, <2>5, <2>7
  <2> QED
    BY <2>1, <2>6, <2>7 DEF ClaimEdges
<1> QED
  BY <1>1, <1>2, <1>3 DEF Recorded

LEMMA KinIsClosed == ASSUME Tables, Recorded, NEW s PROVE Beside(Kin(s)) \subseteq Kin(s)
BY EdgesJoinKin DEF Beside

LEMMA TwoOfThem ==
    ASSUME NEW S, IsFiniteSet(S), NEW e \in S
    PROVE  /\ Cardinality(S) \in Nat /\ Cardinality(S) >= 1
           /\ \A d \in S : d # e => Cardinality(S) >= 2
<1>1. Cardinality(S) \in Nat
  BY FS_CardinalityType
<1>2. IsFiniteSet({e}) /\ Cardinality({e}) = 1
  BY FS_Singleton
<1>3. Cardinality({e}) <= Cardinality(S)
  BY FS_Subset
<1>4. ASSUME NEW d \in S, d # e PROVE Cardinality(S) >= 2
  <2>1. Cardinality({e} \cup {d}) = 2
    BY <1>2, <1>4, FS_AddElement
  <2>2. Cardinality({e} \cup {d}) <= Cardinality(S)
    BY FS_Subset
  <2> QED
    BY <1>1, <2>1, <2>2
<1> QED
  BY <1>1, <1>2, <1>3, <1>4

LEMMA ChainsEnd == ASSUME IInv, Chained PROVE ChainsEndAtTheirSource
<1>1. SUFFICES ASSUME NEW k \in claims
               PROVE  LET chain == ProvenanceChain(k)
                          a == commits[k.commit].artifact
                      IN /\ Stating(k.commit) \in chain
                         /\ {s \in 1..sources : Source(s) \in chain} = {SourceOf(k.commit)} \ {0}
                         /\ artifacts[a].imported => Artifact(a) \in chain
  BY DEF ChainsEndAtTheirSource
<1> DEFINE c == k.commit
           a == commits[c].artifact
           s0 == SourceOf(c)
           N == Cardinality(edges)
           start == {Claim(k)}
           chain == ProvenanceChain(k)
           states == <<Stating(c), "states", Claim(k)>>
           derived == <<Claim(k), "derived_from", Source(s0)>>
           imported == <<Source(s0), "imported_as", Artifact(a)>>
<1>2. Tables /\ c \in DOMAIN commits /\ a \in DOMAIN artifacts /\ s0 = artifacts[a].source
  BY DEF IInv, Tables, SourceOf
<1>3. PICK seen : Seen(start, seen) /\ chain = seen[N]
  <2> DEFINE f == CHOOSE f : Seen(start, f)
  <2>1. Seen(start, f)
    BY SeenExists
  <2>2. chain = f[N]
    BY DEF ProvenanceChain, Seen
  <2> QED
    BY <2>1, <2>2
<1>4. states \in edges /\ (s0 # 0 => derived \in edges)
  BY DEF Chained, Recorded, Statements, ClaimEdges
<1>5. artifacts[a].imported => s0 # 0 /\ imported \in edges
  BY <1>2 DEF Chained, Recorded, Imports, Sourced
<1>6. s0 \in 0..sources /\ sources \in Nat
  BY <1>2 DEF Chained, Sourced, Tables
<1>7. N \in Nat /\ N >= 1 /\ (s0 # 0 => N >= 2)
  <2>1. derived # states
    BY Names
  <2> QED
    BY <1>4, <2>1, TwoOfThem DEF Chained
<1>8. Stating(c) \in Beside(start) /\ (s0 # 0 => Source(s0) \in Beside(start))
  BY <1>4 DEF Beside
<1>9. artifacts[a].imported => Artifact(a) \in Beside(Beside(start))
  BY <1>5, <1>8 DEF Beside
<1> HIDE DEF N, start, chain, states, derived, imported, s0
<1>10. /\ Beside(start) \subseteq chain
       /\ s0 # 0 => Beside(Beside(start)) \subseteq chain
  BY <1>3, <1>7, SeenFacts
<1>11. chain \subseteq Kin(s0)
  <2>1. start \subseteq Kin(s0)
    BY <1>2 DEF Kin, start, s0
  <2>2. Beside(Kin(s0)) \subseteq Kin(s0)
    BY <1>2, KinIsClosed DEF Chained
  <2> QED
    BY <1>3, <1>7, <2>1, <2>2, SeenFacts
<1>12. \A s \in 1..sources : Source(s) \in chain => s = s0
  BY <1>11, Names DEF Kin
<1>13. {s \in 1..sources : Source(s) \in chain} = {s0} \ {0}
  BY <1>6, <1>8, <1>10, <1>12
<1> QED
  BY <1>5, <1>8, <1>9, <1>10, <1>13 DEF chain, s0

-----------------------------------------------------------------------------
(* The graph stays the one the tables say.                                 *)

\* The values of a function on a finite set.
LEMMA FiniteValues ==
    ASSUME NEW S, IsFiniteSet(S), NEW f, DOMAIN f = S
    PROVE  IsFiniteSet({f[x] : x \in S})
<1> DEFINE T == {f[x] : x \in S}
           g == [x \in S |-> f[x]]
<1>1. g \in Surjection(S, T)
  BY DEF Surjection
<1> HIDE DEF g, T
<1>2. IsFiniteSet(T)
  BY <1>1, FS_Surjection
<1> QED
  BY <1>2 DEF T

LEMMA NewClaimsFinite ==
    ASSUME NEW c, NEW texts, IsFiniteSet(texts)
    PROVE  IsFiniteSet(NewClaims(c, texts))
<1> DEFINE S == {x \in texts : ~Present(claims, c, x)}
           f == [x \in S |-> [commit |-> c, text |-> x, copy |-> 1]]
<1>1. IsFiniteSet(S)
  BY FS_Subset
<1>2. DOMAIN f = S /\ NewClaims(c, texts) = {f[x] : x \in S}
  BY DEF NewClaims
<1> HIDE DEF f, S
<1> QED
  BY <1>1, <1>2, FiniteValues

LEMMA ClaimEdgesFinite ==
    ASSUME NEW c, NEW new, IsFiniteSet(new), NEW s
    PROVE  IsFiniteSet(ClaimEdges(c, new, s))
<1> DEFINE f == [k \in new |-> <<Stating(c), "states", Claim(k)>>]
           g == [k \in new |-> <<Claim(k), "derived_from", Source(s)>>]
           F == {f[k] : k \in new}
           G == {g[k] : k \in new}
<1>1. ClaimEdges(c, new, s) \subseteq F \cup G
  BY DEF ClaimEdges
<1>2. DOMAIN f = new /\ DOMAIN g = new
  OBVIOUS
<1> HIDE DEF f, g
<1>3. IsFiniteSet(F) /\ IsFiniteSet(G)
  BY <1>2, FiniteValues
<1> HIDE DEF F, G
<1>4. IsFiniteSet(F \cup G)
  BY <1>3, FS_Union
<1> QED
  BY <1>1, <1>4, FS_Subset

\* The rows of a claim table, and what a step adds to them.
LEMMA StatementsOf ==
    ASSUME NEW c, NEW new, NEW s, \A k \in new : k.commit = c
    PROVE  ClaimEdges(c, new, s) = UNION {ClaimEdges(k.commit, {k}, s) : k \in new}
BY DEF ClaimEdges

\* Nothing about provenance changes.
LEMMA ChainedStays ==
    ASSUME Chained, UNCHANGED <<sources, artifacts, commits, claims, edges>>
    PROVE  Chained'
BY DEF Chained, Recorded, Sourced, Imports, Versions, Statements, SourceOf,
       Source, Artifact, Version, Stating, Claim, ClaimEdges

LEMMA SaveVersionChains ==
    ASSUME IsFiniteSet(Text), Tables, Chained,
           NEW a \in DOMAIN artifacts, NEW says \in SUBSET Text, SaveVersion(a, says),
           UNCHANGED <<sources, artifacts>>
    PROVE  Chained'
<1>0. PICK c0 : c0 = Len(commits) + 1
  OBVIOUS
<1> DEFINE row == [artifact |-> a, says |-> says]
           new == NewClaims(c0, says)
           s0 == artifacts[a].source
           E == ClaimEdges(c0, new, s0)
           v0 == <<Artifact(a), "has_version", Version(c0)>>
<1>1. row \in [artifact : Nat, says : SUBSET Text]
  BY LenProperties DEF Tables
<1>2. /\ commits' = Append(commits, row) /\ Len(commits) \in Nat
      /\ DOMAIN commits = 1..Len(commits) /\ DOMAIN commits' = 1..c0
      /\ \A k \in 1..Len(commits) : commits'[k] = commits[k]
      /\ commits'[c0] = row
  BY <1>0, <1>1, AppendFacts DEF Tables, SaveVersion
<1>3. claims' = claims \cup new /\ edges' = edges \cup {v0} \cup E
  BY <1>0 DEF SaveVersion, Capture
<1>4. DOMAIN commits' = DOMAIN commits \cup {c0} /\ c0 \notin DOMAIN commits
  BY <1>0, <1>2
<1>5. \A c \in DOMAIN commits : commits'[c] = commits[c] /\ SourceOf(c)' = SourceOf(c)
  BY <1>2 DEF SourceOf
<1>6. commits'[c0].artifact = a /\ SourceOf(c0)' = s0
  <2>1. commits'[c0].artifact = a
    <3>1. row.artifact = a
      OBVIOUS
    <3> HIDE DEF row
    <3> QED
      BY <1>2, <3>1
  <2>2. SourceOf(c0)' = artifacts'[commits'[c0].artifact].source
    BY <1>2 DEF SourceOf
  <2> QED
    BY <2>1, <2>2
<1>7. Imports' = Imports
  BY DEF Imports, Source, Artifact
<1>8. Versions' = Versions \cup {v0}
  BY <1>4, <1>5, <1>6 DEF Versions, Artifact, Version
<1>9. /\ \A k \in new : k.commit = c0
      /\ \A k \in claims : k.commit \in DOMAIN commits
  BY DEF NewClaims, Tables
<1>10. Statements' = Statements \cup E
  <2>1. Statements' = UNION {ClaimEdges(k.commit, {k}, SourceOf(k.commit)') : k \in claims'}
    BY DEF Statements, ClaimEdges, Stating, Claim, Source
  <2>2. UNION {ClaimEdges(k.commit, {k}, SourceOf(k.commit)') : k \in claims} = Statements
    BY <1>5, <1>9 DEF Statements
  <2>3. UNION {ClaimEdges(k.commit, {k}, SourceOf(k.commit)') : k \in new} = E
    <3>1. \A k \in new : SourceOf(k.commit)' = s0
      <4>1. TAKE k \in new
      <4>2. k.commit = c0
        BY <1>9
      <4>3. SourceOf(k.commit)' = artifacts'[commits'[k.commit].artifact].source
        BY DEF SourceOf
      <4> QED
        BY <1>6, <4>2, <4>3
    <3> HIDE DEF new, s0
    <3>2. E = UNION {ClaimEdges(k.commit, {k}, s0) : k \in new}
      BY <1>9, StatementsOf
    <3> HIDE DEF E
    <3> QED
      BY <3>1, <3>2
  <2> HIDE DEF new, E
  <2> QED
    BY <1>3, <2>1, <2>2, <2>3
<1>11. IsFiniteSet(edges')
  <2>1. IsFiniteSet(new)
    BY NewClaimsFinite, FS_Subset
  <2> HIDE DEF new
  <2>2. IsFiniteSet(E)
    BY <2>1, ClaimEdgesFinite
  <2> HIDE DEF E, v0
  <2>3. IsFiniteSet(edges \cup {v0})
    BY FS_AddElement DEF Chained
  <2> QED
    BY <1>3, <2>2, <2>3, FS_Union
<1> HIDE DEF v0, E
<1>12. Recorded'
  BY <1>3, <1>7, <1>8, <1>10 DEF Chained, Recorded
<1>13. Sourced'
  BY DEF Chained, Sourced
<1> QED
  BY <1>11, <1>12, <1>13 DEF Chained

LEMMA WriteClaimChains ==
    ASSUME IInv, Chained, NEW t \in Thread, WriteClaim(t)
    PROVE  Chained'
<1> DEFINE step == Head(todo[t])
           c == step.commit
           new == NewClaims(c, {step.text})
           s0 == artifacts[step.artifact].source
           E == ClaimEdges(c, new, s0)
<1>1. /\ claims' = claims \cup new /\ edges' = edges \cup E
      /\ UNCHANGED <<sources, artifacts, commits>>
  BY DEF WriteClaim
<1>2. c \in DOMAIN commits /\ step.artifact = commits[c].artifact
  <2>1. /\ todo[t] # <<>> /\ step.do = "claim" /\ Queue(todo[t], artifacts, commits)
    BY DEF IInv, Queues, WriteClaim, NextStep
  <2>2. Fits(step, artifacts, commits)
    BY <2>1, QueueTail
  <2> QED
    BY <2>1, <2>2 DEF Fits
<1>3. SourceOf(c) = s0
  BY <1>2 DEF SourceOf
<1>4. Imports' = Imports /\ Versions' = Versions
  BY <1>1 DEF Imports, Versions, Source, Artifact, Version
<1>5. \A k \in new : k.commit = c
  BY DEF NewClaims
<1>6. Statements' = Statements \cup E
  <2>1. Statements' = UNION {ClaimEdges(k.commit, {k}, SourceOf(k.commit)) : k \in claims'}
    BY <1>1 DEF Statements, ClaimEdges, Stating, Claim, Source, SourceOf
  <2>2. UNION {ClaimEdges(k.commit, {k}, SourceOf(k.commit)) : k \in new} = E
    <3> HIDE DEF new, s0, c
    <3>1. E = UNION {ClaimEdges(k.commit, {k}, s0) : k \in new}
      BY <1>5, StatementsOf
    <3> HIDE DEF E
    <3> QED
      BY <1>3, <1>5, <3>1
  <2> HIDE DEF new, E
  <2> QED
    BY <1>1, <2>1, <2>2 DEF Statements
<1>7. IsFiniteSet(edges')
  <2>1. IsFiniteSet(new)
    BY NewClaimsFinite, FS_Singleton
  <2> HIDE DEF new
  <2>2. IsFiniteSet(E)
    BY <2>1, ClaimEdgesFinite
  <2> HIDE DEF E
  <2> QED
    BY <1>1, <2>2, FS_Union DEF Chained
<1> HIDE DEF E
<1>8. Recorded'
  BY <1>1, <1>4, <1>6 DEF Chained, Recorded
<1>9. Sourced'
  BY <1>1 DEF Chained, Sourced
<1> QED
  BY <1>7, <1>8, <1>9 DEF Chained

LEMMA CreateRequestChains ==
    ASSUME IInv, Chained, NEW t \in Thread, CreateRequest(t)
    PROVE  Chained'
<1>1. PICK s \in 0..sources : artifacts' = Append(artifacts, [source |-> s, imported |-> FALSE])
  BY DEF CreateRequest
<1>2. UNCHANGED <<sources, commits, claims, edges>>
  BY DEF CreateRequest
<1> DEFINE row == [source |-> s, imported |-> FALSE]
           last == Len(artifacts) + 1
<1>3. /\ artifacts \in Seq([source : Nat, imported : BOOLEAN])
      /\ row \in [source : Nat, imported : BOOLEAN] /\ sources \in Nat
  BY DEF IInv, Tables
<1>4. /\ DOMAIN artifacts = 1..Len(artifacts) /\ Len(artifacts) \in Nat
      /\ DOMAIN artifacts' = 1..last /\ artifacts'[last] = row
      /\ \A k \in DOMAIN artifacts : artifacts'[k] = artifacts[k]
  <2> HIDE DEF row
  <2> QED
    BY <1>1, <1>3, AppendFacts DEF row
<1>5. DOMAIN artifacts' = DOMAIN artifacts \cup {last} /\ last \notin DOMAIN artifacts
  BY <1>4
<1>6. artifacts'[last].source = s /\ artifacts'[last].imported = FALSE
  BY <1>4
<1> HIDE DEF last, row
<1>7. Imports' = Imports
  BY <1>4, <1>5, <1>6 DEF Imports, Source, Artifact
<1>8. Versions' = Versions
  BY <1>2 DEF Versions, Artifact, Version
<1>9. \A c \in DOMAIN commits : SourceOf(c)' = SourceOf(c)
  <2>1. TAKE c \in DOMAIN commits
  <2>2. commits[c].artifact \in DOMAIN artifacts
    BY DEF IInv, Tables
  <2> QED
    BY <1>2, <1>4, <2>2 DEF SourceOf
<1>10. Statements' = Statements
  <2>1. Statements' = UNION {ClaimEdges(k.commit, {k}, SourceOf(k.commit)') : k \in claims}
    BY <1>2 DEF Statements, ClaimEdges, Stating, Claim, Source
  <2>2. \A k \in claims : k.commit \in DOMAIN commits
    BY DEF IInv, Tables
  <2> QED
    BY <1>9, <2>1, <2>2 DEF Statements
<1>11. Sourced'
  BY <1>2, <1>4, <1>5, <1>6 DEF Chained, Sourced
<1> QED
  BY <1>2, <1>7, <1>8, <1>10, <1>11 DEF Chained, Recorded

LEMMA IngestFileChains ==
    ASSUME IInv, Chained, NEW t \in Thread, IngestFile(t)
    PROVE  Chained'
<1> DEFINE step == Head(todo[t])
           n == Len(Units[step.file])
           a == Len(artifacts)
           s0 == sources + 1
           row == [source |-> s0, imported |-> TRUE]
           new == [k \in 1..n |-> row]
           E == {<<Source(s0), "imported_as", Artifact(a + k)>> : k \in 1..n}
<1>1. /\ sources' = s0 /\ artifacts' = artifacts \o new
      /\ edges' = edges \cup E /\ UNCHANGED <<commits, claims>>
  BY DEF IngestFile
<1>2. n \in Nat /\ artifacts \in Seq([source : Nat, imported : BOOLEAN]) /\ sources \in Nat
  <2>1. /\ todo[t] # <<>> /\ step.do = "ingest" /\ Queue(todo[t], artifacts, commits)
    BY DEF IInv, Queues, IngestFile, NextStep
  <2>2. step.file \in File
    BY <2>1, QueueTail DEF Step
  <2>3. Units[step.file] \in Seq([claims : Seq(Text), stored : SUBSET Text])
    BY <2>2, IngestionAssumption
  <2> QED
    BY <2>3, LenProperties DEF IInv, Tables
<1>3. a \in Nat /\ DOMAIN artifacts = 1..a
  BY <1>2, LenProperties
<1>4. /\ DOMAIN artifacts' = 1..a + n
      /\ \A k \in 1..a : artifacts'[k] = artifacts[k]
      /\ \A k \in 1..n : artifacts'[a + k] = row
  <2>1. Table(artifacts)
    <3>1. artifacts \in [1..a -> {artifacts[k] : k \in DOMAIN artifacts}]
      BY <1>2, <1>3, LenProperties
    <3> QED
      BY <1>3, <3>1, SeqDef DEF Table
  <2> DEFINE D == {row}
  <2>2. new \in [1..n -> D] /\ \A k \in 1..n : new[k] = row
    OBVIOUS
  <2> HIDE DEF n, new, row, D
  <2>3. Table(artifacts \o new) /\ DOMAIN (artifacts \o new) = 1..Len(artifacts) + n
    BY <1>2, <2>1, <2>2, TableJoin
  <2>4. /\ \A k \in DOMAIN artifacts : (artifacts \o new)[k] = artifacts[k]
        /\ \A k \in 1..n : (artifacts \o new)[Len(artifacts) + k] = new[k]
    BY <1>2, <2>1, <2>2, TableJoin
  <2> QED
    BY <1>1, <1>3, <2>2, <2>3, <2>4
<1>5. /\ \A k \in 1..n : a + k \in DOMAIN artifacts' /\ a + k \notin DOMAIN artifacts
      /\ \A b \in DOMAIN artifacts' : b \in DOMAIN artifacts \/ \E k \in 1..n : b = a + k
      /\ DOMAIN artifacts \subseteq DOMAIN artifacts'
  <2>1. \A b \in 1..a + n : b \in 1..a \/ (b - a \in 1..n /\ b = a + (b - a))
    BY <1>2, <1>3
  <2>2. \A k \in 1..n : a + k \in 1..a + n /\ a + k \notin 1..a
    BY <1>2, <1>3
  <2>3. 1..a \subseteq 1..a + n
    BY <1>2, <1>3
  <2> HIDE DEF n, a
  <2> QED
    BY <1>3, <1>4, <2>1, <2>2, <2>3
<1>6. row.source = s0 /\ row.imported = TRUE
  OBVIOUS
<1> HIDE DEF n, a, row, new, s0
<1>7. Imports' = Imports \cup E
  <2>1. Imports' = {<<Source(artifacts'[b].source), "imported_as", Artifact(b)>> :
                        b \in {b \in DOMAIN artifacts' : artifacts'[b].imported}}
    BY DEF Imports, Source, Artifact
  <2>2. \A b \in DOMAIN artifacts : artifacts'[b] = artifacts[b]
    BY <1>3, <1>4
  <2>3. \A k \in 1..n : artifacts'[a + k].source = s0 /\ artifacts'[a + k].imported = TRUE
    BY <1>4, <1>6
  <2>4. Imports \cup E \subseteq Imports'
    BY <1>5, <2>1, <2>2, <2>3 DEF Imports
  <2>5. Imports' \subseteq Imports \cup E
    BY <1>5, <2>1, <2>2, <2>3 DEF Imports
  <2> QED
    BY <2>4, <2>5
<1>8. Versions' = Versions
  BY <1>1 DEF Versions, Artifact, Version
<1>9. \A c \in DOMAIN commits : SourceOf(c)' = SourceOf(c)
  <2>1. TAKE c \in DOMAIN commits
  <2>2. commits[c].artifact \in DOMAIN artifacts
    BY DEF IInv, Tables
  <2> QED
    BY <1>1, <1>3, <1>4, <2>2 DEF SourceOf
<1>10. Statements' = Statements
  <2>1. Statements' = UNION {ClaimEdges(k.commit, {k}, SourceOf(k.commit)') : k \in claims}
    BY <1>1 DEF Statements, ClaimEdges, Stating, Claim, Source
  <2>2. \A k \in claims : k.commit \in DOMAIN commits
    BY DEF IInv, Tables
  <2> QED
    BY <1>9, <2>1, <2>2 DEF Statements
<1>11. Sourced'
  <2>1. s0 \in Nat /\ s0 # 0 /\ sources' = s0 /\ 0..sources \subseteq 0..s0 /\ s0 \in 0..s0
    BY <1>1, <1>2 DEF s0
  <2>2. ASSUME NEW b \in DOMAIN artifacts'
        PROVE  artifacts'[b].source \in 0..sources' /\ (artifacts'[b].imported => artifacts'[b].source # 0)
    <3>1. CASE b \in DOMAIN artifacts
      BY <1>3, <1>4, <2>1, <3>1 DEF Chained, Sourced
    <3>2. CASE b \notin DOMAIN artifacts
      <4>1. artifacts'[b] = row
        BY <1>4, <1>5, <3>2
      <4> QED
        BY <1>6, <2>1, <4>1
    <3> QED
      BY <3>1, <3>2
  <2> QED
    BY <2>2 DEF Sourced
<1>12. IsFiniteSet(edges')
  <2> DEFINE f == [k \in 1..n |-> <<Source(s0), "imported_as", Artifact(a + k)>>]
  <2>1. IsFiniteSet(1..n)
    BY <1>2, FS_Interval
  <2>2. DOMAIN f = 1..n /\ E = {f[k] : k \in 1..n}
    OBVIOUS
  <2> HIDE DEF f, E
  <2>3. IsFiniteSet(E)
    BY <2>1, <2>2, FiniteValues
  <2> QED
    BY <1>1, <2>3, FS_Union DEF Chained
<1> HIDE DEF E
<1>13. Recorded'
  BY <1>1, <1>7, <1>8, <1>10 DEF Chained, Recorded
<1> QED
  BY <1>11, <1>12, <1>13 DEF Chained

LEMMA StepChains ==
    ASSUME IsFiniteSet(Text), IInv, Chained, [Next]_vars
    PROVE  Chained'
<1>1. ASSUME NEW t \in Thread, CommitRoot(t)
      PROVE  Chained'
  <2> DEFINE step == Head(todo[t])
  <2>1. /\ todo[t] # <<>> /\ step.do = "commit" /\ SaveVersion(step.artifact, step.says)
        /\ UNCHANGED <<sources, artifacts>> /\ Queue(todo[t], artifacts, commits)
    BY <1>1 DEF CommitRoot, NextStep, IInv, Queues
  <2>2. step.artifact \in DOMAIN artifacts /\ step.says \in SUBSET Text
    BY <2>1, QueueTail DEF Step, Fits
  <2> HIDE DEF step
  <2> QED
    BY <2>1, <2>2, SaveVersionChains DEF IInv
<1>2. CASE Revise
  BY <1>2, SaveVersionChains DEF Revise, IInv
<1>3. ASSUME NEW t \in Thread,
             \/ IngestRequest(t) \/ UploadRequest(t) \/ SkipFile(t) \/ PutEntry(t) \/ GiveUp(t)
      PROVE  Chained'
  BY <1>3, ChainedStays DEF IngestRequest, UploadRequest, SkipFile, PutEntry, GiveUp
<1>4. CASE MakeFolder \/ DeleteEntry \/ Crash
  BY <1>4, ChainedStays DEF MakeFolder, DeleteEntry, Crash
<1>5. CASE UNCHANGED vars
  BY <1>5, ChainedStays DEF vars
<1> QED
  BY <1>1, <1>2, <1>3, <1>4, <1>5, CreateRequestChains, IngestFileChains, WriteClaimChains
     DEF Next

LEMMA InitChains == Init => Chained
BY FS_EmptySet DEF Init, Chained, Recorded, Sourced, Imports, Versions, Statements

-----------------------------------------------------------------------------
(* The theorems.                                                           *)

LEMMA StutterKeeps == ASSUME IInv, UNCHANGED vars PROVE IInv'
<1>1. UNCHANGED <<sources, artifacts, commits, claims, edges, entries, todo, cut>>
  BY DEF vars
<1>2. Queues' /\ Accounted'
  BY <1>1, QueuesStay DEF Grow
<1>3. Tables' /\ \A c \in DOMAIN commits' : Explained(c)'
  BY <1>1, TablesStay
<1>4. Listed'
  BY <1>1 DEF IInv, Listed
<1> QED
  BY <1>2, <1>3, <1>4 DEF IInv

LEMMA InitHolds == Init => IInv
<1>1. SUFFICES ASSUME Init PROVE IInv
  OBVIOUS
<1>2. Queues
  <2>1. Queue(<<>>, artifacts, commits) /\ Promised(<<>>, Headed(commits)) /\ Orderly(<<>>)
    BY EmptySeq DEF Queue, Promised, Orderly
  <2>2. todo \in [Thread -> Seq(Step)] /\ \A t \in Thread : todo[t] = <<>>
    BY <1>1, EmptySeq DEF Init
  <2> QED
    BY <2>1, <2>2 DEF Queues
<1>3. DOMAIN artifacts = {} /\ DOMAIN commits = {} /\ DOMAIN entries = {}
  BY <1>1 DEF Init
<1>4. Tables
  BY <1>1, <1>3, EmptySeq DEF Init, Tables
<1> QED
  BY <1>2, <1>3, <1>4 DEF IInv, Accounted, Listed

LEMMA StepKeeps == IInv /\ [Next]_vars => IInv'
<1>1. SUFFICES ASSUME IInv, [Next]_vars PROVE IInv'
  OBVIOUS
<1>2. CASE UNCHANGED vars
  BY <1>1, <1>2, StutterKeeps
<1>3. ASSUME NEW t \in Thread,
             \/ IngestRequest(t) \/ UploadRequest(t) \/ CreateRequest(t)
             \/ SkipFile(t) \/ IngestFile(t) \/ CommitRoot(t) \/ WriteClaim(t)
             \/ PutEntry(t) \/ GiveUp(t)
      PROVE  IInv'
  BY <1>1, <1>3, IngestRequestKeeps, UploadRequestKeeps, CreateRequestKeeps, SkipFileKeeps,
     IngestFileKeeps, CommitRootKeeps, WriteClaimKeeps, PutEntryKeeps, GiveUpKeeps
<1>4. CASE Revise \/ MakeFolder \/ DeleteEntry \/ Crash
  BY <1>1, <1>4, ReviseKeeps, TreeKeeps, CrashKeeps
<1> QED
  BY <1>1, <1>2, <1>3, <1>4 DEF Next

LEMMA InvariantHolds == Spec => []IInv
BY InitHolds, StepKeeps, PTL DEF Spec

\* A commit is never visible without the record of what it states, and it states a text
\* once, whatever requests interleave and wherever a crash falls (capture_commit inside
\* store.commit's transaction, provenance/service.py:16).
THEOREM CommitsAlwaysExplained == Spec => []CommitsAreExplained
<1>1. IInv => CommitsAreExplained
  BY OneRowEach DEF IInv, CommitsAreExplained, Explained
<1> QED
  BY <1>1, InvariantHolds, PTL

\* Every artifact has a commit, or a request has it to do, or a crash ended that request;
\* and the legacy tree lists only artifacts with a commit (commit_roots,
\* ingestion/pipeline.py; upload_repository_files, api/main.py).
THEOREM UnitsAlwaysCommitted == Spec => []EveryUnitIsCommitted
<1>1. ASSUME IInv
      PROVE  EveryUnitIsCommitted
  <2>1. ASSUME NEW t \in Thread
        PROVE  Pending(todo[t]) = ToCommit(t)
    BY <1>1, LenProperties DEF IInv, Queues, Pending, ToCommit
  <2>2. \A a : HasHead(a) <=> a \in Headed(commits)
    BY DEF HasHead, Headed
  <2> QED
    BY <1>1, <2>1, <2>2 DEF IInv, Accounted, Listed, EveryUnitIsCommitted
<1> QED
  BY <1>1, InvariantHolds, PTL

\* "Where did this claim come from?" (provenance/service.py:5) is answered exactly: the walk
\* of get_claim reaches the commit that states the claim, the imported artifact and the one
\* source it was read in, and no other source, however many requests wrote the graph and
\* wherever one of them stopped.  A document holds finitely many claims.
THEOREM ChainsAlwaysEndAtTheirSource ==
    ASSUME IsFiniteSet(Text)
    PROVE  Spec => []ChainsEndAtTheirSource
<1>1. IInv /\ Chained /\ [Next]_vars => Chained'
  BY StepChains
<1>2. IInv /\ Chained => ChainsEndAtTheirSource
  BY ChainsEnd
<1> QED
  BY <1>1, <1>2, InitChains, InvariantHolds, PTL DEF Spec
==============================================================================
