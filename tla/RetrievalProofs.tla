--------------------------- MODULE RetrievalProofs ---------------------------
(***************************************************************************)
(* The properties of Retrieval that a search relies on, for any branches,  *)
(* contents, handlers and bounds: citations are exact, a delta made for    *)
(* the rows it finds leaves its commit's chunks, the index and the walk of *)
(* a historical search agree, and a rebuild that nothing disturbs is       *)
(* complete.                                                               *)
(***************************************************************************)
EXTENDS Retrieval, TableLemmas

\* NULL is neither a transaction nor a delta.
NullIsApart ==
    /\ \A by, old : [by |-> by, rows |-> old] # None
    /\ \A drop, put, old : [drop |-> drop, put |-> put, against |-> old] # None

-----------------------------------------------------------------------------
(* The inductive invariant: what the tables and the requests hold.         *)

\* The rows without the transaction in progress.
Committed == IF open = None THEN rows ELSE open.rows

Job == [branch : Branch, commit : Commit]

\* What has been in the history of a branch whose heads have been these.
Held(table, tops) == UNION {Ancestors(table, h) : h \in tops}

Types ==
    /\ Dag(commits) /\ \A n \in Commit : commits[n].content \in Content
    /\ heads \in [Branch -> Commit \cup {0}]
    /\ past \in [Branch -> SUBSET Commit]
    /\ \A b \in Branch : IF heads[b] = 0 THEN past[b] = {} ELSE heads[b] \in past[b]
    /\ rows = [b \in Branch |-> rows[b]]
    /\ jobs \in [Indexer -> Seq(Job)]
    /\ plan = [w \in Indexer |-> plan[w]]
    /\ open # None => open.by \in Indexer /\ open.rows = [b \in Branch |-> open.rows[b]]
    /\ left \subseteq {b \in Branch : heads[b] # 0}
    /\ index \in [Branch -> [tip : Commit \cup {0}, straight : BOOLEAN]]

\* A plan is the delta of the request's next commit.
Planned ==
    \A w \in Indexer : plan[w] # None =>
        /\ jobs[w] # <<>>
        /\ plan[w] = Delta(plan[w].against, Chunks(Head(jobs[w]).commit))

\* Half a delta is written: its deletions.
Writing ==
    open # None =>
        /\ plan[open.by] # None
        /\ rows = [open.rows EXCEPT ![Head(jobs[open.by]).branch] = Kept(@, plan[open.by].drop)]

\* What is still to be indexed has been in the history of its branch.
Known ==
    \A w \in Indexer : \A k \in DOMAIN jobs[w] :
        jobs[w][k].commit \in Held(commits, past[jobs[w][k].branch])

Shape == Types /\ Planned /\ Writing

-----------------------------------------------------------------------------
(* The steps.                                                              *)

LEMMA CommitFacts ==
    ASSUME Types
    PROVE  /\ Len(commits) \in Nat /\ Commit = 1..Len(commits) /\ 0 \notin Commit
           /\ \A n \in Commit : Chunks(n) = ChunksOf[commits[n].content]
BY DagFacts DEF Types, Commit, Chunks

LEMMA JobFacts ==
    ASSUME Types, NEW w \in Indexer, jobs[w] # <<>>
    PROVE  /\ Head(jobs[w]) = jobs[w][1] /\ 1 \in DOMAIN jobs[w]
           /\ Head(jobs[w]).branch \in Branch /\ Head(jobs[w]).commit \in Commit
           /\ Tail(jobs[w]) \in Seq(Job) /\ Len(jobs[w]) \in Nat \ {0}
           /\ DOMAIN jobs[w] = 1..Len(jobs[w])
           /\ DOMAIN Tail(jobs[w]) = 1..Len(jobs[w]) - 1
           /\ \A k \in DOMAIN Tail(jobs[w]) :
                 k + 1 \in DOMAIN jobs[w] /\ Tail(jobs[w])[k] = jobs[w][k + 1]
           /\ Len(Tail(jobs[w])) = Len(jobs[w]) - 1
           /\ Tail(jobs[w]) = <<>> <=> Len(jobs[w]) = 1
<1> DEFINE j == jobs[w]
           t == Tail(j)
<1>1. j \in Seq(Job)
  BY DEF Types
<1>2. /\ Len(j) \in Nat \ {0} /\ DOMAIN j = 1..Len(j) /\ t \in Seq(Job) /\ Len(t) = Len(j) - 1
      /\ \A i \in 1..Len(t) : t[i] = j[i + 1]
  <2> HIDE DEF j
  <2> QED
    BY <1>1, HeadTailProperties, EmptySeq, LenProperties DEF j
<1>3. Head(j) = j[1]
  OBVIOUS
<1>4. DOMAIN t = 1..Len(t)
  <2> HIDE DEF t
  <2> QED
    BY <1>2, LenProperties
<1> HIDE DEF t, j
<1>5. 1 \in DOMAIN j
  BY <1>2
<1>6. j[1] \in Job
  BY <1>1, <1>2, <1>5, ElementOfSeq
<1>7. \A k \in DOMAIN t : k + 1 \in DOMAIN j /\ t[k] = j[k + 1]
  BY <1>2, <1>4
<1>8. j[1].branch \in Branch /\ j[1].commit \in Commit
  BY <1>6 DEF Job
<1>9. t = <<>> <=> Len(j) = 1
  BY <1>2, EmptySeq
<1> QED
  BY <1>2, <1>3, <1>4, <1>5, <1>7, <1>8, <1>9 DEF j, t

LEMMA ParentFacts ==
    ASSUME Types, NEW b \in Branch, NEW parents \in ParentLists(b)
    PROVE  /\ Table(parents) /\ Len(parents) <= 2 /\ ToSet(parents) \subseteq Commit
<1>1. CASE parents = <<>>
  <2>1. Table(parents) /\ Len(parents) = 0 /\ ToSet(parents) = {}
    BY <1>1, ShortTables
  <2> QED
    BY <2>1
<1>2. ASSUME NEW h \in Commit, parents = <<h>>
      PROVE  Table(parents) /\ Len(parents) <= 2 /\ ToSet(parents) \subseteq Commit
  <2>1. Table(parents) /\ Len(parents) = 1 /\ ToSet(parents) = {h}
    BY <1>2, ShortTables
  <2> QED
    BY <2>1
<1>3. ASSUME NEW h \in Commit, NEW k \in Commit, parents = <<h, k>>
      PROVE  Table(parents) /\ Len(parents) <= 2 /\ ToSet(parents) \subseteq Commit
  <2>1. Table(parents) /\ Len(parents) = 2 /\ ToSet(parents) = {h, k}
    BY <1>3, ShortTables
  <2> QED
    BY <2>1
<1>4. \/ parents = <<>>
      \/ \E h \in past[b] : parents = <<h>>
      \/ heads[b] # 0 /\ \E d \in Branch : \E h \in past[d] :
                            parents \in {<<heads[b], h>>, <<h, heads[b]>>}
  BY DEF ParentLists
<1>5. /\ \A d \in Branch : past[d] \subseteq Commit
      /\ heads[b] # 0 => heads[b] \in Commit
  BY DEF Types
<1>6. CASE \E h \in past[b] : parents = <<h>>
  BY <1>2, <1>5, <1>6
<1>7. CASE heads[b] # 0 /\ \E d \in Branch : \E h \in past[d] :
                            parents \in {<<heads[b], h>>, <<h, heads[b]>>}
  <2>1. PICK d \in Branch : \E h \in past[d] : parents \in {<<heads[b], h>>, <<h, heads[b]>>}
    BY <1>7
  <2>2. PICK h \in past[d] : parents = <<heads[b], h>> \/ parents = <<h, heads[b]>>
    BY <2>1
  <2>3. h \in Commit /\ heads[b] \in Commit
    BY <1>5, <1>7, <2>2
  <2> QED
    BY <1>3, <2>2, <2>3
<1> QED
  BY <1>1, <1>4, <1>6, <1>7

\* A commit goes to the end of the table and to the head of its branch.
LEMMA SaveFacts ==
    ASSUME Types, NEW b \in Branch, NEW c \in Content, NEW parents \in ParentLists(b),
           Save(c, parents, b)
    PROVE  LET new == Len(commits) + 1 IN
           /\ open = None /\ fresh' = FALSE
           /\ Dag(commits)' /\ new \notin Commit /\ new # 0
           /\ Commit' = Commit \cup {new}
           /\ commits'[new] = [content |-> c, parents |-> parents]
           /\ \A n \in Commit : /\ commits'[n] = commits[n] /\ Chunks(n)' = Chunks(n)
                                /\ Ancestors(commits', n) = Ancestors(commits, n)
           /\ \A n \in Commit' : commits'[n].content \in Content
           /\ heads' = [heads EXCEPT ![b] = new]
           /\ past' = [past EXCEPT ![b] = @ \cup {new}]
<1> DEFINE new == Len(commits) + 1
           row == [content |-> c, parents |-> parents]
           grown == Append(commits, row)
<1>1. Table(parents) /\ Len(parents) <= 2 /\ ToSet(parents) \subseteq Commit
  BY ParentFacts
<1>2. row.parents = parents /\ row.content = c
  OBVIOUS
<1>3. /\ commits' = grown /\ open = None /\ fresh' = FALSE
      /\ heads' = [heads EXCEPT ![b] = new] /\ past' = [past EXCEPT ![b] = @ \cup {new}]
  BY DEF Save
<1>4. Len(commits) \in Nat
  BY CommitFacts
<1> HIDE DEF row
<1>5. /\ Dag(grown) /\ new \notin DOMAIN commits
      /\ DOMAIN grown = DOMAIN commits \cup {new} /\ grown[new] = row
      /\ \A n \in DOMAIN commits : grown[n] = commits[n] /\ Ancestors(grown, n) = Ancestors(commits, n)
  BY <1>1, <1>2, DagAppend DEF Types, Commit
<1> HIDE DEF grown, new
<1>6. /\ Commit' = Commit \cup {new} /\ new \notin Commit /\ commits'[new] = row
      /\ \A n \in Commit : commits'[n] = commits[n] /\ Ancestors(commits', n) = Ancestors(commits, n)
  BY <1>3, <1>5 DEF Commit
<1>7. \A n \in Commit : Chunks(n)' = Chunks(n)
  BY <1>2, <1>6 DEF Chunks
<1>8. \A n \in Commit' : commits'[n].content \in Content
  BY <1>2, <1>6 DEF Types
<1>9. new # 0
  BY <1>4 DEF new
<1> QED
  BY <1>3, <1>5, <1>6, <1>7, <1>8, <1>9 DEF new, row

\* A branch has had the heads it had, and its new one.
LEMMA PastTypes ==
    ASSUME Types, NEW b \in Branch, NEW new, new # 0,
           Commit \subseteq Commit', new \in Commit',
           heads' = [heads EXCEPT ![b] = new], past' = [past EXCEPT ![b] = @ \cup {new}]
    PROVE  /\ heads' \in [Branch -> Commit' \cup {0}] /\ past' \in [Branch -> SUBSET Commit']
           /\ \A d \in Branch : IF heads'[d] = 0 THEN past'[d] = {} ELSE heads'[d] \in past'[d]
           /\ left \subseteq {d \in Branch : heads'[d] # 0}
<1>1. /\ heads'[b] = new /\ past'[b] = past[b] \cup {new}
      /\ \A d \in Branch \ {b} : heads'[d] = heads[d] /\ past'[d] = past[d]
  BY DEF Types
<1>2. past' \in [Branch -> SUBSET Commit']
  <2>1. \A d \in Branch : past'[d] \in SUBSET Commit'
    BY <1>1 DEF Types
  <2>2. past' = [d \in Branch |-> past'[d]]
    BY DEF Types
  <2> QED
    BY <2>1, <2>2
<1>3. heads' \in [Branch -> Commit' \cup {0}]
  BY DEF Types
<1> QED
  BY <1>1, <1>2, <1>3 DEF Types

\* Plans stand while the commits and the job they were made for do.
LEMMA PlansStand ==
    ASSUME Shape, Commit \subseteq Commit', \A n \in Commit : Chunks(n)' = Chunks(n),
           \A w \in Indexer : plan'[w] # None => plan'[w] = plan[w] /\ jobs'[w] = jobs[w]
    PROVE  Planned'
<1>1. ASSUME NEW w \in Indexer, plan'[w] # None
      PROVE  /\ jobs'[w] # <<>>
             /\ \E n : n = Head(jobs'[w]).commit /\ plan'[w] = Delta(plan'[w].against, Chunks(n)')
  <2>1. plan[w] # None /\ plan'[w] = plan[w] /\ jobs'[w] = jobs[w]
    BY <1>1
  <2>2. /\ jobs[w] # <<>>
        /\ plan[w] = Delta(plan[w].against, Chunks(Head(jobs[w]).commit))
    BY <2>1 DEF Shape, Planned
  <2>3. Head(jobs[w]).commit \in Commit
    BY <2>2, JobFacts DEF Shape
  <2>4. PICK n \in Commit : n = Head(jobs[w]).commit
    BY <2>3
  <2>5. Chunks(n)' = Chunks(n)
    OBVIOUS
  <2>6. plan'[w] = Delta(plan'[w].against, Chunks(n)')
    BY <2>1, <2>2, <2>4, <2>5
  <2> QED
    BY <2>1, <2>2, <2>4, <2>6
<1> QED
  BY <1>1 DEF Planned, Chunks

\* Of no use any more: the jobs that are over.
LEMMA NoJobNoPlan ==
    ASSUME Shape, NEW w \in Indexer, jobs[w] = <<>>
    PROVE  plan[w] = None /\ (open # None => open.by # w)
BY DEF Shape, Planned, Writing, Types

LEMMA SaveThenIndexShape ==
    ASSUME Shape, NEW w \in Worker, SaveThenIndex(w) PROVE Shape'
<1>1. PICK b \in Branch, c \in Content : \E parents \in ParentLists(b) :
        /\ Save(c, parents, b)
        /\ jobs' = [jobs EXCEPT ![w] = <<[branch |-> b, commit |-> Len(commits) + 1]>>]
  BY DEF SaveThenIndex
<1>2. PICK parents \in ParentLists(b) :
        /\ Save(c, parents, b)
        /\ jobs' = [jobs EXCEPT ![w] = <<[branch |-> b, commit |-> Len(commits) + 1]>>]
  BY <1>1
<1>3. PICK new : new = Len(commits) + 1
  OBVIOUS
<1>4. /\ open = None /\ Dag(commits)' /\ Commit' = Commit \cup {new}
      /\ \A n \in Commit : Chunks(n)' = Chunks(n)
      /\ \A n \in Commit' : commits'[n].content \in Content
      /\ heads' = [heads EXCEPT ![b] = new] /\ past' = [past EXCEPT ![b] = @ \cup {new}]
      /\ new # 0
  BY <1>2, <1>3, SaveFacts DEF Shape
<1>5. jobs[w] = <<>> /\ w \in Indexer /\ UNCHANGED <<rows, open, plan, left, rebuilds, index>>
  BY DEF SaveThenIndex, Indexer, MayIndex
<1>6. Types'
  <2>1. jobs' \in [Indexer -> Seq(Job')]
    <3>1. Job \subseteq Job' /\ [branch |-> b, commit |-> new] \in Job'
      BY <1>4 DEF Job
    <3>2. \A j \in Seq(Job) : j \in Seq(Job')
      BY <3>1, SeqMonotonic
    <3>3. <<[branch |-> b, commit |-> new]>> \in Seq(Job')
      BY <3>1
    <3> QED
      BY <1>2, <1>3, <3>2, <3>3 DEF Shape, Types
  <2>2. /\ heads' \in [Branch -> Commit' \cup {0}] /\ past' \in [Branch -> SUBSET Commit']
        /\ \A d \in Branch : IF heads'[d] = 0 THEN past'[d] = {} ELSE heads'[d] \in past'[d]
        /\ left \subseteq {d \in Branch : heads'[d] # 0}
    BY <1>4, PastTypes DEF Shape
  <2>4. index \in [Branch -> [tip : Commit' \cup {0}, straight : BOOLEAN]]
    BY <1>4 DEF Shape, Types
  <2> QED
    BY <1>4, <1>5, <2>1, <2>2, <2>4 DEF Shape, Types
<1>7. Planned'
  <2>1. plan[w] = None
    BY <1>5, NoJobNoPlan
  <2>2. \A v \in Indexer \ {w} : jobs'[v] = jobs[v]
    BY <1>2 DEF Shape, Types
  <2> QED
    BY <1>4, <1>5, <2>1, <2>2, PlansStand
<1>8. Writing'
  BY <1>4, <1>5 DEF Writing
<1> QED
  BY <1>6, <1>7, <1>8 DEF Shape

LEMMA SaveAndIndexShape ==
    ASSUME Shape, NEW w \in Worker, SaveAndIndex(w) PROVE Shape'
<1>1. PICK b \in Branch, c \in Content : \E parents \in ParentLists(b) :
        LET delta == Delta(rows[b], ChunksOf[c]) new == Len(commits) + 1 IN
        /\ Save(c, parents, b)
        /\ rows' = [rows EXCEPT ![b] =
                       Written(Kept(@, delta.drop), delta.put, ChunksOf[c], new)]
        /\ index' = [index EXCEPT ![b] = Indexed(@, new, parents, TRUE)]
  BY DEF SaveAndIndex
<1>2. PICK new : new = Len(commits) + 1
  OBVIOUS
<1>3. PICK parents \in ParentLists(b) :
        /\ Save(c, parents, b)
        /\ \E row : rows' = [rows EXCEPT ![b] = row]
        /\ index' = [index EXCEPT ![b] = Indexed(@, new, parents, TRUE)]
  BY <1>1, <1>2
<1>4. /\ open = None /\ Dag(commits)' /\ Commit' = Commit \cup {new}
      /\ \A n \in Commit : Chunks(n)' = Chunks(n)
      /\ \A n \in Commit' : commits'[n].content \in Content
      /\ heads' = [heads EXCEPT ![b] = new] /\ past' = [past EXCEPT ![b] = @ \cup {new}]
      /\ new # 0
  BY <1>2, <1>3, SaveFacts DEF Shape
<1>5. UNCHANGED <<open, jobs, plan, left, rebuilds>>
  BY DEF SaveAndIndex
<1>6. Types'
  <2>1. jobs' \in [Indexer -> Seq(Job')]
    <3>1. Job \subseteq Job'
      BY <1>4 DEF Job
    <3>2. \A j \in Seq(Job) : j \in Seq(Job')
      BY <3>1, SeqMonotonic
    <3> QED
      BY <1>5, <3>2 DEF Shape, Types
  <2>2. /\ heads' \in [Branch -> Commit' \cup {0}] /\ past' \in [Branch -> SUBSET Commit']
        /\ \A d \in Branch : IF heads'[d] = 0 THEN past'[d] = {} ELSE heads'[d] \in past'[d]
        /\ left \subseteq {d \in Branch : heads'[d] # 0}
    BY <1>4, PastTypes DEF Shape
  <2>4. index' \in [Branch -> [tip : Commit' \cup {0}, straight : BOOLEAN]]
    <3>1. \A old : Indexed(old, new, parents, TRUE) \in [tip : Commit' \cup {0}, straight : BOOLEAN]
      BY <1>4 DEF Indexed
    <3>2. index \in [Branch -> [tip : Commit' \cup {0}, straight : BOOLEAN]]
      BY <1>4 DEF Shape, Types
    <3> QED
      BY <1>3, <3>1, <3>2
  <2>5. rows' = [d \in Branch |-> rows'[d]]
    BY <1>3 DEF Shape, Types
  <2> QED
    BY <1>4, <1>5, <2>1, <2>2, <2>4, <2>5 DEF Shape, Types
<1>7. Planned'
  BY <1>4, <1>5, PlansStand
<1>8. Writing'
  BY <1>4, <1>5 DEF Writing
<1> QED
  BY <1>6, <1>7, <1>8 DEF Shape

\* The steps that leave the commits alone.
LEMMA SameCommits ==
    ASSUME commits' = commits
    PROVE  /\ Commit' = Commit /\ Job' = Job /\ \A n : Chunks(n)' = Chunks(n)
           /\ Dag(commits)' = Dag(commits)
BY DEF Commit, Job, Chunks

LEMMA ForkShape == ASSUME Shape, Fork PROVE Shape'
<1>1. PICK b \in Branch, c \in Commit :
        /\ heads[b] = 0 /\ heads' = [heads EXCEPT ![b] = c]
        /\ past' = [past EXCEPT ![b] = @ \cup {c}]
  BY DEF Fork
<1>2. open = None /\ UNCHANGED <<commits, rows, open, jobs, plan, left, rebuilds, index>>
  BY DEF Fork
<1>3. Commit' = Commit /\ Job' = Job /\ \A n : Chunks(n)' = Chunks(n)
  BY <1>2, SameCommits
<1>4. /\ heads' \in [Branch -> Commit' \cup {0}] /\ past' \in [Branch -> SUBSET Commit']
      /\ \A d \in Branch : IF heads'[d] = 0 THEN past'[d] = {} ELSE heads'[d] \in past'[d]
      /\ left \subseteq {d \in Branch : heads'[d] # 0}
  <2>1. c # 0
    BY CommitFacts DEF Shape
  <2> QED
    BY <1>1, <1>3, <2>1, PastTypes DEF Shape
<1>5. Types'
  BY <1>2, <1>3, <1>4 DEF Shape, Types
<1>6. Planned'
  BY <1>2, <1>3, PlansStand
<1>7. Writing'
  BY <1>2 DEF Writing
<1> QED
  BY <1>5, <1>6, <1>7 DEF Shape

LEMMA PlanShape == ASSUME NullIsApart, Shape, NEW w \in Indexer, Plan(w) PROVE Shape'
<1>1. PICK old : plan' = [plan EXCEPT ![w] = Delta(old, Chunks(Head(jobs[w]).commit))]
  BY DEF Plan
<1>2. /\ jobs[w] # <<>> /\ plan[w] = None
      /\ UNCHANGED <<commits, heads, past, rows, open, jobs, left, fresh, rebuilds, index>>
  BY DEF Plan
<1>3. Commit' = Commit /\ Job' = Job /\ \A n : Chunks(n)' = Chunks(n)
  BY <1>2, SameCommits
<1>4. Types'
  BY <1>1, <1>2, <1>3 DEF Shape, Types
<1>5. \A v \in Indexer \ {w} : plan'[v] = plan[v]
  BY <1>1 DEF Shape, Types
<1>6. plan'[w] = Delta(old, Chunks(Head(jobs[w]).commit)) /\ plan'[w].against = old
  BY <1>1 DEF Shape, Types, Delta
<1>7. Planned'
  <2>1. ASSUME NEW v \in Indexer, plan'[v] # None
        PROVE  /\ jobs'[v] # <<>>
               /\ plan'[v] = Delta(plan'[v].against, Chunks(Head(jobs[v]).commit))
    BY <1>2, <1>5, <1>6, <2>1 DEF Shape, Planned
  <2> QED
    BY <1>2, <2>1 DEF Planned, Chunks
<1>8. Writing'
  <2>1. open # None => open.by # w /\ open.by \in Indexer
    BY <1>2 DEF Shape, Writing, Types
  <2> QED
    BY <1>2, <1>5, <2>1 DEF Shape, Writing
<1> QED
  BY <1>4, <1>7, <1>8 DEF Shape

LEMMA BeginWriteShape == ASSUME NullIsApart, Shape, NEW w \in Indexer, BeginWrite(w) PROVE Shape'
<1>1. /\ plan[w] # None /\ open = None /\ open' = [by |-> w, rows |-> rows]
      /\ rows' = [rows EXCEPT ![Head(jobs[w]).branch] = Kept(@, plan[w].drop)]
      /\ UNCHANGED <<commits, heads, past, jobs, plan, left, fresh, rebuilds, index>>
  BY DEF BeginWrite
<1>2. Commit' = Commit /\ Job' = Job /\ \A n : Chunks(n)' = Chunks(n)
  BY <1>1, SameCommits
<1>3. open'.by = w /\ open'.rows = rows
  BY <1>1
<1>4. Types'
  <2>1. rows' = [b \in Branch |-> rows'[b]]
    BY <1>1 DEF Shape, Types
  <2> QED
    BY <1>1, <1>2, <1>3, <2>1 DEF Shape, Types
<1>5. Planned'
  BY <1>1, <1>2, PlansStand
<1>6. Writing'
  BY <1>1, <1>3 DEF Writing
<1> QED
  BY <1>4, <1>5, <1>6 DEF Shape

LEMMA EndWriteShape == ASSUME Shape, NEW w \in Indexer, EndWrite(w) PROVE Shape'
<1>1. PICK b, c : b = Head(jobs[w]).branch /\ c = Head(jobs[w]).commit
  OBVIOUS
<1>2. PICK matches \in BOOLEAN :
        index' = [index EXCEPT ![b] = Indexed(@, c, commits[c].parents, matches)]
  <2>1. index' = [index EXCEPT ![b] =
              Indexed(@, c, commits[c].parents, plan[w].against = open.rows[b])]
    BY <1>1 DEF EndWrite
  <2>2. (plan[w].against = open.rows[b]) \in BOOLEAN
    OBVIOUS
  <2> QED
    BY <2>1, <2>2
<1>3. /\ open # None /\ open.by = w /\ open' = None
      /\ jobs' = [jobs EXCEPT ![w] = Tail(@)] /\ plan' = [plan EXCEPT ![w] = None]
      /\ UNCHANGED <<commits, heads, past, left, rebuilds>>
  BY DEF EndWrite
<1>4. Commit' = Commit /\ Job' = Job /\ \A n : Chunks(n)' = Chunks(n)
  BY <1>3, SameCommits
<1>5. jobs[w] # <<>>
  BY <1>3 DEF Shape, Writing, Planned
<1>6. b \in Branch /\ c \in Commit /\ Tail(jobs[w]) \in Seq(Job)
  BY <1>1, <1>5, JobFacts DEF Shape
<1>7. Types'
  <2>1. rows' = [d \in Branch |-> rows'[d]]
    <3>1. PICK row : rows' = [rows EXCEPT ![b] = row]
      BY <1>1 DEF EndWrite
    <3> QED
      BY <3>1 DEF Shape, Types
  <2>2. index' \in [Branch -> [tip : Commit \cup {0}, straight : BOOLEAN]]
    <3>1. \A old \in [tip : Commit \cup {0}, straight : BOOLEAN] :
             Indexed(old, c, commits[c].parents, matches) \in [tip : Commit \cup {0}, straight : BOOLEAN]
      BY <1>6 DEF Indexed
    <3> QED
      BY <1>2, <3>1 DEF Shape, Types
  <2>3. jobs' \in [Indexer -> Seq(Job)]
    BY <1>3, <1>6 DEF Shape, Types
  <2>4. plan' = [v \in Indexer |-> plan'[v]]
    BY <1>3 DEF Shape, Types
  <2> QED
    BY <1>3, <1>4, <2>1, <2>2, <2>3, <2>4 DEF Shape, Types
<1>8. Planned'
  <2>1. plan'[w] = None /\ \A v \in Indexer \ {w} : plan'[v] = plan[v] /\ jobs'[v] = jobs[v]
    BY <1>3 DEF Shape, Types
  <2> QED
    BY <1>4, <2>1, PlansStand
<1>9. Writing'
  BY <1>3 DEF Writing
<1> QED
  BY <1>7, <1>8, <1>9 DEF Shape

\* A transaction that is rolled back leaves the rows as they were before it.
LEMMA RollBackFacts ==
    ASSUME Shape, NEW who \in SUBSET Indexer, RollBack(who)
    PROVE  /\ rows' = [b \in Branch |-> rows'[b]]
           /\ IF open # None /\ open.by \in who THEN open' = None /\ rows' = open.rows
              ELSE UNCHANGED <<open, rows>>
           /\ Committed' = Committed
<1>1. IF open # None /\ open.by \in who THEN open' = None /\ rows' = open.rows
      ELSE UNCHANGED <<open, rows>>
  BY DEF RollBack
<1>2. rows' = [b \in Branch |-> rows'[b]]
  BY <1>1 DEF Shape, Types
<1>3. Committed' = Committed
  BY <1>1 DEF Committed
<1> QED
  BY <1>1, <1>2, <1>3

LEMMA FailShape == ASSUME Shape, NEW w \in Indexer, Fail(w) PROVE Shape'
<1>1. /\ RollBack({w}) /\ jobs' = [jobs EXCEPT ![w] = <<>>] /\ plan' = [plan EXCEPT ![w] = None]
      /\ left' = {} \/ left' = left
      /\ UNCHANGED <<commits, heads, past, rebuilds, index>>
  BY DEF Fail
<1>2. Commit' = Commit /\ Job' = Job /\ \A n : Chunks(n)' = Chunks(n)
  BY <1>1, SameCommits
<1>3. /\ rows' = [b \in Branch |-> rows'[b]]
      /\ IF open # None /\ open.by \in {w} THEN open' = None /\ rows' = open.rows
         ELSE UNCHANGED <<open, rows>>
  BY <1>1, RollBackFacts
<1>4. Types'
  <2>1. jobs' \in [Indexer -> Seq(Job)] /\ plan' = [v \in Indexer |-> plan'[v]]
    <3>1. <<>> \in Seq(Job)
      BY EmptySeq
    <3> QED
      BY <1>1, <3>1 DEF Shape, Types
  <2>2. open' # None => open'.by \in Indexer /\ open'.rows = [b \in Branch |-> open'.rows[b]]
    BY <1>3 DEF Shape, Types
  <2> QED
    BY <1>1, <1>2, <1>3, <2>1, <2>2 DEF Shape, Types
<1>5. plan'[w] = None /\ \A v \in Indexer \ {w} : plan'[v] = plan[v] /\ jobs'[v] = jobs[v]
  BY <1>1 DEF Shape, Types
<1>6. Planned'
  BY <1>2, <1>5, PlansStand
<1>7. Writing'
  <2>1. CASE open' = None
    BY <2>1 DEF Writing
  <2>2. CASE open' # None
    <3>1. open # None /\ open.by \in Indexer \ {w} /\ UNCHANGED <<open, rows>>
      BY <1>3, <2>2 DEF Shape, Types
    <3> QED
      BY <1>5, <3>1 DEF Shape, Writing
  <2> QED
    BY <2>1, <2>2
<1> QED
  BY <1>4, <1>6, <1>7 DEF Shape

LEMMA CrashShape == ASSUME Shape, Crash PROVE Shape'
<1>1. /\ RollBack(Worker)
      /\ jobs' = [w \in Indexer |-> IF w = Script THEN jobs[w] ELSE <<>>]
      /\ plan' = [w \in Indexer |-> IF w = Script THEN plan[w] ELSE None]
      /\ UNCHANGED <<commits, heads, past, left, fresh, rebuilds, index>>
  BY DEF Crash
<1>2. Commit' = Commit /\ Job' = Job /\ \A n : Chunks(n)' = Chunks(n)
  BY <1>1, SameCommits
<1>3. /\ rows' = [b \in Branch |-> rows'[b]]
      /\ IF open # None /\ open.by \in Worker THEN open' = None /\ rows' = open.rows
         ELSE UNCHANGED <<open, rows>>
  BY <1>1, RollBackFacts DEF Indexer
<1>4. \A w \in Indexer : plan'[w] # None => w = Script /\ plan'[w] = plan[w] /\ jobs'[w] = jobs[w]
  BY <1>1
<1>5. Types'
  <2>1. jobs' \in [Indexer -> Seq(Job)] /\ plan' = [v \in Indexer |-> plan'[v]]
    <3>1. <<>> \in Seq(Job)
      BY EmptySeq
    <3> QED
      BY <1>1, <3>1 DEF Shape, Types
  <2>2. open' # None => open'.by \in Indexer /\ open'.rows = [b \in Branch |-> open'.rows[b]]
    BY <1>3 DEF Shape, Types
  <2> QED
    BY <1>1, <1>2, <1>3, <2>1, <2>2 DEF Shape, Types
<1>6. Planned'
  BY <1>2, <1>4, PlansStand
<1>7. Writing'
  <2>1. CASE open' = None
    BY <2>1 DEF Writing
  <2>2. CASE open' # None
    <3>1. open # None /\ open.by = Script /\ Script \in Indexer /\ UNCHANGED <<open, rows>>
      BY <1>3, <2>2 DEF Shape, Types, Indexer
    <3>2. plan'[Script] = plan[Script] /\ jobs'[Script] = jobs[Script]
      BY <1>1, <3>1
    <3> QED
      BY <3>1, <3>2 DEF Shape, Writing
  <2> QED
    BY <2>1, <2>2
<1> QED
  BY <1>5, <1>6, <1>7 DEF Shape

LEMMA RebuildShape == ASSUME Shape, Rebuild PROVE Shape'
<1>1. /\ rows' = [b \in Branch |-> NoRows] /\ index' = [b \in Branch |-> Nothing]
      /\ left' = {b \in Branch : heads[b] # 0} /\ open = None
      /\ UNCHANGED <<commits, heads, past, open, jobs, plan>>
  BY DEF Rebuild
<1>2. Commit' = Commit /\ Job' = Job /\ \A n : Chunks(n)' = Chunks(n)
  BY <1>1, SameCommits
<1>3. index' \in [Branch -> [tip : Commit \cup {0}, straight : BOOLEAN]]
  BY <1>1 DEF Nothing
<1>4. Types'
  BY <1>1, <1>2, <1>3 DEF Shape, Types
<1>5. Planned'
  BY <1>1, <1>2, PlansStand
<1>6. Writing'
  BY <1>1 DEF Writing
<1> QED
  BY <1>4, <1>5, <1>6 DEF Shape

\* What a rebuild replays of a branch: its ancestors, the head last.
LEMMA ReplayFacts ==
    ASSUME Types, NEW b \in Branch, heads[b] # 0
    PROVE  LET j == Replay(b, Reverse(History(commits, heads[b]))) IN
           /\ j \in Seq(Job) /\ j # <<>>
           /\ \A k \in DOMAIN j : j[k].branch = b /\ j[k].commit \in Ancestors(commits, heads[b])
           /\ j[Len(j)].commit = heads[b]
<1> DEFINE head == heads[b]
           log == History(commits, head)
           back == Reverse(log)
           j == Replay(b, back)
           A == Ancestors(commits, head)
<1>1. head \in Commit /\ Dag(commits)
  BY DEF Types
<1>2. log[1] = head /\ ToSet(log) = A /\ A \subseteq Commit
  BY <1>1, HistoryOf, AncestorsInTable DEF Commit
<1>3. Len(log) \in Nat \ {0} /\ DOMAIN log = 1..Len(log)
  BY <1>1, HistoryOf DEF Commit
<1> HIDE DEF log, head, A
<1>4. back = [i \in 1..Len(log) |-> log[(Len(log) - i) + 1]]
  BY DEF Reverse
<1>5. ASSUME NEW i \in 1..Len(log) PROVE back[i] \in A
  <2>1. (Len(log) - i) + 1 \in 1..Len(log)
    BY <1>3
  <2> QED
    BY <1>2, <1>3, <1>4, <2>1 DEF ToSet
<1>6. DOMAIN back = 1..Len(log) /\ back[Len(log)] = head
  <2>1. Len(log) \in 1..Len(log) /\ (Len(log) - Len(log)) + 1 = 1
    BY <1>3
  <2> QED
    BY <1>2, <1>4, <2>1
<1> HIDE DEF back
<1>7. j = [k \in 1..Len(log) |-> [branch |-> b, commit |-> back[k]]]
  BY <1>6 DEF Replay
<1>8. \A k \in 1..Len(log) : [branch |-> b, commit |-> back[k]] \in Job
  BY <1>2, <1>5 DEF Job
<1> HIDE DEF j
<1>9. j \in [1..Len(log) -> Job]
  BY <1>7, <1>8
<1>10. j \in Seq(Job) /\ DOMAIN j = 1..Len(log)
  BY <1>3, <1>9, SeqDef
<1>11. Len(j) = Len(log)
  BY <1>3, <1>10, LenProperties
<1>12. j # <<>>
  BY <1>3, <1>11
<1>13. \A k \in DOMAIN j : j[k].branch = b /\ j[k].commit \in A
  BY <1>5, <1>7, <1>10
<1>14. j[Len(j)].commit = head
  BY <1>3, <1>6, <1>7, <1>11
<1> QED
  BY <1>10, <1>12, <1>13, <1>14 DEF j, back, log, head, A

LEMMA FetchBranchShape == ASSUME Shape, NEW b \in Branch, FetchBranch(b) PROVE Shape'
<1>1. /\ jobs[Script] = <<>> /\ b \in left /\ left' = left \ {b}
      /\ UNCHANGED <<commits, heads, past, rows, open, plan, fresh, rebuilds, index>>
  BY DEF FetchBranch, MayIndex
<1>2. PICK j : /\ j = Replay(b, Reverse(History(commits, heads[b])))
               /\ jobs' = [jobs EXCEPT ![Script] = j]
  BY DEF FetchBranch
<1>3. heads[b] # 0
  BY <1>1 DEF Shape, Types
<1>4. j \in Seq(Job)
  BY <1>2, <1>3, ReplayFacts DEF Shape
<1>5. Commit' = Commit /\ Job' = Job /\ \A n : Chunks(n)' = Chunks(n)
  BY <1>1, SameCommits
<1>6. Types'
  <2>1. jobs' \in [Indexer -> Seq(Job)]
    BY <1>2, <1>4 DEF Shape, Types
  <2> QED
    BY <1>1, <1>5, <2>1 DEF Shape, Types
<1>7. plan[Script] = None /\ \A w \in Indexer \ {Script} : jobs'[w] = jobs[w]
  BY <1>1, <1>2, NoJobNoPlan DEF Shape, Types, Indexer
<1>8. Planned'
  BY <1>1, <1>5, <1>7, PlansStand
<1>9. Writing'
  <2>1. open # None => open.by \in Indexer \ {Script}
    BY <1>1, NoJobNoPlan DEF Shape, Types, Indexer
  <2> QED
    BY <1>1, <1>7, <2>1 DEF Shape, Writing
<1> QED
  BY <1>6, <1>8, <1>9 DEF Shape

LEMMA ShapeKeeps == NullIsApart /\ Shape /\ [Next]_vars => Shape'
<1>1. SUFFICES ASSUME NullIsApart, Shape, [Next]_vars PROVE Shape'
  OBVIOUS
<1>2. CASE UNCHANGED vars
  BY <1>1, <1>2 DEF vars, Shape, Types, Planned, Writing, Commit, Job, Chunks
<1>3. ASSUME NEW w \in Indexer, Plan(w) \/ BeginWrite(w) \/ EndWrite(w) \/ Fail(w) PROVE Shape'
  BY <1>1, <1>3, PlanShape, BeginWriteShape, EndWriteShape, FailShape
<1> QED
  BY <1>1, <1>2, <1>3, SaveThenIndexShape, SaveAndIndexShape, ForkShape, CrashShape,
     RebuildShape, FetchBranchShape DEF Next

LEMMA ShapeStarts == Init => Shape
<1>1. SUFFICES ASSUME Init PROVE Shape
  OBVIOUS
<1>2. commits = <<>> /\ Commit = {}
  BY <1>1 DEF Init, Commit
<1>3. Dag(commits)
  BY <1>2, ShortTables DEF Dag, Commit
<1>4. jobs \in [Indexer -> Seq(Job)]
  BY <1>1 DEF Init
<1>5. index \in [Branch -> [tip : Commit \cup {0}, straight : BOOLEAN]]
  BY <1>1 DEF Init, Nothing
<1>6. Types
  BY <1>1, <1>2, <1>3, <1>4, <1>5 DEF Init, Types
<1> QED
  BY <1>1, <1>6 DEF Init, Shape, Planned, Writing

LEMMA ShapeHolds == ASSUME NullIsApart PROVE Spec => []Shape
<1>1. Shape /\ [Next]_vars => Shape'
  BY ShapeKeeps
<1> QED
  BY <1>1, ShapeStarts, PTL DEF Spec

-----------------------------------------------------------------------------
(* What a branch has held only grows, and what is to be indexed is in it.  *)

LEMMA PastGrows ==
    ASSUME NullIsApart, Shape, [Next]_vars
    PROVE  /\ Commit \subseteq Commit'
           /\ \A n \in Commit : commits'[n] = commits[n] /\ Ancestors(commits', n) = Ancestors(commits, n)
           /\ \A b \in Branch : Held(commits, past[b]) \subseteq Held(commits', past'[b])
<1>1. CASE UNCHANGED <<commits, heads, past>>
  BY <1>1, SameCommits
<1>2. ASSUME NEW b \in Branch, NEW c \in Content, NEW parents \in ParentLists(b), Save(c, parents, b)
      PROVE  /\ Commit \subseteq Commit'
             /\ \A n \in Commit : commits'[n] = commits[n] /\ Ancestors(commits', n) = Ancestors(commits, n)
             /\ \A d \in Branch : Held(commits, past[d]) \subseteq Held(commits', past'[d])
  <2>1. PICK new : new = Len(commits) + 1
    OBVIOUS
  <2>2. /\ Commit' = Commit \cup {new}
        /\ \A n \in Commit : commits'[n] = commits[n] /\ Ancestors(commits', n) = Ancestors(commits, n)
        /\ past' = [past EXCEPT ![b] = @ \cup {new}]
    BY <1>2, <2>1, SaveFacts DEF Shape
  <2>3. ASSUME NEW d \in Branch PROVE Held(commits, past[d]) \subseteq Held(commits', past'[d])
    <3>1. past[d] \subseteq Commit /\ past[d] \subseteq past'[d]
      BY <2>2 DEF Shape, Types
    <3> QED
      BY <2>2, <3>1 DEF Held
  <2> QED
    BY <2>2, <2>3
<1>3. ASSUME NEW w \in Worker, SaveThenIndex(w) \/ SaveAndIndex(w)
      PROVE  \E b \in Branch, c \in Content : \E parents \in ParentLists(b) : Save(c, parents, b)
  BY <1>3 DEF SaveThenIndex, SaveAndIndex
<1>4. CASE Fork
  <2>1. PICK b \in Branch, c \in Commit :
          past' = [past EXCEPT ![b] = @ \cup {c}] /\ commits' = commits
    BY <1>4 DEF Fork
  <2>2. \A d \in Branch : past[d] \subseteq past'[d]
    BY <2>1 DEF Shape, Types
  <2> QED
    BY <2>1, <2>2, SameCommits DEF Held
<1> QED
  BY <1>1, <1>2, <1>3, <1>4 DEF Next, vars, Plan, BeginWrite, EndWrite, Fail, Crash, Rebuild, FetchBranch

\* A job of the next state is one of this state's or has been in its branch's history.
JobsFrom ==
    \A w \in Indexer : \A k \in DOMAIN jobs'[w] :
        \/ \E i \in DOMAIN jobs[w] : jobs'[w][k] = jobs[w][i]
        \/ jobs'[w][k].commit \in Held(commits', past'[jobs'[w][k].branch])

LEMMA StepJobs == ASSUME NullIsApart, Shape, [Next]_vars PROVE JobsFrom
<1>1. CASE jobs' = jobs
  BY <1>1 DEF JobsFrom
<1>2. ASSUME NEW w \in Worker, SaveThenIndex(w) PROVE JobsFrom
  <2>1. PICK new : new = Len(commits) + 1
    OBVIOUS
  <2>2. PICK b \in Branch, c \in Content : \E parents \in ParentLists(b) :
          /\ Save(c, parents, b)
          /\ jobs' = [jobs EXCEPT ![w] = <<[branch |-> b, commit |-> new]>>]
    BY <1>2, <2>1 DEF SaveThenIndex
  <2>3. /\ Dag(commits)' /\ new \in Commit' /\ past' = [past EXCEPT ![b] = @ \cup {new}]
        /\ jobs' = [jobs EXCEPT ![w] = <<[branch |-> b, commit |-> new]>>]
    BY <2>1, <2>2, SaveFacts DEF Shape
  <2>4. new \in Held(commits', past'[b])
    BY <2>3, AncestorsSelf DEF Shape, Types, Commit, Held
  <2>5. \A v \in Indexer : v # w => jobs'[v] = jobs[v]
    BY <2>3 DEF Shape, Types
  <2>6. jobs'[w] = <<[branch |-> b, commit |-> new]>>
    BY <2>3 DEF Shape, Types, Indexer
  <2>7. \A k \in DOMAIN jobs'[w] : jobs'[w][k] = [branch |-> b, commit |-> new]
    BY <2>6
  <2> QED
    BY <2>3, <2>4, <2>5, <2>7 DEF JobsFrom
<1>3. ASSUME NEW w \in Indexer, EndWrite(w) PROVE JobsFrom
  <2>1. jobs' = [jobs EXCEPT ![w] = Tail(@)] /\ jobs[w] # <<>>
    BY <1>3 DEF EndWrite, Shape, Writing, Planned
  <2>2. \A k \in DOMAIN Tail(jobs[w]) : k + 1 \in DOMAIN jobs[w] /\ Tail(jobs[w])[k] = jobs[w][k + 1]
    BY <2>1, JobFacts DEF Shape
  <2>3. jobs'[w] = Tail(jobs[w]) /\ \A v \in Indexer : v # w => jobs'[v] = jobs[v]
    BY <2>1 DEF Shape, Types
  <2> QED
    BY <2>2, <2>3 DEF JobsFrom
<1>4. ASSUME NEW w \in Indexer, Fail(w) PROVE JobsFrom
  <2>1. jobs'[w] = <<>> /\ \A v \in Indexer : v # w => jobs'[v] = jobs[v]
    BY <1>4 DEF Fail, Shape, Types
  <2> QED
    BY <2>1 DEF JobsFrom
<1>5. CASE Crash
  <2>1. \A w \in Indexer : jobs'[w] = <<>> \/ jobs'[w] = jobs[w]
    BY <1>5 DEF Crash
  <2> QED
    BY <2>1 DEF JobsFrom
<1>6. ASSUME NEW b \in Branch, FetchBranch(b) PROVE JobsFrom
  <2>1. PICK j : /\ j = Replay(b, Reverse(History(commits, heads[b])))
                 /\ jobs' = [jobs EXCEPT ![Script] = j]
    BY <1>6 DEF FetchBranch
  <2>2. heads[b] # 0 /\ heads[b] \in past[b] /\ UNCHANGED <<commits, heads, past>>
    BY <1>6 DEF FetchBranch, MayIndex, Shape, Types
  <2>3. \A k \in DOMAIN j : j[k].branch = b /\ j[k].commit \in Held(commits, past[b])
    <3>1. \A k \in DOMAIN j : j[k].branch = b /\ j[k].commit \in Ancestors(commits, heads[b])
      BY <2>1, <2>2, ReplayFacts DEF Shape
    <3> QED
      BY <2>2, <3>1 DEF Held
  <2>4. jobs'[Script] = j /\ \A v \in Indexer : v # Script => jobs'[v] = jobs[v]
    BY <2>1 DEF Shape, Types, Indexer
  <2> QED
    BY <2>2, <2>3, <2>4 DEF JobsFrom
<1> QED
  BY <1>1, <1>2, <1>3, <1>4, <1>5, <1>6
     DEF Next, vars, SaveAndIndex, Fork, Plan, BeginWrite, Rebuild

LEMMA KnownKeeps == NullIsApart /\ Shape /\ Known /\ [Next]_vars => Known'
<1>1. SUFFICES ASSUME NullIsApart, Shape, Known, [Next]_vars PROVE Known'
  OBVIOUS
<1>2. JobsFrom
  BY <1>1, StepJobs
<1>3. \A b \in Branch : Held(commits, past[b]) \subseteq Held(commits', past'[b])
  BY <1>1, PastGrows
<1>4. ASSUME NEW w \in Indexer, NEW k \in DOMAIN jobs'[w]
      PROVE  jobs'[w][k].commit \in Held(commits', past'[jobs'[w][k].branch])
  <2>1. CASE \E i \in DOMAIN jobs[w] : jobs'[w][k] = jobs[w][i]
    <3>1. PICK i \in DOMAIN jobs[w] : jobs'[w][k] = jobs[w][i]
      BY <2>1
    <3>2. jobs[w] \in Seq(Job)
      BY <1>1 DEF Shape, Types
    <3>3. jobs[w][i] \in Job
      BY <3>2, LenProperties
    <3>4. jobs[w][i].branch \in Branch
      BY <3>3 DEF Job
    <3>5. jobs[w][i].commit \in Held(commits, past[jobs[w][i].branch])
      BY <1>1 DEF Known
    <3> QED
      BY <1>3, <3>1, <3>4, <3>5
  <2> QED
    BY <1>2, <1>4, <2>1 DEF JobsFrom
<1> QED
  BY <1>4 DEF Known

-----------------------------------------------------------------------------
(* What a step does to the committed rows and to what is known of them.    *)

\* A delta, right or wrong, of the commit n is written on b.
Applies(b, n) ==
    LET new == ChunksOf[commits'[n].content] IN
    /\ n \in Commit' /\ n \in Held(commits', past'[b])
    /\ \A d \in Branch \ {b} : Committed'[d] = Committed[d] /\ index'[d] = index[d]
    /\ \E drop, put : \E matches \in BOOLEAN :
          /\ put \subseteq DOMAIN new
          /\ Committed'[b] = Written(Kept(Committed[b], drop), put, new, n)
          /\ index'[b] = Indexed(index[b], n, commits'[n].parents, matches)
          /\ matches => drop = Dropped(Committed[b], new) /\ put = Added(Committed[b], new)

Effect ==
    \/ Committed' = Committed /\ index' = index
    \/ \E b \in Branch : \E n : Applies(b, n)
    \/ \A b \in Branch : Committed'[b] = NoRows /\ index'[b] = Nothing

LEMMA SaveAndIndexEffect ==
    ASSUME Shape, NEW w \in Worker, SaveAndIndex(w) PROVE Effect
<1>1. PICK n : n = Len(commits) + 1
  OBVIOUS
<1>2. PICK b \in Branch, c \in Content : \E parents \in ParentLists(b) :
        LET delta == Delta(rows[b], ChunksOf[c]) IN
        /\ Save(c, parents, b)
        /\ rows' = [rows EXCEPT ![b] = Written(Kept(@, delta.drop), delta.put, ChunksOf[c], n)]
        /\ index' = [index EXCEPT ![b] = Indexed(@, n, parents, TRUE)]
  BY <1>1 DEF SaveAndIndex
<1>3. PICK drop, put : drop = Dropped(rows[b], ChunksOf[c]) /\ put = Added(rows[b], ChunksOf[c])
  OBVIOUS
<1>4. PICK parents \in ParentLists(b) :
        /\ Save(c, parents, b)
        /\ rows' = [rows EXCEPT ![b] = Written(Kept(@, drop), put, ChunksOf[c], n)]
        /\ index' = [index EXCEPT ![b] = Indexed(@, n, parents, TRUE)]
  BY <1>2, <1>3 DEF Delta
<1>5. /\ open = None /\ Dag(commits)' /\ n \in Commit'
      /\ commits'[n] = [content |-> c, parents |-> parents]
      /\ past' = [past EXCEPT ![b] = @ \cup {n}]
  BY <1>1, <1>4, SaveFacts DEF Shape
<1>6. Committed = rows /\ Committed' = rows'
  BY <1>5 DEF Committed, SaveAndIndex
<1>7. n \in Held(commits', past'[b])
  BY <1>5, AncestorsSelf DEF Shape, Types, Commit, Held
<1>8. commits'[n].content = c /\ commits'[n].parents = parents
  BY <1>5
<1>9. put \subseteq DOMAIN ChunksOf[c]
  BY <1>3 DEF Added
<1>10. /\ rows'[b] = Written(Kept(rows[b], drop), put, ChunksOf[c], n)
       /\ \A d \in Branch \ {b} : rows'[d] = rows[d]
  BY <1>4 DEF Shape, Types
<1>11. /\ index'[b] = Indexed(index[b], n, parents, TRUE)
       /\ \A d \in Branch \ {b} : index'[d] = index[d]
  BY <1>4 DEF Shape, Types
<1>12. Applies(b, n)
  BY <1>3, <1>5, <1>6, <1>7, <1>8, <1>9, <1>10, <1>11 DEF Applies
<1> QED
  BY <1>12 DEF Effect

LEMMA EndWriteEffect ==
    ASSUME Shape, Known, NEW w \in Indexer, EndWrite(w) PROVE Effect
<1>1. PICK b, n, drop, put : /\ b = Head(jobs[w]).branch /\ n = Head(jobs[w]).commit
                             /\ drop = plan[w].drop /\ put = plan[w].put
  OBVIOUS
<1>2. PICK matches : matches = (plan[w].against = open.rows[b]) /\ matches \in BOOLEAN
  OBVIOUS
<1>3. /\ open # None /\ open.by = w /\ open' = None
      /\ rows' = [rows EXCEPT ![b] = Written(@, put, Chunks(n), n)]
      /\ index' = [index EXCEPT ![b] = Indexed(@, n, commits[n].parents, matches)]
      /\ commits' = commits /\ past' = past
  BY <1>1, <1>2 DEF EndWrite
<1>4. plan[w] # None /\ rows = [open.rows EXCEPT ![b] = Kept(@, drop)]
  BY <1>1, <1>3 DEF Shape, Writing
<1>5. jobs[w] # <<>> /\ plan[w] = Delta(plan[w].against, Chunks(n))
  BY <1>1, <1>4 DEF Shape, Planned
<1>6. b \in Branch /\ n \in Commit /\ n \in Held(commits, past[b])
  <2>1. Head(jobs[w]) = jobs[w][1] /\ 1 \in DOMAIN jobs[w]
    BY <1>5, JobFacts DEF Shape
  <2> QED
    BY <1>1, <1>5, <2>1, JobFacts DEF Shape, Known
<1>7. PICK old : old = plan[w].against
  OBVIOUS
<1>8. drop = Dropped(old, Chunks(n)) /\ put = Added(old, Chunks(n))
  BY <1>1, <1>5, <1>7 DEF Delta
<1>9. put \subseteq DOMAIN Chunks(n)
  BY <1>8 DEF Added
<1>10. Committed = open.rows /\ Committed' = rows'
  BY <1>3 DEF Committed
<1>11. open.rows = [d \in Branch |-> open.rows[d]]
  BY <1>3 DEF Shape, Types
<1>12. /\ rows[b] = Kept(open.rows[b], drop) /\ DOMAIN rows = Branch
       /\ \A d \in Branch \ {b} : rows[d] = open.rows[d]
  BY <1>4, <1>6, <1>11
<1>13. /\ rows'[b] = Written(Kept(open.rows[b], drop), put, Chunks(n), n)
       /\ \A d \in Branch \ {b} : rows'[d] = open.rows[d]
  BY <1>3, <1>6, <1>12
<1>14. /\ index'[b] = Indexed(index[b], n, commits[n].parents, matches)
       /\ \A d \in Branch \ {b} : index'[d] = index[d]
  BY <1>3, <1>6 DEF Shape, Types
<1>15. Chunks(n) = ChunksOf[commits'[n].content] /\ Commit' = Commit
  BY <1>3 DEF Chunks, Commit
<1>16. matches => drop = Dropped(open.rows[b], Chunks(n)) /\ put = Added(open.rows[b], Chunks(n))
  BY <1>2, <1>7, <1>8
<1>17. Applies(b, n)
  <2>1. \E dr, pu : \E ma \in BOOLEAN :
          /\ pu \subseteq DOMAIN Chunks(n)
          /\ rows'[b] = Written(Kept(open.rows[b], dr), pu, Chunks(n), n)
          /\ index'[b] = Indexed(index[b], n, commits[n].parents, ma)
          /\ ma => dr = Dropped(open.rows[b], Chunks(n)) /\ pu = Added(open.rows[b], Chunks(n))
    BY <1>2, <1>9, <1>13, <1>14, <1>16
  <2> QED
    BY <1>3, <1>6, <1>10, <1>13, <1>14, <1>15, <2>1 DEF Applies
<1> QED
  BY <1>6, <1>17 DEF Effect

LEMMA StepEffect == ASSUME NullIsApart, Shape, Known, [Next]_vars PROVE Effect
<1>1. CASE UNCHANGED <<rows, open, index>>
  BY <1>1 DEF Effect, Committed
<1>2. ASSUME NEW w \in Indexer, BeginWrite(w) PROVE Effect
  <2>1. open = None /\ open' = [by |-> w, rows |-> rows] /\ index' = index /\ open' # None
    BY <1>2 DEF BeginWrite, NullIsApart
  <2>2. open'.rows = rows
    BY <2>1
  <2> QED
    BY <2>1, <2>2 DEF Effect, Committed
<1>3. ASSUME NEW w \in Indexer, Fail(w) PROVE Effect
  <2>1. RollBack({w}) /\ index' = index
    BY <1>3 DEF Fail
  <2> QED
    BY <2>1, RollBackFacts DEF Effect
<1>4. CASE Crash
  <2>1. RollBack(Worker) /\ index' = index
    BY <1>4 DEF Crash
  <2> QED
    BY <2>1, RollBackFacts DEF Effect, Indexer
<1>5. CASE Rebuild
  <2>1. /\ open = None /\ open' = None
        /\ rows' = [b \in Branch |-> NoRows] /\ index' = [b \in Branch |-> Nothing]
    BY <1>5 DEF Rebuild
  <2>2. Committed' = [b \in Branch |-> NoRows]
    BY <2>1 DEF Committed
  <2> QED
    BY <2>1, <2>2 DEF Effect
<1> QED
  BY <1>1, <1>2, <1>3, <1>4, <1>5, SaveAndIndexEffect, EndWriteEffect
     DEF Next, vars, SaveThenIndex, Fork, Plan, FetchBranch

\* The delta of a commit for the rows it finds leaves that commit's chunks: a chunk whose
\* text was there keeps its row, and the others have a new one.
LEMMA DeltaApplied ==
    ASSUME NEW old, NEW new, NEW c
    PROVE  LET table == Written(Kept(old, Dropped(old, new)), Added(old, new), new, c) IN
           /\ DOMAIN table = DOMAIN new
           /\ \A id \in DOMAIN new :
                 /\ table[id].text = new[id].text
                 /\ id \in Added(old, new) => table[id].introduced = c
                 /\ id \notin Added(old, new) =>
                       id \in DOMAIN old /\ old[id].text = new[id].text
                       /\ table[id].introduced = old[id].introduced
<1> DEFINE kept == Kept(old, Dropped(old, new))
           put == Added(old, new)
           table == Written(kept, put, new, c)
<1>1. /\ DOMAIN kept = {id \in DOMAIN old : id \in DOMAIN new /\ new[id].text = old[id].text}
      /\ \A id \in DOMAIN kept : kept[id] = old[id]
  BY DEF Kept, Dropped
<1>2. put = {id \in DOMAIN new : id \notin DOMAIN old \/ new[id].text # old[id].text}
  BY DEF Added
<1> HIDE DEF kept, put
<1>3. /\ DOMAIN table = DOMAIN kept \cup put
      /\ \A id \in put : table[id] = Row(new[id], c)
      /\ \A id \in DOMAIN kept \ put : table[id] = kept[id]
  BY DEF Written
<1> HIDE DEF table
<1>4. DOMAIN table = DOMAIN new
  BY <1>1, <1>2, <1>3
<1>5. ASSUME NEW id \in DOMAIN new
      PROVE  /\ table[id].text = new[id].text
             /\ id \in put => table[id].introduced = c
             /\ id \notin put => id \in DOMAIN old /\ old[id].text = new[id].text
                                 /\ table[id].introduced = old[id].introduced
  <2>1. CASE id \in put
    BY <1>3, <2>1 DEF Row
  <2>2. CASE id \notin put
    BY <1>1, <1>2, <1>3, <2>2
  <2> QED
    BY <2>1, <2>2
<1> QED
  BY <1>4, <1>5 DEF kept, put, table

-----------------------------------------------------------------------------
(* Citations.                                                              *)

ExactRow(b, id, row) ==
    LET c == row.introduced IN
    /\ c \in Held(commits, past[b])
    /\ id \in DOMAIN Chunks(c) /\ Chunks(c)[id].text = row.text

Exact == \A b \in Branch : \A id \in DOMAIN Committed[b] : ExactRow(b, id, Committed[b][id])

\* ... and in the next state.
StillExact(b, id, row) ==
    LET c == row.introduced
        chunks == ChunksOf[commits'[c].content] IN
    /\ c \in Held(commits', past'[b])
    /\ id \in DOMAIN chunks /\ chunks[id].text = row.text

\* A citation that is exact stays so: the branch has had its commit.
LEMMA RowStays ==
    ASSUME NullIsApart, Shape, [Next]_vars, NEW b \in Branch, NEW id, NEW row, ExactRow(b, id, row)
    PROVE  StillExact(b, id, row)
<1>1. PICK c : c = row.introduced
  OBVIOUS
<1>2. /\ c \in Held(commits, past[b])
      /\ id \in DOMAIN Chunks(c) /\ Chunks(c)[id].text = row.text
  BY <1>1 DEF ExactRow
<1>3. c \in Held(commits', past'[b])
  BY <1>2, PastGrows
<1>4. c \in Commit
  <2>1. PICK h \in past[b] : c \in Ancestors(commits, h)
    BY <1>2 DEF Held
  <2>2. h \in Commit /\ Dag(commits)
    BY <2>1 DEF Shape, Types
  <2> QED
    BY <2>1, <2>2, AncestorsInTable DEF Commit
<1>5. Chunks(c)' = Chunks(c)
  BY <1>4, PastGrows DEF Chunks
<1> QED
  BY <1>1, <1>2, <1>3, <1>5 DEF StillExact, Chunks

LEMMA ExactKeeps == NullIsApart /\ Shape /\ Known /\ Exact /\ [Next]_vars => Exact'
<1>1. SUFFICES ASSUME NullIsApart, Shape, Known, Exact, [Next]_vars PROVE Exact'
  OBVIOUS
<1>2. Effect
  BY <1>1, StepEffect
<1>3. ASSUME NEW b \in Branch, Committed'[b] = Committed[b], NEW id \in DOMAIN Committed'[b]
      PROVE  StillExact(b, id, Committed'[b][id])
  <2>1. PICK row : row = Committed[b][id]
    OBVIOUS
  <2>2. ExactRow(b, id, row)
    BY <1>1, <1>3, <2>1 DEF Exact
  <2>3. StillExact(b, id, row)
    BY <1>1, <2>2, RowStays
  <2> QED
    BY <1>3, <2>1, <2>3 DEF StillExact
<1>4. CASE Committed' = Committed
  <2>1. \A b \in Branch : \A id \in DOMAIN Committed'[b] : StillExact(b, id, Committed'[b][id])
    BY <1>3, <1>4
  <2> QED
    BY <2>1 DEF Exact, ExactRow, StillExact, Chunks
<1>5. ASSUME NEW b \in Branch, NEW n, Applies(b, n)
      PROVE  Exact'
  <2>1. PICK new : new = ChunksOf[commits'[n].content]
    OBVIOUS
  <2>2. PICK drop, put :
          /\ put \subseteq DOMAIN new
          /\ Committed'[b] = Written(Kept(Committed[b], drop), put, new, n)
    BY <1>5, <2>1 DEF Applies
  <2>3. n \in Held(commits', past'[b])
    BY <1>5 DEF Applies
  <2>4. ASSUME NEW id \in DOMAIN Committed'[b]
        PROVE  StillExact(b, id, Committed'[b][id])
    <3>1. CASE id \in put
      <4>1. Committed'[b][id] = Row(new[id], n)
        BY <2>2, <2>4, <3>1 DEF Written
      <4>2. Committed'[b][id].introduced = n /\ Committed'[b][id].text = new[id].text
        BY <4>1 DEF Row
      <4>3. id \in DOMAIN new
        BY <2>2, <3>1
      <4> QED
        BY <2>1, <2>3, <4>2, <4>3 DEF StillExact
    <3>2. CASE id \notin put
      <4>1. id \in DOMAIN Committed[b] /\ Committed'[b][id] = Committed[b][id]
        BY <2>2, <2>4, <3>2 DEF Written, Kept
      <4>2. PICK row : row = Committed[b][id]
        OBVIOUS
      <4>3. ExactRow(b, id, row)
        BY <1>1, <4>1, <4>2 DEF Exact
      <4>4. StillExact(b, id, row)
        BY <1>1, <4>3, RowStays
      <4> QED
        BY <4>1, <4>2, <4>4 DEF StillExact
    <3> QED
      BY <3>1, <3>2
  <2>5. ASSUME NEW d \in Branch, NEW id \in DOMAIN Committed'[d]
        PROVE  StillExact(d, id, Committed'[d][id])
    <3>1. CASE d = b
      <4>1. id \in DOMAIN Committed'[b]
        BY <2>5, <3>1
      <4>2. StillExact(b, id, Committed'[b][id])
        BY <2>4, <4>1
      <4> QED
        BY <3>1, <4>2
    <3>2. CASE d # b
      <4>1. Committed'[d] = Committed[d]
        BY <1>5, <3>2 DEF Applies
      <4> QED
        BY <1>3, <2>5, <4>1
    <3> QED
      BY <3>1, <3>2
  <2> QED
    BY <2>5 DEF Exact, ExactRow, StillExact, Chunks
<1>6. CASE \A b \in Branch : Committed'[b] = NoRows /\ index'[b] = Nothing
  <2>1. DOMAIN NoRows = {}
    BY DEF NoRows
  <2> QED
    BY <1>6, <2>1 DEF Exact
<1> QED
  BY <1>2, <1>4, <1>5, <1>6 DEF Effect

LEMMA ExactStarts == Init => Known /\ Exact
<1>1. SUFFICES ASSUME Init PROVE Known /\ Exact
  OBVIOUS
<1>2. \A b \in Branch : DOMAIN Committed[b] = {}
  BY <1>1 DEF Init, Committed, NoRows
<1>3. \A w \in Indexer : DOMAIN jobs[w] = {}
  BY <1>1 DEF Init
<1> QED
  BY <1>2, <1>3 DEF Known, Exact

LEMMA ExactHolds == ASSUME NullIsApart PROVE Spec => [](Shape /\ Known /\ Exact)
<1>1. Shape /\ Known /\ Exact /\ [Next]_vars => (Shape /\ Known /\ Exact)'
  BY ShapeKeeps, KnownKeeps, ExactKeeps
<1>2. Init => Shape /\ Known /\ Exact
  BY ShapeStarts, ExactStarts
<1> QED
  BY <1>1, <1>2, PTL DEF Spec

\* A hit cites a commit in which its chunk has its very text and that its branch has had in
\* its history, and has still if the branch only moved forward, in every state: while
\* handlers and a rebuild overtake each other, with half a delta written, after failures and
\* crashes, and with commits that drop others from the branch (_plan_delta, reindex and
\* rebuild in retrieval/indexer.py, commit_artifact in api/main.py).
THEOREM CitationsStayExact == ASSUME NullIsApart PROVE Spec => []CitationsAreExact
<1>1. Shape /\ Exact => CitationsAreExact
  <2>1. SUFFICES ASSUME Shape, Exact PROVE CitationsAreExact
    OBVIOUS
  <2>2. ASSUME NEW b \in Branch, NEW id \in DOMAIN rows[b]
        PROVE  id \in DOMAIN Committed[b] /\ rows[b][id] = Committed[b][id]
    <3>1. CASE open = None
      BY <2>2, <3>1 DEF Committed
    <3>2. CASE open # None
      <4>1. PICK drop, d : rows = [open.rows EXCEPT ![d] = Kept(@, drop)]
        BY <2>1, <3>2 DEF Shape, Writing
      <4>2. open.rows = [x \in Branch |-> open.rows[x]] /\ Committed = open.rows
        BY <2>1, <3>2 DEF Shape, Types, Committed
      <4>3. rows[b] = IF b = d THEN Kept(open.rows[b], drop) ELSE open.rows[b]
        BY <4>1, <4>2
      <4>4. id \in DOMAIN open.rows[b] /\ rows[b][id] = open.rows[b][id]
        BY <2>2, <4>3 DEF Kept
      <4> QED
        BY <4>2, <4>4
    <3> QED
      BY <3>1, <3>2
  <2>3. ASSUME NEW b \in Branch, NEW id \in DOMAIN rows[b]
        PROVE  ExactRow(b, id, rows[b][id])
    BY <2>1, <2>2 DEF Exact
  <2>4. ASSUME NEW b \in Branch, NEW c \in Held(commits, past[b])
        PROVE  c \in Had(b) /\ (past[b] \subseteq Has(b) => c \in Has(b))
    <3>1. PICK h \in past[b] : c \in Ancestors(commits, h)
      BY <2>4 DEF Held
    <3>2. CASE past[b] \subseteq Has(b)
      <4>1. heads[b] # 0 /\ heads[b] \in Commit /\ Dag(commits)
        BY <2>1, <3>1 DEF Shape, Types
      <4>2. Has(b) = Ancestors(commits, heads[b])
        BY <4>1 DEF Has
      <4>3. h \in Ancestors(commits, heads[b])
        BY <3>2, <4>2
      <4>4. c \in Ancestors(commits, heads[b])
        BY <3>1, <4>1, <4>3, AncestorsTrans DEF Commit
      <4> QED
        BY <3>1, <4>2, <4>4 DEF Had
    <3> QED
      BY <3>1, <3>2 DEF Had
  <2>5. ASSUME NEW b \in Branch
        PROVE  /\ Cited(b) \subseteq Had(b)
               /\ past[b] \subseteq Has(b) => Cited(b) \subseteq Has(b)
    BY <2>3, <2>4 DEF Cited, ExactRow
  <2> QED
    BY <2>3, <2>5 DEF CitationsAreExact, ExactRow
<1> QED
  BY <1>1, ExactHolds, PTL

-----------------------------------------------------------------------------
(* The index of a branch.                                                  *)

Current ==
    \A b \in Branch : index[b].tip # 0 => Texts(Committed[b]) = Texts(Chunks(index[b].tip))

LEMMA CurrentKeeps == NullIsApart /\ Shape /\ Known /\ Current /\ [Next]_vars => Current'
<1>1. SUFFICES ASSUME NullIsApart, Shape, Known, Current, [Next]_vars PROVE Current'
  OBVIOUS
<1>2. Effect
  BY <1>1, StepEffect
<1>3. ASSUME NEW b \in Branch, Committed'[b] = Committed[b], index'[b] = index[b], index'[b].tip # 0
      PROVE  Texts(Committed'[b]) = Texts(ChunksOf[commits'[index'[b].tip].content])
  <2>1. PICK n : n = index[b].tip
    OBVIOUS
  <2>2. n \in Commit
    BY <1>3, <2>1, <1>1 DEF Shape, Types
  <2>3. commits'[n] = commits[n]
    BY <1>1, <2>2, PastGrows
  <2>4. Texts(Committed[b]) = Texts(Chunks(n))
    BY <1>1, <1>3, <2>1 DEF Current
  <2> QED
    BY <1>3, <2>1, <2>3, <2>4 DEF Chunks
<1>4. ASSUME NEW b \in Branch, NEW n, Applies(b, n), index'[b].tip # 0
      PROVE  Texts(Committed'[b]) = Texts(ChunksOf[commits'[index'[b].tip].content])
  <2>1. PICK new : new = ChunksOf[commits'[n].content]
    OBVIOUS
  <2>2. PICK matches \in BOOLEAN : \E drop, put :
          /\ Committed'[b] = Written(Kept(Committed[b], drop), put, new, n)
          /\ index'[b] = Indexed(index[b], n, commits'[n].parents, matches)
          /\ matches => drop = Dropped(Committed[b], new) /\ put = Added(Committed[b], new)
    BY <1>4, <2>1 DEF Applies
  <2>3. matches /\ index'[b].tip = n
    BY <1>4, <2>2 DEF Indexed
  <2>4. Committed'[b] = Written(Kept(Committed[b], Dropped(Committed[b], new)),
                                Added(Committed[b], new), new, n)
    BY <2>2, <2>3
  <2>5. /\ DOMAIN Committed'[b] = DOMAIN new
        /\ \A id \in DOMAIN new : Committed'[b][id].text = new[id].text
    BY <2>4, DeltaApplied
  <2>6. Texts(Committed'[b]) = Texts(new)
    BY <2>5 DEF Texts
  <2> QED
    BY <2>1, <2>3, <2>6
<1>5. ASSUME NEW b \in Branch, index'[b].tip # 0
      PROVE  Texts(Committed'[b]) = Texts(ChunksOf[commits'[index'[b].tip].content])
  <2>1. CASE Committed' = Committed /\ index' = index
    BY <1>3, <1>5, <2>1
  <2>2. CASE \E d \in Branch : \E n : Applies(d, n)
    <3>0. PICK d \in Branch : \E n : Applies(d, n)
      BY <2>2
    <3>1. PICK n : Applies(d, n)
      BY <3>0
    <3>2. CASE d = b
      BY <1>4, <1>5, <3>1, <3>2
    <3>3. CASE d # b
      <4>1. Committed'[b] = Committed[b] /\ index'[b] = index[b]
        BY <3>1, <3>3 DEF Applies
      <4> QED
        BY <1>3, <1>5, <4>1
    <3> QED
      BY <3>2, <3>3
  <2>3. CASE \A d \in Branch : Committed'[d] = NoRows /\ index'[d] = Nothing
    BY <1>5, <2>3 DEF Nothing
  <2> QED
    BY <1>2, <2>1, <2>2, <2>3 DEF Effect
<1> QED
  BY <1>5 DEF Current, Chunks

LEMMA CurrentHolds == ASSUME NullIsApart PROVE Spec => []Current
<1>1. Shape /\ Known /\ Current /\ [Next]_vars => Current'
  BY CurrentKeeps
<1>2. Init => Current
  BY DEF Init, Current, Nothing
<1>3. Spec => [](Shape /\ Known /\ Exact)
  BY ExactHolds
<1> QED
  BY <1>1, <1>2, <1>3, PTL DEF Spec

\* A delta that was made for the rows it found leaves the chunks of its commit, all of them
\* and no others, whatever handlers and rebuilds wrote before it (reindex in
\* retrieval/indexer.py).
THEOREM IndexStaysCurrent == ASSUME NullIsApart PROVE Spec => []IndexIsCurrent
<1>1. Current => IndexIsCurrent
  BY DEF Current, IndexIsCurrent, Settled, Committed
<1> QED
  BY <1>1, CurrentHolds, PTL

-----------------------------------------------------------------------------
(* The index and the walk of a historical search.                          *)

\* Does the walk go on from d to its parent of least hash?
Goes(table, text, id, d) ==
    LET parents == table[d].parents IN
    /\ parents # <<>>
    /\ id \in DOMAIN ChunksOf[table[parents[1]].content]
    /\ ChunksOf[table[parents[1]].content][id].text = text

Source(table, text, id) ==
    CHOOSE f : f = [d \in DOMAIN table |-> IF Goes(table, text, id, d)
                                           THEN f[table[d].parents[1]] ELSE d]

LEMMA GoesBack ==
    ASSUME NEW table, Dag(table), NEW d \in DOMAIN table, table[d].parents # <<>>
    PROVE  /\ table[d].parents[1] \in Older(table, d) /\ table[d].parents[1] \in DOMAIN table
           /\ table[d].parents[1] < d /\ table[d].parents[1] \in 1..(d - 1)
<1> DEFINE ps == table[d].parents
<1>1. Table(ps)
  BY DEF Dag
<1>2. 1 \in DOMAIN ps
  <2> HIDE DEF ps
  <2> QED
    BY <1>1, EmptySeq, LenProperties DEF Table, ps
<1>3. ps[1] \in Older(table, d)
  BY <1>2 DEF Older, ToSet
<1> QED
  BY <1>3, DagFacts DEF Dag

LEMMA SourceFrom ==
    ASSUME NEW table, Dag(table), NEW text, NEW id, NEW c \in DOMAIN table
    PROVE  Source(table, text, id)[c] =
              IF Goes(table, text, id, c) THEN Source(table, text, id)[table[c].parents[1]] ELSE c
<1> DEFINE G == {d \in DOMAIN table : Goes(table, text, id, d)}
           next == [d \in DOMAIN table |-> table[d].parents[1]]
<1>1. Len(table) \in Nat /\ DOMAIN table = 1..Len(table)
  BY DagFacts
<1>2. \A d \in G \cap 1..Len(table) : next[d] \in 1..(d - 1)
  BY <1>1, GoesBack DEF Goes
<1>3. \E f : Ends(Len(table), G, next, f)
  <2> HIDE DEF G, next
  <2> QED
    BY <1>1, <1>2, EndsExist
<1>4. ASSUME NEW f, Ends(Len(table), G, next, f)
      PROVE  f = [d \in DOMAIN table |-> IF Goes(table, text, id, d)
                                         THEN f[table[d].parents[1]] ELSE d]
  <2> DEFINE h == [d \in DOMAIN table |-> IF Goes(table, text, id, d)
                                          THEN f[table[d].parents[1]] ELSE d]
             k == [d \in 1..Len(table) |-> IF d \in G THEN f[next[d]] ELSE d]
  <2>1. \A d \in DOMAIN table : k[d] = h[d]
    BY <1>1
  <2>2. k = h
    BY <1>1, <2>1
  <2>3. f = k
    BY <1>4 DEF Ends
  <2> HIDE DEF k, h
  <2>4. f = h
    BY <2>2, <2>3
  <2> QED
    BY <2>4 DEF h
<1>5. \E f : f = [d \in DOMAIN table |-> IF Goes(table, text, id, d)
                                         THEN f[table[d].parents[1]] ELSE d]
  BY <1>3, <1>4
<1>6. Source(table, text, id) =
        [d \in DOMAIN table |-> IF Goes(table, text, id, d)
                                THEN Source(table, text, id)[table[d].parents[1]] ELSE d]
  BY <1>5 DEF Source
<1> DEFINE W == Source(table, text, id)
           h == [d \in DOMAIN table |-> IF Goes(table, text, id, d)
                                        THEN W[table[d].parents[1]] ELSE d]
<1>7. h[c] = IF Goes(table, text, id, c) THEN W[table[c].parents[1]] ELSE c
  OBVIOUS
<1>8. W = h
  BY <1>6
<1> HIDE DEF W, h
<1>9. W[c] = IF Goes(table, text, id, c) THEN W[table[c].parents[1]] ELSE c
  BY <1>7, <1>8
<1> QED
  BY <1>9 DEF W

\* Later commits change nothing on the walk.
LEMMA SourceStable ==
    ASSUME NEW old, Dag(old), NEW new, Dag(new), DOMAIN old \subseteq DOMAIN new,
           \A n \in DOMAIN old : new[n] = old[n], NEW text, NEW id, NEW c \in DOMAIN old
    PROVE  Source(new, text, id)[c] = Source(old, text, id)[c]
<1> DEFINE Bad == {n \in DOMAIN old : Source(new, text, id)[n] # Source(old, text, id)[n]}
<1>1. SUFFICES ASSUME Bad # {} PROVE FALSE
  OBVIOUS
<1>2. Bad \subseteq Nat
  BY DagFacts
<1>3. PICK m \in Bad : \A k \in Bad : m <= k
  BY <1>1, <1>2, Least
<1>4. m \in DOMAIN old /\ m \in DOMAIN new /\ m \in Nat /\ new[m] = old[m]
  BY <1>2
<1>5. PICK p : p = old[m].parents[1]
  OBVIOUS
<1>6. CASE old[m].parents = <<>>
  <2>1. ~Goes(old, text, id, m) /\ ~Goes(new, text, id, m)
    BY <1>4, <1>6 DEF Goes
  <2> QED
    BY <1>4, <2>1, SourceFrom
<1>7. CASE old[m].parents # <<>>
  <2>1. p \in DOMAIN old /\ p < m /\ p \in Nat
    BY <1>4, <1>5, <1>7, GoesBack, DagFacts
  <2>2. Source(new, text, id)[p] = Source(old, text, id)[p]
    BY <1>3, <1>4, <2>1
  <2>3. new[p] = old[p]
    BY <2>1
  <2>4. Goes(new, text, id, m) <=> Goes(old, text, id, m)
    BY <1>4, <1>5, <2>3 DEF Goes
  <2>5. Source(new, text, id)[m] = IF Goes(new, text, id, m) THEN Source(new, text, id)[p] ELSE m
    BY <1>4, <1>5, SourceFrom
  <2>6. Source(old, text, id)[m] = IF Goes(old, text, id, m) THEN Source(old, text, id)[p] ELSE m
    BY <1>4, <1>5, SourceFrom
  <2> QED
    BY <1>3, <2>2, <2>4, <2>5, <2>6
<1> QED
  BY <1>6, <1>7

LEMMA IntroducedIs ==
    ASSUME NEW c, NEW id
    PROVE  Introduced(c, id) = Source(commits, Chunks(c)[id].text, id)[c]
BY DEF Introduced, Source, Goes, Commit, Chunks

\* While its deltas were those of a line of first parents, a branch's rows cite what the
\* walk from its tip finds.
SameSources(table, chunks, n, rs) ==
    /\ DOMAIN rs = DOMAIN chunks
    /\ \A id \in DOMAIN chunks :
          /\ rs[id].text = chunks[id].text
          /\ rs[id].introduced = Source(table, chunks[id].text, id)[n]

Agree ==
    \A b \in Branch : index[b].straight =>
        IF index[b].tip = 0 THEN DOMAIN Committed[b] = {}
        ELSE SameSources(commits, Chunks(index[b].tip), index[b].tip, Committed[b])

LEMMA DeltaAgrees ==
    ASSUME NullIsApart, Shape, Shape', [Next]_vars, Agree, NEW b \in Branch, NEW n \in Commit',
           NEW new, new = ChunksOf[commits'[n].content],
           Committed'[b] = Written(Kept(Committed[b], Dropped(Committed[b], new)),
                                   Added(Committed[b], new), new, n),
           index[b].straight,
           IF index[b].tip = 0 THEN commits'[n].parents = <<>>
           ELSE commits'[n].parents # <<>> /\ commits'[n].parents[1] = index[b].tip
    PROVE  SameSources(commits', new, n, Committed'[b])
<1>1. PICK old, t : old = Committed[b] /\ t = index[b].tip
  OBVIOUS
<1>2. /\ DOMAIN Committed'[b] = DOMAIN new
      /\ \A id \in DOMAIN new :
            /\ Committed'[b][id].text = new[id].text
            /\ id \in Added(old, new) => Committed'[b][id].introduced = n
            /\ id \notin Added(old, new) =>
                  /\ id \in DOMAIN old /\ old[id].text = new[id].text
                  /\ Committed'[b][id].introduced = old[id].introduced
  BY <1>1, DeltaApplied
<1>3. Dag(commits) /\ Dag(commits)' /\ n \in DOMAIN commits'
  BY DEF Shape, Types, Commit
<1>4. ASSUME NEW id \in DOMAIN new
      PROVE  Committed'[b][id].introduced = Source(commits', new[id].text, id)[n]
  <2>1. Source(commits', new[id].text, id)[n] =
          IF Goes(commits', new[id].text, id, n)
          THEN Source(commits', new[id].text, id)[commits'[n].parents[1]] ELSE n
    BY <1>3, SourceFrom
  <2>2. CASE t = 0
    <3>1. DOMAIN old = {}
      BY <1>1, <2>2 DEF Agree
    <3>2. id \in Added(old, new)
      BY <1>4, <3>1 DEF Added
    <3>3. ~Goes(commits', new[id].text, id, n)
      BY <1>1, <2>2 DEF Goes
    <3> QED
      BY <1>2, <1>4, <2>1, <3>2, <3>3
  <2>3. CASE t # 0
    <3>1. t \in Commit /\ commits'[n].parents # <<>> /\ commits'[n].parents[1] = t
      BY <1>1, <2>3 DEF Shape, Types
    <3>2. commits'[t] = commits[t] /\ ChunksOf[commits'[t].content] = Chunks(t)
      BY <3>1, PastGrows DEF Chunks
    <3>3. SameSources(commits, Chunks(t), t, old)
      BY <1>1, <2>3 DEF Agree
    <3>4. Goes(commits', new[id].text, id, n) <=>
             id \in DOMAIN Chunks(t) /\ Chunks(t)[id].text = new[id].text
      BY <3>1, <3>2 DEF Goes
    <3>5. id \in Added(old, new) <=> ~(id \in DOMAIN Chunks(t) /\ Chunks(t)[id].text = new[id].text)
      BY <1>4, <3>3 DEF Added, SameSources
    <3>6. CASE id \in Added(old, new)
      BY <1>2, <1>4, <2>1, <3>4, <3>5, <3>6
    <3>7. CASE id \notin Added(old, new)
      <4>1. Committed'[b][id].introduced = old[id].introduced
        BY <1>2, <1>4, <3>7
      <4>2. id \in DOMAIN Chunks(t) /\ Chunks(t)[id].text = new[id].text
        BY <3>5, <3>7
      <4>3. old[id].introduced = Source(commits, new[id].text, id)[t]
        BY <3>3, <4>2 DEF SameSources
      <4>4. Source(commits', new[id].text, id)[t] = Source(commits, new[id].text, id)[t]
        BY <1>3, <3>1, PastGrows, SourceStable DEF Commit
      <4> QED
        BY <2>1, <3>1, <3>4, <4>1, <4>2, <4>3, <4>4
    <3> QED
      BY <3>6, <3>7
  <2> QED
    BY <2>2, <2>3
<1> QED
  BY <1>2, <1>4 DEF SameSources

LEMMA AgreeKeeps == NullIsApart /\ Shape /\ Shape' /\ Known /\ Agree /\ [Next]_vars => Agree'
<1>1. SUFFICES ASSUME NullIsApart, Shape, Shape', Known, Agree, [Next]_vars PROVE Agree'
  OBVIOUS
<1>2. Effect
  BY <1>1, StepEffect
<1>3. ASSUME NEW b \in Branch, Committed'[b] = Committed[b], index'[b] = index[b], index'[b].straight
      PROVE  IF index'[b].tip = 0 THEN DOMAIN Committed'[b] = {}
             ELSE SameSources(commits', ChunksOf[commits'[index'[b].tip].content], index'[b].tip,
                              Committed'[b])
  <2>1. PICK n : n = index[b].tip
    OBVIOUS
  <2>2. CASE n = 0
    BY <1>1, <1>3, <2>1, <2>2 DEF Agree
  <2>3. CASE n # 0
    <3>1. n \in Commit
      BY <1>1, <2>1, <2>3 DEF Shape, Types
    <3>2. commits'[n] = commits[n] /\ ChunksOf[commits'[n].content] = Chunks(n)
      BY <1>1, <3>1, PastGrows DEF Chunks
    <3>3. SameSources(commits, Chunks(n), n, Committed[b])
      BY <1>1, <1>3, <2>1, <2>3 DEF Agree
    <3>4. \A text, id : Source(commits', text, id)[n] = Source(commits, text, id)[n]
      <4>1. TAKE text, id
      <4>2. /\ Dag(commits) /\ Dag(commits)' /\ DOMAIN commits \subseteq DOMAIN commits'
            /\ n \in DOMAIN commits /\ \A k \in DOMAIN commits : commits'[k] = commits[k]
        BY <1>1, <3>1, PastGrows DEF Shape, Types, Commit
      <4> QED
        BY <4>2, SourceStable
    <3>5. SameSources(commits', Chunks(n), n, Committed[b])
      BY <3>3, <3>4 DEF SameSources
    <3> QED
      BY <1>3, <2>1, <2>3, <3>2, <3>5
  <2> QED
    BY <2>2, <2>3
<1>4. ASSUME NEW b \in Branch, NEW n, Applies(b, n), index'[b].straight
      PROVE  /\ index'[b].tip # 0
             /\ SameSources(commits', ChunksOf[commits'[index'[b].tip].content], index'[b].tip,
                            Committed'[b])
  <2>1. PICK new : new = ChunksOf[commits'[n].content]
    OBVIOUS
  <2>2. PICK matches \in BOOLEAN : \E drop, put :
          /\ Committed'[b] = Written(Kept(Committed[b], drop), put, new, n)
          /\ index'[b] = Indexed(index[b], n, commits'[n].parents, matches)
          /\ matches => drop = Dropped(Committed[b], new) /\ put = Added(Committed[b], new)
    BY <1>4, <2>1 DEF Applies
  <2>3. n \in Commit' /\ n # 0
    <3>1. Commit' = 1..Len(commits') /\ Len(commits') \in Nat
      BY <1>1, DagFacts DEF Shape, Types, Commit
    <3> QED
      BY <1>4, <3>1 DEF Applies
  <2>4. /\ matches /\ index'[b].tip = n /\ index[b].straight
        /\ IF index[b].tip = 0 THEN commits'[n].parents = <<>>
           ELSE commits'[n].parents # <<>> /\ commits'[n].parents[1] = index[b].tip
    <3>1. index'[b] = Indexed(index[b], n, commits'[n].parents, matches)
      BY <2>2
    <3> QED
      BY <1>4, <3>1 DEF Indexed
  <2>5. Committed'[b] = Written(Kept(Committed[b], Dropped(Committed[b], new)),
                                Added(Committed[b], new), new, n)
    BY <2>2, <2>4
  <2>6. SameSources(commits', new, n, Committed'[b])
    BY <1>1, <2>1, <2>3, <2>4, <2>5, DeltaAgrees
  <2> QED
    BY <2>1, <2>3, <2>4, <2>6
<1>5. ASSUME NEW b \in Branch, index'[b].straight
      PROVE  IF index'[b].tip = 0 THEN DOMAIN Committed'[b] = {}
             ELSE SameSources(commits', ChunksOf[commits'[index'[b].tip].content], index'[b].tip,
                              Committed'[b])
  <2>1. CASE Committed' = Committed /\ index' = index
    BY <1>3, <1>5, <2>1
  <2>2. CASE \E d \in Branch : \E n : Applies(d, n)
    <3>0. PICK d \in Branch : \E n : Applies(d, n)
      BY <2>2
    <3>1. PICK n : Applies(d, n)
      BY <3>0
    <3>2. CASE d = b
      BY <1>4, <1>5, <3>1, <3>2
    <3>3. CASE d # b
      <4>1. Committed'[b] = Committed[b] /\ index'[b] = index[b]
        BY <3>1, <3>3 DEF Applies
      <4> QED
        BY <1>3, <1>5, <4>1
    <3> QED
      BY <3>2, <3>3
  <2>3. CASE \A d \in Branch : Committed'[d] = NoRows /\ index'[d] = Nothing
    <3>1. DOMAIN NoRows = {} /\ Nothing.tip = 0
      BY DEF NoRows, Nothing
    <3> QED
      BY <2>3, <3>1
  <2> QED
    BY <1>2, <2>1, <2>2, <2>3 DEF Effect
<1> QED
  BY <1>5 DEF Agree, Chunks

LEMMA AgreeHolds == ASSUME NullIsApart PROVE Spec => [](Shape /\ Agree)
<1>1. Shape /\ Shape' /\ Known /\ Agree /\ [Next]_vars => Agree'
  BY AgreeKeeps
<1>2. Init => Agree
  BY DEF Init, Agree, Nothing, Committed, NoRows
<1>3. Spec => [](Shape /\ Known /\ Exact)
  BY ExactHolds
<1> QED
  BY <1>1, <1>2, <1>3, PTL DEF Spec

\* The two searches cite alike: when the commits of a branch were indexed one after the
\* other, the rows of the index name, chunk for chunk, the commit that the walk along the
\* first parents finds, merges on the way included (reindex in retrieval/indexer.py,
\* SearchService._historical).
THEOREM SearchesAgree == ASSUME NullIsApart PROVE Spec => []TimeTravelAgrees
<1>1. Agree => TimeTravelAgrees
  <2>1. SUFFICES ASSUME Agree, NEW b \in Branch, Settled(b), index[b].straight
                 PROVE  LET cited(table) == [id \in DOMAIN table |-> <<table[id].text, table[id].introduced>>]
                        IN cited(rows[b]) = cited(Snapshot(index[b].tip))
    BY DEF TimeTravelAgrees
  <2>2. PICK n : n = index[b].tip
    OBVIOUS
  <2>3. SameSources(commits, Chunks(n), n, rows[b])
    BY <2>1, <2>2 DEF Agree, Settled, Committed
  <2>4. /\ DOMAIN Snapshot(n) = DOMAIN Chunks(n)
        /\ \A id \in DOMAIN Chunks(n) :
              /\ Snapshot(n)[id].text = Chunks(n)[id].text
              /\ Snapshot(n)[id].introduced = Introduced(n, id)
    BY DEF Snapshot, Row
  <2>5. DOMAIN rows[b] = DOMAIN Snapshot(n)
    BY <2>3, <2>4 DEF SameSources
  <2>6. \A id \in DOMAIN rows[b] :
           /\ rows[b][id].text = Snapshot(n)[id].text
           /\ rows[b][id].introduced = Snapshot(n)[id].introduced
    BY <2>3, <2>4, IntroducedIs DEF SameSources
  <2> QED
    BY <2>2, <2>5, <2>6
<1> QED
  BY <1>1, AgreeHolds, PTL

-----------------------------------------------------------------------------
(* The rebuild.                                                            *)

\* While nothing disturbs it: a branch waits to be fetched, is being replayed up to its
\* head, or is done; and what is planned is for the rows that are there.
Rebuilding ==
    /\ fresh \in BOOLEAN
    /\ fresh =>
          /\ \A b \in Branch : \/ heads[b] = 0 \/ b \in left \/ index[b].tip = heads[b]
                               \/ jobs[Script] # <<>> /\ jobs[Script][1].branch = b
          /\ \A k \in DOMAIN jobs[Script] : jobs[Script][k].branch = jobs[Script][1].branch
          /\ jobs[Script] # <<>> =>
                jobs[Script][Len(jobs[Script])].commit = heads[jobs[Script][1].branch]
          /\ plan[Script] # None => plan[Script].against = Committed[jobs[Script][1].branch]

\* The steps that the rebuild does not take or that only change what is open.
LEMMA RebuildingStays ==
    ASSUME Rebuilding, fresh' = fresh,
           heads' = heads, left' = left, index' = index, Committed' = Committed,
           jobs'[Script] = jobs[Script], plan'[Script] = plan[Script]
    PROVE  Rebuilding'
BY DEF Rebuilding

LEMMA PlanRebuilding ==
    ASSUME NullIsApart, Shape, Rebuilding, NEW w \in Indexer, Plan(w) PROVE Rebuilding'
<1>1. PICK b : b = Head(jobs[w]).branch
  OBVIOUS
<1>2. PICK chunks : plan' = [plan EXCEPT ![w] = Delta(Shown(w)[b], chunks)]
  BY <1>1 DEF Plan
<1>3. /\ jobs[w] # <<>> /\ plan[w] = None
      /\ UNCHANGED <<commits, heads, past, rows, open, jobs, left, fresh, rebuilds, index>>
  BY DEF Plan
<1>4. Committed' = Committed
  BY <1>3 DEF Committed
<1>5. CASE w # Script
  <2>1. plan'[Script] = plan[Script]
    BY <1>2, <1>5 DEF Shape, Types, Indexer
  <2> QED
    BY <1>3, <1>4, <2>1, RebuildingStays
<1>6. CASE w = Script
  <2>1. open # None => open.by # Script
    BY <1>3, <1>6 DEF Shape, Writing
  <2>2. Shown(Script) = Committed
    BY <2>1 DEF Shown, Committed
  <2>3. b = jobs[Script][1].branch
    BY <1>1, <1>3, <1>6, JobFacts DEF Shape
  <2>4. plan'[Script].against = Committed[b]
    BY <1>2, <1>6, <2>2 DEF Shape, Types, Delta
  <2> QED
    BY <1>3, <1>4, <2>3, <2>4 DEF Rebuilding
<1> QED
  BY <1>5, <1>6

LEMMA EndWriteRebuilding ==
    ASSUME Shape, Rebuilding, NEW w \in Indexer, EndWrite(w) PROVE Rebuilding'
<1>1. fresh' = (fresh /\ w = Script) /\ fresh' \in BOOLEAN
  BY DEF EndWrite, Rebuilding
<1>2. CASE ~(fresh /\ w = Script)
  BY <1>1, <1>2 DEF Rebuilding
<1>3. CASE fresh /\ w = Script
  <2>1. PICK b, c, j : j = jobs[Script] /\ b = Head(j).branch /\ c = Head(j).commit
    OBVIOUS
  <2>2. /\ open # None /\ open.by = Script /\ open' = None
        /\ index' = [index EXCEPT ![b] =
              Indexed(@, c, commits[c].parents, plan[Script].against = open.rows[b])]
        /\ jobs' = [jobs EXCEPT ![Script] = Tail(@)] /\ plan' = [plan EXCEPT ![Script] = None]
        /\ UNCHANGED <<commits, heads, past, left>>
    BY <1>3, <2>1 DEF EndWrite
  <2>3. plan[Script] # None /\ j # <<>> /\ Script \in Indexer
    BY <1>3, <2>1, <2>2 DEF Shape, Writing, Planned
  <2>4. /\ Head(j) = j[1] /\ b \in Branch /\ Len(j) \in Nat \ {0} /\ DOMAIN j = 1..Len(j)
        /\ Tail(j) \in Seq(Job) /\ DOMAIN Tail(j) = 1..Len(j) - 1
        /\ \A k \in DOMAIN Tail(j) : k + 1 \in DOMAIN j /\ Tail(j)[k] = j[k + 1]
        /\ Len(Tail(j)) = Len(j) - 1
        /\ Tail(j) = <<>> <=> Len(j) = 1
    BY <2>1, <2>3, JobFacts DEF Shape
  <2>5. /\ \A d \in Branch : heads[d] = 0 \/ d \in left \/ index[d].tip = heads[d] \/ b = d
        /\ \A k \in DOMAIN j : j[k].branch = b
        /\ j[Len(j)].commit = heads[b]
        /\ plan[Script].against = open.rows[b]
    BY <1>3, <2>1, <2>2, <2>3, <2>4 DEF Rebuilding, Committed
  <2>6. index'[b].tip = c /\ \A d \in Branch \ {b} : index'[d] = index[d]
    BY <2>2, <2>4, <2>5 DEF Shape, Types, Indexed
  <2>7. jobs'[Script] = Tail(j) /\ plan'[Script] = None
    BY <2>1, <2>2, <2>3 DEF Shape, Types
  <2>8. CASE Len(j) = 1
    <3>1. c = heads[b]
      BY <2>1, <2>4, <2>5, <2>8
    <3>2. DOMAIN Tail(j) = {}
      BY <2>4, <2>8
    <3>3. Tail(j) = <<>>
      BY <2>4, <2>8
    <3> QED
      BY <1>1, <2>2, <2>5, <2>6, <2>7, <3>1, <3>2, <3>3 DEF Rebuilding
  <2>9. CASE Len(j) # 1
    <3>1. Len(Tail(j)) = Len(j) - 1 /\ 1 \in DOMAIN Tail(j) /\ Len(Tail(j)) \in DOMAIN Tail(j)
          /\ Len(Tail(j)) + 1 = Len(j)
      BY <2>4, <2>9
    <3>2. \A k \in DOMAIN Tail(j) : Tail(j)[k].branch = b
      BY <2>4, <2>5
    <3>3. Tail(j)[Len(Tail(j))].commit = heads[b]
      BY <2>4, <2>5, <3>1
    <3>4. Tail(j) # <<>>
      BY <2>4, <2>9
    <3> QED
      BY <1>1, <2>2, <2>5, <2>6, <2>7, <3>1, <3>2, <3>3, <3>4 DEF Rebuilding
  <2> QED
    BY <2>8, <2>9
<1> QED
  BY <1>2, <1>3

LEMMA FetchBranchRebuilding ==
    ASSUME Shape, Rebuilding, NEW b \in Branch, FetchBranch(b) PROVE Rebuilding'
<1>1. /\ jobs[Script] = <<>> /\ b \in left /\ left' = left \ {b}
      /\ UNCHANGED <<commits, heads, past, rows, open, plan, fresh, rebuilds, index>>
  BY DEF FetchBranch, MayIndex
<1>2. PICK j : /\ j = Replay(b, Reverse(History(commits, heads[b])))
               /\ jobs' = [jobs EXCEPT ![Script] = j]
  BY DEF FetchBranch
<1>3. heads[b] # 0
  BY <1>1 DEF Shape, Types
<1>4. /\ j \in Seq(Job) /\ j # <<>> /\ \A k \in DOMAIN j : j[k].branch = b
      /\ j[Len(j)].commit = heads[b]
  BY <1>2, <1>3, ReplayFacts DEF Shape
<1>5. 1 \in DOMAIN j
  BY <1>4, EmptySeq, LenProperties
<1>6. jobs'[Script] = j
  BY <1>2 DEF Shape, Types, Indexer
<1>7. plan[Script] = None
  BY <1>1, NoJobNoPlan DEF Indexer
<1> QED
  BY <1>1, <1>4, <1>5, <1>6, <1>7 DEF Rebuilding

LEMMA RebuildingKeeps == NullIsApart /\ Shape /\ Rebuilding /\ [Next]_vars => Rebuilding'
<1>1. SUFFICES ASSUME NullIsApart, Shape, Rebuilding, [Next]_vars PROVE Rebuilding'
  OBVIOUS
<1>2. CASE UNCHANGED vars
  BY <1>1, <1>2, RebuildingStays DEF vars, Committed
<1>3. CASE fresh' = FALSE
  BY <1>3 DEF Rebuilding
<1>4. ASSUME NEW w \in Worker, SaveThenIndex(w) \/ SaveAndIndex(w) PROVE Rebuilding'
  BY <1>3, <1>4 DEF SaveThenIndex, SaveAndIndex, Save
<1>5. CASE Fork
  BY <1>3, <1>5 DEF Fork
<1>6. ASSUME NEW w \in Indexer, BeginWrite(w) PROVE Rebuilding'
  <2>1. open = None /\ open' = [by |-> w, rows |-> rows] /\ open' # None
    BY <1>1, <1>6 DEF BeginWrite, NullIsApart
  <2>2. open'.rows = rows
    BY <2>1
  <2>3. Committed' = Committed
    BY <2>1, <2>2 DEF Committed
  <2> QED
    BY <1>1, <1>6, <2>3, RebuildingStays DEF BeginWrite
<1>7. ASSUME NEW w \in Indexer, Fail(w) PROVE Rebuilding'
  <2>1. CASE w = Script
    BY <1>3, <1>7, <2>1 DEF Fail
  <2>2. CASE w # Script
    <3>1. /\ RollBack({w}) /\ UNCHANGED <<left, fresh, heads, index>>
          /\ jobs'[Script] = jobs[Script] /\ plan'[Script] = plan[Script]
      BY <1>1, <1>7, <2>2 DEF Fail, Shape, Types, Indexer
    <3>2. Committed' = Committed
      BY <1>1, <3>1, RollBackFacts
    <3> QED
      BY <1>1, <3>1, <3>2, RebuildingStays
  <2> QED
    BY <2>1, <2>2
<1>8. CASE Crash
  <2>1. /\ RollBack(Worker) /\ UNCHANGED <<left, fresh, heads, index>>
        /\ jobs'[Script] = jobs[Script] /\ plan'[Script] = plan[Script]
    BY <1>8 DEF Crash, Indexer
  <2>2. Committed' = Committed
    BY <1>1, <2>1, RollBackFacts DEF Indexer
  <2> QED
    BY <1>1, <2>1, <2>2, RebuildingStays
<1>9. CASE Rebuild
  <2>1. /\ jobs[Script] = <<>> /\ left' = {b \in Branch : heads[b] # 0} /\ fresh' = TRUE
        /\ UNCHANGED <<heads, jobs, plan>>
    BY <1>9 DEF Rebuild
  <2>2. plan[Script] = None
    BY <1>1, <2>1, NoJobNoPlan DEF Indexer
  <2> QED
    BY <2>1, <2>2 DEF Rebuilding
<1> QED
  BY <1>1, <1>2, <1>4, <1>5, <1>6, <1>7, <1>8, <1>9, PlanRebuilding, EndWriteRebuilding,
     FetchBranchRebuilding DEF Next

LEMMA RebuildingHolds == ASSUME NullIsApart PROVE Spec => []Rebuilding
<1>1. Shape /\ Rebuilding /\ [Next]_vars => Rebuilding'
  BY RebuildingKeeps
<1>2. Init => Rebuilding
  BY DEF Init, Rebuilding
<1> QED
  BY <1>1, <1>2, ShapeHolds, PTL DEF Spec

\* A rebuild that runs to its end with no write beside it leaves every branch that has a
\* head, forks and merges included, with the chunks of that head (rebuild in
\* retrieval/indexer.py).
THEOREM RebuildsAreComplete == ASSUME NullIsApart PROVE Spec => []RebuildIsComplete
<1>1. Rebuilding /\ Current => RebuildIsComplete
  <2>1. SUFFICES ASSUME Rebuilding, Current, fresh, open = None, left = {}, jobs[Script] = <<>>,
                        NEW b \in Branch, heads[b] # 0
                 PROVE  index[b].tip = heads[b] /\ Texts(rows[b]) = Texts(Chunks(heads[b]))
    BY DEF RebuildIsComplete
  <2>2. index[b].tip = heads[b]
    BY <2>1 DEF Rebuilding
  <2> QED
    BY <2>1, <2>2 DEF Current, Committed
<1> QED
  BY <1>1, RebuildingHolds, CurrentHolds, PTL
==============================================================================
