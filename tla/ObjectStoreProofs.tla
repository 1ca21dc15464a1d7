------------------------- MODULE ObjectStoreProofs -------------------------
(***************************************************************************)
(* Proofs about ObjectStore, for every set of threads, artifacts, branches *)
(* and contents and any number of commits.                                 *)
(***************************************************************************)
EXTENDS ObjectStore, SequenceTheorems, TLAPS

-----------------------------------------------------------------------------
(* The undo stack of the connection.                                       *)

IsStack(s) == s \in Seq({s[i] : i \in 1..Len(s)})

\* A sequence over any set is a stack.
LEMMA SeqIsStack ==
    ASSUME NEW S, NEW s \in Seq(S)
    PROVE  IsStack(s)
<1>1. s \in [1..Len(s) -> S] /\ Len(s) \in Nat
  BY LenProperties
<1>2. s \in [1..Len(s) -> {s[i] : i \in 1..Len(s)}]
  BY <1>1
<1> QED
  BY <1>1, <1>2, SeqDef DEF IsStack

\* What BEGIN and SAVEPOINT do to the stack.
LEMMA Push ==
    ASSUME NEW s, IsStack(s), NEW d
    PROVE  /\ IsStack(Append(s, d))
           /\ Len(s) \in Nat
           /\ Len(Append(s, d)) = Len(s) + 1
           /\ Append(s, d) # <<>>
           /\ \A i \in 1..Len(s) : Append(s, d)[i] = s[i]
           /\ Append(s, d)[Len(s) + 1] = d
<1> DEFINE S == {s[i] : i \in 1..Len(s)} \cup {d}
<1>1. s \in Seq(S)
  BY SeqMonotonic DEF IsStack
<1>2. /\ Append(s, d) \in Seq(S)
      /\ Len(s) \in Nat
      /\ Len(Append(s, d)) = Len(s) + 1
      /\ Append(s, d) # <<>>
      /\ \A i \in 1..Len(s) : Append(s, d)[i] = s[i]
      /\ Append(s, d)[Len(s) + 1] = d
  BY <1>1, LenProperties
<1> QED
  BY <1>2, SeqIsStack

\* What COMMIT, RELEASE and ROLLBACK do to the stack.
LEMMA Pop ==
    ASSUME NEW s, IsStack(s), s # <<>>
    PROVE  /\ IsStack(SubSeq(s, 1, Len(s) - 1))
           /\ Len(s) \in Nat \ {0}
           /\ Len(SubSeq(s, 1, Len(s) - 1)) = Len(s) - 1
           /\ \A i \in 1..(Len(s) - 1) : SubSeq(s, 1, Len(s) - 1)[i] = s[i]
           /\ SubSeq(s, 1, Len(s) - 1) = <<>> <=> Len(s) = 1
<1> DEFINE S == {s[i] : i \in 1..Len(s)}
           p == SubSeq(s, 1, Len(s) - 1)
<1>1. s \in Seq(S) /\ Len(s) \in Nat \ {0}
  BY EmptySeq DEF IsStack
<1>2. \A i \in 1..(Len(s) - 1) : s[i] \in S
  BY <1>1
<1>3. PICK n \in Nat : Len(s) = n + 1
  BY <1>1
<1>4. /\ p \in Seq(S)
      /\ Len(p) = IF 1 <= n THEN n - 1 + 1 ELSE 0
      /\ \A i \in 1..(n - 1 + 1) : p[i] = s[1 + i - 1]
  <2>1. p = SubSeq(s, 1, n) /\ \A i \in 1..n : s[i] \in S
    BY <1>2, <1>3
  <2>2. 1 \in Int /\ n \in Int
    BY <1>3
  <2> QED
    BY <2>1, <2>2, SubSeqProperties
<1>5. /\ Len(p) = Len(s) - 1
      /\ \A i \in 1..(Len(s) - 1) : p[i] = s[i]
  <2> HIDE DEF p, S
  <2>1. Len(p) = Len(s) - 1
    BY <1>3, <1>4
  <2>2. ASSUME NEW i \in 1..(Len(s) - 1)
        PROVE  p[i] = s[i]
    <3>1. i \in 1..(n - 1 + 1) /\ 1 + i - 1 = i
      BY <1>3
    <3> QED
      BY <1>4, <3>1
  <2> QED
    BY <2>1, <2>2
<1>6. p = <<>> <=> Len(p) = 0
  BY <1>4, EmptySeq
<1>7. p = <<>> <=> Len(s) = 1
  BY <1>1, <1>5, <1>6
<1>8. IsStack(p)
  BY <1>4, SeqIsStack
<1> QED
  BY <1>1, <1>5, <1>7, <1>8

-----------------------------------------------------------------------------
(* The lock and the transaction stack.                                     *)

\* Whoever has a _tx() frame open is alone, no more snapshots are stacked than
\* that thread has frames (fewer after a stray commit), and none without one.
Locks ==
    /\ IsStack(saved)
    /\ pc \in [Thread -> States]
    /\ depth \in [Thread -> 0..3]
    /\ \A t \in Thread : Fits(depth[t], pc[t])
    /\ \A t, u \in Thread : depth[t] > 0 /\ depth[u] > 0 => t = u
    /\ \A t \in Thread : depth[t] > 0 => Len(saved) <= depth[t]
    /\ (\A t \in Thread : depth[t] = 0) => saved = <<>>

\* A step inside a frame, or outside of all.
LEMMA LocksStay ==
    ASSUME Locks, NEW t \in Thread, NEW p \in States,
           pc' = [pc EXCEPT ![t] = p], Fits(depth[t], p),
           UNCHANGED <<depth, saved>>
    PROVE  Locks'
BY DEF Locks

\* Entering a frame.
LEMMA LocksEnter ==
    ASSUME Locks, NEW t \in Thread, Enter(t), NEW p \in States,
           pc' = [pc EXCEPT ![t] = p], Fits(depth[t] + 1, p), depth[t] < 3
    PROVE  Locks'
<1>1. /\ IsStack(saved')
      /\ Len(saved) \in Nat
      /\ Len(saved') = Len(saved) + 1
  BY Push DEF Locks, Enter
<1>2. /\ depth' = [depth EXCEPT ![t] = depth[t] + 1]
      /\ depth' \in [Thread -> 0..3]
      /\ depth'[t] = depth[t] + 1
  BY DEF Locks, Enter
<1>3. \A u \in Thread \ {t} : depth[u] = 0 /\ depth'[u] = 0
  BY <1>2 DEF Locks, Enter, LockFreeFor
<1>4. Len(saved) <= depth[t]
  <2>1. CASE depth[t] = 0
    <3>1. \A u \in Thread : depth[u] = 0
      BY <1>3, <2>1
    <3> QED
      BY <2>1, <3>1, EmptySeq DEF Locks
  <2>2. CASE depth[t] > 0
    BY <2>2 DEF Locks
  <2> QED
    BY <2>1, <2>2 DEF Locks
<1>5. Len(saved') <= depth'[t]
  BY <1>1, <1>2, <1>4 DEF Locks
<1> QED
  BY <1>1, <1>2, <1>3, <1>5 DEF Locks

\* Leaving a frame, by its end or by an exception.
LEMMA LocksPop ==
    ASSUME Locks, NEW t \in Thread, NEW p \in States,
           depth[t] > 0,
           depth' = [depth EXCEPT ![t] = @ - 1],
           pc' = [pc EXCEPT ![t] = p], Fits(depth[t] - 1, p),
           \/ saved # <<>> /\ saved' = SubSeq(saved, 1, Len(saved) - 1)
           \/ saved = <<>> /\ saved' = saved
    PROVE  Locks'
<1>1. /\ depth' \in [Thread -> 0..3]
      /\ depth'[t] = depth[t] - 1
  BY DEF Locks
<1>2. \A u \in Thread \ {t} : depth[u] = 0 /\ depth'[u] = 0
  BY DEF Locks
<1>3. /\ IsStack(saved')
      /\ Len(saved') \in Nat
      /\ Len(saved') <= depth'[t]
      /\ depth'[t] = 0 => saved' = <<>>
  <2>1. CASE saved # <<>> /\ saved' = SubSeq(saved, 1, Len(saved) - 1)
    BY <1>1, <2>1, Pop DEF Locks
  <2>2. CASE saved = <<>> /\ saved' = saved
    BY <1>1, <2>2, EmptySeq DEF Locks
  <2> QED
    BY <2>1, <2>2
<1> QED
  BY <1>1, <1>2, <1>3 DEF Locks

LEMMA LocksInit == Init => Locks
<1>1. IsStack(<<>>)
  BY SeqIsStack, EmptySeq
<1>2. SUFFICES ASSUME Init PROVE Locks
  OBVIOUS
<1>3. pc \in [Thread -> States] /\ depth \in [Thread -> 0..3]
  BY <1>2 DEF Init, States, Resting, Framed, Committing
<1>4. \A t \in Thread : pc[t] = "idle" /\ depth[t] = 0
  BY <1>2 DEF Init
<1> QED
  BY <1>1, <1>2, <1>3, <1>4 DEF Init, Locks, Fits, Resting, Framed, Committing

\* A thread's own steps keep the discipline.
LEMMA LocksContinue ==
    ASSUME Locks, NEW t \in Thread, Continue(t)
    PROVE  Locks'
<1> USE DEF States, Fits, Resting, Framed, Committing
<1>1. CASE BeginCommit(t)
  <2>1. depth[t] \in {0, 1}
    BY <1>1 DEF BeginCommit, Locks
  <2>2. Fits(depth[t] + 1, "insert") /\ depth[t] < 3
    BY <2>1
  <2>3. Enter(t) /\ pc' = [pc EXCEPT ![t] = "insert"]
    BY <1>1 DEF BeginCommit
  <2>4. "insert" \in States
    OBVIOUS
  <2> QED
    BY <2>2, <2>3, <2>4, LocksEnter
<1>2. CASE InsertCommit(t)
  <2>1. depth[t] \in {1, 2}
    BY <1>2 DEF InsertCommit, Locks
  <2> QED
    BY <1>2, <2>1, LocksStay DEF InsertCommit
<1>3. CASE CasAdvance(t)
  <2>1. depth[t] \in {1, 2}
    BY <1>3 DEF CasAdvance, Locks
  <2> QED
    BY <1>3, <2>1, LocksStay DEF CasAdvance
<1>4. CASE Mirror(t)
  <2>1. depth[t] \in {1, 2}
    BY <1>4 DEF Mirror, Locks
  <2> QED
    BY <1>4, <2>1, LocksStay DEF Mirror
<1>5. CASE Capture(t)
  <2>1. depth[t] \in {1, 2}
    BY <1>5 DEF Capture, Locks
  <2>2. Fits(depth[t] + 1, "captured") /\ depth[t] < 3
    BY <2>1
  <2>3. Enter(t) /\ pc' = [pc EXCEPT ![t] = "captured"]
    BY <1>5 DEF Capture
  <2>4. "captured" \in States
    OBVIOUS
  <2> QED
    BY <2>2, <2>3, <2>4, LocksEnter
<1>6. CASE EndCapture(t)
  <2>1. depth[t] \in {2, 3}
    BY <1>6 DEF EndCapture, Locks
  <2>2. /\ depth[t] > 0
        /\ depth' = [depth EXCEPT ![t] = @ - 1]
    BY <1>6, <2>1 DEF EndCapture, Leave
  <2>3. CASE saved # <<>>
    <3>1. /\ pc' = [pc EXCEPT ![t] = "leave"] /\ "leave" \in States
          /\ Fits(depth[t] - 1, "leave")
          /\ \/ saved # <<>> /\ saved' = SubSeq(saved, 1, Len(saved) - 1)
             \/ saved = <<>> /\ saved' = saved
      BY <1>6, <2>1, <2>3 DEF EndCapture, Leave
    <3> QED
      BY <2>2, <3>1, LocksPop
  <2>4. CASE saved = <<>>
    <3>1. /\ pc' = [pc EXCEPT ![t] = "raise"] /\ "raise" \in States
          /\ Fits(depth[t] - 1, "raise")
          /\ \/ saved # <<>> /\ saved' = SubSeq(saved, 1, Len(saved) - 1)
             \/ saved = <<>> /\ saved' = saved
      BY <1>6, <2>1, <2>4 DEF EndCapture, Leave
    <3> QED
      BY <2>2, <3>1, LocksPop
  <2> QED
    BY <2>1, <2>3, <2>4
<1>7. CASE EndCommit(t)
  <2>1. depth[t] \in {1, 2}
    BY <1>7 DEF EndCommit, Locks
  <2>2. /\ depth[t] > 0
        /\ depth' = [depth EXCEPT ![t] = @ - 1]
    BY <1>7, <2>1 DEF EndCommit, Leave
  <2>3. CASE saved # <<>> /\ depth[t] = 1
    <3>1. /\ pc' = [pc EXCEPT ![t] = "done"] /\ "done" \in States
          /\ Fits(depth[t] - 1, "done")
          /\ \/ saved # <<>> /\ saved' = SubSeq(saved, 1, Len(saved) - 1)
             \/ saved = <<>> /\ saved' = saved
      BY <1>7, <2>1, <2>3 DEF EndCommit, Leave
    <3> QED
      BY <2>2, <3>1, LocksPop
  <2>4. CASE saved # <<>> /\ depth[t] = 2
    <3>1. /\ pc' = [pc EXCEPT ![t] = "batch"] /\ "batch" \in States
          /\ Fits(depth[t] - 1, "batch")
          /\ \/ saved # <<>> /\ saved' = SubSeq(saved, 1, Len(saved) - 1)
             \/ saved = <<>> /\ saved' = saved
      BY <1>7, <2>1, <2>4 DEF EndCommit, Leave
    <3> QED
      BY <2>2, <3>1, LocksPop
  <2>5. CASE saved = <<>> /\ depth[t] = 1
    <3>1. /\ pc' = [pc EXCEPT ![t] = "failed"] /\ "failed" \in States
          /\ Fits(depth[t] - 1, "failed")
          /\ \/ saved # <<>> /\ saved' = SubSeq(saved, 1, Len(saved) - 1)
             \/ saved = <<>> /\ saved' = saved
      BY <1>7, <2>1, <2>5 DEF EndCommit, Leave
    <3> QED
      BY <2>2, <3>1, LocksPop
  <2>6. CASE saved = <<>> /\ depth[t] = 2
    <3>1. /\ pc' = [pc EXCEPT ![t] = "raise"] /\ "raise" \in States
          /\ Fits(depth[t] - 1, "raise")
          /\ \/ saved # <<>> /\ saved' = SubSeq(saved, 1, Len(saved) - 1)
             \/ saved = <<>> /\ saved' = saved
      BY <1>7, <2>1, <2>6 DEF EndCommit, Leave
    <3> QED
      BY <2>2, <3>1, LocksPop
  <2> QED
    BY <2>1, <2>3, <2>4, <2>5, <2>6
<1>8. CASE Acknowledge(t)
  <2>1. depth[t] = 0
    BY <1>8 DEF Acknowledge, Locks
  <2> QED
    BY <1>8, <2>1, LocksStay DEF Acknowledge
<1>9. CASE BeginBranch(t)
  <2>1. depth[t] = 0
    BY <1>9 DEF BeginBranch, Locks
  <2>2. Fits(depth[t] + 1, "fork") /\ depth[t] < 3
    BY <2>1
  <2>3. Enter(t) /\ pc' = [pc EXCEPT ![t] = "fork"]
    BY <1>9 DEF BeginBranch
  <2>4. "fork" \in States
    OBVIOUS
  <2> QED
    BY <2>2, <2>3, <2>4, LocksEnter
<1>10. CASE Fork(t)
  <2>1. depth[t] = 1
    BY <1>10 DEF Fork, Locks
  <2> QED
    BY <1>10, <2>1, LocksStay DEF Fork
<1>11. CASE ForkMirror(t)
  <2>1. depth[t] = 1
    BY <1>11 DEF ForkMirror, Locks
  <2> QED
    BY <1>11, <2>1, LocksStay DEF ForkMirror
<1>12. CASE EndBatch(t)
  <2>1. depth[t] = 1
    BY <1>12 DEF EndBatch, Locks
  <2>2. /\ depth[t] > 0
        /\ depth' = [depth EXCEPT ![t] = @ - 1]
    BY <1>12, <2>1 DEF EndBatch, Leave
  <2>3. CASE saved # <<>>
    <3>1. /\ pc' = [pc EXCEPT ![t] = "done"] /\ "done" \in States
          /\ Fits(depth[t] - 1, "done")
          /\ \/ saved # <<>> /\ saved' = SubSeq(saved, 1, Len(saved) - 1)
             \/ saved = <<>> /\ saved' = saved
      BY <1>12, <2>1, <2>3 DEF EndBatch, Leave
    <3> QED
      BY <2>2, <3>1, LocksPop
  <2>4. CASE saved = <<>>
    <3>1. /\ pc' = [pc EXCEPT ![t] = "failed"] /\ "failed" \in States
          /\ Fits(depth[t] - 1, "failed")
          /\ \/ saved # <<>> /\ saved' = SubSeq(saved, 1, Len(saved) - 1)
             \/ saved = <<>> /\ saved' = saved
      BY <1>12, <2>1, <2>4 DEF EndBatch, Leave
    <3> QED
      BY <2>2, <3>1, LocksPop
  <2> QED
    BY <2>1, <2>3, <2>4
<1>13. CASE AbortBatch(t)
  <2>1. depth[t] = 1
    BY <1>13 DEF AbortBatch, Locks
  <2> QED
    BY <1>13, <2>1, LocksStay DEF AbortBatch
<1>14. CASE Unwind(t)
  <2>1. depth[t] \in {1, 2, 3}
    BY <1>14 DEF Unwind, Locks
  <2>2. /\ depth[t] > 0
        /\ depth' = [depth EXCEPT ![t] = @ - 1]
    BY <1>14, <2>1 DEF Unwind
  <2>3. CASE depth[t] = 1
    <3>1. /\ pc' = [pc EXCEPT ![t] = "failed"] /\ "failed" \in States
          /\ Fits(depth[t] - 1, "failed")
          /\ \/ saved # <<>> /\ saved' = SubSeq(saved, 1, Len(saved) - 1)
             \/ saved = <<>> /\ saved' = saved
      BY <1>14, <2>1, <2>3 DEF Unwind
    <3> QED
      BY <2>2, <3>1, LocksPop
  <2>4. CASE depth[t] # 1
    <3>1. /\ pc' = [pc EXCEPT ![t] = "raise"] /\ "raise" \in States
          /\ Fits(depth[t] - 1, "raise")
          /\ \/ saved # <<>> /\ saved' = SubSeq(saved, 1, Len(saved) - 1)
             \/ saved = <<>> /\ saved' = saved
      BY <1>14, <2>1, <2>4 DEF Unwind
    <3> QED
      BY <2>2, <3>1, LocksPop
  <2> QED
    BY <2>1, <2>3, <2>4
<1>15. CASE Fail(t)
  <2>1. depth[t] = 0
    BY <1>15 DEF Fail, Locks
  <2> QED
    BY <1>15, <2>1, LocksStay DEF Fail
<1> QED
  BY <1>1, <1>2, <1>3, <1>4, <1>5, <1>6, <1>7, <1>8, <1>9, <1>10, <1>11,
     <1>12, <1>13, <1>14, <1>15 DEF Continue

\* So do the steps its client asks for.
LEMMA LocksRequest ==
    ASSUME Locks, NEW t \in Thread, Request(t)
    PROVE  Locks'
<1> USE DEF States, Fits, Resting, Framed, Committing
<1>1. ASSUME NEW ref \in Ref, ReadHead(t, ref)
      PROVE  Locks'
  <2>1. depth[t] = 0
    BY <1>1 DEF ReadHead, Locks
  <2> QED
    BY <1>1, <2>1, LocksStay DEF ReadHead
<1>2. ASSUME NEW ref \in Ref, ReadTheirs(t, ref)
      PROVE  Locks'
  BY <1>2 DEF ReadTheirs, Locks
<1>3. ASSUME NEW ref \in Ref, AskBranch(t, ref)
      PROVE  Locks'
  <2>1. depth[t] = 0
    BY <1>3 DEF AskBranch, Locks
  <2> QED
    BY <1>3, <2>1, LocksStay DEF AskBranch
<1>4. ASSUME NEW root \in Content, NEW stamp \in Stamp, Prepare(t, root, stamp)
      PROVE  Locks'
  <2>1. depth[t] = 0
    BY <1>4 DEF Prepare, Locks
  <2> QED
    BY <1>4, <2>1, LocksStay DEF Prepare
<1>5. CASE BeginBatch(t)
  <2>1. depth[t] = 0
    BY <1>5 DEF BeginBatch, Locks
  <2>2. Fits(depth[t] + 1, "batch") /\ depth[t] < 3
    BY <2>1
  <2>3. Enter(t) /\ pc' = [pc EXCEPT ![t] = "batch"]
    BY <1>5 DEF BeginBatch
  <2>4. "batch" \in States
    OBVIOUS
  <2> QED
    BY <2>2, <2>3, <2>4, LocksEnter
<1>6. ASSUME NEW ref \in Ref, NEW root \in Content, NEW stamp \in Stamp,
             BatchCommit(t, ref, root, stamp)
      PROVE  Locks'
  <2>1. depth[t] = 1
    BY <1>6 DEF BatchCommit, Locks
  <2> QED
    BY <1>6, <2>1, LocksStay DEF BatchCommit
<1> QED
  BY <1>1, <1>2, <1>3, <1>4, <1>5, <1>6 DEF Request

\* A stray db.commit() empties the stack, whoever holds the lock.
LEMMA LocksDelete ==
    ASSUME Locks, NEW a \in Artifact, Delete(a)
    PROVE  Locks'
<1>1. IsStack(<<>>) /\ Len(<<>>) = 0
  BY SeqIsStack, EmptySeq
<1>2. ASSUME NEW t \in Thread, depth[t] > 0
      PROVE  0 <= depth[t]
  BY DEF Locks
<1> QED
  BY <1>1, <1>2 DEF Delete, EnsureTombstones, InsertTombstone, CommitTombstone, Locks

LEMMA LocksCrash == Locks /\ Crash => Locks'
<1>1. IsStack(<<>>)
  BY SeqIsStack, EmptySeq
<1>2. SUFFICES ASSUME Crash PROVE Locks'
  OBVIOUS
<1>3. pc' \in [Thread -> States] /\ depth' \in [Thread -> 0..3]
  BY <1>2 DEF Crash, States, Resting, Framed, Committing
<1>4. \A t \in Thread : pc'[t] = "idle" /\ depth'[t] = 0
  BY <1>2 DEF Crash
<1> QED
  BY <1>1, <1>2, <1>3, <1>4 DEF Crash, Locks, Fits, Resting, Framed, Committing

LEMMA LocksNext == Locks /\ [Next]_vars => Locks'
<1>1. Locks /\ UNCHANGED vars => Locks'
  BY DEF Locks, vars
<1> QED
  BY <1>1, LocksContinue, LocksRequest, LocksDelete, LocksCrash DEF Next

-----------------------------------------------------------------------------
(* The tables.                                                             *)

\* One snapshot of the tables is well formed, its history is closed, and its
\* heads belong to their artifacts.
Sound(d) ==
    /\ Tables(d)
    /\ \A c \in d.commits :
          /\ c.root \in d.objects
          /\ \A p \in Parents(c) : p \in d.commits /\ p.artifact = c.artifact
    /\ \A ref \in Ref : d.refs[ref] # NoCommit => d.refs[ref].artifact = ref[1]

\* put_blob keeps the tables sound.
LEMMA AddObject ==
    ASSUME NEW d, Sound(d), NEW root \in Content
    PROVE  LET e == [d EXCEPT !.objects = @ \cup {root}]
           IN  Sound(e) /\ e.commits = d.commits
BY DEF Sound, Tables

\* So does inserting a commit whose root and parents are there.
LEMMA AddCommit ==
    ASSUME NEW d, Sound(d), NEW c, IsCommit(c), c.root \in d.objects,
           \A p \in Parents(c) : p \in d.commits /\ p.artifact = c.artifact
    PROVE  LET e == [d EXCEPT !.commits = @ \cup {c}]
           IN  Sound(e) /\ e.commits = d.commits \cup {c}
<1> DEFINE e == [d EXCEPT !.commits = @ \cup {c}]
<1>1. /\ DOMAIN e = DOMAIN d
      /\ e.commits = d.commits \cup {c}
      /\ e.objects = d.objects /\ e.refs = d.refs /\ e.branches = d.branches
      /\ e.claimed = d.claimed /\ e.tombs = d.tombs
  BY DEF Sound, Tables
<1> HIDE DEF e
<1>2. Tables(e)
  BY <1>1 DEF Sound, Tables
<1>3. Sound(e)
  BY <1>1, <1>2 DEF Sound
<1> QED
  BY <1>1, <1>3 DEF e

\* So does pointing a branch at a commit of its artifact.
LEMMA MoveHead ==
    ASSUME NEW d, Sound(d), NEW ref \in Ref, NEW c \in d.commits, c.artifact = ref[1]
    PROVE  LET e == [d EXCEPT !.refs[ref] = c]
           IN  Sound(e) /\ e.commits = d.commits
<1> DEFINE e == [d EXCEPT !.refs[ref] = c]
<1>1. /\ DOMAIN e = DOMAIN d
      /\ e.refs = [d.refs EXCEPT ![ref] = c]
      /\ e.objects = d.objects /\ e.commits = d.commits /\ e.branches = d.branches
      /\ e.claimed = d.claimed /\ e.tombs = d.tombs
  BY DEF Sound, Tables
<1> HIDE DEF e
<1>2. Tables(e)
  BY <1>1 DEF Sound, Tables
<1>3. \A r \in Ref : e.refs[r] = IF r = ref THEN c ELSE d.refs[r]
  BY <1>1 DEF Sound, Tables
<1>4. Sound(e)
  BY <1>1, <1>2, <1>3 DEF Sound
<1> QED
  BY <1>1, <1>4 DEF e

\* So do the branches mirror, a commit's claims and a tombstone.
LEMMA MoveMirror ==
    ASSUME NEW d, Sound(d), NEW ref \in Ref, NEW c \in d.commits
    PROVE  LET e == [d EXCEPT !.branches[ref] = c]
           IN  Sound(e) /\ e.commits = d.commits
<1> DEFINE e == [d EXCEPT !.branches[ref] = c]
<1>1. /\ DOMAIN e = DOMAIN d
      /\ e.branches = [d.branches EXCEPT ![ref] = c]
      /\ e.objects = d.objects /\ e.commits = d.commits /\ e.refs = d.refs
      /\ e.claimed = d.claimed /\ e.tombs = d.tombs
  BY DEF Sound, Tables
<1> HIDE DEF e
<1>2. Sound(e)
  BY <1>1 DEF Sound, Tables
<1> QED
  BY <1>1, <1>2 DEF e

LEMMA AddClaims ==
    ASSUME NEW d, Sound(d), NEW c \in d.commits
    PROVE  LET e == [d EXCEPT !.claimed = @ \cup {c}]
           IN  Sound(e) /\ e.commits = d.commits
BY DEF Sound, Tables

LEMMA AddTombstone ==
    ASSUME NEW d, Sound(d), NEW a \in Artifact
    PROVE  LET e == [d EXCEPT !.tombs = @ \cup {a}]
           IN  Sound(e) /\ e.commits = d.commits
BY DEF Sound, Tables

-----------------------------------------------------------------------------
(* The arguments of the calls in progress.                                 *)

Made == {"commit", "insert", "advance", "mirror new", "mirror", "capture", "captured"}

Placed == Made \cup {"read", "branch", "fork", "fork mirror"}

\* A call moves a real reference, and the commit it made is well formed and of
\* the same artifact.
Calls ==
    /\ DOMAIN call = Thread /\ DOMAIN base = Thread /\ DOMAIN pending = Thread
    /\ \A t \in Thread :
          /\ DOMAIN call[t] = {"ref", "expected", "cid"}
          /\ pc[t] \in Placed => call[t].ref \in Ref
          /\ pc[t] \in Made =>
                /\ IsCommit(call[t].cid)
                /\ call[t].cid.artifact = call[t].ref[1]

LEMMA CallsInit == Init => Calls
BY DEF Init, Calls, Idle, Made, Placed

\* Moving on with the same arguments.
LEMMA CallsMove ==
    ASSUME Calls, NEW t \in Thread, NEW p,
           DOMAIN pc = Thread,
           pc' = [pc EXCEPT ![t] = p],
           p \in Placed => call[t].ref \in Ref,
           p \in Made => /\ IsCommit(call[t].cid)
                         /\ call[t].cid.artifact = call[t].ref[1],
           UNCHANGED <<call, base>>, DOMAIN pending' = Thread
    PROVE  Calls'
BY DEF Calls

\* Moving on with new arguments.
LEMMA CallsSet ==
    ASSUME Calls, NEW t \in Thread, NEW p, NEW c,
           DOMAIN pc = Thread,
           pc' = [pc EXCEPT ![t] = p],
           call' = [call EXCEPT ![t] = c],
           DOMAIN c = {"ref", "expected", "cid"},
           p \in Placed => c.ref \in Ref,
           p \in Made => IsCommit(c.cid) /\ c.cid.artifact = c.ref[1],
           DOMAIN base' = Thread, DOMAIN pending' = Thread
    PROVE  Calls'
BY DEF Calls

LEMMA CallsContinue ==
    ASSUME Calls, DOMAIN pc = Thread, NEW t \in Thread, Continue(t)
    PROVE  Calls'
<1> USE DEF Made, Placed, Calls
<1>1. CASE BeginCommit(t)
  BY <1>1, CallsMove DEF BeginCommit, caller
<1>2. CASE InsertCommit(t)
  BY <1>2, CallsMove DEF InsertCommit, caller
<1>3. CASE CasAdvance(t)
  BY <1>3, CallsMove DEF CasAdvance, caller
<1>4. CASE Mirror(t)
  BY <1>4, CallsMove DEF Mirror, caller
<1>5. CASE Capture(t)
  BY <1>5, CallsMove DEF Capture, caller
<1>6. CASE EndCapture(t)
  BY <1>6, CallsMove DEF EndCapture, Leave
<1>7. CASE EndCommit(t)
  BY <1>7, CallsMove DEF EndCommit, Leave, caller
<1>8. CASE Acknowledge(t)
  BY <1>8, CallsSet DEF Acknowledge, Idle
<1>9. CASE BeginBranch(t)
  BY <1>9, CallsMove DEF BeginBranch, caller
<1>10. CASE Fork(t)
  BY <1>10, CallsMove DEF Fork, caller
<1>11. CASE ForkMirror(t)
  BY <1>11, CallsMove DEF ForkMirror
<1>12. CASE EndBatch(t)
  BY <1>12, CallsMove DEF EndBatch, Leave, caller
<1>13. CASE AbortBatch(t)
  BY <1>13, CallsMove DEF AbortBatch, caller
<1>14. CASE Unwind(t)
  BY <1>14, CallsMove DEF Unwind, caller
<1>15. CASE Fail(t)
  BY <1>15, CallsSet DEF Fail, Idle
<1> QED
  BY <1>1, <1>2, <1>3, <1>4, <1>5, <1>6, <1>7, <1>8, <1>9, <1>10, <1>11,
     <1>12, <1>13, <1>14, <1>15 DEF Continue

LEMMA CallsRequest ==
    ASSUME Calls, DOMAIN pc = Thread, NEW t \in Thread, Request(t)
    PROVE  Calls'
<1> USE DEF Made, Placed, Calls
<1>1. ASSUME NEW ref \in Ref, ReadHead(t, ref)
      PROVE  Calls'
  BY <1>1, CallsSet DEF ReadHead
<1>2. ASSUME NEW ref \in Ref, ReadTheirs(t, ref)
      PROVE  Calls'
  BY <1>2 DEF ReadTheirs
<1>3. ASSUME NEW ref \in Ref, AskBranch(t, ref)
      PROVE  Calls'
  BY <1>3, CallsSet DEF AskBranch
<1>4. ASSUME NEW root \in Content, NEW stamp \in Stamp, Prepare(t, root, stamp)
      PROVE  Calls'
  <2>1. PICK e : call' = [call EXCEPT ![t].expected = e,
                                      ![t].cid = CommitId(call[t].ref[1], root, base[t], stamp)]
    BY <1>4 DEF Prepare
  <2> DEFINE c == [call[t] EXCEPT !.expected = e,
                                  !.cid = CommitId(call[t].ref[1], root, base[t], stamp)]
  <2>2. call' = [call EXCEPT ![t] = c]
    BY <2>1
  <2>3. call[t].ref \in Ref
    BY <1>4 DEF Prepare
  <2>4. /\ DOMAIN c = {"ref", "expected", "cid"}
        /\ c.ref = call[t].ref
        /\ c.cid = CommitId(call[t].ref[1], root, base[t], stamp)
    BY DEF Calls
  <2>5. IsCommit(c.cid) /\ c.cid.artifact = c.ref[1]
    BY <2>3, <2>4 DEF IsCommit, CommitId, Ref
  <2>6. pc' = [pc EXCEPT ![t] = "commit"] /\ DOMAIN base' = Thread /\ DOMAIN pending' = Thread
    BY <1>4 DEF Prepare
  <2> HIDE DEF c
  <2> QED
    BY <2>2, <2>3, <2>4, <2>5, <2>6, CallsSet
<1>5. CASE BeginBatch(t)
  BY <1>5, CallsMove DEF BeginBatch, caller
<1>6. ASSUME NEW ref \in Ref, NEW root \in Content, NEW stamp \in Stamp,
             BatchCommit(t, ref, root, stamp)
      PROVE  Calls'
  <2> DEFINE head == db.refs[ref]
             parents == IF head = NoCommit THEN <<>> ELSE <<head>>
             c == [ref |-> ref, expected |-> head, cid |-> CommitId(ref[1], root, parents, stamp)]
  <2>1. call' = [call EXCEPT ![t] = c] /\ pc' = [pc EXCEPT ![t] = "commit"]
    BY <1>6 DEF BatchCommit
  <2>2. DOMAIN c = {"ref", "expected", "cid"} /\ c.ref = ref
    OBVIOUS
  <2>3. IsCommit(c.cid) /\ c.cid.artifact = c.ref[1]
    BY DEF IsCommit, CommitId, Ref
  <2>4. DOMAIN base' = Thread /\ DOMAIN pending' = Thread
    BY <1>6 DEF BatchCommit
  <2> HIDE DEF c
  <2> QED
    BY <2>1, <2>2, <2>3, <2>4, CallsSet
<1> QED
  BY <1>1, <1>2, <1>3, <1>4, <1>5, <1>6 DEF Request

LEMMA CallsNext == Locks /\ Calls /\ [Next]_vars => Calls'
<1> SUFFICES ASSUME Locks, Calls, [Next]_vars
             PROVE  Calls'
  OBVIOUS
<1>1. DOMAIN pc = Thread
  BY DEF Locks
<1>2. ASSUME NEW a \in Artifact, Delete(a)
      PROVE  Calls'
  BY <1>2 DEF Delete, EnsureTombstones, InsertTombstone, CommitTombstone, caller, Calls
<1>3. CASE Crash
  BY <1>3 DEF Crash, Calls, Idle, Made, Placed
<1>4. CASE UNCHANGED vars
  BY <1>4 DEF vars, Calls
<1> QED
  BY <1>1, <1>2, <1>3, <1>4, CallsContinue, CallsRequest DEF Next

-----------------------------------------------------------------------------
(* Every snapshot is sound.                                                *)

Written == {"advance", "mirror new", "mirror", "capture", "fork mirror"}

\* The tables and everything a rollback or a crash can restore are sound, and
\* the commit a call is publishing is a row.
Data ==
    /\ Sound(db)
    /\ \A i \in 1..Len(saved) : Sound(saved[i])
    /\ \A t \in Thread : pc[t] \in Written => call[t].cid \in db.commits

LEMMA InitialTablesSound == Sound(InitialTables)
<1> DEFINE d == InitialTables
<1>1. RootContent \in Content /\ RootStamp \in Stamp
  BY StoreAssumption DEF RootContent, RootStamp
<1>2. ASSUME NEW a
      PROVE  /\ RootCommit(a).artifact = a
             /\ RootCommit(a).root = RootContent
             /\ RootCommit(a).stamp = RootStamp
             /\ Parents(RootCommit(a)) = {}
  BY EmptySeq DEF RootCommit, CommitId, Parents, Multiplicity
<1>3. /\ d.objects = {RootContent}
      /\ d.commits = {RootCommit(a) : a \in Artifact}
      /\ d.claimed = {RootCommit(a) : a \in Artifact}
      /\ d.tombs = {}
      /\ DOMAIN d = {"objects", "commits", "refs", "branches", "claimed", "tombs"}
  BY DEF InitialTables
<1>4. /\ d.refs = [r \in Ref |-> IF r[2] = Main THEN RootCommit(r[1]) ELSE NoCommit]
      /\ d.branches = d.refs
  BY DEF InitialTables
<1> HIDE DEF d
<1>5. \A r \in Ref : r[1] \in Artifact
  BY DEF Ref
<1>6. d.refs \in [Ref -> d.commits \cup {NoCommit}]
  BY <1>3, <1>4, <1>5
<1>7. \A c \in d.commits : IsCommit(c) /\ c.root \in d.objects /\ Parents(c) = {}
  BY <1>1, <1>2, <1>3 DEF IsCommit
<1>8. Tables(d)
  BY <1>1, <1>3, <1>4, <1>6, <1>7 DEF Tables
<1>9. \A ref \in Ref : d.refs[ref] # NoCommit => d.refs[ref].artifact = ref[1]
  BY <1>2, <1>4
<1>10. Sound(d)
  BY <1>7, <1>8, <1>9 DEF Sound
<1> QED
  BY <1>10 DEF d

LEMMA DataInit == Init => Data
<1>1. Len(<<>>) = 0
  BY EmptySeq
<1> QED
  BY <1>1, InitialTablesSound DEF Init, Data, Written

\* A thread inside a frame is the only one publishing anything.
LEMMA AloneInside ==
    ASSUME Locks, NEW t \in Thread, depth[t] > 0, NEW u \in Thread \ {t}
    PROVE  pc[u] \notin Written \cup {"insert"}
<1> SUFFICES ASSUME pc[u] \in Written \cup {"insert"}
             PROVE  FALSE
  OBVIOUS
<1>1. depth[u] = 0 /\ Fits(depth[u], pc[u])
  BY DEF Locks
<1>2. \/ pc[u] = "fork mirror"
      \/ pc[u] \in {"insert", "advance", "mirror new", "mirror", "capture", "leave"}
  BY DEF Written
<1>3. depth[u] \in {1, 2}
  BY <1>1, <1>2 DEF Fits, Resting, Framed, Committing
<1> QED
  BY <1>1, <1>3

\* A step that changes the tables and not the stack.
LEMMA DataWrite ==
    ASSUME Locks, Data, NEW t \in Thread, NEW p,
           pc' = [pc EXCEPT ![t] = p],
           Sound(db'), db.commits \subseteq db'.commits,
           UNCHANGED saved,
           \A u \in Thread \ {t} : call'[u] = call[u],
           p \in Written => call'[t].cid \in db'.commits
    PROVE  Data'
BY DEF Data, Locks

\* Entering a frame stacks a sound snapshot.
LEMMA DataEnter ==
    ASSUME Locks, Data, NEW t \in Thread, Enter(t)
    PROVE  \A i \in 1..Len(saved') : Sound(saved'[i])
BY Push DEF Data, Locks, Enter

\* Leaving a frame leaves a shorter stack of the same snapshots.
LEMMA DataPop ==
    ASSUME Locks, Data,
           \/ saved # <<>> /\ saved' = SubSeq(saved, 1, Len(saved) - 1)
           \/ saved = <<>> /\ saved' = saved
    PROVE  \A i \in 1..Len(saved') : Sound(saved'[i])
<1>1. CASE saved # <<>> /\ saved' = SubSeq(saved, 1, Len(saved) - 1)
  BY <1>1, Pop DEF Data, Locks
<1>2. CASE saved = <<>> /\ saved' = saved
  BY <1>2 DEF Data
<1> QED
  BY <1>1, <1>2

\* What an exception restores is sound.
LEMMA TopIsSound ==
    ASSUME Locks, Data, saved # <<>>
    PROVE  Sound(saved[Len(saved)])
BY Pop DEF Data, Locks

\* A step of one thread that ends or begins a frame and writes no commit.
LEMMA DataFrame ==
    ASSUME Locks, Data, NEW t \in Thread, NEW p,
           pc' = [pc EXCEPT ![t] = p],
           Sound(db'), db.commits \subseteq db'.commits \/ depth[t] > 0,
           \A i \in 1..Len(saved') : Sound(saved'[i]),
           call' = call,
           p \in Written => call[t].cid \in db'.commits
    PROVE  Data'
<1>1. ASSUME NEW u \in Thread \ {t}, pc'[u] \in Written
      PROVE  call'[u].cid \in db'.commits
  <2>1. pc'[u] = pc[u]
    BY DEF Locks
  <2>2. call[u].cid \in db.commits
    BY <1>1, <2>1 DEF Data
  <2> QED
    BY <1>1, <2>1, <2>2, AloneInside
<1>2. pc'[t] = p
  BY DEF Locks
<1> QED
  BY <1>1, <1>2 DEF Data

LEMMA DataContinue ==
    ASSUME Locks, Calls, Data, NEW t \in Thread, Continue(t)
    PROVE  Data'
<1> USE DEF Written
<1>1. CASE BeginCommit(t)
  <2>1. /\ Enter(t) /\ pc' = [pc EXCEPT ![t] = "insert"]
        /\ UNCHANGED <<db, call>>
    BY <1>1 DEF BeginCommit, caller
  <2>2. Sound(db') /\ db.commits \subseteq db'.commits
    BY <2>1 DEF Data
  <2> QED
    BY <2>1, <2>2, DataEnter, DataFrame
<1>2. CASE InsertCommit(t)
  <2> DEFINE c == call[t].cid
  <2>1. pc[t] = "insert" /\ UNCHANGED <<saved, call>>
    BY <1>2 DEF InsertCommit, caller
  <2>2. IsCommit(c)
    BY <2>1 DEF Calls, Made
  <2>3. CASE /\ c.root \in db.objects
             /\ \A p \in Parents(c) : p \in db.commits /\ p.artifact = c.artifact
             /\ db' = [db EXCEPT !.commits = @ \cup {c}]
             /\ pc' = [pc EXCEPT ![t] = "advance"]
    <3>1. Sound(db') /\ db'.commits = db.commits \cup {c}
      BY <2>2, <2>3, AddCommit DEF Data
    <3> QED
      BY <2>1, <2>3, <3>1, DataWrite
  <2>4. CASE UNCHANGED db /\ pc' = [pc EXCEPT ![t] = "raise"]
    BY <2>1, <2>4, DataWrite DEF Data
  <2> QED
    BY <1>2, <2>3, <2>4 DEF InsertCommit
<1>3. CASE CasAdvance(t)
  <2> DEFINE ref == call[t].ref
             c == call[t].cid
  <2>1. pc[t] = "advance" /\ UNCHANGED <<saved, call>>
    BY <1>3 DEF CasAdvance, caller
  <2>2. ref \in Ref /\ c \in db.commits /\ c.artifact = ref[1]
    BY <2>1 DEF Calls, Made, Placed, Data
  <2>3. ASSUME NEW p, db' = [db EXCEPT !.refs[ref] = c],
               pc' = [pc EXCEPT ![t] = p]
        PROVE  Data'
    <3>1. Sound(db') /\ db'.commits = db.commits
      BY <2>2, <2>3, MoveHead DEF Data
    <3> QED
      BY <2>1, <2>2, <2>3, <3>1, DataWrite
  <2>4. ASSUME NEW p, db' = db, pc' = [pc EXCEPT ![t] = p]
        PROVE  Data'
    BY <2>1, <2>2, <2>4, DataWrite DEF Data
  <2> QED
    BY <1>3, <2>3, <2>4 DEF CasAdvance
<1>4. CASE Mirror(t)
  <2> DEFINE ref == call[t].ref
             c == call[t].cid
  <2>1. /\ pc[t] \in {"mirror new", "mirror"}
        /\ pc' = [pc EXCEPT ![t] = "capture"]
        /\ UNCHANGED <<saved, call>>
    BY <1>4 DEF Mirror, caller
  <2>2. ref \in Ref /\ c \in db.commits
    BY <2>1 DEF Calls, Made, Placed, Data
  <2>3. CASE db' = [db EXCEPT !.branches[ref] = c]
    <3>1. Sound(db') /\ db'.commits = db.commits
      BY <2>2, <2>3, MoveMirror DEF Data
    <3> QED
      BY <2>1, <2>2, <3>1, DataWrite
  <2>4. CASE db' = db
    BY <2>1, <2>2, <2>4, DataWrite DEF Data
  <2> QED
    BY <1>4, <2>3, <2>4 DEF Mirror
<1>5. CASE Capture(t)
  <2>1. /\ pc[t] = "capture" /\ pc' = [pc EXCEPT ![t] = "captured"]
        /\ Enter(t) /\ db' = [db EXCEPT !.claimed = @ \cup {call[t].cid}]
        /\ call' = call
    BY <1>5 DEF Capture, caller
  <2>2. call[t].cid \in db.commits
    BY <2>1 DEF Data
  <2>3. Sound(db') /\ db'.commits = db.commits
    BY <2>1, <2>2, AddClaims DEF Data
  <2> QED
    BY <2>1, <2>3, DataEnter, DataFrame
<1>6. ASSUME NEW p \in States \ Written, pc' = [pc EXCEPT ![t] = p],
             \/ saved # <<>> /\ saved' = SubSeq(saved, 1, Len(saved) - 1)
             \/ saved = <<>> /\ saved' = saved,
             UNCHANGED <<db, call>>
      PROVE  Data'
  <2>1. \A i \in 1..Len(saved') : Sound(saved'[i])
    BY <1>6, DataPop
  <2>2. Sound(db') /\ db.commits \subseteq db'.commits
    BY <1>6 DEF Data
  <2> QED
    BY <1>6, <2>1, <2>2, DataFrame
<1>7. CASE EndCapture(t)
  BY <1>6, <1>7 DEF EndCapture, Leave, States, Resting, Framed, Committing
<1>8. CASE EndCommit(t)
  BY <1>6, <1>8 DEF EndCommit, Leave, States, Resting, Framed, Committing, caller
<1>9. CASE EndBatch(t)
  BY <1>6, <1>9 DEF EndBatch, Leave, States, Resting, Framed, Committing, caller
<1>10. ASSUME NEW p \in States \ Written, pc' = [pc EXCEPT ![t] = p],
              UNCHANGED <<db, saved>>,
              \A u \in Thread \ {t} : call'[u] = call[u]
       PROVE  Data'
  BY <1>10, DataWrite DEF Data
<1>11. CASE Acknowledge(t)
  BY <1>10, <1>11 DEF Acknowledge, States, Resting, Framed, Committing, Calls
<1>12. CASE Fail(t)
  BY <1>10, <1>12 DEF Fail, States, Resting, Framed, Committing, Calls
<1>13. CASE AbortBatch(t)
  BY <1>10, <1>13 DEF AbortBatch, States, Resting, Framed, Committing, caller
<1>14. CASE BeginBranch(t)
  <2>1. /\ Enter(t) /\ pc' = [pc EXCEPT ![t] = "fork"]
        /\ UNCHANGED <<db, call>>
    BY <1>14 DEF BeginBranch, caller
  <2>2. Sound(db') /\ db.commits \subseteq db'.commits
    BY <2>1 DEF Data
  <2> QED
    BY <2>1, <2>2, DataEnter, DataFrame
<1>15. CASE Fork(t)
  <2> DEFINE ref == call[t].ref
             c == call[t].cid
  <2>1. pc[t] = "fork" /\ UNCHANGED <<saved, call>>
    BY <1>15 DEF Fork, caller
  <2>2. ref \in Ref
    BY <2>1 DEF Calls, Placed
  <2>3. CASE /\ c \in db.commits /\ c.artifact = ref[1]
             /\ db' = [db EXCEPT !.refs[ref] = c]
             /\ pc' = [pc EXCEPT ![t] = "fork mirror"]
    <3>1. Sound(db') /\ db'.commits = db.commits
      BY <2>2, <2>3, MoveHead DEF Data
    <3> QED
      BY <2>1, <2>3, <3>1, DataWrite
  <2>4. CASE UNCHANGED db /\ pc' = [pc EXCEPT ![t] = "raise"]
    BY <2>1, <2>4, DataWrite DEF Data
  <2> QED
    BY <1>15, <2>3, <2>4 DEF Fork
<1>16. CASE ForkMirror(t)
  <2> DEFINE ref == call[t].ref
             c == call[t].cid
  <2>1. pc[t] = "fork mirror" /\ UNCHANGED <<saved, call>>
    BY <1>16 DEF ForkMirror
  <2>2. ref \in Ref /\ c \in db.commits
    BY <2>1 DEF Calls, Placed, Data
  <2>3. CASE /\ db' = [db EXCEPT !.branches[ref] = c]
             /\ pc' = [pc EXCEPT ![t] = "leave"]
    <3>1. Sound(db') /\ db'.commits = db.commits
      BY <2>2, <2>3, MoveMirror DEF Data
    <3> QED
      BY <2>1, <2>3, <3>1, DataWrite
  <2>4. CASE UNCHANGED db /\ pc' = [pc EXCEPT ![t] = "raise"]
    BY <2>1, <2>4, DataWrite DEF Data
  <2> QED
    BY <1>16, <2>3, <2>4 DEF ForkMirror
<1>17. CASE Unwind(t)
  <2>1. /\ pc[t] = "raise" /\ call' = call
        /\ \/ saved # <<>> /\ saved' = SubSeq(saved, 1, Len(saved) - 1)
           \/ saved = <<>> /\ saved' = saved
        /\ \/ saved # <<>> /\ db' = saved[Len(saved)]
           \/ db' = db
    BY <1>17 DEF Unwind, caller
  <2>2. depth[t] > 0
    <3>1. Fits(depth[t], "raise")
      BY <2>1 DEF Locks
    <3> QED
      BY <3>1 DEF Fits, Resting, Framed, Committing
  <2>3. Sound(db')
    BY <2>1, TopIsSound DEF Data
  <2>4. \A i \in 1..Len(saved') : Sound(saved'[i])
    BY <2>1, DataPop
  <2>5. PICK p \in {"failed", "raise"} : pc' = [pc EXCEPT ![t] = p]
    BY <1>17 DEF Unwind
  <2> QED
    BY <2>1, <2>2, <2>3, <2>4, <2>5, DataFrame
<1> QED
  BY <1>1, <1>2, <1>3, <1>4, <1>5, <1>7, <1>8, <1>9, <1>11, <1>12, <1>13,
     <1>14, <1>15, <1>16, <1>17 DEF Continue

LEMMA DataRequest ==
    ASSUME Locks, Calls, Data, NEW t \in Thread, Request(t)
    PROVE  Data'
<1> USE DEF Written
<1>1. ASSUME NEW p, p \notin Written, pc' = [pc EXCEPT ![t] = p],
             UNCHANGED saved,
             Sound(db') /\ db.commits \subseteq db'.commits,
             \A u \in Thread \ {t} : call'[u] = call[u]
      PROVE  Data'
  BY <1>1, DataWrite
<1>2. Sound(db)
  BY DEF Data
<1>3. ASSUME NEW root \in Content, PutBlob(root)
      PROVE  Sound(db') /\ db.commits \subseteq db'.commits
  BY <1>2, <1>3, AddObject DEF PutBlob
<1>4. ASSUME NEW ref \in Ref, ReadHead(t, ref)
      PROVE  Data'
  BY <1>1, <1>2, <1>4 DEF ReadHead, Calls
<1>5. ASSUME NEW ref \in Ref, ReadTheirs(t, ref)
      PROVE  Data'
  BY <1>5 DEF ReadTheirs, Data
<1>6. ASSUME NEW ref \in Ref, AskBranch(t, ref)
      PROVE  Data'
  BY <1>1, <1>2, <1>6 DEF AskBranch, Calls
<1>7. ASSUME NEW root \in Content, NEW stamp \in Stamp, Prepare(t, root, stamp)
      PROVE  Data'
  <2>1. Sound(db') /\ db.commits \subseteq db'.commits
    BY <1>3, <1>7 DEF Prepare
  <2>2. \A u \in Thread \ {t} : call'[u] = call[u]
    BY <1>7 DEF Prepare, Calls
  <2>3. pc' = [pc EXCEPT ![t] = "commit"] /\ UNCHANGED saved
    BY <1>7 DEF Prepare
  <2> QED
    BY <1>1, <2>1, <2>2, <2>3
<1>8. CASE BeginBatch(t)
  <2>1. /\ Enter(t) /\ pc' = [pc EXCEPT ![t] = "batch"]
        /\ UNCHANGED <<db, call>>
    BY <1>8 DEF BeginBatch, caller
  <2> QED
    BY <1>2, <2>1, DataEnter, DataFrame
<1>9. ASSUME NEW ref \in Ref, NEW root \in Content, NEW stamp \in Stamp,
             BatchCommit(t, ref, root, stamp)
      PROVE  Data'
  <2>1. Sound(db') /\ db.commits \subseteq db'.commits
    BY <1>3, <1>9 DEF BatchCommit
  <2>2. \A u \in Thread \ {t} : call'[u] = call[u]
    BY <1>9 DEF BatchCommit, Calls
  <2>3. pc' = [pc EXCEPT ![t] = "commit"] /\ UNCHANGED saved
    BY <1>9 DEF BatchCommit
  <2> QED
    BY <1>1, <2>1, <2>2, <2>3
<1> QED
  BY <1>4, <1>5, <1>6, <1>7, <1>8, <1>9 DEF Request

\* A tombstone, committed or not, touches no commit; a stray db.commit() only
\* forgets snapshots.
LEMMA DataDelete ==
    ASSUME Data, NEW a \in Artifact, Delete(a)
    PROVE  Data'
<1>1. CASE EnsureTombstones(a) \/ CommitTombstone(a)
  BY <1>1, EmptySeq DEF EnsureTombstones, CommitTombstone, caller, Data
<1>2. CASE InsertTombstone(a)
  <2>1. Sound(db') /\ db'.commits = db.commits
    BY <1>2, AddTombstone DEF InsertTombstone, Data
  <2> QED
    BY <1>2, <2>1 DEF InsertTombstone, caller, Data
<1> QED
  BY <1>1, <1>2 DEF Delete

\* What a crash leaves is the bottom of the stack.
LEMMA DurableIsSound ==
    ASSUME Locks, Data
    PROVE  Sound(Durable)
<1>1. CASE saved = <<>>
  BY <1>1 DEF Durable, Data
<1>2. CASE saved # <<>>
  <2>1. 1 \in 1..Len(saved)
    BY <1>2, Pop DEF Locks
  <2> QED
    BY <1>2, <2>1 DEF Durable, Data
<1> QED
  BY <1>1, <1>2

LEMMA DataNext == Locks /\ Calls /\ Data /\ [Next]_vars => Data'
<1> SUFFICES ASSUME Locks, Calls, Data, [Next]_vars
             PROVE  Data'
  OBVIOUS
<1>1. CASE Crash
  <2>1. db' = Durable /\ saved' = <<>> /\ \A t \in Thread : pc'[t] = "idle"
    BY <1>1 DEF Crash
  <2>2. Sound(db')
    BY <2>1, DurableIsSound
  <2>3. \A i \in 1..Len(saved') : Sound(saved'[i])
    BY <2>1, EmptySeq
  <2>4. \A t \in Thread : pc'[t] \notin Written
    BY <2>1 DEF Written
  <2> QED
    BY <2>2, <2>3, <2>4 DEF Data
<1>2. CASE UNCHANGED vars
  BY <1>2 DEF vars, Data
<1> QED
  BY <1>1, <1>2, DataContinue, DataRequest, DataDelete DEF Next

-----------------------------------------------------------------------------
(* The theorems.                                                           *)

\* The parts of the type invariant the others do not need.
Rest ==
    /\ files \subseteq Content
    /\ removal \in [Artifact -> {"none", "ensured", "inserted", "deleted"}]

LEMMA RestInit == Init => Rest
<1>1. RootContent \in Content
  BY StoreAssumption DEF RootContent
<1> QED
  BY <1>1 DEF Init, Rest

LEMMA RestNext == Rest /\ [Next]_vars => Rest'
<1> SUFFICES ASSUME Rest, [Next]_vars
             PROVE  Rest'
  OBVIOUS
<1> USE DEF Rest
<1>1. ASSUME NEW t \in Thread, Continue(t)
      PROVE  Rest'
  BY <1>1 DEF Continue, BeginCommit, InsertCommit, CasAdvance, Mirror, Capture, EndCapture,
     EndCommit, Acknowledge, BeginBranch, Fork, ForkMirror, EndBatch, AbortBatch, Unwind, Fail
<1>2. ASSUME NEW t \in Thread, Request(t)
      PROVE  Rest'
  BY <1>2 DEF Request, ReadHead, ReadTheirs, AskBranch, Prepare, BeginBatch, BatchCommit, PutBlob
<1>3. ASSUME NEW a \in Artifact, Delete(a)
      PROVE  Rest'
  BY <1>3 DEF Delete, EnsureTombstones, InsertTombstone, CommitTombstone
<1>4. CASE Crash
  BY <1>4 DEF Crash
<1>5. CASE UNCHANGED vars
  BY <1>5 DEF vars
<1> QED
  BY <1>1, <1>2, <1>3, <1>4, <1>5 DEF Next

\* The inductive invariant.
IndInv == Locks /\ Calls /\ Data /\ Rest

LEMMA Inductive == Spec => []IndInv
<1>1. Init => IndInv
  BY LocksInit, CallsInit, DataInit, RestInit DEF IndInv
<1>2. IndInv /\ [Next]_vars => IndInv'
  BY LocksNext, CallsNext, DataNext, RestNext DEF IndInv
<1> QED
  BY <1>1, <1>2, PTL DEF Spec

\* Every thread, table and snapshot always has its type, with blind commits,
\* deletions and crashes allowed.
THEOREM TypeCorrect == Spec => []TypeOK
<1>1. IndInv => TypeOK
  BY DEF IndInv, Locks, Calls, Data, Sound, Rest, TypeOK
<1> QED
  BY <1>1, Inductive, PTL

\* The history is closed in the tables readers see and in those a crash leaves.
THEOREM HistoryIsClosed == Spec => []HistoryClosed
<1>1. ASSUME IndInv
      PROVE  HistoryClosed
  BY <1>1, DurableIsSound DEF IndInv, Data, Sound, HistoryClosed
<1> QED
  BY <1>1, Inductive, PTL

\* So does every branch head resolve to a commit of its own artifact.
THEOREM HeadsAlwaysResolve == Spec => []HeadsResolve
<1>1. ASSUME IndInv
      PROVE  HeadsResolve
  BY <1>1, DurableIsSound DEF IndInv, Data, Sound, Tables, HeadsResolve
<1> QED
  BY <1>1, Inductive, PTL

-----------------------------------------------------------------------------
(* Branches only move forward.                                             *)

\* The tables e are d after some transactions: commits stay, and a head moves
\* at most to one of its children.
Forward(d, e) ==
    /\ d.commits \subseteq e.commits
    /\ \A ref \in Ref :
          d.refs[ref] \notin {NoCommit, e.refs[ref]} => d.refs[ref] \in Parents(e.refs[ref])

Planned == {"commit", "insert", "advance"}

Unstarted == {"idle", "read", "branch", "fork", "fork mirror"}

\* What a thread has planned and not done yet: it has moved nothing of the
\* artifact, and the head it expects is a parent of its commit; when it expects
\* none it holds the lock and there is none.
Plan(t) ==
    /\ pc[t] \in Unstarted => pending[t] = {}
    /\ pc[t] \in Planned =>
          /\ \A m \in pending[t] : m.ref[1] # call[t].ref[1]
          /\ call[t].expected # NoCommit => call[t].expected \in Parents(call[t].cid)
          /\ call[t].expected = NoCommit => depth[t] > 0 /\ db.refs[call[t].ref] = NoCommit
    /\ pc[t] = "read" => IsStack(base[t]) /\ base[t] # <<>> /\ base[t][1] # NoCommit

Plans == \A t \in Thread : Plan(t)

\* The heads an open transaction may have moved.
Touched(t, ref) ==
    \/ pc[t] = "raise"
    \/ \E m \in pending[t] : m.ref[1] = ref[1]
    \/ /\ pc[t] \in {"mirror new", "mirror", "capture", "captured", "fork mirror"}
       /\ ref = call[t].ref

\* The tables and every snapshot are forward of what a crash leaves, and differ
\* from it only where the open transaction has moved a head.
Moves ==
    /\ Forward(Durable, db)
    /\ \A i \in 1..Len(saved) : Forward(Durable, saved[i])
    /\ \A t \in Thread : depth[t] > 0 =>
          \A ref \in Ref : db.refs[ref] # Durable.refs[ref] => Touched(t, ref)

\* Outside every frame a thread moves no head.
LEMMA OutsideKeepsRefs ==
    ASSUME Locks, Data, NEW t \in Thread, Continue(t) \/ Request(t), depth[t] = 0
    PROVE  db'.refs = db.refs
<1>1. DOMAIN db = {"objects", "commits", "refs", "branches", "claimed", "tombs"}
  BY DEF Data, Sound, Tables
<1>2. pc[t] \notin Framed \cup Committing \cup {"captured", "raise"}
  BY DEF Locks, Fits
<1>3. CASE Continue(t)
  BY <1>2, <1>3 DEF Continue, BeginCommit, InsertCommit, CasAdvance, Mirror, Capture, EndCapture,
     EndCommit, Acknowledge, BeginBranch, Fork, ForkMirror, EndBatch, AbortBatch, Unwind, Fail,
     Framed, Committing
<1>4. CASE Request(t)
  BY <1>1, <1>2, <1>4 DEF Request, ReadHead, ReadTheirs, AskBranch, Prepare, BeginBatch,
     BatchCommit, PutBlob, Framed
<1> QED
  BY <1>3, <1>4

\* A thread's step leaves the plans of the others alone.
LEMMA PlansStep ==
    ASSUME Locks, Data, Plans, NEW t \in Thread, Continue(t) \/ Request(t),
           \A u \in Thread \ {t} :
              /\ pc'[u] = pc[u] /\ depth'[u] = depth[u]
              /\ call'[u] = call[u] /\ base'[u] = base[u] /\ pending'[u] = pending[u],
           Plan(t)'
    PROVE  Plans'
<1>1. ASSUME NEW u \in Thread \ {t}
      PROVE  Plan(u)'
  <2>1. depth[u] > 0 => db'.refs = db.refs
    <3>1. depth[u] > 0 => depth[t] = 0
      BY DEF Locks
    <3> QED
      BY <3>1, OutsideKeepsRefs
  <2>2. Plan(u)
    BY DEF Plans
  <2> QED
    BY <2>1, <2>2 DEF Plan
<1> QED
  BY <1>1 DEF Plans

\* The steps that put a thread where nothing is planned any more, or where it
\* only goes on with what it had planned.
LEMMA PlansGoOn ==
    ASSUME Locks, Calls, Data, Plans, NEW t \in Thread, Continue(t) \/ Request(t), NEW p,
           pc' = [pc EXCEPT ![t] = p],
           \A u \in Thread \ {t} : depth'[u] = depth[u],
           UNCHANGED <<call, base>>,
           pending' = pending,
           p # "read",
           p \in Unstarted => pc[t] \in Unstarted,
           p \in Planned => /\ pc[t] \in Planned
                            /\ depth[t] > 0 => depth'[t] > 0
                            /\ db'.refs = db.refs
    PROVE  Plans'
<1>1. pc'[t] = p /\ \A u \in Thread \ {t} : pc'[u] = pc[u]
  BY DEF Locks
<1>2. Plan(t)
  BY DEF Plans
<1>3. Plan(t)'
  BY <1>1, <1>2 DEF Plan
<1> QED
  BY <1>1, <1>3, PlansStep

LEMMA PlansContinue ==
    ASSUME Locks, Calls, Data, Plans, NEW t \in Thread, Continue(t)
    PROVE  Plans'
<1> USE DEF Unstarted, Planned
<1>0. /\ DOMAIN db = {"objects", "commits", "refs", "branches", "claimed", "tombs"}
      /\ DOMAIN pc = Thread /\ DOMAIN depth = Thread
  BY DEF Data, Sound, Tables, Locks
<1>1. CASE BeginCommit(t)
  <2>1. /\ pc[t] = "commit" /\ pc' = [pc EXCEPT ![t] = "insert"]
        /\ depth' = [depth EXCEPT ![t] = @ + 1]
        /\ UNCHANGED <<db, call, base, pending>>
    BY <1>1 DEF BeginCommit, Enter, caller
  <2>2. depth'[t] = depth[t] + 1 /\ \A u \in Thread \ {t} : depth'[u] = depth[u]
    BY <1>0, <2>1
  <2>3. depth[t] > 0 => depth'[t] > 0
    BY <2>2 DEF Locks
  <2> QED
    BY <2>1, <2>2, <2>3, PlansGoOn
<1>2. CASE InsertCommit(t)
  <2>1. /\ pc[t] = "insert" /\ UNCHANGED <<depth, call, base, pending>>
        /\ \/ pc' = [pc EXCEPT ![t] = "advance"]
           \/ pc' = [pc EXCEPT ![t] = "raise"]
        /\ db'.refs = db.refs
    BY <1>0, <1>2 DEF InsertCommit, caller
  <2> QED
    BY <2>1, PlansGoOn
<1>3. CASE CasAdvance(t)
  BY <1>3, PlansGoOn DEF CasAdvance, caller
<1>4. CASE Mirror(t)
  BY <1>4, PlansGoOn DEF Mirror, caller
<1>5. CASE Capture(t)
  <2>1. \A u \in Thread \ {t} : depth'[u] = depth[u]
    BY <1>0, <1>5 DEF Capture, Enter
  <2> QED
    BY <1>5, <2>1, PlansGoOn DEF Capture, caller
<1>6. CASE EndCapture(t)
  <2>1. PICK p \in {"leave", "failed", "raise"} : pc' = [pc EXCEPT ![t] = p]
    BY <1>6 DEF EndCapture, Leave
  <2>2. Plan(t)'
    BY <1>0, <2>1 DEF Plan
  <2>3. \A u \in Thread \ {t} : /\ pc'[u] = pc[u] /\ depth'[u] = depth[u]
                                /\ call'[u] = call[u] /\ base'[u] = base[u]
                                /\ pending'[u] = pending[u]
    BY <1>0, <1>6, <2>1 DEF EndCapture, Leave, Calls
  <2> QED
    BY <2>2, <2>3, PlansStep
<1>7. CASE EndCommit(t)
  <2>1. \A u \in Thread \ {t} : depth'[u] = depth[u]
    BY <1>0, <1>7 DEF EndCommit, Leave
  <2>2. PICK p \in {"done", "batch", "failed", "raise"} : pc' = [pc EXCEPT ![t] = p]
    BY <1>7 DEF EndCommit, Leave
  <2>3. UNCHANGED <<call, base, pending>>
    BY <1>7 DEF EndCommit, caller
  <2> QED
    BY <2>1, <2>2, <2>3, PlansGoOn
<1>8. ASSUME pc' = [pc EXCEPT ![t] = "idle"],
             UNCHANGED depth,
             call' = [call EXCEPT ![t] = Idle],
             base' = [base EXCEPT ![t] = <<>>],
             pending' = [pending EXCEPT ![t] = {}]
      PROVE  Plans'
  <2>1. Plan(t)'
    BY <1>0, <1>8 DEF Plan, Calls
  <2>2. \A u \in Thread \ {t} : /\ pc'[u] = pc[u] /\ depth'[u] = depth[u]
                                /\ call'[u] = call[u] /\ base'[u] = base[u]
                                /\ pending'[u] = pending[u]
    BY <1>0, <1>8 DEF Calls
  <2> QED
    BY <2>1, <2>2, PlansStep
<1>9. CASE Acknowledge(t)
  BY <1>8, <1>9 DEF Acknowledge
<1>10. CASE Fail(t)
  BY <1>8, <1>10 DEF Fail
<1>11. CASE BeginBranch(t)
  <2>1. \A u \in Thread \ {t} : depth'[u] = depth[u]
    BY <1>0, <1>11 DEF BeginBranch, Enter
  <2> QED
    BY <1>11, <2>1, PlansGoOn DEF BeginBranch, caller
<1>12. CASE Fork(t)
  BY <1>12, PlansGoOn DEF Fork, caller
<1>13. CASE ForkMirror(t)
  <2>1. PICK p \in {"leave", "raise"} : pc' = [pc EXCEPT ![t] = p]
    BY <1>13 DEF ForkMirror
  <2>2. Plan(t)'
    BY <1>0, <2>1 DEF Plan
  <2>3. \A u \in Thread \ {t} : /\ pc'[u] = pc[u] /\ depth'[u] = depth[u]
                                /\ call'[u] = call[u] /\ base'[u] = base[u]
                                /\ pending'[u] = pending[u]
    BY <1>0, <1>13, <2>1 DEF ForkMirror, Calls
  <2> QED
    BY <2>2, <2>3, PlansStep
<1>14. CASE EndBatch(t)
  <2>1. \A u \in Thread \ {t} : depth'[u] = depth[u]
    BY <1>0, <1>14 DEF EndBatch, Leave
  <2>2. PICK p \in {"done", "failed", "raise"} : pc' = [pc EXCEPT ![t] = p]
    BY <1>14 DEF EndBatch, Leave
  <2>3. UNCHANGED <<call, base, pending>>
    BY <1>14 DEF EndBatch, caller
  <2> QED
    BY <2>1, <2>2, <2>3, PlansGoOn
<1>15. CASE AbortBatch(t)
  BY <1>15, PlansGoOn DEF AbortBatch, caller
<1>16. CASE Unwind(t)
  <2>1. \A u \in Thread \ {t} : depth'[u] = depth[u]
    BY <1>0, <1>16 DEF Unwind
  <2>2. PICK p \in {"failed", "raise"} : pc' = [pc EXCEPT ![t] = p]
    BY <1>16 DEF Unwind
  <2>3. UNCHANGED <<call, base, pending>>
    BY <1>16 DEF Unwind, caller
  <2> QED
    BY <2>1, <2>2, <2>3, PlansGoOn
<1> QED
  BY <1>1, <1>2, <1>3, <1>4, <1>5, <1>6, <1>7, <1>9, <1>10, <1>11, <1>12, <1>13,
     <1>14, <1>15, <1>16 DEF Continue

\* The parents a commit lists are the elements of the list it was made from.
LEMMA ParentsListed ==
    ASSUME NEW a, NEW root, NEW s, NEW stamp
    PROVE  Parents(CommitId(a, root, s, stamp)) = {s[i] : i \in DOMAIN s}
BY DEF Parents, CommitId, Multiplicity

\* A list of heads that was read.
LEMMA Heads ==
    ASSUME NEW x
    PROVE  /\ IsStack(<<x>>) /\ <<x>> # <<>> /\ <<x>>[1] = x
           /\ DOMAIN <<x>> = {1}
BY SeqIsStack DEF IsStack

LEMMA StackDomain ==
    ASSUME NEW s, IsStack(s), s # <<>>
    PROVE  1 \in DOMAIN s
<1>1. Len(s) \in Nat \ {0} /\ DOMAIN s = 1..Len(s)
  BY Pop, LenProperties DEF IsStack
<1> QED
  BY <1>1

LEMMA PlansRequest ==
    ASSUME BlindCommits = FALSE,
           Locks, Calls, Data, Plans, NEW t \in Thread, Request(t)
    PROVE  Plans'
<1> USE DEF Unstarted, Planned
<1>0. /\ DOMAIN db = {"objects", "commits", "refs", "branches", "claimed", "tombs"}
      /\ DOMAIN pc = Thread /\ DOMAIN depth = Thread
      /\ DOMAIN call = Thread /\ DOMAIN base = Thread /\ DOMAIN pending = Thread
  BY DEF Data, Sound, Tables, Locks, Calls
<1>1. Plan(t)
  BY DEF Plans
<1>2. ASSUME NEW p, pc' = [pc EXCEPT ![t] = p],
             UNCHANGED <<depth, pending>>,
             \A u \in Thread \ {t} : call'[u] = call[u] /\ base'[u] = base[u],
             Plan(t)'
      PROVE  Plans'
  <2>1. \A u \in Thread \ {t} : pc'[u] = pc[u]
    BY <1>0, <1>2
  <2> QED
    BY <1>2, <2>1, PlansStep
<1>3. ASSUME NEW ref \in Ref, ReadHead(t, ref)
      PROVE  Plans'
  <2>1. /\ pc[t] = "idle" /\ pc' = [pc EXCEPT ![t] = "read"]
        /\ db.refs[ref] # NoCommit
        /\ base' = [base EXCEPT ![t] = <<db.refs[ref]>>]
        /\ call' = [call EXCEPT ![t].ref = ref]
        /\ UNCHANGED <<depth, pending>>
    BY <1>3 DEF ReadHead
  <2>2. pc'[t] = "read" /\ base'[t] = <<db.refs[ref]>> /\ pending'[t] = {}
    BY <1>0, <1>1, <2>1 DEF Plan
  <2>3. Plan(t)'
    BY <2>1, <2>2, Heads DEF Plan
  <2>4. \A u \in Thread \ {t} : call'[u] = call[u] /\ base'[u] = base[u]
    BY <1>0, <2>1
  <2> QED
    BY <1>2, <2>1, <2>3, <2>4
<1>4. ASSUME NEW ref \in Ref, ReadTheirs(t, ref)
      PROVE  Plans'
  <2>1. /\ pc[t] = "read" /\ pc' = [pc EXCEPT ![t] = "read"]
        /\ base' = [base EXCEPT ![t] = Append(@, db.refs[ref])]
        /\ UNCHANGED <<depth, call, pending>>
    <3>1. pc[t] = "read" /\ pc' = pc
      BY <1>4 DEF ReadTheirs
    <3>2. pc' = [pc EXCEPT ![t] = "read"]
      BY <3>1 DEF Locks
    <3> QED
      BY <1>4, <3>1, <3>2 DEF ReadTheirs
  <2>2. base'[t] = Append(base[t], db.refs[ref])
    BY <1>0, <2>1
  <2>3. IsStack(base[t]) /\ base[t] # <<>> /\ base[t][1] # NoCommit
    BY <1>1, <2>1 DEF Plan
  <2>4. IsStack(base'[t]) /\ base'[t] # <<>>
    BY <2>2, <2>3, Push
  <2>5. 1 \in 1..Len(base[t])
    BY <2>3, Pop
  <2>6. base'[t][1] # NoCommit
    BY <2>2, <2>3, <2>5, Push
  <2>7. Plan(t)'
    BY <1>0, <1>1, <2>1, <2>4, <2>6 DEF Plan
  <2>8. \A u \in Thread \ {t} : call'[u] = call[u] /\ base'[u] = base[u]
    BY <1>0, <2>1
  <2> QED
    BY <1>2, <2>1, <2>7, <2>8
<1>5. ASSUME NEW ref \in Ref, AskBranch(t, ref)
      PROVE  Plans'
  <2>1. /\ pc[t] = "idle" /\ pc' = [pc EXCEPT ![t] = "branch"]
        /\ UNCHANGED <<depth, base, pending>>
        /\ \A u \in Thread \ {t} : call'[u] = call[u]
    BY <1>0, <1>5 DEF AskBranch
  <2>2. Plan(t)'
    BY <1>0, <1>1, <2>1 DEF Plan
  <2> QED
    BY <1>2, <2>1, <2>2
<1>6. ASSUME NEW root \in Content, NEW stamp \in Stamp, Prepare(t, root, stamp)
      PROVE  Plans'
  <2> DEFINE cid == CommitId(call[t].ref[1], root, base[t], stamp)
  <2>1. pc[t] = "read" /\ pc' = [pc EXCEPT ![t] = "commit"] /\ UNCHANGED <<depth, base, pending>>
    BY <1>6 DEF Prepare
  <2>2. IsStack(base[t]) /\ base[t] # <<>> /\ base[t][1] # NoCommit /\ pending[t] = {}
    BY <1>1, <2>1 DEF Plan
  <2>3. call' = [call EXCEPT ![t].expected = base[t][1], ![t].cid = cid]
    BY <1>6, <2>2 DEF Prepare
  <2>4. call'[t].expected = base[t][1] /\ call'[t].cid = cid
    <3>1. DOMAIN call[t] = {"ref", "expected", "cid"}
      BY DEF Calls
    <3> HIDE DEF cid
    <3> QED
      BY <1>0, <2>3, <3>1
  <2>5. base[t][1] \in Parents(cid)
    BY <2>2, ParentsListed, StackDomain
  <2> HIDE DEF cid
  <2>6. pc'[t] = "commit" /\ pending'[t] = {}
    BY <1>0, <2>1, <2>2
  <2>7. Plan(t)'
    BY <2>2, <2>4, <2>5, <2>6 DEF Plan
  <2>8. \A u \in Thread \ {t} : call'[u] = call[u]
    BY <1>0, <2>3
  <2> QED
    BY <1>2, <2>1, <2>7, <2>8
<1>7. CASE BeginBatch(t)
  <2>1. \A u \in Thread \ {t} : depth'[u] = depth[u]
    BY <1>0, <1>7 DEF BeginBatch, Enter
  <2> QED
    BY <1>7, <2>1, PlansGoOn DEF BeginBatch, caller
<1>8. ASSUME NEW ref \in Ref, NEW root \in Content, NEW stamp \in Stamp,
             BatchCommit(t, ref, root, stamp)
      PROVE  Plans'
  <2> DEFINE head == db.refs[ref]
             parents == IF head = NoCommit THEN <<>> ELSE <<head>>
             cid == CommitId(ref[1], root, parents, stamp)
  <2>1. /\ pc[t] = "batch" /\ pc' = [pc EXCEPT ![t] = "commit"]
        /\ \A m \in pending[t] : m.ref[1] # ref[1]
        /\ call' = [call EXCEPT ![t] = [ref |-> ref, expected |-> head, cid |-> cid]]
        /\ db' = [db EXCEPT !.objects = @ \cup {root}]
        /\ UNCHANGED <<depth, base, pending>>
    BY <1>8 DEF BatchCommit, PutBlob
  <2>2. /\ call'[t].ref = ref /\ call'[t].expected = head /\ call'[t].cid = cid
        /\ pc'[t] = "commit" /\ pending'[t] = pending[t]
        /\ \A u \in Thread \ {t} : call'[u] = call[u]
    BY <1>0, <2>1
  <2>3. head # NoCommit => head \in Parents(cid)
    BY ParentsListed, Heads
  <2>4. db'.refs = db.refs
    BY <1>0, <2>1
  <2>5. depth'[t] > 0
    <3>1. Fits(depth[t], "batch")
      BY <2>1 DEF Locks
    <3>2. depth[t] = 1
      BY <3>1 DEF Fits, Framed
    <3> QED
      BY <2>1, <3>2
  <2> HIDE DEF cid
  <2>6. Plan(t)'
    BY <2>1, <2>2, <2>3, <2>4, <2>5 DEF Plan
  <2> QED
    BY <1>2, <2>1, <2>2, <2>6
<1> QED
  BY <1>3, <1>4, <1>5, <1>6, <1>7, <1>8 DEF Request

LEMMA PlansNext ==
    ASSUME BlindCommits = FALSE
    PROVE  Locks /\ Calls /\ Data /\ Plans /\ [Next]_vars => Plans'
<1> SUFFICES ASSUME Locks, Calls, Data, Plans, [Next]_vars
             PROVE  Plans'
  OBVIOUS
<1> USE DEF Plans, Plan
<1>1. DOMAIN db = {"objects", "commits", "refs", "branches", "claimed", "tombs"}
  BY DEF Data, Sound, Tables
<1>2. ASSUME NEW a \in Artifact, Delete(a)
      PROVE  Plans'
  <2>1. db'.refs = db.refs /\ UNCHANGED <<pc, depth, call, base, pending>>
    BY <1>1, <1>2 DEF Delete, EnsureTombstones, InsertTombstone, CommitTombstone, caller
  <2> QED
    BY <2>1
<1>3. CASE Crash
  BY <1>3 DEF Crash, Unstarted, Planned
<1>4. CASE UNCHANGED vars
  BY <1>4 DEF vars
<1> QED
  BY <1>2, <1>3, <1>4, PlansContinue, PlansRequest DEF Next

\* What happens to the durable tables when a frame is entered or left.
LEMMA DurableEnter ==
    ASSUME Locks, NEW t \in Thread, Enter(t)
    PROVE  Durable' = Durable
<1>1. CASE saved = <<>>
  <2>1. saved' # <<>> /\ saved'[1] = db
    BY <1>1, Push, EmptySeq DEF Enter, Locks
  <2> QED
    BY <1>1, <2>1 DEF Durable
<1>2. CASE saved # <<>>
  <2>1. 1 \in 1..Len(saved)
    BY <1>2, Pop DEF Locks
  <2>2. saved' # <<>> /\ saved'[1] = saved[1]
    BY <2>1, Push DEF Enter, Locks
  <2> QED
    BY <1>2, <2>2 DEF Durable
<1> QED
  BY <1>1, <1>2

LEMMA DurablePop ==
    ASSUME Locks, saved # <<>>, saved' = SubSeq(saved, 1, Len(saved) - 1)
    PROVE  /\ Len(saved) = 1 => saved' = <<>> /\ Durable' = db' /\ Durable = saved[Len(saved)]
           /\ Len(saved) # 1 => Durable' = Durable
<1>1. /\ Len(saved) \in Nat \ {0}
      /\ saved' = <<>> <=> Len(saved) = 1
      /\ \A i \in 1..(Len(saved) - 1) : saved'[i] = saved[i]
  BY Pop DEF Locks
<1>2. CASE Len(saved) = 1
  BY <1>1, <1>2 DEF Durable
<1>3. CASE Len(saved) # 1
  <2>1. 1 \in 1..(Len(saved) - 1)
    BY <1>1, <1>3
  <2>2. saved' # <<>> /\ saved'[1] = saved[1]
    BY <1>1, <1>3, <2>1
  <2> QED
    BY <1>3, <2>2 DEF Durable
<1> QED
  BY <1>2, <1>3

LEMMA ForwardSame ==
    ASSUME NEW d, NEW e, d.commits \subseteq e.commits, e.refs = d.refs
    PROVE  Forward(d, e)
BY DEF Forward

LEMMA ForwardThen ==
    ASSUME NEW d, NEW e, NEW f, Forward(d, e), e.commits \subseteq f.commits, f.refs = e.refs
    PROVE  Forward(d, f)
BY DEF Forward

\* A head that is still the durable one moves to a child of itself.
LEMMA ForwardMove ==
    ASSUME NEW d, NEW e, NEW f, Forward(d, e), e.commits \subseteq f.commits,
           NEW ref \in Ref, NEW c,
           e.refs \in [Ref -> e.commits \cup {NoCommit}],
           f.refs = [e.refs EXCEPT ![ref] = c],
           d.refs[ref] = e.refs[ref],
           e.refs[ref] = NoCommit \/ e.refs[ref] \in Parents(c)
    PROVE  Forward(d, f)
BY DEF Forward

\* Leaving a frame publishes the tables, or nothing yet.
LEMMA MovesPop ==
    ASSUME Locks, Moves, NEW t \in Thread, NEW p,
           pc' = [pc EXCEPT ![t] = p],
           depth' = [depth EXCEPT ![t] = @ - 1],
           UNCHANGED db,
           \/ saved # <<>> /\ saved' = SubSeq(saved, 1, Len(saved) - 1)
           \/ saved = <<>> /\ saved' = saved,
           \A ref \in Ref : db.refs[ref] # Durable.refs[ref] => Touched(t, ref)',
           depth[t] > 0
    PROVE  Moves' /\ Forward(Durable, Durable')
<1>1. \A u \in Thread \ {t} : depth'[u] = 0
  BY DEF Locks
<1>2. CASE saved = <<>>
  <2>1. Durable' = db /\ Durable = db /\ saved' = saved
    BY <1>2 DEF Durable
  <2> QED
    BY <1>1, <2>1, ForwardSame DEF Moves
<1>3. CASE saved # <<>> /\ Len(saved) = 1
  <2>1. saved' = <<>> /\ Durable' = db
    BY <1>3, DurablePop
  <2>2. Forward(db, db)
    BY ForwardSame
  <2> QED
    BY <2>1, <2>2, EmptySeq DEF Moves
<1>4. CASE saved # <<>> /\ Len(saved) # 1
  <2>1. Durable' = Durable
    BY <1>4, DurablePop
  <2>2. \A i \in 1..Len(saved') : Forward(Durable, saved'[i])
    BY <1>4, Pop DEF Moves, Locks
  <2>3. Forward(Durable, Durable)
    BY ForwardSame
  <2> QED
    BY <1>1, <2>1, <2>2, <2>3 DEF Moves
<1> QED
  BY <1>2, <1>3, <1>4

\* A write inside or outside a frame: durable at once when nothing is open.
LEMMA MovesWrite ==
    ASSUME Locks, Moves, NEW t \in Thread,
           Forward(Durable, db'), UNCHANGED <<saved, depth>>,
           \A u \in Thread : depth[u] > 0 =>
              \A ref \in Ref : db'.refs[ref] # Durable.refs[ref] => Touched(u, ref)'
    PROVE  Moves' /\ Forward(Durable, Durable')
<1>1. CASE saved = <<>>
  <2>1. Durable' = db' /\ Len(saved') = 0
    BY <1>1, EmptySeq DEF Durable
  <2>2. Forward(db', db')
    BY ForwardSame
  <2> QED
    BY <2>1, <2>2 DEF Moves
<1>2. CASE saved # <<>>
  <2>1. Durable' = Durable
    BY <1>2 DEF Durable
  <2>2. Forward(Durable, Durable)
    BY ForwardSame
  <2> QED
    BY <2>1, <2>2 DEF Moves
<1> QED
  BY <1>1, <1>2

LEMMA MovesInside ==
    ASSUME Locks, Moves, NEW t \in Thread, depth[t] > 0,
           Forward(Durable, db'), UNCHANGED <<saved, depth>>,
           \A ref \in Ref : db'.refs[ref] # Durable.refs[ref] => Touched(t, ref)'
    PROVE  Moves' /\ Forward(Durable, Durable')
<1>1. \A u \in Thread : depth[u] > 0 => u = t
  BY DEF Locks
<1> QED
  BY <1>1, MovesWrite

LEMMA MovesEnter ==
    ASSUME Locks, Moves, NEW t \in Thread, Enter(t),
           db'.refs = db.refs, db.commits \subseteq db'.commits,
           \A ref \in Ref : Touched(t, ref) => Touched(t, ref)'
    PROVE  Moves' /\ Forward(Durable, Durable')
<1>1. Durable' = Durable
  BY DurableEnter
<1>2. Forward(Durable, db')
  BY ForwardThen DEF Moves
<1>3. \A i \in 1..Len(saved') : Forward(Durable, saved'[i])
  BY Push DEF Enter, Locks, Moves
<1>4. ASSUME NEW u \in Thread, depth'[u] > 0, NEW ref \in Ref, db'.refs[ref] # Durable.refs[ref]
      PROVE  Touched(u, ref)'
  <2>1. u = t
    BY <1>4 DEF Enter, LockFreeFor, Locks
  <2>2. CASE depth[t] = 0
    <3>1. saved = <<>>
      BY <2>2 DEF Enter, LockFreeFor, Locks
    <3> QED
      BY <1>4, <3>1 DEF Durable
  <2>3. CASE depth[t] # 0
    <3>1. depth[t] > 0
      BY <2>3 DEF Locks
    <3> QED
      BY <1>4, <2>1, <3>1 DEF Moves
  <2> QED
    BY <2>2, <2>3
<1>5. Forward(Durable, Durable)
  BY ForwardSame
<1> QED
  BY <1>1, <1>2, <1>3, <1>4, <1>5 DEF Moves

\* Outside every frame: the tables gain at most an object row.
LEMMA MovesOutside ==
    ASSUME Locks, Moves, NEW t \in Thread, depth[t] = 0,
           db'.refs = db.refs, db.commits \subseteq db'.commits,
           UNCHANGED <<saved, depth>>,
           \A u \in Thread \ {t} : pc'[u] = pc[u] /\ call'[u] = call[u] /\ pending'[u] = pending[u]
    PROVE  Moves' /\ Forward(Durable, Durable')
<1>1. Forward(Durable, db')
  BY ForwardThen DEF Moves
<1>2. ASSUME NEW u \in Thread, depth[u] > 0, NEW ref \in Ref, db'.refs[ref] # Durable.refs[ref]
      PROVE  Touched(u, ref)'
  <2>1. u \in Thread \ {t}
    BY <1>2
  <2>2. Touched(u, ref)
    BY <1>2 DEF Moves
  <2> QED
    BY <2>1, <2>2 DEF Touched
<1> QED
  BY <1>1, <1>2, MovesWrite

\* Past the first statement of a transaction a thread has a frame open.
LEMMA InFrame ==
    ASSUME Locks, NEW t \in Thread, pc[t] \in Framed \cup Committing \cup {"captured", "raise"}
    PROVE  depth[t] > 0
BY DEF Locks, Fits

\* Where a thread that is about to move a head stands: inside a frame, with
\* the head as the last transaction left it.
LEMMA HeadUntouched ==
    ASSUME Locks, Plans, Calls, Moves, NEW t \in Thread, pc[t] \in {"advance", "fork"}
    PROVE  /\ depth[t] > 0
           /\ call[t].ref \in Ref
           /\ db.refs[call[t].ref] = Durable.refs[call[t].ref]
<1>2. depth[t] > 0
  BY InFrame DEF Framed, Committing
<1>3. call[t].ref \in Ref
  BY DEF Calls, Placed, Made
<1>4. ~Touched(t, call[t].ref)
  BY DEF Touched, Plans, Plan, Planned, Unstarted
<1> QED
  BY <1>2, <1>3, <1>4 DEF Moves

\* Moving one head.
LEMMA MovesAdvance ==
    ASSUME Locks, Data, Moves, NEW t \in Thread, depth[t] > 0, UNCHANGED <<saved, depth>>,
           NEW ref \in Ref, NEW c,
           db.refs[ref] = Durable.refs[ref],
           db' = [db EXCEPT !.refs[ref] = c],
           db.refs[ref] = NoCommit \/ db.refs[ref] \in Parents(c),
           \A r \in Ref : Touched(t, r) => Touched(t, r)',
           Touched(t, ref)'
    PROVE  Moves' /\ Forward(Durable, Durable')
<1>1. /\ DOMAIN db = {"objects", "commits", "refs", "branches", "claimed", "tombs"}
      /\ db.refs \in [Ref -> db.commits \cup {NoCommit}]
  BY DEF Data, Sound, Tables
<1>2. db'.refs = [db.refs EXCEPT ![ref] = c] /\ db'.commits = db.commits
  BY <1>1
<1>3. Forward(Durable, db) /\ db.commits \subseteq db'.commits
  BY <1>2 DEF Moves
<1>4. Forward(Durable, db')
  BY <1>1, <1>2, <1>3, ForwardMove
<1>5. ASSUME NEW r \in Ref, db'.refs[r] # Durable.refs[r]
      PROVE  Touched(t, r)'
  <2>1. CASE r = ref
    BY <2>1
  <2>2. CASE r # ref
    <3>1. db'.refs[r] = db.refs[r]
      BY <1>1, <1>2, <2>2
    <3> QED
      BY <1>5, <3>1 DEF Moves
  <2> QED
    BY <2>1, <2>2
<1> QED
  BY <1>4, <1>5, MovesInside

LEMMA MovesContinue ==
    ASSUME Locks, Calls, Data, Plans, Moves, NEW t \in Thread, Continue(t)
    PROVE  Moves' /\ Forward(Durable, Durable')
<1>0. /\ DOMAIN db = {"objects", "commits", "refs", "branches", "claimed", "tombs"}
      /\ db.refs \in [Ref -> db.commits \cup {NoCommit}]
      /\ DOMAIN pc = Thread /\ DOMAIN depth = Thread
      /\ DOMAIN call = Thread /\ DOMAIN pending = Thread
  BY DEF Data, Sound, Tables, Locks, Calls
<1>1. CASE BeginCommit(t)
  <2>1. \A ref \in Ref : Touched(t, ref) => Touched(t, ref)'
    BY <1>1 DEF BeginCommit, caller, Touched
  <2> QED
    BY <1>1, <2>1, MovesEnter DEF BeginCommit
<1>2. CASE InsertCommit(t)
  <2>1. pc[t] = "insert" /\ UNCHANGED <<saved, depth, call, pending>>
    BY <1>2 DEF InsertCommit, caller
  <2>2. depth[t] > 0
    BY <2>1, InFrame DEF Committing
  <2>3. db'.refs = db.refs /\ db.commits \subseteq db'.commits
    BY <1>0, <1>2 DEF InsertCommit
  <2>4. Forward(Durable, db')
    BY <2>3, ForwardThen DEF Moves
  <2>5. \A ref \in Ref : Touched(t, ref) => Touched(t, ref)'
    BY <2>1 DEF Touched
  <2>6. \A ref \in Ref : db'.refs[ref] # Durable.refs[ref] => Touched(t, ref)'
    BY <2>2, <2>3, <2>5 DEF Moves
  <2> QED
    BY <2>1, <2>2, <2>4, <2>6, MovesInside
<1>3. ASSUME pc[t] \in {"advance", "fork"},
             UNCHANGED <<saved, depth, call, pending>>,
             \/ UNCHANGED db
             \/ /\ db' = [db EXCEPT !.refs[call[t].ref] = call[t].cid]
                /\ pc'[t] \in {"mirror new", "mirror", "fork mirror"}
                /\ \/ db.refs[call[t].ref] = NoCommit
                   \/ db.refs[call[t].ref] \in Parents(call[t].cid)
      PROVE  Moves' /\ Forward(Durable, Durable')
  <2> DEFINE ref == call[t].ref
             c == call[t].cid
  <2>1. depth[t] > 0 /\ ref \in Ref /\ db.refs[ref] = Durable.refs[ref]
    BY <1>3, HeadUntouched
  <2>2. \A r \in Ref : db.refs[r] # Durable.refs[r] => Touched(t, r)'
    <3>1. \A r \in Ref : Touched(t, r) => Touched(t, r)'
      BY <1>3 DEF Touched
    <3> QED
      BY <2>1, <3>1 DEF Moves
  <2>3. CASE UNCHANGED db
    <3>1. Forward(Durable, db')
      BY <2>3 DEF Moves
    <3> QED
      BY <1>3, <2>1, <2>2, <2>3, <3>1, MovesInside
  <2>4. CASE /\ db' = [db EXCEPT !.refs[ref] = c]
             /\ pc'[t] \in {"mirror new", "mirror", "fork mirror"}
             /\ db.refs[ref] = NoCommit \/ db.refs[ref] \in Parents(c)
    <3>1. Touched(t, ref)'
      BY <1>3, <2>4 DEF Touched
    <3>2. \A r \in Ref : Touched(t, r) => Touched(t, r)'
      BY <1>3 DEF Touched
    <3>3. PICK r, x : r = call[t].ref /\ x = call[t].cid
      OBVIOUS
    <3>4. /\ r \in Ref /\ db.refs[r] = Durable.refs[r] /\ depth[t] > 0
          /\ db' = [db EXCEPT !.refs[r] = x]
          /\ db.refs[r] = NoCommit \/ db.refs[r] \in Parents(x)
          /\ Touched(t, r)'
          /\ UNCHANGED <<saved, depth>>
      BY <1>3, <2>1, <2>4, <3>1, <3>3
    <3> QED
      BY <3>2, <3>4, MovesAdvance
  <2> QED
    BY <1>3, <2>3, <2>4
<1>4. CASE CasAdvance(t)
  <2>1. pc[t] = "advance" /\ UNCHANGED <<saved, depth, call, pending>>
    BY <1>4 DEF CasAdvance, caller
  <2>2. /\ call[t].expected # NoCommit => call[t].expected \in Parents(call[t].cid)
        /\ call[t].expected = NoCommit => db.refs[call[t].ref] = NoCommit
    BY <2>1 DEF Plans, Plan, Planned
  <2>3. \/ UNCHANGED db
        \/ /\ db' = [db EXCEPT !.refs[call[t].ref] = call[t].cid]
           /\ pc'[t] \in {"mirror new", "mirror", "fork mirror"}
           /\ \/ db.refs[call[t].ref] = NoCommit
              \/ db.refs[call[t].ref] \in Parents(call[t].cid)
    BY <1>0, <1>4, <2>2 DEF CasAdvance
  <2> QED
    BY <1>3, <2>1, <2>3
<1>5. CASE Fork(t)
  <2>1. pc[t] = "fork" /\ UNCHANGED <<saved, depth, call, pending>>
    BY <1>5 DEF Fork, caller
  <2>2. \/ UNCHANGED db
        \/ /\ db' = [db EXCEPT !.refs[call[t].ref] = call[t].cid]
           /\ pc'[t] \in {"mirror new", "mirror", "fork mirror"}
           /\ db.refs[call[t].ref] = NoCommit
    BY <1>0, <1>5 DEF Fork
  <2> QED
    BY <1>3, <2>1, <2>2
<1>6. ASSUME depth[t] > 0, UNCHANGED <<saved, depth>>,
             db'.refs = db.refs, db.commits \subseteq db'.commits,
             \A ref \in Ref : Touched(t, ref) => Touched(t, ref)'
      PROVE  Moves' /\ Forward(Durable, Durable')
  <2>1. Forward(Durable, db')
    BY <1>6, ForwardThen DEF Moves
  <2>2. \A ref \in Ref : db'.refs[ref] # Durable.refs[ref] => Touched(t, ref)'
    BY <1>6 DEF Moves
  <2> QED
    BY <1>6, <2>1, <2>2, MovesInside
<1>7. CASE Mirror(t)
  <2>1. pc[t] \in {"mirror new", "mirror"} /\ pc' = [pc EXCEPT ![t] = "capture"]
    BY <1>7 DEF Mirror
  <2>2. depth[t] > 0
    BY <2>1, InFrame DEF Committing
  <2>3. \A ref \in Ref : Touched(t, ref) => Touched(t, ref)'
    BY <1>0, <1>7, <2>1 DEF Mirror, caller, Touched
  <2>4. db'.refs = db.refs /\ db'.commits = db.commits
    BY <1>0, <1>7 DEF Mirror
  <2> QED
    BY <1>6, <1>7, <2>2, <2>3, <2>4 DEF Mirror
<1>8. CASE Capture(t)
  <2>1. \A ref \in Ref : Touched(t, ref) => Touched(t, ref)'
    BY <1>0, <1>8 DEF Capture, caller, Touched
  <2>2. db'.refs = db.refs /\ db'.commits = db.commits
    BY <1>0, <1>8 DEF Capture
  <2> QED
    BY <1>8, <2>1, <2>2, MovesEnter DEF Capture
<1>9. ASSUME depth[t] > 0, NEW p, pc' = [pc EXCEPT ![t] = p],
             depth' = [depth EXCEPT ![t] = @ - 1],
             UNCHANGED db,
             \/ saved # <<>> /\ saved' = SubSeq(saved, 1, Len(saved) - 1)
             \/ saved = <<>> /\ saved' = saved,
             \A ref \in Ref : Touched(t, ref) => Touched(t, ref)'
      PROVE  Moves' /\ Forward(Durable, Durable')
  <2>1. \A ref \in Ref : db.refs[ref] # Durable.refs[ref] => Touched(t, ref)'
    BY <1>9 DEF Moves
  <2> QED
    BY <1>9, <2>1, MovesPop
<1>10. CASE EndCapture(t)
  <2>1. depth[t] > 0
    BY <1>10, InFrame DEF EndCapture
  <2>2. pending'[t] = pending[t] \cup {[ref |-> call[t].ref, cid |-> call[t].cid]}
    BY <1>0, <1>10 DEF EndCapture
  <2>3. \A ref \in Ref : Touched(t, ref) => Touched(t, ref)'
    <3>1. pc[t] = "captured" /\ call' = call
      BY <1>10 DEF EndCapture
    <3>2. \A m \in pending[t] : m \in pending'[t]
      BY <2>2
    <3>3. \E m \in pending'[t] : m.ref[1] = call[t].ref[1]
      <4> DEFINE m == [ref |-> call[t].ref, cid |-> call[t].cid]
      <4>1. m \in pending'[t] /\ m.ref = call[t].ref
        BY <2>2
      <4> QED
        BY <4>1
    <3> QED
      BY <3>1, <3>2, <3>3 DEF Touched
  <2>4. PICK p : pc' = [pc EXCEPT ![t] = p]
    BY <1>10 DEF EndCapture, Leave
  <2> QED
    BY <1>9, <1>10, <2>1, <2>3, <2>4 DEF EndCapture, Leave
<1>11. CASE EndCommit(t)
  <2>1. depth[t] > 0
    BY <1>11, InFrame DEF EndCommit, Committing
  <2>2. \A ref \in Ref : Touched(t, ref) => Touched(t, ref)'
    BY <1>0, <1>11 DEF EndCommit, Touched, caller
  <2>3. PICK p : pc' = [pc EXCEPT ![t] = p]
    BY <1>11 DEF EndCommit, Leave
  <2> QED
    BY <1>9, <1>11, <2>1, <2>2, <2>3 DEF EndCommit, Leave
<1>12. CASE EndBatch(t)
  <2>1. depth[t] > 0
    BY <1>12, InFrame DEF EndBatch, Framed
  <2>2. \A ref \in Ref : Touched(t, ref) => Touched(t, ref)'
    BY <1>0, <1>12 DEF EndBatch, Touched, caller
  <2>3. PICK p : pc' = [pc EXCEPT ![t] = p]
    BY <1>12 DEF EndBatch, Leave
  <2> QED
    BY <1>9, <1>12, <2>1, <2>2, <2>3 DEF EndBatch, Leave
<1>13. CASE AbortBatch(t)
  <2>1. depth[t] > 0
    BY <1>13, InFrame DEF AbortBatch, Framed
  <2>2. \A ref \in Ref : Touched(t, ref) => Touched(t, ref)'
    BY <1>0, <1>13 DEF AbortBatch, Touched
  <2> QED
    BY <1>6, <1>13, <2>1, <2>2 DEF AbortBatch
<1>14. CASE ForkMirror(t)
  <2>1. depth[t] > 0
    BY <1>14, InFrame DEF ForkMirror, Framed
  <2>2. /\ pc[t] = "fork mirror" /\ pending[t] = {} /\ UNCHANGED call
        /\ \/ pc'[t] = "leave" /\ pending'[t] = {[ref |-> call[t].ref, cid |-> call[t].cid]}
           \/ pc'[t] = "raise"
    BY <1>0, <1>14 DEF ForkMirror, Plans, Plan, Unstarted
  <2>3. db'.refs = db.refs /\ db'.commits = db.commits
    BY <1>0, <1>14 DEF ForkMirror
  <2>4. \A ref \in Ref : Touched(t, ref) => Touched(t, ref)'
    <3>1. \A ref \in Ref : Touched(t, ref) => ref = call[t].ref
      BY <2>2 DEF Touched
    <3>2. CASE pc'[t] = "leave" /\ pending'[t] = {[ref |-> call[t].ref, cid |-> call[t].cid]}
      <4>1. \E m \in pending'[t] : m.ref[1] = call[t].ref[1]
        BY <3>2
      <4> QED
        BY <3>1, <4>1 DEF Touched
    <3>3. CASE pc'[t] = "raise"
      BY <3>3 DEF Touched
    <3> QED
      BY <2>2, <3>2, <3>3
  <2> QED
    BY <1>6, <1>14, <2>1, <2>3, <2>4 DEF ForkMirror
<1>15. CASE BeginBranch(t)
  <2>1. \A ref \in Ref : Touched(t, ref) => Touched(t, ref)'
    BY <1>15 DEF BeginBranch, caller, Touched
  <2> QED
    BY <1>15, <2>1, MovesEnter DEF BeginBranch
<1>16. ASSUME depth[t] = 0, UNCHANGED <<db, saved, depth>>,
              \A u \in Thread \ {t} : pc'[u] = pc[u] /\ call'[u] = call[u] /\ pending'[u] = pending[u]
       PROVE  Moves' /\ Forward(Durable, Durable')
  BY <1>16, MovesOutside
<1>17. CASE Acknowledge(t)
  <2>1. depth[t] = 0
    BY <1>17 DEF Acknowledge, Locks, Fits, Resting
  <2> QED
    BY <1>0, <1>16, <1>17, <2>1 DEF Acknowledge
<1>18. CASE Fail(t)
  <2>1. depth[t] = 0
    BY <1>18 DEF Fail, Locks, Fits, Resting
  <2> QED
    BY <1>0, <1>16, <1>18, <2>1 DEF Fail
<1>19. CASE Unwind(t)
  <2>1. /\ pc[t] = "raise" /\ UNCHANGED <<call, pending>>
        /\ depth' = [depth EXCEPT ![t] = @ - 1]
        /\ pc' = [pc EXCEPT ![t] = IF depth[t] = 1 THEN "failed" ELSE "raise"]
    BY <1>19 DEF Unwind, caller
  <2>2. depth[t] > 0
    BY <2>1, InFrame
  <2>3. \A u \in Thread : depth'[u] > 0 => u = t /\ pc'[t] = "raise"
    BY <1>0, <2>1, <2>2 DEF Locks
  <2>4. \A u \in Thread : depth'[u] > 0 => \A ref \in Ref : Touched(u, ref)'
    BY <2>3 DEF Touched
  <2>5. Forward(Durable, Durable)
    BY ForwardSame
  <2>6. CASE saved = <<>> /\ UNCHANGED <<db, saved>>
    BY <2>4, <2>5, <2>6 DEF Moves, Durable
  <2>7. CASE /\ saved # <<>> /\ db' = saved[Len(saved)]
             /\ saved' = SubSeq(saved, 1, Len(saved) - 1)
    <3>1. Len(saved) \in 1..Len(saved)
      BY <2>7, Pop DEF Locks
    <3>2. Forward(Durable, db')
      BY <2>7, <3>1 DEF Moves
    <3>3. CASE Len(saved) = 1
      <4>1. saved' = <<>> /\ Durable' = Durable /\ Durable = db'
        BY <2>7, <3>3, DurablePop
      <4> QED
        BY <2>4, <2>5, <4>1, EmptySeq DEF Moves
    <3>4. CASE Len(saved) # 1
      <4>1. Durable' = Durable
        BY <2>7, <3>4, DurablePop
      <4>2. \A i \in 1..Len(saved') : Forward(Durable, saved'[i])
        BY <2>7, Pop DEF Moves, Locks
      <4> QED
        BY <2>4, <2>5, <3>2, <4>1, <4>2 DEF Moves
    <3> QED
      BY <3>3, <3>4
  <2> QED
    BY <1>19, <2>6, <2>7 DEF Unwind
<1> QED
  BY <1>1, <1>2, <1>4, <1>5, <1>7, <1>8, <1>10, <1>11, <1>12, <1>13, <1>14, <1>15,
     <1>17, <1>18, <1>19 DEF Continue

LEMMA MovesRequest ==
    ASSUME Locks, Calls, Data, Plans, Moves, NEW t \in Thread, Request(t)
    PROVE  Moves' /\ Forward(Durable, Durable')
<1>0. /\ DOMAIN db = {"objects", "commits", "refs", "branches", "claimed", "tombs"}
      /\ DOMAIN pc = Thread /\ DOMAIN call = Thread
  BY DEF Data, Sound, Tables, Locks, Calls
<1>1. ASSUME pc[t] \in Resting,
             db'.refs = db.refs, db.commits \subseteq db'.commits,
             UNCHANGED <<saved, depth, pending>>,
             \A u \in Thread \ {t} : pc'[u] = pc[u] /\ call'[u] = call[u]
      PROVE  Moves' /\ Forward(Durable, Durable')
  <2>1. depth[t] = 0
    BY <1>1 DEF Locks, Fits
  <2> QED
    BY <1>1, <2>1, MovesOutside
<1>2. ASSUME NEW ref \in Ref, ReadHead(t, ref)
      PROVE  Moves' /\ Forward(Durable, Durable')
  BY <1>0, <1>1, <1>2 DEF ReadHead, Resting
<1>3. ASSUME NEW ref \in Ref, ReadTheirs(t, ref)
      PROVE  Moves' /\ Forward(Durable, Durable')
  BY <1>0, <1>1, <1>3 DEF ReadTheirs, Resting
<1>4. ASSUME NEW ref \in Ref, AskBranch(t, ref)
      PROVE  Moves' /\ Forward(Durable, Durable')
  BY <1>0, <1>1, <1>4 DEF AskBranch, Resting
<1>5. ASSUME NEW root \in Content, PutBlob(root)
      PROVE  db'.refs = db.refs /\ db'.commits = db.commits
  BY <1>0, <1>5 DEF PutBlob
<1>6. ASSUME NEW root \in Content, NEW stamp \in Stamp, Prepare(t, root, stamp)
      PROVE  Moves' /\ Forward(Durable, Durable')
  <2>1. /\ pc[t] \in Resting
        /\ UNCHANGED <<saved, depth, pending>>
        /\ \A u \in Thread \ {t} : pc'[u] = pc[u] /\ call'[u] = call[u]
    BY <1>0, <1>6 DEF Prepare, Resting
  <2> QED
    BY <1>1, <1>5, <1>6, <2>1 DEF Prepare
<1>7. CASE BeginBatch(t)
  <2>1. \A ref \in Ref : Touched(t, ref) => Touched(t, ref)'
    BY <1>7 DEF BeginBatch, caller, Touched
  <2> QED
    BY <1>7, <2>1, MovesEnter DEF BeginBatch
<1>8. ASSUME NEW ref \in Ref, NEW root \in Content, NEW stamp \in Stamp,
             BatchCommit(t, ref, root, stamp)
      PROVE  Moves' /\ Forward(Durable, Durable')
  <2>1. pc[t] = "batch" /\ UNCHANGED <<saved, depth, pending>>
    BY <1>8 DEF BatchCommit
  <2>2. depth[t] > 0
    BY <2>1, InFrame DEF Framed
  <2>3. db'.refs = db.refs /\ db'.commits = db.commits
    BY <1>5, <1>8 DEF BatchCommit
  <2>4. Forward(Durable, db')
    BY <2>3, ForwardThen DEF Moves
  <2>5. \A r \in Ref : Touched(t, r) => Touched(t, r)'
    BY <2>1 DEF Touched
  <2>6. \A r \in Ref : db'.refs[r] # Durable.refs[r] => Touched(t, r)'
    BY <2>2, <2>3, <2>5 DEF Moves
  <2> QED
    BY <2>1, <2>2, <2>4, <2>6, MovesInside
<1> QED
  BY <1>2, <1>3, <1>4, <1>6, <1>7, <1>8 DEF Request

LEMMA MovesDelete ==
    ASSUME Locks, Data, Moves, NEW a \in Artifact, Delete(a)
    PROVE  Moves' /\ Forward(Durable, Durable')
<1>1. CASE EnsureTombstones(a) \/ CommitTombstone(a)
  <2>1. saved' = <<>> /\ UNCHANGED db /\ Durable' = db
    BY <1>1 DEF EnsureTombstones, CommitTombstone, Durable
  <2>2. Forward(db, db)
    BY ForwardSame
  <2> QED
    BY <2>1, <2>2, EmptySeq DEF Moves
<1>2. CASE InsertTombstone(a)
  <2>1. db'.refs = db.refs /\ db'.commits = db.commits /\ UNCHANGED <<saved, depth, pc, call, pending>>
    BY <1>2 DEF InsertTombstone, Data, Sound, Tables, caller
  <2>2. Forward(Durable, db')
    BY <2>1, ForwardThen DEF Moves
  <2>3. \A u \in Thread : depth[u] > 0 =>
           \A ref \in Ref : db'.refs[ref] # Durable.refs[ref] => Touched(u, ref)'
    BY <2>1 DEF Moves, Touched
  <2>4. CASE saved = <<>>
    <3>1. Durable' = db' /\ Durable = db /\ Len(saved') = 0
      BY <2>1, <2>4, EmptySeq DEF Durable
    <3>2. Forward(db', db')
      BY ForwardSame
    <3> QED
      BY <2>1, <2>2, <3>1, <3>2 DEF Moves
  <2>5. CASE saved # <<>>
    <3>1. Durable' = Durable
      BY <2>1, <2>5 DEF Durable
    <3>2. Forward(Durable, Durable)
      BY ForwardSame
    <3> QED
      BY <2>1, <2>2, <2>3, <3>1, <3>2 DEF Moves
  <2> QED
    BY <2>4, <2>5
<1> QED
  BY <1>1, <1>2 DEF Delete

LEMMA MovesNext ==
    ASSUME Locks, Calls, Data, Plans, Moves, [Next]_vars
    PROVE  Moves' /\ Forward(Durable, Durable')
<1>1. CASE Crash
  <2>1. db' = Durable /\ saved' = <<>> /\ Durable' = Durable /\ \A t \in Thread : depth'[t] = 0
    BY <1>1 DEF Crash, Durable
  <2>2. Forward(Durable, Durable)
    BY ForwardSame
  <2> QED
    BY <2>1, <2>2, EmptySeq DEF Moves
<1>2. CASE UNCHANGED vars
  <2>1. Forward(Durable, Durable)
    BY ForwardSame
  <2> QED
    BY <1>2, <2>1 DEF vars, Moves, Durable, Touched
<1> QED
  BY <1>1, <1>2, MovesContinue, MovesRequest, MovesDelete DEF Next

LEMMA PlansInit == Init => Plans /\ Moves
<1> SUFFICES ASSUME Init
             PROVE  Plans /\ Moves
  OBVIOUS
<1>1. Plans
  BY DEF Init, Plans, Plan, Planned
<1>2. Durable = db /\ Len(saved) = 0 /\ \A t \in Thread : depth[t] = 0
  BY EmptySeq DEF Init, Durable
<1>3. Forward(db, db)
  BY ForwardSame
<1> QED
  BY <1>1, <1>2, <1>3 DEF Moves

\* When every commit names the head it builds on.
LEMMA GuardedInductive ==
    ASSUME BlindCommits = FALSE
    PROVE  Spec => [](IndInv /\ Plans /\ Moves)
<1>1. Init => Plans /\ Moves
  BY PlansInit
<1>2. IndInv /\ (Plans /\ Moves) /\ [Next]_vars => (Plans /\ Moves)'
  BY PlansNext, MovesNext DEF IndInv
<1> QED
  BY <1>1, <1>2, Inductive, PTL DEF Spec

\* If no client commits without naming the head it builds on, no step of any
\* thread, no rollback, no deletion's stray commit and no crash ever takes a
\* branch anywhere but from its head to a child of its head.
THEOREM BranchesOnlyAdvance ==
    ASSUME BlindCommits = FALSE
    PROVE  Spec => FastForward
<1>1. ASSUME IndInv, Plans, Moves, [Next]_vars
      PROVE  \A ref \in Ref :
                Durable.refs[ref] \notin {NoCommit, Durable'.refs[ref]} =>
                    Durable.refs[ref] \in Parents(Durable'.refs[ref])
  BY <1>1, MovesNext DEF IndInv, Forward
<1> QED
  BY <1>1, GuardedInductive, PTL DEF Spec, FastForward

\* And then the durable tables implement the abstract version store.
THEOREM StoreImplementsVersionedRefs ==
    ASSUME BlindCommits = FALSE
    PROVE  Spec => ImplementsVersionedRefs
<1>1. ASSUME IndInv
      PROVE  Abstract!Closed(Durable.commits) /\ Abstract!Resolves(Durable.commits, Durable.refs)
  <2>1. Sound(Durable)
    BY <1>1, DurableIsSound DEF IndInv
  <2> QED
    BY <2>1 DEF Sound, Tables, Abstract!Closed, Abstract!Resolves, Home
<1>2. Init => IndInv
  BY LocksInit, CallsInit, DataInit, RestInit DEF IndInv
<1>3. Init => Abstract!Init
  BY <1>1, <1>2 DEF Abstract!Init
<1>4. ASSUME IndInv, IndInv', Plans, Moves, [Next]_vars
      PROVE  [Abstract!Publish]_<<Durable.commits, Durable.refs>>
  <2>1. Forward(Durable, Durable')
    BY <1>4, MovesNext DEF IndInv
  <2>2. (Abstract!Closed(Durable.commits) /\ Abstract!Resolves(Durable.commits, Durable.refs))'
    BY <1>1, <1>4, PTL
  <2> QED
    BY <2>1, <2>2 DEF Forward, Abstract!Publish
<1> QED
  BY <1>3, <1>4, GuardedInductive, PTL DEF Spec, ImplementsVersionedRefs, Abstract!Spec

-----------------------------------------------------------------------------
(* What a client was told stays true.                                      *)

\* NoCommit stands for SQL's NULL, which is no commit id.
NullIsNoCommit == \A c : IsCommit(c) => c # NoCommit

\* The tables e still hold the commits and the branches of d.
Kept(d, e) ==
    /\ d.commits \subseteq e.commits
    /\ \A ref \in Ref : d.refs[ref] # NoCommit => e.refs[ref] # NoCommit

\* The commit of move m is stored and its branch exists.
Has(d, m) == m.ref \in Ref /\ m.cid \in d.commits /\ d.refs[m.ref] # NoCommit

Advanced == {"mirror new", "mirror", "capture", "captured", "fork mirror"}

\* Whatever is stacked keeps what a crash leaves.
Stacked ==
    /\ Kept(Durable, db)
    /\ \A i \in 1..Len(saved) : Kept(Durable, saved[i])

\* A request that has not failed finds its moves in the tables, and once its
\* transaction has ended in what a crash leaves; a head it has just moved exists.
Promise(t) ==
    /\ pc[t] \notin {"raise", "failed"} =>
          \A m \in pending[t] : Has(IF depth[t] = 0 THEN Durable ELSE db, m)
    /\ pc[t] \in Advanced => Has(db, [ref |-> call[t].ref, cid |-> call[t].cid])

Answers ==
    /\ Stacked
    /\ \A t \in Thread : Promise(t)
    /\ \A m \in acked : Has(Durable, m)

LEMMA KeptSame ==
    ASSUME NEW d, NEW e, d.commits \subseteq e.commits, e.refs = d.refs
    PROVE  Kept(d, e)
BY DEF Kept

LEMMA KeptThen ==
    ASSUME NEW d, NEW e, NEW f, Kept(d, e), Kept(e, f)
    PROVE  Kept(d, f)
BY DEF Kept

LEMMA KeptHas ==
    ASSUME NEW d, NEW e, Kept(d, e), NEW m, Has(d, m)
    PROVE  Has(e, m)
BY DEF Kept, Has

\* A write, durable at once when nothing is open.
LEMMA StackedWrite ==
    ASSUME Stacked, Locks, Kept(db, db'), UNCHANGED saved
    PROVE  Stacked' /\ Kept(Durable, Durable')
<1>1. Kept(Durable, db')
  BY KeptThen DEF Stacked
<1>2. CASE saved = <<>>
  <2>1. Durable' = db' /\ Durable = db /\ Len(saved') = 0
    BY <1>2, EmptySeq DEF Durable
  <2>2. Kept(db', db')
    BY KeptSame
  <2> QED
    BY <2>1, <2>2 DEF Stacked
<1>3. CASE saved # <<>>
  <2>1. Durable' = Durable
    BY <1>3 DEF Durable
  <2>2. Kept(Durable, Durable)
    BY KeptSame
  <2> QED
    BY <1>1, <2>1, <2>2 DEF Stacked
<1> QED
  BY <1>2, <1>3

LEMMA StackedEnter ==
    ASSUME Stacked, Locks, NEW t \in Thread, Enter(t), Kept(db, db')
    PROVE  Stacked' /\ Durable' = Durable
<1>1. Durable' = Durable
  BY DurableEnter
<1>2. Kept(Durable, db')
  BY KeptThen DEF Stacked
<1>3. \A i \in 1..Len(saved') : Kept(Durable, saved'[i])
  BY Push DEF Enter, Locks, Stacked
<1> QED
  BY <1>1, <1>2, <1>3 DEF Stacked

\* Leaving a frame publishes the tables, or nothing yet.
LEMMA StackedPop ==
    ASSUME Stacked, Locks, UNCHANGED db,
           \/ saved # <<>> /\ saved' = SubSeq(saved, 1, Len(saved) - 1)
           \/ saved = <<>> /\ saved' = saved
    PROVE  /\ Stacked' /\ Kept(Durable, Durable')
           /\ Len(saved) \in {0, 1} => Durable' = db
<1>1. CASE saved = <<>>
  <2>1. Durable' = db' /\ Durable = db /\ Len(saved') = 0
    BY <1>1, EmptySeq DEF Durable
  <2>2. Kept(db, db)
    BY KeptSame
  <2> QED
    BY <2>1, <2>2 DEF Stacked
<1>2. CASE saved # <<>> /\ Len(saved) = 1
  <2>1. saved' = <<>> /\ Durable' = db /\ Len(saved') = 0
    BY <1>2, DurablePop, EmptySeq
  <2>2. Kept(db, db)
    BY KeptSame
  <2> QED
    BY <2>1, <2>2 DEF Stacked
<1>3. CASE saved # <<>> /\ Len(saved) # 1
  <2>1. Durable' = Durable /\ Len(saved) \in Nat \ {0}
    BY <1>3, DurablePop, Pop DEF Locks
  <2>2. \A i \in 1..Len(saved') : Kept(Durable, saved'[i])
    BY <1>3, Pop DEF Stacked, Locks
  <2>3. Kept(Durable, Durable)
    BY KeptSame
  <2>4. Len(saved) \notin {0, 1}
    BY <1>3, <2>1
  <2> QED
    BY <2>1, <2>2, <2>3, <2>4 DEF Stacked
<1> QED
  BY <1>1, <1>2, <1>3

\* An exception restores tables that keep what is durable.
LEMMA StackedUnwind ==
    ASSUME Stacked, Locks, NEW t \in Thread, Unwind(t)
    PROVE  Stacked' /\ Durable' = Durable
<1>1. Kept(Durable, Durable)
  BY KeptSame
<1>2. CASE saved = <<>> /\ UNCHANGED <<db, saved>>
  BY <1>2 DEF Stacked, Durable
<1>3. CASE /\ saved # <<>> /\ db' = saved[Len(saved)]
           /\ saved' = SubSeq(saved, 1, Len(saved) - 1)
  <2>1. Len(saved) \in 1..Len(saved)
    BY <1>3, Pop DEF Locks
  <2>2. Kept(Durable, db')
    BY <1>3, <2>1 DEF Stacked
  <2>3. CASE Len(saved) = 1
    <3>1. saved' = <<>> /\ Durable' = Durable
      BY <1>3, <2>3, DurablePop
    <3> QED
      BY <2>2, <3>1, EmptySeq DEF Stacked
  <2>4. CASE Len(saved) # 1
    <3>1. Durable' = Durable
      BY <1>3, <2>4, DurablePop
    <3>2. \A i \in 1..Len(saved') : Kept(Durable, saved'[i])
      BY <1>3, Pop DEF Stacked, Locks
    <3> QED
      BY <2>2, <3>1, <3>2 DEF Stacked
  <2> QED
    BY <2>3, <2>4
<1> QED
  BY <1>2, <1>3 DEF Unwind

\* Of the other threads only those outside every frame see the durable tables
\* change, and those inside see nothing but more rows.
LEMMA PromiseOthers ==
    ASSUME Locks, NEW t \in Thread, Kept(Durable, Durable'),
           depth[t] = 0 => Kept(db, db'),
           NEW u \in Thread \ {t}, Promise(u),
           pc'[u] = pc[u], depth'[u] = depth[u], call'[u] = call[u], pending'[u] = pending[u]
    PROVE  Promise(u)'
<1>1. CASE depth[u] = 0
  <2>1. pc[u] \notin Framed \cup Committing \cup {"captured", "raise"}
    BY <1>1, InFrame
  <2>2. \A m \in pending[u] : Has(Durable, m) => Has(Durable', m)
    BY KeptHas
  <2> QED
    BY <1>1, <2>1, <2>2 DEF Promise, Advanced, Framed, Committing
<1>2. CASE depth[u] # 0
  <2>1. depth[u] > 0 /\ depth[t] = 0
    BY <1>2 DEF Locks
  <2>2. \A m : Has(db, m) => Has(db', m)
    BY <2>1, KeptHas
  <2> QED
    BY <1>2, <2>2 DEF Promise, Has
<1> QED
  BY <1>1, <1>2

\* A step of one thread.
LEMMA AnswersStep ==
    ASSUME Locks, Answers, NEW t \in Thread, Stacked', Kept(Durable, Durable'),
           depth[t] = 0 => Kept(db, db'),
           \A u \in Thread \ {t} : /\ pc'[u] = pc[u] /\ depth'[u] = depth[u]
                                   /\ call'[u] = call[u] /\ pending'[u] = pending[u],
           Promise(t)',
           acked' \subseteq acked \cup {m \in pending[t] : Has(Durable, m)}
    PROVE  Answers'
<1>1. \A u \in Thread : Promise(u)'
  BY PromiseOthers DEF Answers
<1>2. \A m : Has(Durable, m) => Has(Durable', m)
  BY KeptHas
<1> QED
  BY <1>1, <1>2 DEF Answers, Has

\* Going on inside a frame.
LEMMA AnswersInside ==
    ASSUME Locks, Answers, NEW t \in Thread, NEW p, depth[t] > 0,
           pc' = [pc EXCEPT ![t] = p],
           Kept(db, db'), UNCHANGED <<saved, depth, call, acked>>,
           \A u \in Thread \ {t} : pending'[u] = pending[u],
           p \notin {"raise", "failed"} =>
              /\ pc[t] \notin {"raise", "failed"}
              /\ \A m \in pending'[t] : m \in pending[t] \/ Has(db', m),
           p \in Advanced => Has(db', [ref |-> call[t].ref, cid |-> call[t].cid])
    PROVE  Answers'
<1>1. Stacked' /\ Kept(Durable, Durable')
  BY StackedWrite DEF Answers
<1>2. /\ pc'[t] = p
      /\ \A u \in Thread \ {t} : pc'[u] = pc[u] /\ depth'[u] = depth[u] /\ call'[u] = call[u]
  BY DEF Locks
<1>3. Promise(t) /\ (\A m : Has(db, m) => Has(db', m))
  BY KeptHas DEF Answers
<1>4. Promise(t)'
  BY <1>2, <1>3 DEF Promise, Has
<1> QED
  BY <1>1, <1>2, <1>4, AnswersStep

\* Entering a frame.
LEMMA AnswersEnter ==
    ASSUME Locks, Answers, NEW t \in Thread, NEW p, Enter(t),
           pc' = [pc EXCEPT ![t] = p],
           Kept(db, db'), UNCHANGED <<call, pending, acked>>,
           pc[t] \notin {"raise", "failed"},
           p \in Advanced => Has(db', [ref |-> call[t].ref, cid |-> call[t].cid])
    PROVE  Answers'
<1>1. Stacked' /\ Durable' = Durable
  BY StackedEnter DEF Answers
<1>2. Kept(Durable, Durable') /\ Kept(Durable, db')
  BY <1>1, KeptSame DEF Stacked
<1>3. /\ pc'[t] = p /\ depth'[t] # 0
      /\ \A u \in Thread \ {t} : pc'[u] = pc[u] /\ depth'[u] = depth[u]
  BY DEF Locks, Enter
<1>4. Promise(t) /\ (\A m : Has(db, m) \/ Has(Durable, m) => Has(db', m))
  BY <1>2, KeptHas DEF Answers
<1>5. Promise(t)'
  BY <1>3, <1>4 DEF Promise, Has
<1> QED
  BY <1>1, <1>2, <1>3, <1>5, AnswersStep

\* Leaving a frame: with the last one the moves become durable.
LEMMA AnswersPop ==
    ASSUME Locks, Answers, NEW t \in Thread, NEW p, depth[t] > 0,
           depth' = [depth EXCEPT ![t] = @ - 1],
           pc' = [pc EXCEPT ![t] = p], p \notin Advanced,
           UNCHANGED <<db, call, acked>>,
           \/ saved # <<>> /\ saved' = SubSeq(saved, 1, Len(saved) - 1)
           \/ saved = <<>> /\ saved' = saved,
           \A u \in Thread \ {t} : pending'[u] = pending[u],
           pc[t] \notin {"raise", "failed"},
           \A m \in pending'[t] : m \in pending[t] \/ Has(db, m)
    PROVE  Answers'
<1>1. /\ Stacked' /\ Kept(Durable, Durable')
      /\ Len(saved) \in {0, 1} => Durable' = db
  BY StackedPop DEF Answers
<1>2. /\ pc'[t] = p /\ depth'[t] = depth[t] - 1
      /\ \A u \in Thread \ {t} : pc'[u] = pc[u] /\ depth'[u] = depth[u]
  BY DEF Locks
<1>3. \A m \in pending'[t] : Has(db, m)
  <2>1. Promise(t) /\ depth[t] # 0
    BY DEF Answers, Locks
  <2> QED
    BY <2>1 DEF Promise
<1>4. depth'[t] = 0 => Durable' = db
  <2>1. PICK n \in Nat : n = Len(saved)
    BY Pop, EmptySeq DEF Locks
  <2>2. PICK k \in 0..3 : k = depth[t]
    BY DEF Locks
  <2>3. n <= k
    BY <2>1, <2>2 DEF Locks
  <2>4. depth'[t] = 0 => n \in {0, 1}
    BY <1>2, <2>2, <2>3
  <2> QED
    BY <1>1, <2>1, <2>4
<1>5. Promise(t)'
  BY <1>2, <1>3, <1>4 DEF Promise, Has
<1>6. Kept(db, db')
  BY KeptSame
<1> QED
  BY <1>1, <1>2, <1>5, <1>6, AnswersStep

\* A step outside every frame, where a client may be answered.
LEMMA AnswersOutside ==
    ASSUME Locks, Answers, NEW t \in Thread, NEW p, depth[t] = 0,
           pc' = [pc EXCEPT ![t] = p], p \notin Advanced,
           Kept(db, db'), UNCHANGED <<saved, depth>>,
           \A u \in Thread \ {t} : call'[u] = call[u] /\ pending'[u] = pending[u],
           \/ pending'[t] = {}
           \/ pending'[t] = pending[t] /\ pc[t] \notin {"raise", "failed"},
           acked' \subseteq acked \cup {m \in pending[t] : Has(Durable, m)}
    PROVE  Answers'
<1>1. Stacked' /\ Kept(Durable, Durable')
  BY StackedWrite DEF Answers
<1>2. /\ pc'[t] = p /\ depth'[t] = 0
      /\ \A u \in Thread \ {t} : pc'[u] = pc[u] /\ depth'[u] = depth[u]
  BY DEF Locks
<1>3. Promise(t) /\ (\A m : Has(Durable, m) => Has(Durable', m))
  BY <1>1, KeptHas DEF Answers
<1>4. Promise(t)'
  BY <1>2, <1>3 DEF Promise, Has
<1> QED
  BY <1>1, <1>2, <1>4, AnswersStep

LEMMA AnswersContinue ==
    ASSUME NullIsNoCommit, Locks, Calls, Data, Answers, NEW t \in Thread, Continue(t)
    PROVE  Answers'
<1> DEFINE move == [ref |-> call[t].ref, cid |-> call[t].cid]
<1>0. /\ DOMAIN db = {"objects", "commits", "refs", "branches", "claimed", "tombs"}
      /\ DOMAIN pc = Thread /\ DOMAIN depth = Thread
      /\ DOMAIN call = Thread /\ DOMAIN pending = Thread
  BY DEF Data, Sound, Tables, Locks, Calls
<1>1. Kept(db, db) /\ move.ref = call[t].ref /\ move.cid = call[t].cid
  BY KeptSame
<1>2. Promise(t)
  BY DEF Answers
<1>3. pc[t] \in Advanced => Has(db, move)
  BY <1>2 DEF Promise
<1> HIDE DEF move
<1>4. CASE BeginCommit(t)
  BY <1>1, <1>4, AnswersEnter DEF BeginCommit, caller, Advanced
<1>5. CASE BeginBranch(t)
  BY <1>1, <1>5, AnswersEnter DEF BeginBranch, caller, Advanced
<1>6. CASE Capture(t)
  <2>1. db'.commits = db.commits /\ db'.refs = db.refs
    BY <1>0, <1>6 DEF Capture
  <2>2. Kept(db, db')
    BY <2>1, KeptSame
  <2>3. Has(db', move)
    BY <1>3, <1>6, <2>2, KeptHas DEF Capture, Advanced
  <2> QED
    BY <1>6, <2>2, <2>3, AnswersEnter DEF Capture, caller, move
<1>7. CASE InsertCommit(t)
  <2>1. depth[t] > 0 /\ pc[t] = "insert"
    BY <1>7, InFrame DEF InsertCommit, Committing
  <2>2. db.commits \subseteq db'.commits /\ db'.refs = db.refs
    BY <1>0, <1>7 DEF InsertCommit
  <2>3. Kept(db, db')
    BY <2>2, KeptSame
  <2>4. PICK p \in {"advance", "raise"} : pc' = [pc EXCEPT ![t] = p]
    BY <1>7 DEF InsertCommit
  <2> QED
    BY <1>7, <2>1, <2>3, <2>4, AnswersInside DEF InsertCommit, caller, Advanced
<1>8. ASSUME depth[t] > 0, NEW p, pc' = [pc EXCEPT ![t] = p],
             UNCHANGED <<saved, depth, call, pending, acked>>,
             pc[t] \notin {"raise", "failed"},
             NEW ref, ref = call[t].ref, ref \in Ref,
             NEW c, c = call[t].cid, c \in db.commits,
             \/ UNCHANGED db /\ (p = "raise" \/ db.refs[ref] = c)
             \/ db' = [db EXCEPT !.refs[ref] = c]
      PROVE  Answers'
  <2>1. c # NoCommit
    <3>1. IsCommit(c)
      BY <1>8 DEF Data, Sound, Tables
    <3> QED
      BY <3>1 DEF NullIsNoCommit
  <2>2. Kept(db, db') /\ (p # "raise" => Has(db', move))
    <3>1. CASE UNCHANGED db /\ (p = "raise" \/ db.refs[ref] = c)
      BY <1>1, <1>8, <2>1, <3>1 DEF Has
    <3>2. CASE db' = [db EXCEPT !.refs[ref] = c]
      <4>1. db'.refs = [db.refs EXCEPT ![ref] = c] /\ db'.commits = db.commits
        BY <1>0, <3>2
      <4>2. DOMAIN db.refs = Ref
        BY DEF Data, Sound, Tables
      <4>3. \A r \in Ref : db'.refs[r] = IF r = ref THEN c ELSE db.refs[r]
        BY <4>1, <4>2
      <4> QED
        BY <1>1, <1>8, <2>1, <4>1, <4>3 DEF Has, Kept
    <3> QED
      BY <1>8, <3>1, <3>2
  <2> QED
    BY <1>8, <2>2, AnswersInside DEF move, Advanced
<1>9. CASE CasAdvance(t)
  <2>1. depth[t] > 0 /\ pc[t] = "advance" /\ UNCHANGED <<saved, depth, call, pending, acked>>
    BY <1>9, InFrame DEF CasAdvance, Committing, caller
  <2>2. call[t].ref \in Ref /\ call[t].cid \in db.commits
    BY <2>1 DEF Calls, Placed, Made, Data, Written
  <2> QED
    BY <1>8, <1>9, <2>1, <2>2 DEF CasAdvance
<1>10. CASE Fork(t)
  <2>1. depth[t] > 0 /\ pc[t] = "fork" /\ UNCHANGED <<saved, depth, call, pending, acked>>
    BY <1>10, InFrame DEF Fork, Framed, caller
  <2>2. call[t].ref \in Ref
    BY <2>1 DEF Calls, Placed
  <2>3. CASE /\ call[t].cid \in db.commits
             /\ db' = [db EXCEPT !.refs[call[t].ref] = call[t].cid]
             /\ pc' = [pc EXCEPT ![t] = "fork mirror"]
    BY <1>8, <2>1, <2>2, <2>3
  <2>4. CASE UNCHANGED db /\ pc' = [pc EXCEPT ![t] = "raise"]
    BY <1>1, <2>1, <2>4, AnswersInside DEF Advanced
  <2> QED
    BY <1>10, <2>3, <2>4 DEF Fork
<1>11. CASE Mirror(t)
  <2>1. depth[t] > 0 /\ pc[t] \in {"mirror new", "mirror"}
    BY <1>11, InFrame DEF Mirror, Committing
  <2>2. db'.commits = db.commits /\ db'.refs = db.refs
    BY <1>0, <1>11 DEF Mirror
  <2>3. Kept(db, db')
    BY <2>2, KeptSame
  <2>4. Has(db', move)
    BY <1>3, <2>1, <2>3, KeptHas DEF Advanced
  <2>5. /\ pc' = [pc EXCEPT ![t] = "capture"]
        /\ UNCHANGED <<saved, depth, call, pending, acked>>
    BY <1>11 DEF Mirror, caller
  <2> QED
    BY <2>1, <2>3, <2>4, <2>5, AnswersInside DEF move
<1>12. CASE ForkMirror(t)
  <2>1. depth[t] > 0 /\ pc[t] = "fork mirror" /\ UNCHANGED <<saved, depth, call, acked>>
    BY <1>12, InFrame DEF ForkMirror, Framed
  <2>2. db'.commits = db.commits /\ db'.refs = db.refs
    BY <1>0, <1>12 DEF ForkMirror
  <2>3. Kept(db, db')
    BY <2>2, KeptSame
  <2>4. Has(db', move)
    BY <1>3, <2>1, <2>3, KeptHas DEF Advanced
  <2>5. CASE pending' = [pending EXCEPT ![t] = {move}] /\ pc' = [pc EXCEPT ![t] = "leave"]
    <3>1. pending'[t] = {move} /\ \A u \in Thread \ {t} : pending'[u] = pending[u]
      BY <1>0, <2>5
    <3> QED
      BY <2>1, <2>3, <2>4, <2>5, <3>1, AnswersInside DEF Advanced
  <2>6. CASE UNCHANGED pending /\ pc' = [pc EXCEPT ![t] = "raise"]
    BY <2>1, <2>3, <2>6, AnswersInside DEF Advanced
  <2> QED
    BY <1>12, <2>5, <2>6 DEF ForkMirror, move
<1>13. CASE EndCapture(t)
  <2>1. depth[t] > 0 /\ pc[t] = "captured"
    BY <1>13, InFrame DEF EndCapture
  <2>2. Has(db, move)
    BY <1>3, <2>1 DEF Advanced
  <2>3. /\ pending'[t] = pending[t] \cup {move}
        /\ \A u \in Thread \ {t} : pending'[u] = pending[u]
    BY <1>0, <1>13 DEF EndCapture, move
  <2>4. PICK p \in {"leave", "failed", "raise"} : pc' = [pc EXCEPT ![t] = p]
    BY <1>13 DEF EndCapture, Leave
  <2>5. \A m \in pending'[t] : m \in pending[t] \/ Has(db, m)
    BY <2>2, <2>3
  <2>6. p \notin Advanced
    BY <2>4 DEF Advanced
  <2> QED
    BY <1>13, <2>1, <2>3, <2>4, <2>5, <2>6, AnswersPop DEF EndCapture, Leave
<1>14. CASE EndCommit(t)
  <2>1. depth[t] > 0 /\ pc[t] = "leave"
    BY <1>14, InFrame DEF EndCommit, Committing
  <2>2. PICK p \in {"done", "batch", "failed", "raise"} : pc' = [pc EXCEPT ![t] = p]
    BY <1>14 DEF EndCommit, Leave
  <2>3. p \notin Advanced
    BY <2>2 DEF Advanced
  <2> QED
    BY <1>14, <2>1, <2>2, <2>3, AnswersPop DEF EndCommit, Leave, caller
<1>15. CASE EndBatch(t)
  <2>1. depth[t] > 0 /\ pc[t] = "batch"
    BY <1>15, InFrame DEF EndBatch, Framed
  <2>2. PICK p \in {"done", "failed", "raise"} : pc' = [pc EXCEPT ![t] = p]
    BY <1>15 DEF EndBatch, Leave
  <2>3. p \notin Advanced
    BY <2>2 DEF Advanced
  <2> QED
    BY <1>15, <2>1, <2>2, <2>3, AnswersPop DEF EndBatch, Leave, caller
<1>16. CASE AbortBatch(t)
  <2>1. depth[t] > 0
    BY <1>16, InFrame DEF AbortBatch, Framed
  <2> QED
    BY <1>1, <1>16, <2>1, AnswersInside DEF AbortBatch, caller, Advanced
<1>17. ASSUME depth[t] = 0, pc' = [pc EXCEPT ![t] = "idle"],
              UNCHANGED <<db, saved, depth>>,
              call' = [call EXCEPT ![t] = Idle],
              pending' = [pending EXCEPT ![t] = {}],
              acked' \subseteq acked \cup {m \in pending[t] : Has(Durable, m)}
       PROVE  Answers'
  <2>1. /\ pending'[t] = {}
        /\ \A u \in Thread \ {t} : call'[u] = call[u] /\ pending'[u] = pending[u]
    BY <1>0, <1>17
  <2>2. "idle" \notin Advanced /\ Kept(db, db')
    BY <1>1, <1>17 DEF Advanced
  <2> QED
    BY <1>17, <2>1, <2>2, AnswersOutside
<1>18. CASE Acknowledge(t)
  <2>1. depth[t] = 0
    BY <1>18 DEF Acknowledge, Locks, Fits, Resting
  <2>2. \A m \in pending[t] : Has(Durable, m)
    BY <1>2, <1>18, <2>1 DEF Acknowledge, Promise
  <2>3. acked' \subseteq acked \cup {m \in pending[t] : Has(Durable, m)}
    BY <1>18, <2>2 DEF Acknowledge
  <2> QED
    BY <1>17, <1>18, <2>1, <2>3 DEF Acknowledge
<1>19. CASE Fail(t)
  <2>1. depth[t] = 0
    BY <1>19 DEF Fail, Locks, Fits, Resting
  <2> QED
    BY <1>17, <1>19, <2>1 DEF Fail
<1>20. CASE Unwind(t)
  <2>1. depth[t] > 0
    BY <1>20, InFrame DEF Unwind
  <2>2. Stacked' /\ Durable' = Durable
    BY <1>20, StackedUnwind DEF Answers
  <2>3. Kept(Durable, Durable')
    BY <2>2, KeptSame
  <2>4. PICK p \in {"failed", "raise"} : pc' = [pc EXCEPT ![t] = p]
    BY <1>20 DEF Unwind
  <2>5. /\ pc'[t] = p
        /\ \A u \in Thread \ {t} : pc'[u] = pc[u] /\ depth'[u] = depth[u]
        /\ UNCHANGED <<call, pending, acked>>
    BY <1>0, <1>20, <2>4 DEF Unwind, caller
  <2>6. Promise(t)'
    BY <2>4, <2>5 DEF Promise, Advanced
  <2> QED
    BY <2>1, <2>2, <2>3, <2>5, <2>6, AnswersStep
<1> QED
  BY <1>4, <1>5, <1>6, <1>7, <1>9, <1>10, <1>11, <1>12, <1>13, <1>14, <1>15, <1>16,
     <1>18, <1>19, <1>20 DEF Continue

LEMMA AnswersRequest ==
    ASSUME Locks, Calls, Data, Answers, NEW t \in Thread, Request(t)
    PROVE  Answers'
<1>0. /\ DOMAIN db = {"objects", "commits", "refs", "branches", "claimed", "tombs"}
      /\ DOMAIN pc = Thread /\ DOMAIN call = Thread
  BY DEF Data, Sound, Tables, Locks, Calls
<1>1. ASSUME pc[t] \in {"idle", "read"}, NEW p \in {"read", "branch", "commit"},
             pc' = [pc EXCEPT ![t] = p],
             db'.refs = db.refs, db.commits \subseteq db'.commits,
             UNCHANGED <<saved, depth, pending, acked>>,
             \A u \in Thread \ {t} : call'[u] = call[u]
      PROVE  Answers'
  <2>1. depth[t] = 0
    BY <1>1 DEF Locks, Fits, Resting
  <2>2. Kept(db, db') /\ p \notin Advanced
    BY <1>1, KeptSame DEF Advanced
  <2> QED
    BY <1>1, <2>1, <2>2, AnswersOutside
<1>2. ASSUME NEW ref \in Ref, ReadHead(t, ref)
      PROVE  Answers'
  BY <1>0, <1>1, <1>2 DEF ReadHead
<1>3. ASSUME NEW ref \in Ref, ReadTheirs(t, ref)
      PROVE  Answers'
  <2>1. pc' = [pc EXCEPT ![t] = "read"]
    BY <1>0, <1>3 DEF ReadTheirs, Locks
  <2> QED
    BY <1>1, <1>3, <2>1 DEF ReadTheirs
<1>4. ASSUME NEW ref \in Ref, AskBranch(t, ref)
      PROVE  Answers'
  BY <1>0, <1>1, <1>4 DEF AskBranch
<1>5. ASSUME NEW root \in Content, PutBlob(root)
      PROVE  db'.refs = db.refs /\ db'.commits = db.commits
  BY <1>0, <1>5 DEF PutBlob
<1>6. ASSUME NEW root \in Content, NEW stamp \in Stamp, Prepare(t, root, stamp)
      PROVE  Answers'
  <2>1. \A u \in Thread \ {t} : call'[u] = call[u]
    BY <1>0, <1>6 DEF Prepare
  <2> QED
    BY <1>1, <1>5, <1>6, <2>1 DEF Prepare
<1>7. CASE BeginBatch(t)
  <2>1. Kept(db, db)
    BY KeptSame
  <2> QED
    BY <1>7, <2>1, AnswersEnter DEF BeginBatch, caller, Advanced
<1>8. ASSUME NEW ref \in Ref, NEW root \in Content, NEW stamp \in Stamp,
             BatchCommit(t, ref, root, stamp)
      PROVE  Answers'
  <2>1. /\ pc[t] = "batch" /\ pc' = [pc EXCEPT ![t] = "commit"]
        /\ UNCHANGED <<saved, depth, pending, acked>>
        /\ \A u \in Thread \ {t} : call'[u] = call[u]
    BY <1>0, <1>8 DEF BatchCommit
  <2>2. depth[t] > 0
    BY <2>1, InFrame DEF Framed
  <2>3. Kept(db, db')
    BY <1>5, <1>8, KeptSame DEF BatchCommit
  <2>4. Stacked' /\ Kept(Durable, Durable')
    BY <2>1, <2>3, StackedWrite DEF Answers
  <2>5. pc'[t] = "commit" /\ \A u \in Thread \ {t} : pc'[u] = pc[u]
    BY <1>0, <2>1
  <2>6. Promise(t)'
    <3>1. Promise(t) /\ \A m : Has(db, m) => Has(db', m)
      BY <2>3, KeptHas DEF Answers
    <3>2. depth[t] # 0 /\ depth'[t] = depth[t] /\ pending'[t] = pending[t]
      BY <2>1, <2>2
    <3>3. \A m \in pending[t] : Has(db, m)
      BY <2>1, <3>1, <3>2 DEF Promise
    <3>4. \A m \in pending'[t] : Has(db', m)
      BY <3>1, <3>2, <3>3
    <3> QED
      BY <2>5, <3>2, <3>4 DEF Promise, Advanced, Has
  <2> QED
    BY <2>1, <2>2, <2>4, <2>5, <2>6, AnswersStep
<1> QED
  BY <1>2, <1>3, <1>4, <1>6, <1>7, <1>8 DEF Request

\* A stray db.commit() makes the open transaction durable as far as it came.
LEMMA AnswersDelete ==
    ASSUME Locks, Data, Answers, NEW a \in Artifact, Delete(a)
    PROVE  Answers'
<1>1. UNCHANGED <<pc, depth, call, pending, acked>>
  BY DEF Delete, EnsureTombstones, InsertTombstone, CommitTombstone, caller
<1>2. /\ Stacked' /\ Kept(Durable, Durable') /\ Kept(db, db')
  <2>1. CASE EnsureTombstones(a) \/ CommitTombstone(a)
    <3>1. saved' = <<>> /\ UNCHANGED db /\ Durable' = db /\ Len(saved') = 0
      BY <2>1, EmptySeq DEF EnsureTombstones, CommitTombstone, Durable
    <3>2. Kept(db, db)
      BY KeptSame
    <3> QED
      BY <3>1, <3>2 DEF Answers, Stacked
  <2>2. CASE InsertTombstone(a)
    <3>1. db'.refs = db.refs /\ db'.commits = db.commits /\ UNCHANGED saved
      BY <2>2 DEF InsertTombstone, Data, Sound, Tables
    <3>2. Kept(db, db')
      BY <3>1, KeptSame
    <3> QED
      BY <3>1, <3>2, StackedWrite DEF Answers
  <2> QED
    BY <2>1, <2>2 DEF Delete
<1>3. \A m : (Has(db, m) => Has(db', m)) /\ (Has(Durable, m) => Has(Durable', m))
  BY <1>2, KeptHas
<1>4. \A t \in Thread : Promise(t)'
  BY <1>1, <1>3 DEF Answers, Promise, Has
<1> QED
  BY <1>1, <1>2, <1>3, <1>4 DEF Answers, Has

LEMMA AnswersInit == Init => Answers
<1> SUFFICES ASSUME Init
             PROVE  Answers
  OBVIOUS
<1>1. Durable = db /\ Len(saved) = 0 /\ Kept(db, db)
  BY EmptySeq, KeptSame DEF Init, Durable
<1> QED
  BY <1>1 DEF Init, Answers, Stacked, Promise, Advanced

LEMMA AnswersNext ==
    ASSUME NullIsNoCommit, Locks, Calls, Data, Answers, [Next]_vars
    PROVE  Answers'
<1>1. CASE Crash
  <2>1. /\ db' = Durable /\ saved' = <<>> /\ Durable' = Durable /\ acked' = acked
        /\ \A t \in Thread : pc'[t] = "idle" /\ depth'[t] = 0 /\ pending'[t] = {}
    BY <1>1 DEF Crash, Durable
  <2>2. Kept(Durable, Durable) /\ Len(saved') = 0
    BY <2>1, KeptSame, EmptySeq
  <2>3. Stacked'
    BY <2>1, <2>2 DEF Stacked
  <2>4. \A t \in Thread : Promise(t)'
    BY <2>1 DEF Promise, Advanced
  <2> QED
    BY <2>1, <2>3, <2>4 DEF Answers, Has
<1>2. CASE UNCHANGED vars
  BY <1>2 DEF vars, Answers, Stacked, Promise, Durable, Has
<1> QED
  BY <1>1, <1>2, AnswersContinue, AnswersRequest, AnswersDelete DEF Next

\* Whatever a client was told is there after any crash, in every run: with blind
\* commits, deletions whose stray db.commit() ends another thread's transaction,
\* and rollbacks.
THEOREM AnswersAreDurable ==
    ASSUME NullIsNoCommit
    PROVE  Spec => []AcknowledgedIsDurable
<1>1. Init => Answers
  BY AnswersInit
<1>2. IndInv /\ Answers /\ [Next]_vars => Answers'
  BY AnswersNext DEF IndInv
<1>3. Answers => AcknowledgedIsDurable
  BY DEF Answers, Has, AcknowledgedIsDurable
<1> QED
  BY <1>1, <1>2, <1>3, Inductive, PTL DEF Spec

-----------------------------------------------------------------------------
(* A stored root stays registered.                                         *)

\* Content r has its row in the tables and in everything a rollback restores.
Rooted(r) == r \in db.objects /\ \A i \in 1..Len(saved) : r \in saved[i].objects

RootedNext(r) == r \in db'.objects /\ \A i \in 1..Len(saved') : r \in saved'[i].objects

\* Between put_blob and the INSERT of the commit no rollback of another thread
\* takes the row of the root away.
Registered ==
    \A t \in Thread : pc[t] \in {"commit", "insert"} =>
        /\ call[t].cid.root \in db.objects
        /\ depth[t] = 0 => Rooted(call[t].cid.root)

\* What is in every snapshot survives the steps of a thread.
LEMMA RootedSame ==
    ASSUME db.objects \subseteq db'.objects, UNCHANGED saved, NEW r, Rooted(r)
    PROVE  RootedNext(r)
BY DEF Rooted, RootedNext

LEMMA RootedEnter ==
    ASSUME Locks, NEW t \in Thread, Enter(t), db.objects \subseteq db'.objects, NEW r, Rooted(r)
    PROVE  RootedNext(r)
BY Push DEF Rooted, RootedNext, Enter, Locks

LEMMA RootedPop ==
    ASSUME Locks, NEW r, Rooted(r),
           \/ saved # <<>> /\ saved' = SubSeq(saved, 1, Len(saved) - 1)
           \/ saved = <<>> /\ saved' = saved,
           \/ UNCHANGED db
           \/ saved # <<>> /\ db' = saved[Len(saved)]
    PROVE  RootedNext(r)
<1>1. saved # <<>> => Len(saved) \in 1..Len(saved)
  BY Pop DEF Locks
<1>2. r \in db'.objects
  BY <1>1 DEF Rooted
<1>3. CASE saved # <<>> /\ saved' = SubSeq(saved, 1, Len(saved) - 1)
  BY <1>2, <1>3, Pop DEF Rooted, RootedNext, Locks
<1>4. CASE saved = <<>> /\ saved' = saved
  BY <1>2, <1>4 DEF Rooted, RootedNext
<1> QED
  BY <1>3, <1>4

LEMMA RootedStep ==
    ASSUME Locks, Data, NEW t \in Thread, Continue(t) \/ Request(t)
    PROVE  /\ \A r : Rooted(r) => RootedNext(r)
           /\ depth[t] = 0 => db.objects \subseteq db'.objects
<1>0. DOMAIN db = {"objects", "commits", "refs", "branches", "claimed", "tombs"}
  BY DEF Data, Sound, Tables
<1>1. ASSUME db.objects \subseteq db'.objects, UNCHANGED saved
      PROVE  \A r : Rooted(r) => RootedNext(r)
  BY <1>1, RootedSame
<1>2. ASSUME db.objects \subseteq db'.objects, Enter(t)
      PROVE  \A r : Rooted(r) => RootedNext(r)
  BY <1>2, RootedEnter
<1>3. ASSUME \/ saved # <<>> /\ saved' = SubSeq(saved, 1, Len(saved) - 1)
             \/ saved = <<>> /\ saved' = saved,
             \/ UNCHANGED db
             \/ saved # <<>> /\ db' = saved[Len(saved)]
      PROVE  \A r : Rooted(r) => RootedNext(r)
  BY <1>3, RootedPop
<1>4. ASSUME NEW root \in Content, PutBlob(root)
      PROVE  db.objects \subseteq db'.objects
  BY <1>0, <1>4 DEF PutBlob
<1>5. CASE InsertCommit(t) \/ CasAdvance(t) \/ Mirror(t) \/ Fork(t) \/ ForkMirror(t)
  <2>1. db'.objects = db.objects
    BY <1>0, <1>5 DEF InsertCommit, CasAdvance, Mirror, Fork, ForkMirror
  <2>2. UNCHANGED saved
    BY <1>5 DEF InsertCommit, CasAdvance, Mirror, Fork, ForkMirror
  <2> QED
    BY <1>1, <2>1, <2>2
<1>6. CASE Capture(t)
  <2>1. db'.objects = db.objects /\ Enter(t)
    BY <1>0, <1>6 DEF Capture
  <2> QED
    BY <1>2, <2>1
<1>7. CASE BeginCommit(t) \/ BeginBranch(t) \/ BeginBatch(t)
  <2>1. db' = db /\ Enter(t)
    BY <1>7 DEF BeginCommit, BeginBranch, BeginBatch
  <2> QED
    BY <1>2, <2>1
<1>8. CASE EndCapture(t) \/ EndCommit(t) \/ EndBatch(t)
  <2>1. /\ UNCHANGED db
        /\ \/ saved # <<>> /\ saved' = SubSeq(saved, 1, Len(saved) - 1)
           \/ saved = <<>> /\ saved' = saved
    BY <1>8 DEF EndCapture, EndCommit, EndBatch, Leave
  <2> QED
    BY <1>3, <2>1
<1>9. CASE Unwind(t)
  <2>1. depth[t] > 0
    BY <1>9, InFrame DEF Unwind
  <2>2. depth[t] # 0
    BY <2>1
  <2> QED
    BY <1>3, <1>9, <2>2 DEF Unwind
<1>10. CASE Acknowledge(t) \/ Fail(t) \/ AbortBatch(t)
  BY <1>1, <1>10 DEF Acknowledge, Fail, AbortBatch
<1>11. ASSUME NEW ref \in Ref, ReadHead(t, ref) \/ ReadTheirs(t, ref) \/ AskBranch(t, ref)
       PROVE  (\A r : Rooted(r) => RootedNext(r)) /\ db.objects \subseteq db'.objects
  BY <1>1, <1>11 DEF ReadHead, ReadTheirs, AskBranch
<1>12. ASSUME NEW root \in Content, NEW stamp \in Stamp, Prepare(t, root, stamp)
       PROVE  (\A r : Rooted(r) => RootedNext(r)) /\ db.objects \subseteq db'.objects
  BY <1>1, <1>4, <1>12 DEF Prepare
<1>13. ASSUME NEW ref \in Ref, NEW root \in Content, NEW stamp \in Stamp,
              BatchCommit(t, ref, root, stamp)
       PROVE  (\A r : Rooted(r) => RootedNext(r)) /\ db.objects \subseteq db'.objects
  BY <1>1, <1>4, <1>13 DEF BatchCommit
<1> QED
  BY <1>5, <1>6, <1>7, <1>8, <1>9, <1>10, <1>11, <1>12, <1>13 DEF Continue, Request

\* Only three steps bring a thread to its INSERT.
LEMMA Registering ==
    ASSUME Locks, Calls, Data, Registered, NEW t \in Thread, Continue(t) \/ Request(t),
           pc'[t] \in {"commit", "insert"}
    PROVE  /\ call'[t].cid.root \in db'.objects
           /\ depth'[t] = 0 => saved' = <<>>
<1>0. /\ DOMAIN db = {"objects", "commits", "refs", "branches", "claimed", "tombs"}
      /\ DOMAIN pc = Thread /\ DOMAIN call = Thread /\ DOMAIN call[t] = {"ref", "expected", "cid"}
      /\ depth \in [Thread -> 0..3]
  BY DEF Data, Sound, Tables, Locks, Calls
<1>1. \A a, root, s, stamp : CommitId(a, root, s, stamp).root = root
  BY DEF CommitId
<1>2. CASE BeginCommit(t)
  BY <1>0, <1>2 DEF BeginCommit, Enter, caller, Registered
<1>3. ASSUME NEW root \in Content, NEW stamp \in Stamp, Prepare(t, root, stamp)
      PROVE  call'[t].cid.root \in db'.objects /\ saved' = <<>>
  <2>1. call'[t].cid = CommitId(call[t].ref[1], root, base[t], stamp)
    BY <1>0, <1>3 DEF Prepare
  <2>2. root \in db'.objects
    BY <1>0, <1>3 DEF Prepare, PutBlob
  <2>3. saved = <<>>
    <3>1. depth[t] = 0
      BY <1>3 DEF Prepare, Locks, Fits, Resting
    <3> QED
      BY <1>3, <3>1 DEF Prepare, LockFreeFor, Locks
  <2> QED
    BY <1>1, <1>3, <2>1, <2>2, <2>3 DEF Prepare
<1>4. ASSUME NEW ref \in Ref, NEW root \in Content, NEW stamp \in Stamp,
             BatchCommit(t, ref, root, stamp)
      PROVE  call'[t].cid.root \in db'.objects /\ depth'[t] # 0
  <2>1. PICK s : call'[t].cid = CommitId(ref[1], root, s, stamp)
    BY <1>0, <1>4 DEF BatchCommit
  <2>2. root \in db'.objects
    BY <1>0, <1>4 DEF BatchCommit, PutBlob
  <2>3. pc[t] = "batch" /\ depth' = depth
    BY <1>4 DEF BatchCommit
  <2>4. depth[t] > 0
    BY <2>3, InFrame DEF Framed
  <2> QED
    BY <1>1, <2>1, <2>2, <2>3, <2>4
<1>5. ASSUME pc[t] \notin {"commit", "insert"}, UNCHANGED pc
      PROVE  FALSE
  BY <1>5
<1>6. ~ ( \/ InsertCommit(t) \/ CasAdvance(t) \/ Mirror(t) \/ Capture(t) \/ EndCapture(t)
          \/ EndCommit(t) \/ Acknowledge(t) \/ BeginBranch(t) \/ Fork(t) \/ ForkMirror(t)
          \/ EndBatch(t) \/ AbortBatch(t) \/ Unwind(t) \/ Fail(t) )
  BY <1>0 DEF InsertCommit, CasAdvance, Mirror, Capture, EndCapture, EndCommit, Acknowledge,
     BeginBranch, Fork, ForkMirror, EndBatch, AbortBatch, Unwind, Fail, Leave
<1>7. /\ ~ BeginBatch(t)
      /\ \A ref \in Ref : ~ (ReadHead(t, ref) \/ ReadTheirs(t, ref) \/ AskBranch(t, ref))
  BY <1>0 DEF BeginBatch, ReadHead, ReadTheirs, AskBranch
<1> QED
  BY <1>2, <1>3, <1>4, <1>6, <1>7 DEF Continue, Request

\* A step of one thread changes the others' places not at all.
LEMMA OneMoves ==
    ASSUME Locks, Calls, NEW t \in Thread, Continue(t) \/ Request(t), NEW u \in Thread \ {t}
    PROVE  pc'[u] = pc[u] /\ depth'[u] = depth[u] /\ call'[u] = call[u]
<1>0. DOMAIN pc = Thread /\ DOMAIN call = Thread /\ DOMAIN depth = Thread
  BY DEF Locks, Calls
<1>1. CASE Continue(t)
  <2>1. pc'[u] = pc[u]
    BY <1>0, <1>1 DEF Continue, BeginCommit, InsertCommit, CasAdvance, Mirror, Capture, EndCapture,
       EndCommit, Acknowledge, BeginBranch, Fork, ForkMirror, EndBatch, AbortBatch, Unwind, Fail,
       Leave
  <2>2. depth'[u] = depth[u]
    BY <1>0, <1>1 DEF Continue, BeginCommit, InsertCommit, CasAdvance, Mirror, Capture, EndCapture,
       EndCommit, Acknowledge, BeginBranch, Fork, ForkMirror, EndBatch, AbortBatch, Unwind, Fail,
       Leave, Enter
  <2>3. call'[u] = call[u]
    BY <1>0, <1>1 DEF Continue, BeginCommit, InsertCommit, CasAdvance, Mirror, Capture, EndCapture,
       EndCommit, Acknowledge, BeginBranch, Fork, ForkMirror, EndBatch, AbortBatch, Unwind, Fail,
       caller
  <2> QED
    BY <2>1, <2>2, <2>3
<1>2. CASE Request(t)
  BY <1>0, <1>2 DEF Request, ReadHead, ReadTheirs, AskBranch, Prepare, BeginBatch, BatchCommit,
     Enter, caller
<1> QED
  BY <1>1, <1>2

LEMMA RegisteredNext ==
    ASSUME Locks, Calls, Data, Registered, [Next]_vars
    PROVE  Registered'
<1>0. DOMAIN db = {"objects", "commits", "refs", "branches", "claimed", "tombs"}
  BY DEF Data, Sound, Tables
<1>1. ASSUME NEW t \in Thread, Continue(t) \/ Request(t)
      PROVE  Registered'
  <2>1. ASSUME NEW u \in Thread \ {t}, pc'[u] \in {"commit", "insert"}
        PROVE  call'[u].cid.root \in db'.objects /\ (depth'[u] = 0 => RootedNext(call'[u].cid.root))
    <3> DEFINE r == call[u].cid.root
    <3>1. pc'[u] = pc[u] /\ depth'[u] = depth[u] /\ call'[u] = call[u]
      BY <1>1, OneMoves
    <3>2. r \in db.objects /\ (depth[u] = 0 => Rooted(r))
      BY <2>1, <3>1 DEF Registered
    <3>3. depth[u] = 0 \/ depth[t] = 0
      BY DEF Locks
    <3>4. /\ Rooted(r) => RootedNext(r)
          /\ depth[t] = 0 => db.objects \subseteq db'.objects
      BY <1>1, RootedStep
    <3> QED
      BY <3>1, <3>2, <3>3, <3>4 DEF RootedNext
  <2>2. ASSUME pc'[t] \in {"commit", "insert"}
        PROVE  call'[t].cid.root \in db'.objects /\ (depth'[t] = 0 => RootedNext(call'[t].cid.root))
    BY <1>1, <2>2, Registering, EmptySeq DEF RootedNext
  <2> QED
    BY <2>1, <2>2 DEF Registered, Rooted, RootedNext
<1>2. ASSUME NEW a \in Artifact, Delete(a)
      PROVE  Registered'
  <2>1. db'.objects = db.objects /\ UNCHANGED <<pc, depth, call>> /\ saved' \in {saved, <<>>}
    BY <1>0, <1>2 DEF Delete, EnsureTombstones, InsertTombstone, CommitTombstone, caller
  <2> QED
    BY <2>1, EmptySeq DEF Registered, Rooted
<1>3. CASE Crash
  BY <1>3 DEF Crash, Registered
<1>4. CASE UNCHANGED vars
  BY <1>4 DEF vars, Registered, Rooted
<1> QED
  BY <1>1, <1>2, <1>3, <1>4 DEF Next

\* No commit is refused for want of a blob its own request has stored, whatever
\* the other threads roll back, commit or delete in between.
THEOREM RootsStayRegistered == Spec => []StoredRootIsRegistered
<1>1. Init => Registered
  BY DEF Init, Registered
<1>2. IndInv /\ Registered /\ [Next]_vars => Registered'
  BY RegisteredNext DEF IndInv
<1>3. Registered => StoredRootIsRegistered
  BY DEF Registered, StoredRootIsRegistered
<1> QED
  BY <1>1, <1>2, <1>3, Inductive, PTL DEF Spec

-----------------------------------------------------------------------------
(* Without deletions a transaction is all or nothing.                      *)

\* The undo stack is as deep as the frames of the thread that holds the lock.
Exact ==
    /\ \A a \in Artifact : removal[a] = "none"
    /\ \A t \in Thread : depth[t] > 0 => Len(saved) = depth[t]

\* The tables hold whole commits.
Whole(d) == d.branches = d.refs /\ d.commits \subseteq d.claimed

\* Only the moved head is not mirrored yet.
Unmirrored(t) ==
    /\ db.refs[call[t].ref] = call[t].cid
    /\ \A ref \in Ref \ {call[t].ref} : db.branches[ref] = db.refs[ref]

\* What the open transaction still has to write at each point.
Underway(t) ==
    /\ pc[t] \in {"batch", "commit", "insert", "fork", "captured", "leave"} => Whole(db)
    /\ pc[t] \in {"advance", "mirror new", "mirror", "capture"} =>
          db.commits \subseteq db.claimed \cup {call[t].cid}
    /\ pc[t] = "fork mirror" => db.commits \subseteq db.claimed
    /\ pc[t] \in {"advance", "capture"} => db.branches = db.refs
    /\ pc[t] \in {"mirror new", "fork mirror"} =>
          Unmirrored(t) /\ db.branches[call[t].ref] = NoCommit
    /\ pc[t] = "mirror" => Unmirrored(t) /\ db.branches[call[t].ref] # NoCommit

\* Every snapshot is whole, but for the savepoint capture_commit opens before
\* it has claimed the new commit, and so are the tables between transactions.
Wholes ==
    /\ \A i \in 1..Len(saved) :
          Whole(saved[i]) \/ \E t \in Thread : pc[t] = "captured" /\ i = depth[t]
    /\ \A t \in Thread : depth[t] > 0 => Underway(t)
    /\ (\A t \in Thread : depth[t] = 0) => Whole(db)

\* A stack that is as deep as its frames stays so.
LEMMA ExactStep ==
    ASSUME Locks, Exact, NEW t \in Thread,
           UNCHANGED removal,
           \/ UNCHANGED <<depth, saved>>
           \/ Enter(t)
           \/ /\ depth[t] > 0 /\ depth' = [depth EXCEPT ![t] = @ - 1]
              /\ saved # <<>> /\ saved' = SubSeq(saved, 1, Len(saved) - 1)
    PROVE  Exact'
<1>1. CASE UNCHANGED <<depth, saved>>
  BY <1>1 DEF Exact
<1>2. CASE Enter(t)
  <2>1. Len(saved') = Len(saved) + 1 /\ depth'[t] = depth[t] + 1
    BY <1>2, Push DEF Enter, Locks
  <2>2. \A u \in Thread \ {t} : depth[u] = 0 /\ depth'[u] = 0
    BY <1>2 DEF Enter, LockFreeFor, Locks
  <2>3. Len(saved) = depth[t]
    <3>1. CASE depth[t] = 0
      <4>1. saved = <<>>
        BY <2>2, <3>1 DEF Locks
      <4> QED
        BY <3>1, <4>1, EmptySeq
    <3>2. CASE depth[t] > 0
      BY <3>2 DEF Exact
    <3> QED
      BY <3>1, <3>2 DEF Locks
  <2> QED
    BY <2>1, <2>2, <2>3 DEF Exact
<1>3. CASE /\ depth[t] > 0 /\ depth' = [depth EXCEPT ![t] = @ - 1]
           /\ saved # <<>> /\ saved' = SubSeq(saved, 1, Len(saved) - 1)
  <2>1. Len(saved') = Len(saved) - 1 /\ depth'[t] = depth[t] - 1 /\ Len(saved) = depth[t]
    BY <1>3, Pop DEF Locks, Exact
  <2>2. \A u \in Thread \ {t} : depth'[u] = 0
    BY <1>3 DEF Locks
  <2> QED
    BY <2>1, <2>2 DEF Exact
<1> QED
  BY <1>1, <1>2, <1>3

\* Inside a frame there is something to commit.
LEMMA SomethingOpen ==
    ASSUME Locks, Exact, NEW t \in Thread, depth[t] > 0
    PROVE  saved # <<>> /\ Len(saved) = depth[t]
<1>1. Len(saved) = depth[t]
  BY DEF Exact
<1> QED
  BY <1>1, EmptySeq

LEMMA ExactContinue ==
    ASSUME Locks, Exact, NEW t \in Thread, Continue(t) \/ Request(t)
    PROVE  Exact'
<1>1. ASSUME pc[t] \in Framed \cup Committing \cup {"captured", "raise"}
      PROVE  depth[t] > 0 /\ saved # <<>>
  BY <1>1, InFrame, SomethingOpen
<1>2. CASE BeginCommit(t) \/ BeginBranch(t) \/ BeginBatch(t) \/ Capture(t)
  BY <1>2, ExactStep DEF BeginCommit, BeginBranch, BeginBatch, Capture
<1>3. CASE EndCapture(t) \/ EndCommit(t) \/ EndBatch(t) \/ Unwind(t)
  <2>1. pc[t] \in Framed \cup Committing \cup {"captured", "raise"}
    BY <1>3 DEF EndCapture, EndCommit, EndBatch, Unwind, Framed, Committing
  <2> QED
    BY <1>1, <1>3, <2>1, ExactStep DEF EndCapture, EndCommit, EndBatch, Unwind, Leave
<1>4. CASE InsertCommit(t) \/ CasAdvance(t) \/ Mirror(t) \/ Fork(t) \/ ForkMirror(t)
           \/ Acknowledge(t) \/ Fail(t) \/ AbortBatch(t)
  BY <1>4, ExactStep DEF InsertCommit, CasAdvance, Mirror, Fork, ForkMirror, Acknowledge, Fail, AbortBatch
<1>5. ASSUME NEW ref \in Ref, ReadHead(t, ref) \/ ReadTheirs(t, ref) \/ AskBranch(t, ref)
      PROVE  Exact'
  BY <1>5, ExactStep DEF ReadHead, ReadTheirs, AskBranch
<1>6. ASSUME NEW root \in Content, NEW stamp \in Stamp, Prepare(t, root, stamp)
      PROVE  Exact'
  BY <1>6, ExactStep DEF Prepare
<1>7. ASSUME NEW ref \in Ref, NEW root \in Content, NEW stamp \in Stamp,
             BatchCommit(t, ref, root, stamp)
      PROVE  Exact'
  BY <1>7, ExactStep DEF BatchCommit
<1> QED
  BY <1>2, <1>3, <1>4, <1>5, <1>6, <1>7 DEF Continue, Request

\* No artifact is ever being deleted.
LEMMA NoDelete ==
    ASSUME Deletable = {}, Exact, NEW a \in Artifact
    PROVE  ~Delete(a)
BY DEF Exact, Delete, EnsureTombstones, InsertTombstone, CommitTombstone

LEMMA ExactNext ==
    ASSUME Deletable = {}, Locks, Exact, [Next]_vars
    PROVE  Exact'
<1>1. CASE Crash
  BY <1>1 DEF Crash, Exact
<1>2. CASE UNCHANGED vars
  BY <1>2 DEF vars, Exact
<1> QED
  BY <1>1, <1>2, ExactContinue, NoDelete DEF Next

\* Only a thread inside a frame can have left a snapshot that is not whole.
LEMMA AllWhole ==
    ASSUME Locks, Wholes, NEW t \in Thread, depth[t] > 0, pc[t] # "captured"
    PROVE  \A i \in 1..Len(saved) : Whole(saved[i])
<1>1. \A u \in Thread : pc[u] = "captured" => u = t
  BY InFrame DEF Locks
<1> QED
  BY <1>1 DEF Wholes

\* Going on inside a frame.
LEMMA WholesInside ==
    ASSUME Locks, Wholes, NEW t \in Thread, depth[t] > 0, pc[t] # "captured",
           UNCHANGED <<saved, depth>>, Underway(t)'
    PROVE  Wholes'
<1>1. \A i \in 1..Len(saved') : Whole(saved'[i])
  BY AllWhole
<1>2. \A u \in Thread : depth'[u] > 0 => u = t
  BY DEF Locks
<1>3. depth'[t] # 0
  BY DEF Locks
<1> QED
  BY <1>1, <1>2, <1>3 DEF Wholes

\* Entering a frame where the tables are whole.
LEMMA WholesEnter ==
    ASSUME Locks, Wholes, NEW t \in Thread, Enter(t), depth[t] = 0 \/ pc[t] = "commit",
           UNCHANGED db, Whole(db') => Underway(t)'
    PROVE  Wholes'
<1>1. \A u \in Thread \ {t} : depth[u] = 0 /\ depth'[u] = 0
  BY DEF Locks, Enter, LockFreeFor
<1>2. Whole(db)
  <2>1. CASE depth[t] = 0
    BY <1>1, <2>1 DEF Wholes
  <2>2. CASE depth[t] > 0 /\ pc[t] = "commit"
    BY <2>2 DEF Wholes, Underway
  <2> QED
    BY <2>1, <2>2 DEF Locks
<1>3. \A i \in 1..Len(saved) : Whole(saved[i])
  <2>1. \A u \in Thread : pc[u] # "captured"
    BY <1>1, InFrame
  <2> QED
    BY <2>1 DEF Wholes
<1>4. \A i \in 1..Len(saved') : Whole(saved'[i])
  BY <1>2, <1>3, Push DEF Enter, Locks
<1>5. depth'[t] # 0
  BY DEF Locks, Enter
<1> QED
  BY <1>1, <1>2, <1>4, <1>5 DEF Wholes

\* Leaving a frame where the tables are whole.
LEMMA WholesPop ==
    ASSUME Locks, Exact, Wholes, NEW t \in Thread, depth[t] > 0,
           depth' = [depth EXCEPT ![t] = @ - 1],
           saved' = SubSeq(saved, 1, Len(saved) - 1),
           Whole(db'), Whole(db') => Underway(t)'
    PROVE  Wholes'
<1>1. saved # <<>> /\ Len(saved) = depth[t]
  BY SomethingOpen
<1>2. \A u \in Thread : pc[u] = "captured" => u = t
  BY InFrame DEF Locks
<1>3. \A i \in 1..(Len(saved) - 1) : Whole(saved[i])
  <2>1. Len(saved) \in Nat /\ \A i \in 1..(Len(saved) - 1) : i # depth[t] /\ i \in 1..Len(saved)
    BY <1>1, Pop DEF Locks
  <2> QED
    BY <1>2, <2>1 DEF Wholes
<1>4. \A i \in 1..Len(saved') : Whole(saved'[i])
  BY <1>1, <1>3, Pop DEF Locks
<1>5. \A u \in Thread \ {t} : ~(depth'[u] > 0)
  BY DEF Locks
<1> QED
  BY <1>4, <1>5 DEF Wholes

\* Outside every frame nothing of a version is written.
LEMMA WholesOutside ==
    ASSUME Locks, Wholes, NEW t \in Thread, depth[t] = 0, pc'[t] # "captured",
           UNCHANGED <<saved, depth>>, Versions(db') = Versions(db),
           \A u \in Thread \ {t} : pc'[u] = pc[u] /\ call'[u] = call[u]
    PROVE  Wholes'
<1>1. /\ db'.commits = db.commits /\ db'.refs = db.refs
      /\ db'.branches = db.branches /\ db'.claimed = db.claimed
  BY DEF Versions
<1>2. pc[t] # "captured"
  BY InFrame DEF Locks
<1>3. \A i \in 1..Len(saved') :
         Whole(saved'[i]) \/ \E u \in Thread : pc'[u] = "captured" /\ i = depth'[u]
  BY <1>2 DEF Wholes
<1>4. ASSUME NEW u \in Thread, depth'[u] > 0
      PROVE  Underway(u)'
  <2>1. u # t /\ Underway(u)
    BY <1>4 DEF Wholes
  <2> QED
    BY <1>1, <2>1 DEF Underway, Unmirrored, Whole
<1> QED
  BY <1>1, <1>3, <1>4 DEF Wholes, Whole

LEMMA WholesContinue ==
    ASSUME Locks, Calls, Data, Exact, Wholes, NEW t \in Thread, Continue(t)
    PROVE  Wholes'
<1>0. /\ DOMAIN db = {"objects", "commits", "refs", "branches", "claimed", "tombs"}
      /\ DOMAIN pc = Thread /\ DOMAIN call = Thread /\ DOMAIN depth = Thread
      /\ DOMAIN db.refs = Ref /\ DOMAIN db.branches = Ref
  BY DEF Data, Sound, Tables, Locks, Calls
<1>1. pc[t] \in Framed \cup Committing \cup {"captured", "raise"} => depth[t] > 0 /\ Underway(t)
  BY InFrame DEF Wholes
<1>2. CASE BeginCommit(t)
  <2>1. Enter(t) /\ pc[t] = "commit" /\ UNCHANGED db /\ pc'[t] = "insert"
    BY <1>0, <1>2 DEF BeginCommit
  <2>2. Whole(db') => Underway(t)'
    BY <2>1 DEF Underway
  <2> QED
    BY <2>1, <2>2, WholesEnter
<1>3. CASE BeginBranch(t)
  <2>1. Enter(t) /\ pc[t] = "branch" /\ UNCHANGED db /\ pc'[t] = "fork"
    BY <1>0, <1>3 DEF BeginBranch
  <2>2. depth[t] = 0
    BY <2>1 DEF Locks, Fits, Resting
  <2>3. Whole(db') => Underway(t)'
    BY <2>1 DEF Underway
  <2> QED
    BY <2>1, <2>2, <2>3, WholesEnter
<1>4. CASE InsertCommit(t)
  <2>1. pc[t] = "insert" /\ Whole(db) /\ depth[t] > 0 /\ UNCHANGED <<saved, depth, call>>
    BY <1>1, <1>4 DEF InsertCommit, Committing, Underway, caller
  <2>2. Underway(t)'
    <3>1. CASE pc'[t] = "advance" /\ db' = [db EXCEPT !.commits = @ \cup {call[t].cid}]
      <4>1. /\ db'.commits = db.commits \cup {call[t].cid} /\ db'.claimed = db.claimed
            /\ db'.refs = db.refs /\ db'.branches = db.branches
        BY <1>0, <3>1
      <4> QED
        BY <2>1, <3>1, <4>1 DEF Underway, Whole
    <3>2. CASE pc'[t] = "raise"
      BY <3>2 DEF Underway
    <3> QED
      BY <1>0, <1>4, <3>1, <3>2 DEF InsertCommit
  <2> QED
    BY <2>1, <2>2, WholesInside
<1>5. ASSUME NEW ref \in Ref, NEW c, db' = [db EXCEPT !.refs[ref] = c], db.branches = db.refs
      PROVE  /\ db'.commits = db.commits /\ db'.claimed = db.claimed /\ db'.branches = db.branches
             /\ db'.refs[ref] = c
             /\ \A r \in Ref \ {ref} : db'.branches[r] = db'.refs[r]
  <2>1. /\ db'.commits = db.commits /\ db'.claimed = db.claimed /\ db'.branches = db.branches
        /\ db'.refs = [db.refs EXCEPT ![ref] = c]
    BY <1>0, <1>5
  <2> QED
    BY <1>0, <1>5, <2>1
<1>6. CASE CasAdvance(t)
  <2> DEFINE ref == call[t].ref
             c == call[t].cid
  <2>1. /\ pc[t] = "advance" /\ depth[t] > 0 /\ UNCHANGED <<saved, depth, call>>
        /\ db.branches = db.refs /\ db.commits \subseteq db.claimed \cup {c}
    BY <1>1, <1>6 DEF CasAdvance, Committing, Underway, caller
  <2>2. ref \in Ref
    BY <2>1 DEF Calls, Placed, Made
  <2>3. Underway(t)'
    <3>1. CASE db.refs[ref] = NoCommit /\ db' = [db EXCEPT !.refs[ref] = c] /\ pc'[t] = "mirror new"
      BY <1>5, <2>1, <2>2, <3>1 DEF Underway, Unmirrored
    <3>2. CASE db.refs[ref] # NoCommit /\ db' = [db EXCEPT !.refs[ref] = c] /\ pc'[t] = "mirror"
      <4>1. /\ db'.commits = db.commits /\ db'.claimed = db.claimed /\ db'.branches = db.branches
            /\ db'.refs[ref] = c
            /\ \A r \in Ref \ {ref} : db'.branches[r] = db'.refs[r]
        BY <1>5, <2>1, <2>2, <3>2
      <4>2. db'.branches[ref] # NoCommit
        BY <2>1, <3>2, <4>1
      <4> QED
        BY <2>1, <3>2, <4>1, <4>2 DEF Underway, Unmirrored
    <3>3. CASE UNCHANGED db /\ pc'[t] = "capture"
      BY <2>1, <3>3 DEF Underway
    <3>4. CASE pc'[t] = "raise"
      BY <3>4 DEF Underway
    <3> QED
      BY <1>0, <1>6, <3>1, <3>2, <3>3, <3>4 DEF CasAdvance
  <2> QED
    BY <2>1, <2>3, WholesInside
<1>7. CASE Fork(t)
  <2> DEFINE ref == call[t].ref
             c == call[t].cid
  <2>1. pc[t] = "fork" /\ depth[t] > 0 /\ UNCHANGED <<saved, depth, call>> /\ Whole(db)
    BY <1>1, <1>7 DEF Fork, Framed, Underway, caller
  <2>2. ref \in Ref
    BY <2>1 DEF Calls, Placed
  <2>3. Underway(t)'
    <3>1. CASE db.refs[ref] = NoCommit /\ db' = [db EXCEPT !.refs[ref] = c] /\ pc'[t] = "fork mirror"
      <4>1. /\ db'.commits = db.commits /\ db'.claimed = db.claimed /\ db'.branches = db.branches
            /\ db'.refs[ref] = c
            /\ \A r \in Ref \ {ref} : db'.branches[r] = db'.refs[r]
        BY <1>5, <2>1, <2>2, <3>1 DEF Whole
      <4>2. db'.branches[ref] = NoCommit
        BY <2>1, <3>1, <4>1 DEF Whole
      <4> QED
        BY <2>1, <3>1, <4>1, <4>2 DEF Underway, Unmirrored, Whole
    <3>2. CASE pc'[t] = "raise"
      BY <3>2 DEF Underway
    <3> QED
      BY <1>0, <1>7, <3>1, <3>2 DEF Fork
  <2> QED
    BY <2>1, <2>3, WholesInside
<1>8. ASSUME NEW ref \in Ref, db' = [db EXCEPT !.branches[ref] = call[t].cid], ref = call[t].ref,
             Unmirrored(t)
      PROVE  db'.branches = db'.refs /\ db'.commits = db.commits /\ db'.claimed = db.claimed
  <2>1. /\ db'.commits = db.commits /\ db'.claimed = db.claimed /\ db'.refs = db.refs
        /\ db'.branches = [db.branches EXCEPT ![ref] = call[t].cid]
    BY <1>0, <1>8
  <2>2. db'.branches = [r \in Ref |-> db.refs[r]]
    BY <1>0, <1>8, <2>1 DEF Unmirrored
  <2>3. db.refs = [r \in Ref |-> db.refs[r]]
    BY DEF Data, Sound, Tables
  <2> QED
    BY <2>1, <2>2, <2>3
<1>9. CASE Mirror(t)
  <2>1. /\ pc[t] \in {"mirror new", "mirror"} /\ depth[t] > 0 /\ UNCHANGED <<saved, depth, call>>
        /\ Unmirrored(t) /\ db.commits \subseteq db.claimed \cup {call[t].cid}
        /\ pc[t] = "mirror new" => db.branches[call[t].ref] = NoCommit
        /\ pc[t] = "mirror" => db.branches[call[t].ref] # NoCommit
    BY <1>1, <1>9 DEF Mirror, Committing, Underway, caller
  <2>2. call[t].ref \in Ref
    BY <2>1 DEF Calls, Placed, Made
  <2>3. db' = [db EXCEPT !.branches[call[t].ref] = call[t].cid] /\ pc'[t] = "capture"
    BY <1>0, <1>9, <2>1 DEF Mirror
  <2>4. Underway(t)'
    BY <1>8, <2>1, <2>2, <2>3 DEF Underway
  <2> QED
    BY <2>1, <2>4, WholesInside
<1>10. CASE ForkMirror(t)
  <2>1. /\ pc[t] = "fork mirror" /\ depth[t] > 0 /\ UNCHANGED <<saved, depth, call>>
        /\ Unmirrored(t) /\ db.commits \subseteq db.claimed
        /\ db.branches[call[t].ref] = NoCommit
    BY <1>1, <1>10 DEF ForkMirror, Framed, Underway
  <2>2. call[t].ref \in Ref
    BY <2>1 DEF Calls, Placed
  <2>3. db' = [db EXCEPT !.branches[call[t].ref] = call[t].cid] /\ pc'[t] = "leave"
    BY <1>0, <1>10, <2>1 DEF ForkMirror
  <2>4. Underway(t)'
    BY <1>8, <2>1, <2>2, <2>3 DEF Underway, Whole
  <2> QED
    BY <2>1, <2>4, WholesInside
<1>11. CASE AbortBatch(t)
  <2>1. pc[t] = "batch" /\ pc'[t] = "raise" /\ depth[t] > 0 /\ UNCHANGED <<saved, depth>>
    BY <1>0, <1>1, <1>11 DEF AbortBatch, Framed
  <2>2. Underway(t)'
    BY <2>1 DEF Underway
  <2> QED
    BY <2>1, <2>2, WholesInside
<1>12. CASE Capture(t)
  <2>1. /\ pc[t] = "capture" /\ pc'[t] = "captured" /\ depth[t] > 0 /\ Enter(t)
        /\ \A u \in Thread \ {t} : pc'[u] = pc[u]
        /\ db' = [db EXCEPT !.claimed = @ \cup {call[t].cid}]
        /\ db.branches = db.refs /\ db.commits \subseteq db.claimed \cup {call[t].cid}
    BY <1>0, <1>1, <1>12 DEF Capture, Committing, Underway
  <2>2. Whole(db')
    <3>1. /\ db'.commits = db.commits /\ db'.refs = db.refs /\ db'.branches = db.branches
          /\ db'.claimed = db.claimed \cup {call[t].cid}
      BY <1>0, <2>1
    <3> QED
      BY <2>1, <3>1 DEF Whole
  <2>3. \A i \in 1..Len(saved) : Whole(saved[i])
    BY <2>1, AllWhole
  <2>4. /\ Len(saved) = depth[t] /\ Len(saved') = Len(saved) + 1 /\ depth'[t] = depth[t] + 1
        /\ \A i \in 1..Len(saved) : saved'[i] = saved[i]
    BY <2>1, SomethingOpen, Push DEF Enter, Locks
  <2>5. \A i \in 1..Len(saved') : Whole(saved'[i]) \/ (pc'[t] = "captured" /\ i = depth'[t])
    <3>1. Len(saved) \in Nat
      BY Push DEF Locks
    <3> QED
      BY <2>1, <2>3, <2>4, <3>1
  <2>6. \A u \in Thread \ {t} : ~(depth'[u] > 0)
    BY <2>1 DEF Locks, Enter
  <2>7. Underway(t)' /\ depth'[t] # 0
    BY <2>1, <2>2 DEF Underway, Locks, Enter
  <2> QED
    BY <2>2, <2>5, <2>6, <2>7 DEF Wholes
<1>13. CASE EndCapture(t) \/ EndCommit(t) \/ EndBatch(t)
  <2>1. /\ pc[t] \in {"captured", "leave", "batch"} /\ UNCHANGED db
        /\ pc[t] \in Framed \cup Committing \cup {"captured", "raise"}
    BY <1>13 DEF EndCapture, EndCommit, EndBatch, Leave, Framed, Committing
  <2>2. depth[t] > 0 /\ saved # <<>> /\ Whole(db)
    BY <1>1, <2>1, SomethingOpen DEF Underway
  <2>3. /\ depth' = [depth EXCEPT ![t] = @ - 1]
        /\ saved' = SubSeq(saved, 1, Len(saved) - 1)
        /\ pc'[t] \in {"leave", "done", "batch"}
    BY <1>0, <1>13, <2>2 DEF EndCapture, EndCommit, EndBatch, Leave
  <2>4. Whole(db') => Underway(t)'
    BY <2>3 DEF Underway
  <2> QED
    BY <2>1, <2>2, <2>3, <2>4, WholesPop
<1>14. CASE Unwind(t)
  <2>1. pc[t] = "raise" /\ depth[t] > 0 /\ saved # <<>>
    BY <1>1, <1>14, SomethingOpen DEF Unwind
  <2>2. /\ depth' = [depth EXCEPT ![t] = @ - 1]
        /\ saved' = SubSeq(saved, 1, Len(saved) - 1)
        /\ db' = saved[Len(saved)] /\ pc'[t] \in {"failed", "raise"}
    BY <1>0, <1>14, <2>1 DEF Unwind
  <2>3. Whole(db')
    BY <2>1, <2>2, AllWhole, Pop DEF Locks
  <2>4. Whole(db') => Underway(t)'
    BY <2>2 DEF Underway
  <2> QED
    BY <2>1, <2>2, <2>3, <2>4, WholesPop
<1>15. CASE Acknowledge(t) \/ Fail(t)
  <2>1. depth[t] = 0
    BY <1>15 DEF Acknowledge, Fail, Locks, Fits, Resting
  <2>2. /\ pc'[t] = "idle" /\ UNCHANGED <<db, saved, depth>>
        /\ \A u \in Thread \ {t} : pc'[u] = pc[u] /\ call'[u] = call[u]
    BY <1>0, <1>15 DEF Acknowledge, Fail
  <2>3. Versions(db') = Versions(db)
    BY <2>2
  <2> QED
    BY <2>1, <2>2, <2>3, WholesOutside
<1> QED
  BY <1>2, <1>3, <1>4, <1>6, <1>7, <1>9, <1>10, <1>11, <1>12, <1>13, <1>14, <1>15 DEF Continue

LEMMA WholesRequest ==
    ASSUME Locks, Calls, Data, Exact, Wholes, NEW t \in Thread, Request(t)
    PROVE  Wholes'
<1>0. /\ DOMAIN db = {"objects", "commits", "refs", "branches", "claimed", "tombs"}
      /\ DOMAIN pc = Thread /\ DOMAIN call = Thread
  BY DEF Data, Sound, Tables, Locks, Calls
<1>1. ASSUME pc[t] \in {"idle", "read"}, pc'[t] \in {"read", "branch", "commit"},
             Versions(db') = Versions(db), UNCHANGED <<saved, depth>>,
             \A u \in Thread \ {t} : pc'[u] = pc[u] /\ call'[u] = call[u]
      PROVE  Wholes'
  <2>1. depth[t] = 0
    BY <1>1 DEF Locks, Fits, Resting
  <2> QED
    BY <1>1, <2>1, WholesOutside
<1>2. ASSUME NEW ref \in Ref, ReadHead(t, ref) \/ ReadTheirs(t, ref) \/ AskBranch(t, ref)
      PROVE  Wholes'
  BY <1>0, <1>1, <1>2 DEF ReadHead, ReadTheirs, AskBranch
<1>3. ASSUME NEW root \in Content, PutBlob(root)
      PROVE  Versions(db') = Versions(db)
  BY <1>0, <1>3 DEF PutBlob, Versions
<1>4. ASSUME NEW root \in Content, NEW stamp \in Stamp, Prepare(t, root, stamp)
      PROVE  Wholes'
  <2>1. /\ pc[t] = "read" /\ pc'[t] = "commit" /\ UNCHANGED <<saved, depth>>
        /\ \A u \in Thread \ {t} : pc'[u] = pc[u] /\ call'[u] = call[u]
    BY <1>0, <1>4 DEF Prepare
  <2>2. Versions(db') = Versions(db)
    BY <1>3, <1>4 DEF Prepare
  <2> QED
    BY <1>1, <2>1, <2>2
<1>5. CASE BeginBatch(t)
  <2>1. Enter(t) /\ pc[t] = "idle" /\ UNCHANGED db /\ pc'[t] = "batch"
    BY <1>0, <1>5 DEF BeginBatch
  <2>2. depth[t] = 0
    BY <2>1 DEF Locks, Fits, Resting
  <2>3. Whole(db') => Underway(t)'
    BY <2>1 DEF Underway
  <2> QED
    BY <2>1, <2>2, <2>3, WholesEnter
<1>6. ASSUME NEW ref \in Ref, NEW root \in Content, NEW stamp \in Stamp,
             BatchCommit(t, ref, root, stamp)
      PROVE  Wholes'
  <2>1. pc[t] = "batch" /\ pc'[t] = "commit" /\ UNCHANGED <<saved, depth>>
    BY <1>0, <1>6 DEF BatchCommit
  <2>2. depth[t] > 0
    BY <2>1, InFrame DEF Framed
  <2>3. Whole(db)
    BY <2>1, <2>2 DEF Wholes, Underway
  <2>4. Whole(db')
    BY <1>3, <1>6, <2>3 DEF BatchCommit, Versions, Whole
  <2>5. Underway(t)'
    BY <2>1, <2>4 DEF Underway
  <2> QED
    BY <2>1, <2>2, <2>5, WholesInside
<1> QED
  BY <1>2, <1>4, <1>5, <1>6 DEF Request

\* What a crash leaves is whole.
LEMMA DurableIsWhole ==
    ASSUME Locks, Exact, Wholes
    PROVE  Whole(Durable)
<1>1. CASE saved = <<>>
  <2>1. \A t \in Thread : depth[t] = 0
    BY <1>1, SomethingOpen DEF Locks
  <2> QED
    BY <1>1, <2>1 DEF Wholes, Durable
<1>2. CASE saved # <<>>
  <2>1. 1 \in 1..Len(saved)
    BY <1>2, Pop DEF Locks
  <2>2. \A t \in Thread : pc[t] = "captured" => depth[t] # 1
    BY DEF Locks, Fits
  <2> QED
    BY <1>2, <2>1, <2>2 DEF Wholes, Durable
<1> QED
  BY <1>1, <1>2

LEMMA WholesNext ==
    ASSUME Deletable = {}, Locks, Calls, Data, Exact, Wholes, [Next]_vars
    PROVE  Wholes'
<1>1. CASE Crash
  <2>1. db' = Durable /\ saved' = <<>> /\ \A t \in Thread : depth'[t] = 0
    BY <1>1 DEF Crash
  <2> QED
    BY <2>1, DurableIsWhole, EmptySeq DEF Wholes
<1>2. CASE UNCHANGED vars
  BY <1>2 DEF vars, Wholes, Underway, Unmirrored
<1> QED
  BY <1>1, <1>2, WholesContinue, WholesRequest, NoDelete DEF Next

LEMMA WholesInit == Init => Exact /\ Wholes
<1> SUFFICES ASSUME Init
             PROVE  Exact /\ Wholes
  OBVIOUS
<1>1. Exact /\ Len(saved) = 0 /\ \A t \in Thread : depth[t] = 0
  BY EmptySeq DEF Init, Exact
<1>2. Whole(InitialTables)
  BY DEF Whole, InitialTables
<1> QED
  BY <1>1, <1>2 DEF Init, Wholes

LEMMA WholesInductive ==
    ASSUME Deletable = {}
    PROVE  Spec => [](IndInv /\ Exact /\ Wholes)
<1>1. Init => Exact /\ Wholes
  BY WholesInit
<1>2. IndInv /\ (Exact /\ Wholes) /\ [Next]_vars => (Exact /\ Wholes)'
  BY ExactNext, WholesNext DEF IndInv
<1> QED
  BY <1>1, <1>2, Inductive, PTL DEF Spec

\* Where no artifact is deleted, what survives a crash is whole commits: the
\* branches table agrees with refs and every commit comes with its claims.
\* (delete_artifact's db.commit() outside the lock is what breaks it.)
THEOREM CommitsStayWhole ==
    ASSUME Deletable = {}
    PROVE  Spec => []CommitsAreWhole
<1>1. IndInv /\ Exact /\ Wholes => CommitsAreWhole
  BY DurableIsWhole DEF IndInv, Whole, CommitsAreWhole
<1> QED
  BY <1>1, WholesInductive, PTL

\* Ending the outermost frame of a thread.
Published ==
    \E t \in Thread : depth[t] = 1 /\ depth'[t] = 0 /\ pc'[t] = "done"

\* Nothing but the successful end of an outermost frame changes a version.
LEMMA PublishedStep ==
    ASSUME Locks, Calls, Data, Exact, NEW t \in Thread, Continue(t) \/ Request(t)
    PROVE  Published \/ Versions(Durable') = Versions(Durable)
<1>0. /\ DOMAIN db = {"objects", "commits", "refs", "branches", "claimed", "tombs"}
      /\ DOMAIN pc = Thread /\ DOMAIN depth = Thread
  BY DEF Data, Sound, Tables, Locks
<1>1. pc[t] \in Framed \cup Committing \cup {"captured", "raise"} => depth[t] > 0
  BY InFrame
<1>2. ASSUME UNCHANGED saved, depth[t] > 0 \/ Versions(db') = Versions(db)
      PROVE  Versions(Durable') = Versions(Durable)
  <2>1. CASE saved = <<>>
    BY <1>2, <2>1, SomethingOpen DEF Durable
  <2>2. CASE saved # <<>>
    BY <1>2, <2>2 DEF Durable
  <2> QED
    BY <2>1, <2>2
<1>3. ASSUME Enter(t)
      PROVE  Versions(Durable') = Versions(Durable)
  BY <1>3, DurableEnter
<1>4. CASE BeginCommit(t) \/ BeginBranch(t) \/ BeginBatch(t) \/ Capture(t)
  BY <1>3, <1>4 DEF BeginCommit, BeginBranch, BeginBatch, Capture
<1>5. CASE InsertCommit(t) \/ CasAdvance(t) \/ Mirror(t) \/ Fork(t) \/ ForkMirror(t) \/ AbortBatch(t)
  <2>1. /\ pc[t] \in Framed \cup Committing \cup {"captured", "raise"}
        /\ UNCHANGED saved
    BY <1>5 DEF InsertCommit, CasAdvance, Mirror, Fork, ForkMirror, AbortBatch, Framed, Committing
  <2> QED
    BY <1>1, <1>2, <2>1
<1>6. CASE Acknowledge(t) \/ Fail(t)
  <2>1. UNCHANGED <<db, saved>>
    BY <1>6 DEF Acknowledge, Fail
  <2>2. Versions(db') = Versions(db)
    BY <2>1
  <2> QED
    BY <1>2, <2>1, <2>2
<1>7. ASSUME NEW ref \in Ref, ReadHead(t, ref) \/ ReadTheirs(t, ref) \/ AskBranch(t, ref)
      PROVE  Versions(Durable') = Versions(Durable)
  <2>1. UNCHANGED <<db, saved>>
    BY <1>7 DEF ReadHead, ReadTheirs, AskBranch
  <2>2. Versions(db') = Versions(db)
    BY <2>1
  <2> QED
    BY <1>2, <2>1, <2>2
<1>8. ASSUME NEW root \in Content, PutBlob(root), UNCHANGED saved
      PROVE  Versions(Durable') = Versions(Durable)
  <2>1. Versions(db') = Versions(db)
    BY <1>0, <1>8 DEF PutBlob, Versions
  <2> QED
    BY <1>2, <1>8, <2>1
<1>9. ASSUME NEW root \in Content, NEW stamp \in Stamp, Prepare(t, root, stamp)
      PROVE  Versions(Durable') = Versions(Durable)
  BY <1>8, <1>9 DEF Prepare
<1>10. ASSUME NEW ref \in Ref, NEW root \in Content, NEW stamp \in Stamp,
              BatchCommit(t, ref, root, stamp)
       PROVE  Versions(Durable') = Versions(Durable)
  BY <1>8, <1>10 DEF BatchCommit
<1>11. CASE EndCapture(t) \/ EndCommit(t) \/ EndBatch(t)
  <2>1. pc[t] \in Framed \cup Committing \cup {"captured", "raise"}
    BY <1>11 DEF EndCapture, EndCommit, EndBatch, Framed, Committing
  <2>2. saved # <<>> /\ Len(saved) = depth[t]
    BY <1>1, <2>1, SomethingOpen
  <2>3. saved' = SubSeq(saved, 1, Len(saved) - 1) /\ depth' = [depth EXCEPT ![t] = @ - 1]
    BY <1>11, <2>2 DEF EndCapture, EndCommit, EndBatch, Leave
  <2>4. CASE depth[t] = 1
    <3>1. depth'[t] = 0
      BY <1>0, <2>3, <2>4
    <3>2. pc[t] # "captured"
      BY <2>4 DEF Locks, Fits
    <3>3. pc'[t] = "done"
      BY <1>0, <1>11, <2>2, <2>4, <3>2 DEF EndCapture, EndCommit, EndBatch, Leave
    <3> QED
      BY <2>4, <3>1, <3>3 DEF Published
  <2>5. CASE depth[t] # 1
    BY <2>2, <2>3, <2>5, DurablePop
  <2> QED
    BY <2>4, <2>5
<1>12. CASE Unwind(t)
  <2>1. depth[t] > 0
    BY <1>1, <1>12 DEF Unwind
  <2>2. /\ saved # <<>> /\ db' = saved[Len(saved)]
        /\ saved' = SubSeq(saved, 1, Len(saved) - 1)
    BY <1>12, <2>1, SomethingOpen DEF Unwind
  <2>3. Durable' = Durable
    BY <2>2, DurablePop
  <2> QED
    BY <2>3
<1> QED
  BY <1>4, <1>5, <1>6, <1>7, <1>9, <1>10, <1>11, <1>12 DEF Continue, Request

\* Where no artifact is deleted, a transaction becomes durable whole or leaves
\* no trace: not by a failure, a nested frame, a crash or another thread's step.
THEOREM TransactionsAreAllOrNothing ==
    ASSUME Deletable = {}
    PROVE  Spec => AllOrNothing
<1>1. ASSUME IndInv, Exact, Wholes, [Next]_vars
      PROVE  Versions(Durable') # Versions(Durable) => Published
  <2>1. CASE Crash
    BY <2>1 DEF Crash, Durable
  <2>2. CASE UNCHANGED vars
    BY <2>2 DEF vars, Durable
  <2> QED
    BY <1>1, <2>1, <2>2, PublishedStep, NoDelete DEF IndInv, Next
<1> QED
  BY <1>1, WholesInductive, PTL DEF Spec, AllOrNothing, Published
=============================================================================
