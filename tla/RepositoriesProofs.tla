------------------------- MODULE RepositoriesProofs -------------------------
(***************************************************************************)
(* The properties of Repositories, for any clients, branches, paths and    *)
(* bounds: manifests are well formed; pins and child branches only move    *)
(* forward, and no writer replaces what he did not see, unless a commit    *)
(* named no base.                                                          *)
(***************************************************************************)
EXTENDS Repositories, TableLemmas

-----------------------------------------------------------------------------
(* Paths.                                                                  *)

LEMMA PathFacts ==
    ASSUME NEW p \in Path
    PROVE  /\ p \in Seq(STRING) /\ Len(p) \in Nat \ {0} /\ DOMAIN p = 1..Len(p)
           /\ p \in PathsTo(p) /\ PathsTo(p) \subseteq Path
<1>1. p \in Seq(STRING) /\ p # <<>>
  BY RepositoryAssumption
<1>2. Len(p) \in Nat \ {0} /\ DOMAIN p = 1..Len(p)
  BY <1>1, LenProperties, EmptySeq
<1>3. SubSeq(p, 1, Len(p)) = p
  BY <1>1, SubSeqFull
<1>4. p \in PathsTo(p)
  <2>1. Len(p) \in 1..Len(p)
    BY <1>2
  <2> QED
    BY <1>3, <2>1, Zenon DEF PathsTo
<1>5. PathsTo(p) \subseteq Path
  BY RepositoryAssumption DEF PathsTo
<1> QED
  BY <1>1, <1>2, <1>4, <1>5

\* What a prefix of a path is.
LEMMA PrefixFacts ==
    ASSUME NEW p \in Path, NEW q \in PathsTo(p)
    PROVE  /\ q \in Path /\ Len(q) \in 1..Len(p)
           /\ \A k \in 1..Len(q) : SubSeq(q, 1, k) = SubSeq(p, 1, k)
<1>1. PICK n \in 1..Len(p) : q = SubSeq(p, 1, n)
  BY DEF PathsTo
<1>2. /\ p \in Seq(STRING) /\ Len(p) \in Nat \ {0} /\ DOMAIN p = 1..Len(p)
      /\ q \in Path
  BY PathFacts
<1>3. Len(q) = n
  <2>1. \A i \in 1..n : p[i] \in STRING
    BY <1>1, <1>2, ElementOfSeq
  <2> QED
    BY <1>1, <1>2, <2>1, SubSeqProperties
<1>4. ASSUME NEW k \in 1..n
      PROVE  SubSeq(q, 1, k) = SubSeq(p, 1, k)
  <2>1. /\ 1 \in 1..Len(p) /\ n \in 1..Len(p)
        /\ 1 \in 1..n - 1 + 1 /\ k \in 1..n - 1 + 1
        /\ 1 + 1 - 1 = 1 /\ 1 + k - 1 = k
    BY <1>1, <1>2, <1>4
  <2> QED
    BY <1>1, <1>2, <2>1, SubSeqOfSubSeq
<1> QED
  BY <1>1, <1>2, <1>3, <1>4

LEMMA PrefixesNest ==
    ASSUME NEW p \in Path, NEW q \in PathsTo(p)
    PROVE  PathsTo(q) \subseteq PathsTo(p)
<1>1. Len(p) \in Nat /\ Len(q) \in 1..Len(p) /\ \A k \in 1..Len(q) : SubSeq(q, 1, k) = SubSeq(p, 1, k)
  BY PathFacts, PrefixFacts
<1> QED
  BY <1>1 DEF PathsTo

LEMMA AboveNests ==
    ASSUME NEW p \in Path, NEW q \in PathsTo(p)
    PROVE  Above(q) \subseteq Above(p) /\ (q # p => q \in Above(p))
<1>1. SUFFICES ASSUME p \in Above(q)
               PROVE  FALSE
  BY PrefixesNest DEF Above
<1>2. p \in PathsTo(q) /\ p # q /\ q \in Path
  BY <1>1, PathFacts DEF Above
<1>3. Len(q) \in 1..Len(p) /\ Len(p) \in 1..Len(q) /\ Len(p) \in Nat /\ Len(q) \in Nat
  BY <1>2, PathFacts, PrefixFacts
<1>4. Len(q) = Len(p)
  BY <1>3
<1>5. SubSeq(q, 1, Len(q)) = SubSeq(p, 1, Len(q))
  BY <1>3, PrefixFacts
<1>6. q = p
  BY <1>2, <1>4, <1>5, PathFacts, SubSeqFull
<1> QED
  BY <1>2, <1>6

\* What is below a folder's prefix is below the folder.
LEMMA BelowNests ==
    ASSUME NEW p \in Path, NEW q \in PathsTo(p), NEW path \in Path, IsPrefix(path, q)
    PROVE  IsPrefix(path, p)
<1>1. /\ Len(p) \in Nat /\ Len(q) \in 1..Len(p) /\ Len(path) \in Nat \ {0} /\ Len(path) <= Len(q)
      /\ SubSeq(path, 1, Len(path)) = SubSeq(q, 1, Len(path))
  BY PathFacts, PrefixFacts DEF IsPrefix
<1>2. SubSeq(q, 1, Len(path)) = SubSeq(p, 1, Len(path))
  BY <1>1, PrefixFacts
<1> QED
  BY <1>1, <1>2 DEF IsPrefix

-----------------------------------------------------------------------------
(* The inductive invariant.                                                *)

IsTree(tree) ==
    /\ tree \in [folders : SUBSET Path, files : {tree.files}]
    /\ DOMAIN tree.files \subseteq Path

\* TreesAreWellFormed, of one tree.
WellFormed(tree) ==
    /\ DOMAIN tree.files \cap tree.folders = {}
    /\ \A p \in DOMAIN tree.files \cup tree.folders : Above(p) \subseteq tree.folders

Refers(list, v, a) == v \in DOMAIN list /\ list[v].artifact = a

\* A pin names a version of its artifact, and no other path pins that artifact.
PinsFit(tree, list) ==
    \A p \in DOMAIN tree.files : tree.files[p] # Binary =>
        /\ Refers(list, tree.files[p].version, tree.files[p].artifact)
        /\ \A q \in DOMAIN tree.files : tree.files[q].artifact = tree.files[p].artifact => q = p

Trees ==
    /\ Table(trees)
    /\ heads \in [Branch -> 0..Len(trees)]
    /\ \A t \in DOMAIN trees :
          IsTree(trees[t]) /\ WellFormed(trees[t]) /\ PinsFit(trees[t], versions)

\* `past` is reflexive and transitive; who replaced what he did not see named no base.
IsVersion(list, v) ==
    /\ list[v].artifact \in 1..v
    /\ v \in list[v].past /\ list[v].past \subseteq 1..v
    /\ \A w \in list[v].past : list[w].past \subseteq list[v].past
    /\ list[v].unseen => list[v].blind

Versions ==
    /\ Table(versions)
    /\ \A v \in DOMAIN versions : IsVersion(versions, v)

Children ==
    /\ child \in [Branch -> {child[b] : b \in Branch}]
    /\ \A b \in Branch :
          /\ heads[b] = 0 => DOMAIN child[b] = {}
          /\ \A a \in DOMAIN child[b] : Refers(versions, child[b][a], a)

Readings ==
    /\ reading \in [Client -> {reading[c] : c \in Client}]
    /\ \A c \in Client : reading[c] # None =>
          /\ reading[c].branch \in Branch
          /\ reading[c].artifact \in DOMAIN child[reading[c].branch]
          /\ Refers(versions, reading[c].head, reading[c].artifact)

WasForced(list, b, a) ==
    \E v \in DOMAIN list : list[v].blind /\ list[v].branch = b /\ list[v].artifact = a

\* The child branch of a on b has v behind it, unless it was forced.
Held(list, kids, b, a, v) ==
    v \in list[kids[b][a]].past \/ WasForced(list, b, a)

Work ==
    \A v \in DOMAIN versions :
        /\ versions[v].branch \in Branch
        /\ versions[v].artifact \in DOMAIN child[versions[v].branch]
        /\ Held(versions, child, versions[v].branch, versions[v].artifact, v)

PinHeld(list, kids, b, pin) ==
    pin # Binary /\ pin.artifact \in DOMAIN kids[b] => Held(list, kids, b, pin.artifact, pin.version)

Pins ==
    \A b \in Branch : heads[b] # 0 =>
        \A p \in DOMAIN trees[heads[b]].files : PinHeld(versions, child, b, trees[heads[b]].files[p])

RInv == Trees /\ Versions /\ Children /\ Readings /\ Work /\ Pins

-----------------------------------------------------------------------------
(* Growing tables.                                                         *)

Growing(list, more) ==
    DOMAIN list \subseteq DOMAIN more /\ \A v \in DOMAIN list : more[v] = list[v]

LEMMA ForcedStays ==
    ASSUME NEW list, NEW more, Growing(list, more), NEW b, NEW a, WasForced(list, b, a)
    PROVE  WasForced(more, b, a)
BY DEF WasForced, Growing

LEMMA PinsFitStays ==
    ASSUME NEW list, NEW more, Growing(list, more), NEW tree, PinsFit(tree, list)
    PROVE  PinsFit(tree, more)
BY DEF PinsFit, Refers, Growing

\* _save adds one tree, which has to be sound.
LEMMA SaveKeeps ==
    ASSUME Trees, NEW b \in Branch, NEW tree, Save(b, tree), Growing(versions, versions'),
           IsTree(tree), WellFormed(tree), PinsFit(tree, versions')
    PROVE  /\ Trees' /\ heads'[b] # 0 /\ trees'[heads'[b]] = tree
           /\ \A c \in Branch \ {b} : heads'[c] = heads[c]
           /\ \A c \in Branch : heads[c] # 0 => trees'[heads[c]] = trees[heads[c]]
<1>1. trees' = Append(trees, tree) /\ heads' = [heads EXCEPT ![b] = Len(trees) + 1]
  BY DEF Save
<1>2. Len(trees) \in Nat /\ DOMAIN trees = 1..Len(trees)
  BY TableFacts DEF Trees
<1>3. /\ Table(trees') /\ DOMAIN trees' = DOMAIN trees \cup {Len(trees) + 1}
      /\ \A k \in DOMAIN trees : trees'[k] = trees[k]
      /\ trees'[Len(trees) + 1] = tree
  BY <1>1, TableAppend DEF Trees
<1>4. Len(trees') = Len(trees) + 1
  <2>1. Len(trees') \in Nat /\ DOMAIN trees' = 1..Len(trees')
    BY <1>3, TableFacts
  <2>2. Len(trees') \in DOMAIN trees' \/ Len(trees') = 0
    BY <2>1
  <2>3. Len(trees) + 1 \in 1..Len(trees')
    BY <1>3, <2>1
  <2> QED
    BY <1>2, <1>3, <2>1, <2>2, <2>3
<1>5. heads \in [Branch -> 0..Len(trees)]
  BY DEF Trees
<1>6. heads' \in [Branch -> 0..Len(trees')]
  BY <1>1, <1>2, <1>4, <1>5
<1>7. ASSUME NEW t \in DOMAIN trees'
      PROVE  IsTree(trees'[t]) /\ WellFormed(trees'[t]) /\ PinsFit(trees'[t], versions')
  <2>1. CASE t \in DOMAIN trees
    BY <1>3, <2>1, PinsFitStays DEF Trees
  <2>2. CASE t = Len(trees) + 1
    BY <1>3, <2>2
  <2> QED
    BY <1>3, <2>1, <2>2
<1>8. heads'[b] = Len(trees) + 1 /\ \A c \in Branch \ {b} : heads'[c] = heads[c]
  BY <1>1, <1>5
<1>9. ASSUME NEW c \in Branch, heads[c] # 0
      PROVE  heads[c] \in DOMAIN trees
  BY <1>2, <1>5, <1>9
<1> QED
  BY <1>2, <1>3, <1>6, <1>7, <1>8, <1>9 DEF Trees

LEMMA TreesStay ==
    ASSUME Trees, UNCHANGED <<trees, heads>>, Growing(versions, versions')
    PROVE  Trees'
BY PinsFitStays DEF Trees

LEMMA ReadingsStay ==
    ASSUME Readings, Growing(versions, versions'),
           reading' \in [Client -> {reading'[c] : c \in Client}],
           \A c \in Client : reading'[c] \in {reading[c], None},
           \A b \in Branch : DOMAIN child[b] \subseteq DOMAIN child'[b]
    PROVE  Readings'
<1>1. ASSUME NEW c \in Client, reading'[c] # None
      PROVE  /\ reading'[c].branch \in Branch
             /\ reading'[c].artifact \in DOMAIN child'[reading'[c].branch]
             /\ Refers(versions', reading'[c].head, reading'[c].artifact)
  <2>1. reading'[c] = reading[c]
    BY <1>1
  <2>2. Refers(versions, reading[c].head, reading[c].artifact)
    BY <1>1, <2>1 DEF Readings
  <2>3. Refers(versions', reading[c].head, reading[c].artifact)
    BY <2>2 DEF Refers, Growing
  <2> QED
    BY <1>1, <2>1, <2>3 DEF Readings
<1> QED
  BY <1>1 DEF Readings

-----------------------------------------------------------------------------
(* A child branch moves: to a version there is already, or to one new version. *)

\* The child branch of a on b moves to w, which has the former head behind it unless it
\* is forced; a version that is new is w, written on b.
Moves(b, a, w) ==
    /\ heads[b] # 0
    /\ SetChild(b, a, w)
    /\ Growing(versions, versions') /\ Refers(versions', w, a)
    /\ DOMAIN versions' \subseteq DOMAIN versions \cup {w}
    /\ w \notin DOMAIN versions => versions'[w].branch = b
    /\ a \in DOMAIN child[b] =>
          child[b][a] \in versions'[w].past \/ WasForced(versions', b, a)

LEMMA MovedChild ==
    ASSUME Children, NEW b \in Branch, NEW a, NEW w, Moves(b, a, w)
    PROVE  /\ child' \in [Branch -> {child'[c] : c \in Branch}]
           /\ DOMAIN child'[b] = DOMAIN child[b] \cup {a} /\ child'[b][a] = w
           /\ \A x \in DOMAIN child[b] \ {a} : child'[b][x] = child[b][x]
           /\ \A c \in Branch \ {b} : child'[c] = child[c]
           /\ \A c \in Branch : DOMAIN child[c] \subseteq DOMAIN child'[c]
<1>1. child' = [child EXCEPT ![b] = [x \in DOMAIN child[b] \cup {a} |->
                                         IF x = a THEN w ELSE child[b][x]]]
  BY DEF Moves, SetChild
<1>2. child \in [Branch -> {child[c] : c \in Branch}]
  BY DEF Children
<1>3. child'[b] = [x \in DOMAIN child[b] \cup {a} |-> IF x = a THEN w ELSE child[b][x]]
  BY <1>1, <1>2
<1>4. \A c \in Branch \ {b} : child'[c] = child[c]
  BY <1>1, <1>2
<1>5. child' \in [Branch -> {child'[c] : c \in Branch}]
  BY <1>1, <1>2
<1> QED
  BY <1>3, <1>4, <1>5

LEMMA HeldMoves ==
    ASSUME Versions', Children, NEW b \in Branch, NEW a, NEW w, Moves(b, a, w),
           NEW c \in Branch, NEW x \in DOMAIN child[c], NEW v, Held(versions, child, c, x, v)
    PROVE  Held(versions', child', c, x, v)
<1>1. CASE WasForced(versions, c, x)
  BY <1>1, ForcedStays DEF Held, Moves
<1>2. CASE v \in versions[child[c][x]].past
  <2>1. child[c][x] \in DOMAIN versions
    BY DEF Children, Refers
  <2>2. v \in versions'[child[c][x]].past
    BY <1>2, <2>1 DEF Moves, Growing
  <2>3. CASE c = b /\ x = a
    <3>1. w \in DOMAIN versions' /\ child'[b][a] = w
      BY MovedChild DEF Moves, Refers
    <3>2. CASE child[b][a] \in versions'[w].past
      <4>1. versions'[child[b][a]].past \subseteq versions'[w].past
        BY <3>1, <3>2 DEF Versions, IsVersion
      <4> QED
        BY <2>2, <2>3, <3>1, <4>1 DEF Held
    <3>3. CASE WasForced(versions', b, a)
      BY <2>3, <3>3 DEF Held
    <3> QED
      BY <2>3, <3>2, <3>3 DEF Moves
  <2>4. CASE ~(c = b /\ x = a)
    <3>1. child'[c][x] = child[c][x]
      BY <2>4, MovedChild
    <3> QED
      BY <2>2, <3>1 DEF Held
  <2> QED
    BY <2>3, <2>4
<1> QED
  BY <1>1, <1>2 DEF Held

\* What a move leaves true of the child branches and the work on them.
LEMMA MoveKeeps ==
    ASSUME Versions, Versions', Children, Work, NEW b \in Branch, NEW a, NEW w, Moves(b, a, w),
           \A c \in Branch : heads'[c] = 0 => heads[c] = 0
    PROVE  Children' /\ Work'
<1>1. ASSUME NEW c \in Branch, NEW x \in DOMAIN child'[c]
      PROVE  Refers(versions', child'[c][x], x)
  <2>1. CASE c = b /\ x = a
    BY <2>1, MovedChild DEF Moves
  <2>2. CASE ~(c = b /\ x = a)
    <3>1. x \in DOMAIN child[c] /\ child'[c][x] = child[c][x]
      BY <1>1, <2>2, MovedChild
    <3>2. Refers(versions, child[c][x], x)
      BY <3>1 DEF Children
    <3> QED
      BY <3>1, <3>2 DEF Refers, Moves, Growing
  <2> QED
    BY <2>1, <2>2
<1>2. ASSUME NEW c \in Branch, heads'[c] = 0
      PROVE  DOMAIN child'[c] = {}
  <2>1. heads[c] = 0 /\ c # b
    BY <1>2 DEF Moves
  <2> QED
    BY <2>1, MovedChild DEF Children
<1>3. Children'
  BY <1>1, <1>2, MovedChild DEF Children
<1>4. ASSUME NEW v \in DOMAIN versions'
      PROVE  /\ versions'[v].branch \in Branch
             /\ versions'[v].artifact \in DOMAIN child'[versions'[v].branch]
             /\ Held(versions', child', versions'[v].branch, versions'[v].artifact, v)
  <2>1. CASE v \in DOMAIN versions
    <3>1. versions'[v] = versions[v]
      BY <2>1 DEF Moves, Growing
    <3>2. /\ versions[v].branch \in Branch
          /\ versions[v].artifact \in DOMAIN child[versions[v].branch]
          /\ Held(versions, child, versions[v].branch, versions[v].artifact, v)
      BY <2>1 DEF Work
    <3>3. Held(versions', child', versions[v].branch, versions[v].artifact, v)
      BY <3>2, HeldMoves
    <3> QED
      BY <3>1, <3>2, <3>3, MovedChild
  <2>2. CASE v \notin DOMAIN versions
    <3>1. v = w /\ versions'[v].branch = b /\ versions'[v].artifact = a
      BY <1>4, <2>2 DEF Moves, Refers
    <3>2. v \in versions'[v].past
      BY <1>4 DEF Versions, IsVersion
    <3> QED
      BY <3>1, <3>2, MovedChild DEF Held
  <2> QED
    BY <2>1, <2>2
<1>5. Work'
  BY <1>4 DEF Work
<1> QED
  BY <1>3, <1>5

\* A pin that was held stays held; one whose artifact gets a child branch has to be
\* behind it.
LEMMA PinMoves ==
    ASSUME Versions', Children, NEW b \in Branch, NEW a, NEW w, Moves(b, a, w),
           NEW c \in Branch, NEW pin, PinHeld(versions, child, c, pin),
           c = b /\ pin.artifact = a /\ a \notin DOMAIN child[b] =>
               pin.version \in versions'[w].past
    PROVE  PinHeld(versions', child', c, pin)
<1>1. SUFFICES ASSUME pin # Binary, pin.artifact \in DOMAIN child'[c]
               PROVE  Held(versions', child', c, pin.artifact, pin.version)
  BY DEF PinHeld
<1>2. CASE pin.artifact \in DOMAIN child[c]
  <2>1. Held(versions, child, c, pin.artifact, pin.version)
    BY <1>1, <1>2 DEF PinHeld
  <2> QED
    BY <1>2, <2>1, HeldMoves
<1>3. CASE pin.artifact \notin DOMAIN child[c]
  <2>1. c = b /\ pin.artifact = a /\ child'[b][a] = w
    BY <1>1, <1>3, MovedChild
  <2> QED
    BY <1>3, <2>1 DEF Held
<1> QED
  BY <1>2, <1>3

LEMMA CommitVersion ==
    ASSUME Versions, NEW row, versions' = Append(versions, row),
           NEW parents \in SUBSET DOMAIN versions, row.unseen => row.blind,
           row.past = {Len(versions) + 1} \cup UNION {versions[q].past : q \in parents},
           NEW p \in parents, versions[p].artifact = row.artifact
    PROVE  LET w == Len(versions) + 1 IN
           /\ Versions' /\ Growing(versions, versions') /\ versions'[w] = row
           /\ w \notin DOMAIN versions /\ DOMAIN versions' = DOMAIN versions \cup {w}
           /\ parents \subseteq row.past /\ w \in row.past
<1> DEFINE w == Len(versions) + 1
           a == row.artifact
<1>2. Len(versions) \in Nat /\ DOMAIN versions = 1..Len(versions) /\ w \notin DOMAIN versions
  BY TableFacts DEF Versions
<1>3. /\ Table(versions') /\ DOMAIN versions' = DOMAIN versions \cup {w}
      /\ \A k \in DOMAIN versions : versions'[k] = versions[k]
      /\ versions'[w] = row
  BY TableAppend DEF Versions
<1>4. /\ row.unseen => row.blind
      /\ row.past = {w} \cup UNION {versions[q].past : q \in parents}
  OBVIOUS
<1>5. \A q \in DOMAIN versions : IsVersion(versions, q)
  BY DEF Versions
<1>6. ASSUME NEW q \in DOMAIN versions
      PROVE  IsVersion(versions', q)
  <2>1. \A x \in versions[q].past : x \in DOMAIN versions
    BY <1>2, <1>5 DEF IsVersion
  <2> QED
    BY <1>3, <1>5, <2>1 DEF IsVersion
<1>7. IsVersion(versions', w)
  <2>1. a \in 1..w
    <3>1. a \in 1..p /\ p \in 1..Len(versions)
      BY <1>2, <1>5 DEF IsVersion
    <3> QED
      BY <1>2, <3>1
  <2>2. ASSUME NEW x \in row.past
        PROVE  /\ x \in 1..w
               /\ versions'[x].past \subseteq row.past
    <3>1. CASE x = w
      BY <1>2, <1>3, <3>1
    <3>2. ASSUME NEW q \in parents, x \in versions[q].past
          PROVE  x \in 1..w /\ versions'[x].past \subseteq row.past
      <4>1. x \in 1..q /\ q \in 1..Len(versions)
        BY <1>2, <1>5, <3>2 DEF IsVersion
      <4>2. x \in 1..Len(versions) /\ x \in 1..w
        BY <1>2, <4>1
      <4>3. versions'[x].past = versions[x].past /\ versions[x].past \subseteq versions[q].past
        BY <1>2, <1>3, <1>5, <3>2, <4>2 DEF IsVersion
      <4>4. versions[q].past \subseteq row.past
        BY <1>4
      <4> QED
        BY <4>2, <4>3, <4>4
    <3> QED
      BY <1>4, <3>1, <3>2
  <2>3. w \in row.past /\ (row.unseen => row.blind)
    BY <1>4
  <2> QED
    BY <1>3, <1>4, <2>1, <2>2, <2>3 DEF IsVersion
<1>8. parents \subseteq row.past
  BY <1>4, <1>5 DEF IsVersion
<1>9. Versions'
  BY <1>3, <1>6, <1>7 DEF Versions
<1>10. Growing(versions, versions') /\ w \in row.past
  BY <1>3, <1>4 DEF Growing
<1> QED
  BY <1>2, <1>3, <1>8, <1>9, <1>10

\* When the manifests stay and no pin is left behind, the pins are kept.
LEMMA PinsMove ==
    ASSUME RInv, UNCHANGED <<trees, heads>>, Versions', NEW b \in Branch, NEW a, NEW w,
           Moves(b, a, w),
           \A p \in DOMAIN trees[heads[b]].files :
               LET pin == trees[heads[b]].files[p] IN
               pin # Binary /\ pin.artifact = a /\ a \notin DOMAIN child[b] =>
                   pin.version \in versions'[w].past
    PROVE  Pins'
<1>1. SUFFICES ASSUME NEW c \in Branch, heads[c] # 0, NEW p \in DOMAIN trees[heads[c]].files
               PROVE  PinHeld(versions', child', c, trees[heads[c]].files[p])
  BY DEF Pins
<1>2. PinHeld(versions, child, c, trees[heads[c]].files[p])
  BY <1>1 DEF RInv, Pins
<1>3. CASE trees[heads[c]].files[p] = Binary
  BY <1>3 DEF PinHeld
<1>4. CASE trees[heads[c]].files[p] # Binary
  BY <1>1, <1>2, <1>4, PinMoves DEF RInv
<1> QED
  BY <1>3, <1>4

\* A move of a child branch beside the manifests.
LEMMA MoveBeside ==
    ASSUME RInv, UNCHANGED <<trees, heads>>, Versions', NEW b \in Branch, NEW a, NEW w,
           Moves(b, a, w),
           \A p \in DOMAIN trees[heads[b]].files :
               LET pin == trees[heads[b]].files[p] IN
               pin # Binary /\ pin.artifact = a /\ a \notin DOMAIN child[b] =>
                   pin.version \in versions'[w].past,
           reading' \in [Client -> {reading'[c] : c \in Client}],
           \A c \in Client : reading'[c] \in {reading[c], None}
    PROVE  RInv'
<1>1. Growing(versions, versions') /\ Trees'
  BY TreesStay DEF Moves, RInv
<1>2. Children' /\ Work'
  BY MoveKeeps DEF RInv
<1>3. Pins'
  BY PinsMove
<1>4. Readings'
  BY <1>1, MovedChild, ReadingsStay DEF RInv
<1> QED
  BY <1>1, <1>2, <1>3, <1>4 DEF RInv

\* Where a child branch is, there is a repository branch.
LEMMA ChildHasHead ==
    ASSUME Children, NEW b \in Branch, NEW a \in DOMAIN child[b]
    PROVE  heads[b] # 0 /\ Refers(versions, child[b][a], a) /\ Child(b, a) = child[b][a]
BY DEF Children, Child

-----------------------------------------------------------------------------
(* The steps of the artifact API.                                          *)

LEMMA ReadChildKeeps ==
    ASSUME RInv, NEW c \in Client, NEW b \in Branch, NEW a \in DOMAIN child[b], ReadChild(c, b, a)
    PROVE  RInv'
<1>1. /\ reading' = [reading EXCEPT ![c] = [branch |-> b, artifact |-> a, head |-> child[b][a]]]
      /\ UNCHANGED <<trees, heads, versions, child, deleted>>
  BY DEF ReadChild
<1>2. Trees' /\ Versions' /\ Children' /\ Work' /\ Pins'
  BY <1>1 DEF RInv, Trees, Versions, Children, Work, Pins
<1>3. Refers(versions, child[b][a], a)
  BY ChildHasHead DEF RInv
<1>4. /\ reading' \in [Client -> {reading'[d] : d \in Client}]
      /\ reading'[c] = [branch |-> b, artifact |-> a, head |-> child[b][a]]
      /\ \A d \in Client \ {c} : reading'[d] = reading[d]
  BY <1>1 DEF RInv, Readings
<1>5. ASSUME NEW d \in Client, reading'[d] # None
      PROVE  /\ reading'[d].branch \in Branch
             /\ reading'[d].artifact \in DOMAIN child[reading'[d].branch]
             /\ Refers(versions, reading'[d].head, reading'[d].artifact)
  <2>1. CASE d = c
    BY <1>3, <1>4, <2>1
  <2>2. CASE d # c
    BY <1>4, <1>5, <2>2 DEF RInv, Readings
  <2> QED
    BY <2>1, <2>2
<1>6. Readings'
  BY <1>1, <1>4, <1>5 DEF Readings
<1> QED
  BY <1>2, <1>6 DEF RInv

LEMMA CommitChildKeeps ==
    ASSUME RInv, NEW c \in Client, NEW loaded, NEW blind \in BOOLEAN, CommitChild(c, loaded, blind)
    PROVE  RInv'
<1> DEFINE r == reading[c]
           b == r.branch
           a == r.artifact
           w == Len(versions) + 1
           expected == IF blind THEN Child(b, a) ELSE loaded
<1>1. /\ r # None /\ reading' = [reading EXCEPT ![c] = None] /\ UNCHANGED <<trees, heads, deleted>>
      /\ ~blind => loaded = r.head
      /\ \/ CommitOn(b, a, {r.head}, expected, loaded, blind)
         \/ UNCHANGED <<versions, child>>
  BY DEF CommitChild
<1>2. /\ b \in Branch /\ a \in DOMAIN child[b] /\ Refers(versions, r.head, a)
      /\ heads[b] # 0 /\ Child(b, a) = child[b][a]
  BY <1>1, ChildHasHead DEF RInv, Readings
<1>3. /\ reading' \in [Client -> {reading'[d] : d \in Client}]
      /\ \A d \in Client : reading'[d] \in {reading[d], None}
  BY <1>1 DEF RInv, Readings
<1>4. CASE UNCHANGED <<versions, child>>
  <2>1. Growing(versions, versions')
    BY <1>4 DEF Growing
  <2>2. Readings'
    BY <1>3, <1>4, <2>1, ReadingsStay DEF RInv
  <2> QED
    BY <1>1, <1>4, <2>2 DEF RInv, Trees, Versions, Children, Work, Pins
<1>5. CASE CommitOn(b, a, {r.head}, expected, loaded, blind)
  <2>1. {r.head} \in SUBSET DOMAIN versions /\ r.head \in {r.head} /\ versions[r.head].artifact = a
    BY <1>2 DEF Refers
  <2> DEFINE row == Version(w, a, {r.head}, loaded, b, blind)
  <2>2. versions' = Append(versions, row) /\ SetChild(b, a, w)
    BY <1>5 DEF CommitOn
  <2>3. /\ row.artifact = a /\ row.branch = b /\ row.blind = blind
        /\ row.unseen = (Child(b, a) \notin {None, loaded})
        /\ row.past = {w} \cup UNION {versions[q].past : q \in {r.head}}
    BY DEF Version
  <2>8. row.unseen => row.blind
    BY <1>5, <2>3 DEF CommitOn
  <2> DEFINE head == r.head
             parents == {head}
  <2>9. /\ Versions /\ versions' = Append(versions, row) /\ parents \in SUBSET DOMAIN versions
        /\ row.past = {Len(versions) + 1} \cup UNION {versions[q].past : q \in parents}
        /\ head \in parents /\ versions[head].artifact = row.artifact
    BY <2>1, <2>2, <2>3 DEF RInv
  <2> HIDE DEF expected, r, a, b, row, head, parents
  <2>10. /\ Versions' /\ Growing(versions, versions') /\ versions'[w] = row
         /\ w \notin DOMAIN versions /\ DOMAIN versions' = DOMAIN versions \cup {w}
         /\ parents \subseteq row.past
    BY <2>8, <2>9, CommitVersion
  <2>4. /\ Versions' /\ Growing(versions, versions') /\ versions'[w] = row
        /\ w \notin DOMAIN versions /\ DOMAIN versions' = DOMAIN versions \cup {w}
        /\ {r.head} \subseteq row.past
    BY <2>10 DEF parents, head
  <2>5. /\ Refers(versions', w, a) /\ r.head \in versions'[w].past
        /\ versions'[w].branch = b /\ versions'[w].blind = blind
    BY <2>3, <2>4 DEF Refers
  <2>6. child[b][a] \in versions'[w].past \/ WasForced(versions', b, a)
    <3>1. CASE blind
      BY <2>5, <3>1 DEF WasForced, Refers
    <3>2. CASE ~blind
      <4>1. Child(b, a) = r.head
        BY <1>1, <1>5, <3>2 DEF CommitOn, expected
      <4> QED
        BY <1>2, <2>5, <4>1
    <3> QED
      BY <3>1, <3>2
  <2>7. Moves(b, a, w)
    BY <1>2, <2>5, <2>6, <2>2, <2>4 DEF Moves
  <2> HIDE DEF w
  <2> QED
    BY <1>1, <1>2, <1>3, <2>7, <2>4, MoveBeside
<1> QED
  BY <1>1, <1>4, <1>5

LEMMA MergeChildKeeps ==
    ASSUME RInv, NEW b \in Branch, NEW from \in Branch, NEW a \in DOMAIN child[b],
           MergeChild(b, from, a)
    PROVE  RInv'
<1> DEFINE w == Len(versions) + 1
           parents == {child[b][a], child[from][a]}
<1>1. /\ a \in DOMAIN child[from]
      /\ CommitOn(b, a, parents, child[b][a], child[b][a], FALSE)
      /\ UNCHANGED <<trees, heads, reading, deleted>>
  BY DEF MergeChild
<1>2. /\ Refers(versions, child[b][a], a) /\ Refers(versions, child[from][a], a) /\ heads[b] # 0
  BY <1>1, ChildHasHead DEF RInv
<1>3. parents \in SUBSET DOMAIN versions /\ child[b][a] \in parents /\ versions[child[b][a]].artifact = a
  BY <1>2 DEF Refers
<1>4. /\ Versions' /\ Growing(versions, versions') /\ Refers(versions', w, a)
      /\ w \notin DOMAIN versions /\ DOMAIN versions' = DOMAIN versions \cup {w}
      /\ versions'[w].branch = b /\ parents \subseteq versions'[w].past
      /\ SetChild(b, a, w)
  <2> DEFINE row == Version(w, a, parents, child[b][a], b, FALSE)
  <2>1. versions' = Append(versions, row) /\ SetChild(b, a, w)
    BY <1>1 DEF CommitOn
  <2>2. /\ row.artifact = a /\ row.branch = b /\ ~row.unseen
        /\ row.past = {w} \cup UNION {versions[q].past : q \in parents}
    BY DEF Version, Child
  <2> HIDE DEF parents, row
  <2>3. /\ Versions' /\ Growing(versions, versions') /\ versions'[w] = row
        /\ w \notin DOMAIN versions /\ DOMAIN versions' = DOMAIN versions \cup {w}
        /\ parents \subseteq row.past
    BY <1>3, <2>1, <2>2, CommitVersion DEF RInv
  <2> QED
    BY <2>1, <2>2, <2>3 DEF Refers
<1>5. Moves(b, a, w)
  BY <1>2, <1>4 DEF Moves
<1>6. /\ reading' \in [Client -> {reading'[d] : d \in Client}]
      /\ \A d \in Client : reading'[d] \in {reading[d], None}
  BY <1>1 DEF RInv, Readings
<1> HIDE DEF w, parents
<1> QED
  BY <1>1, <1>4, <1>5, <1>6, MoveBeside

-----------------------------------------------------------------------------
(* The operations that change a manifest and no version.                   *)

LEMMA HeadTree ==
    ASSUME Trees, NEW b \in Branch, heads[b] # 0
    PROVE  /\ heads[b] \in DOMAIN trees /\ Tree(b) = trees[heads[b]]
           /\ IsTree(Tree(b)) /\ WellFormed(Tree(b)) /\ PinsFit(Tree(b), versions)
<1>1. Len(trees) \in Nat /\ DOMAIN trees = 1..Len(trees)
  BY TableFacts DEF Trees
<1>2. heads[b] \in DOMAIN trees
  BY <1>1 DEF Trees
<1> QED
  BY <1>2 DEF Trees, Tree

LEMMA TreeSaved ==
    ASSUME RInv, NEW b \in Branch, heads[b] # 0, NEW tree, Save(b, tree),
           UNCHANGED <<versions, child, reading>>,
           IsTree(tree), WellFormed(tree), PinsFit(tree, versions),
           \A p \in DOMAIN tree.files : PinHeld(versions, child, b, tree.files[p])
    PROVE  RInv'
<1>1. Growing(versions, versions') /\ PinsFit(tree, versions')
  BY DEF Growing
<1>2. /\ Trees' /\ heads'[b] # 0 /\ trees'[heads'[b]] = tree
      /\ \A c \in Branch \ {b} : heads'[c] = heads[c]
      /\ \A c \in Branch : heads[c] # 0 => trees'[heads[c]] = trees[heads[c]]
  BY <1>1, SaveKeeps DEF RInv
<1>3. Pins'
  <2>1. SUFFICES ASSUME NEW c \in Branch, heads'[c] # 0, NEW p \in DOMAIN trees'[heads'[c]].files
                 PROVE  PinHeld(versions, child, c, trees'[heads'[c]].files[p])
    BY DEF Pins
  <2>2. CASE c = b
    BY <1>2, <2>1, <2>2
  <2>3. CASE c # b
    <3>1. heads[c] # 0 /\ trees'[heads'[c]] = trees[heads[c]]
      BY <1>2, <2>1, <2>3
    <3> QED
      BY <2>1, <3>1 DEF RInv, Pins
  <2> QED
    BY <2>2, <2>3
<1>4. Versions' /\ Readings' /\ Work'
  BY DEF RInv, Versions, Readings, Work
<1>5. Children'
  BY <1>2 DEF RInv, Children
<1> QED
  BY <1>2, <1>3, <1>4, <1>5 DEF RInv

LEMMA AddFolderKeeps ==
    ASSUME RInv, NEW b \in Branch, NEW expected, NEW path \in Path, AddFolder(b, expected, path)
    PROVE  RInv'
<1> DEFINE old == Tree(b)
           tree == WithFolders(old, path)
<1>1. /\ heads[b] # 0 /\ PathsTo(path) \cap DOMAIN old.files = {}
      /\ Save(b, tree) /\ UNCHANGED <<versions, child, reading>>
  BY DEF AddFolder, Current, MayHaveFolders
<1>2. /\ heads[b] \in DOMAIN trees /\ old = trees[heads[b]]
      /\ IsTree(old) /\ WellFormed(old) /\ PinsFit(old, versions)
  BY <1>1, HeadTree DEF RInv
<1> HIDE DEF old
<1>3. tree.files = old.files /\ tree.folders = old.folders \cup PathsTo(path)
  BY <1>2 DEF WithFolders, IsTree
<1>4. tree \in [folders : SUBSET Path, files : {tree.files}]
  BY <1>2, PathFacts DEF WithFolders, IsTree
<1>5. IsTree(tree)
  BY <1>2, <1>3, <1>4 DEF IsTree
<1> HIDE DEF tree
<1>6. WellFormed(tree)
  <2>1. ASSUME NEW p \in PathsTo(path)
        PROVE  Above(p) \subseteq PathsTo(path)
    BY AboveNests DEF Above
  <2> QED
    BY <1>1, <1>2, <1>3, <2>1 DEF WellFormed
<1>7. PinsFit(tree, versions)
  BY <1>2, <1>3 DEF PinsFit
<1>8. \A p \in DOMAIN tree.files : PinHeld(versions, child, b, tree.files[p])
  BY <1>1, <1>2, <1>3 DEF RInv, Pins
<1> QED
  BY <1>1, <1>5, <1>6, <1>7, <1>8, TreeSaved

LEMMA DeleteEntryKeeps ==
    ASSUME RInv, NEW b \in Branch, NEW expected, NEW path \in Path, DeleteEntry(b, expected, path)
    PROVE  RInv'
<1> DEFINE old == Tree(b)
           tree == Without(old, path)
<1>1. heads[b] # 0 /\ Save(b, tree) /\ UNCHANGED <<versions, child, reading>>
  BY DEF DeleteEntry, Current
<1>2. /\ heads[b] \in DOMAIN trees /\ old = trees[heads[b]]
      /\ IsTree(old) /\ WellFormed(old) /\ PinsFit(old, versions)
  BY <1>1, HeadTree DEF RInv
<1> HIDE DEF old
<1>3. /\ tree.folders = {p \in old.folders : ~IsPrefix(path, p)}
      /\ DOMAIN tree.files = {p \in DOMAIN old.files : ~IsPrefix(path, p)}
      /\ \A p \in DOMAIN tree.files : tree.files[p] = old.files[p]
  BY <1>2 DEF Without, IsTree
<1>4. tree \in [folders : SUBSET Path, files : {tree.files}]
  BY <1>2 DEF Without, IsTree
<1>5. IsTree(tree)
  BY <1>2, <1>3, <1>4 DEF IsTree
<1> HIDE DEF tree
<1>6. WellFormed(tree)
  <2>1. ASSUME NEW p \in DOMAIN tree.files \cup tree.folders, NEW q \in Above(p)
        PROVE  q \in tree.folders
    <3>1. p \in Path /\ q \in PathsTo(p) /\ q \in old.folders /\ ~IsPrefix(path, p)
      BY <1>2, <1>3, <2>1 DEF WellFormed, IsTree, Above
    <3>2. ~IsPrefix(path, q)
      BY <3>1, BelowNests
    <3> QED
      BY <1>3, <3>1, <3>2
  <2>2. DOMAIN tree.files \cap tree.folders = {}
    BY <1>2, <1>3 DEF WellFormed
  <2> QED
    BY <2>1, <2>2 DEF WellFormed
<1>7. PinsFit(tree, versions)
  BY <1>2, <1>3 DEF PinsFit
<1>8. \A p \in DOMAIN tree.files : PinHeld(versions, child, b, tree.files[p])
  BY <1>1, <1>2, <1>3 DEF RInv, Pins
<1> QED
  BY <1>1, <1>5, <1>6, <1>7, <1>8, TreeSaved

\* A path's pin moves to another version of its artifact.
LEMMA Repinned ==
    ASSUME NEW old, IsTree(old), WellFormed(old), NEW list, PinsFit(old, list),
           NEW path \in DOMAIN old.files, old.files[path] # Binary,
           NEW more, Growing(list, more), NEW w \in Nat,
           Refers(more, w, old.files[path].artifact)
    PROVE  LET a == old.files[path].artifact
               tree == WithFile(old, path, Entry(a, w))
           IN
           /\ IsTree(tree) /\ WellFormed(tree) /\ PinsFit(tree, more)
           /\ DOMAIN tree.files = DOMAIN old.files /\ tree.files[path] = Entry(a, w)
           /\ \A p \in DOMAIN old.files \ {path} : tree.files[p] = old.files[p]
<1> DEFINE a == old.files[path].artifact
           entry == Entry(a, w)
           tree == WithFile(old, path, entry)
<1>1. /\ tree.folders = old.folders
      /\ tree.files = [p \in DOMAIN old.files \cup {path} |-> IF p = path THEN entry ELSE old.files[p]]
      /\ tree \in [folders : SUBSET Path, files : {tree.files}]
  <2> HIDE DEF entry
  <2> QED
    BY DEF WithFile, IsTree
<1>2. entry.artifact = a /\ entry.version = w
  BY DEF Entry
<1> HIDE DEF entry, tree, a
<1>3. /\ DOMAIN tree.files = DOMAIN old.files /\ tree.files[path] = entry
      /\ \A p \in DOMAIN old.files \ {path} : tree.files[p] = old.files[p]
  BY <1>1
<1>4. \A p \in DOMAIN old.files \ {path} : old.files[p].artifact # a
  BY DEF PinsFit, a
<1>5. \A p \in DOMAIN old.files : tree.files[p].artifact = old.files[p].artifact
  BY <1>2, <1>3 DEF a
<1>6. IsTree(tree) /\ WellFormed(tree)
  BY <1>1, <1>3 DEF IsTree, WellFormed
<1>7. PinsFit(tree, more)
  <2>1. ASSUME NEW p \in DOMAIN tree.files, tree.files[p] # Binary
        PROVE  /\ Refers(more, tree.files[p].version, tree.files[p].artifact)
               /\ \A q \in DOMAIN tree.files : tree.files[q].artifact = tree.files[p].artifact => q = p
    <3>1. CASE p = path
      <4>1. Refers(more, w, a)
        BY DEF a
      <4> QED
        BY <1>2, <1>3, <1>4, <1>5, <3>1, <4>1
    <3>2. CASE p # path
      <4>1. Refers(list, old.files[p].version, old.files[p].artifact)
        BY <1>3, <2>1, <3>2 DEF PinsFit
      <4>2. \A q \in DOMAIN old.files : old.files[q].artifact = old.files[p].artifact => q = p
        BY <1>3, <2>1, <3>2 DEF PinsFit
      <4> QED
        BY <1>3, <1>5, <2>1, <3>2, <4>1, <4>2 DEF Refers, Growing
    <3> QED
      BY <3>1, <3>2
  <2> QED
    BY <2>1 DEF PinsFit
<1> QED
  BY <1>3, <1>4, <1>6, <1>7 DEF tree, entry, a

LEMMA PublishLiveKeeps ==
    ASSUME RInv, NEW b \in Branch, NEW expected, NEW path \in Path, PublishLive(b, expected, path)
    PROVE  RInv'
<1> DEFINE old == Tree(b)
           pin == old.files[path]
           a == pin.artifact
           w == Child(b, a)
           tree == WithFile(old, path, Entry(a, w))
<1>1. /\ heads[b] # 0 /\ path \in DOMAIN old.files /\ pin # Binary
      /\ w # None /\ Save(b, tree) /\ UNCHANGED <<versions, child, reading>>
  BY DEF PublishLive, Current, Editable
<1>2. /\ heads[b] \in DOMAIN trees /\ old = trees[heads[b]]
      /\ IsTree(old) /\ WellFormed(old) /\ PinsFit(old, versions)
  BY <1>1, HeadTree DEF RInv
<1>3. a \in DOMAIN child[b] /\ w = child[b][a]
  BY <1>1 DEF Child
<1>4. Refers(versions, w, a)
  BY <1>3, ChildHasHead DEF RInv
<1>5. w \in Nat
  <2>1. w \in DOMAIN versions
    BY <1>4 DEF Refers
  <2> QED
    BY <2>1, TableFacts DEF RInv, Versions
<1>6. Growing(versions, versions)
  BY DEF Growing
<1> HIDE DEF old, w
<1>7. /\ IsTree(tree) /\ WellFormed(tree) /\ PinsFit(tree, versions)
      /\ DOMAIN tree.files = DOMAIN old.files /\ tree.files[path] = Entry(a, w)
      /\ \A p \in DOMAIN old.files \ {path} : tree.files[p] = old.files[p]
  <2>1. old.files[path] # Binary /\ path \in DOMAIN old.files /\ Refers(versions, w, old.files[path].artifact)
    BY <1>1, <1>4
  <2> HIDE DEF a, pin, tree
  <2>2. LET x == old.files[path].artifact
            y == WithFile(old, path, Entry(x, w))
        IN /\ IsTree(y) /\ WellFormed(y) /\ PinsFit(y, versions)
           /\ DOMAIN y.files = DOMAIN old.files /\ y.files[path] = Entry(x, w)
           /\ \A p \in DOMAIN old.files \ {path} : y.files[p] = old.files[p]
    BY <2>1, <1>2, <1>5, <1>6, Repinned
  <2> QED
    BY <2>2 DEF a, pin, tree
<1>8. ASSUME NEW p \in DOMAIN tree.files
      PROVE  PinHeld(versions, child, b, tree.files[p])
  <2>1. CASE p = path
    <3>1. w \in versions[w].past
      BY <1>4 DEF RInv, Versions, IsVersion, Refers
    <3> QED
      <4>1. tree.files[path].artifact = a /\ tree.files[path].version = w
        BY <1>7 DEF Entry
      <4> HIDE DEF tree, a, pin
      <4> QED
        BY <1>3, <2>1, <3>1, <4>1 DEF PinHeld, Held
  <2>2. CASE p # path
    BY <1>1, <1>2, <1>7, <1>8, <2>2 DEF RInv, Pins
  <2> QED
    BY <2>1, <2>2
<1> HIDE DEF tree, pin
<1> QED
  BY <1>1, <1>7, <1>8, TreeSaved

LEMMA CreateBranchKeeps ==
    ASSUME RInv, NEW b \in Branch, NEW from \in DOMAIN trees, CreateBranch(b, from)
    PROVE  RInv'
<1>1. /\ heads[b] = 0 /\ heads' = [heads EXCEPT ![b] = from]
      /\ UNCHANGED <<trees, versions, child, reading>>
  BY DEF CreateBranch
<1>2. Len(trees) \in Nat /\ DOMAIN trees = 1..Len(trees) /\ heads \in [Branch -> 0..Len(trees)]
  BY TableFacts DEF RInv, Trees
<1>3. /\ heads' \in [Branch -> 0..Len(trees)] /\ heads'[b] = from
      /\ \A c \in Branch \ {b} : heads'[c] = heads[c]
  BY <1>1, <1>2
<1>4. Trees' /\ Versions' /\ Readings' /\ Work'
  BY <1>1, <1>3 DEF RInv, Trees, Versions, Readings, Work
<1>5. Children'
  BY <1>1, <1>3 DEF RInv, Children
<1>6. DOMAIN child[b] = {}
  BY <1>1 DEF RInv, Children
<1>7. ASSUME NEW c \in Branch, heads'[c] # 0, NEW p \in DOMAIN trees[heads'[c]].files
      PROVE  PinHeld(versions, child, c, trees[heads'[c]].files[p])
  <2>1. CASE c = b
    BY <1>6, <2>1 DEF PinHeld
  <2>2. CASE c # b
    BY <1>3, <1>7, <2>2 DEF RInv, Pins
  <2> QED
    BY <2>1, <2>2
<1>8. Pins'
  BY <1>1, <1>7 DEF Pins
<1> QED
  BY <1>4, <1>5, <1>8 DEF RInv

-----------------------------------------------------------------------------
(* The operations that move a child branch.                                *)

LEMMA PrepareLiveKeeps ==
    ASSUME RInv, NEW b \in Branch, NEW expected, NEW path \in Path, PrepareLive(b, expected, path)
    PROVE  RInv'
<1> DEFINE old == Tree(b)
           pin == old.files[path]
           a == pin.artifact
           w == pin.version
<1>1. /\ heads[b] # 0 /\ path \in DOMAIN old.files /\ pin # Binary
      /\ Child(b, a) = None /\ SetChild(b, a, w)
      /\ UNCHANGED <<trees, heads, versions, reading>>
  BY DEF PrepareLive, Current, Editable
<1>2. /\ heads[b] \in DOMAIN trees /\ old = trees[heads[b]] /\ PinsFit(old, versions)
  BY <1>1, HeadTree DEF RInv
<1>3. Refers(versions, w, a)
  BY <1>1, <1>2 DEF PinsFit
<1>4. a \notin DOMAIN child[b]
  <2>1. ASSUME a \in DOMAIN child[b]
        PROVE  FALSE
    <3>1. child[b][a] = None /\ child[b][a] \in DOMAIN versions
      BY <1>1, <2>1, ChildHasHead DEF RInv, Child, Refers
    <3>2. DOMAIN versions \subseteq Nat
      BY TableFacts DEF RInv, Versions
    <3> QED
      BY <3>1, <3>2, RepositoryAssumption
  <2> QED
    BY <2>1
<1> HIDE DEF old
<1>5. ASSUME NEW p \in DOMAIN old.files, old.files[p] # Binary, old.files[p].artifact = a
      PROVE  old.files[p].version \in versions[w].past
  <2>1. p = path
    BY <1>1, <1>2, <1>5 DEF PinsFit
  <2>2. w \in versions[w].past
    BY <1>3 DEF RInv, Versions, IsVersion, Refers
  <2> QED
    BY <2>1, <2>2
<1>6. Growing(versions, versions') /\ Versions' /\ Refers(versions', w, a) /\ w \in DOMAIN versions
  BY <1>1, <1>3 DEF Growing, RInv, Versions, Refers
<1> HIDE DEF pin, a, w
<1>7. Moves(b, a, w)
  BY <1>1, <1>4, <1>6 DEF Moves
<1>8. /\ reading' \in [Client -> {reading'[d] : d \in Client}]
      /\ \A d \in Client : reading'[d] \in {reading[d], None}
  BY <1>1 DEF RInv, Readings
<1> QED
  BY <1>1, <1>2, <1>5, <1>6, <1>7, <1>8, MoveBeside

LEMMA EditKeeps ==
    ASSUME RInv, NEW b \in Branch, NEW expected, NEW path \in Path, Edit(b, expected, path)
    PROVE  RInv' /\ Tree(b).files[path].version \in versions'[Len(versions) + 1].past
<1> DEFINE old == Tree(b)
           pin == old.files[path]
           a == pin.artifact
           v == pin.version
           w == Len(versions) + 1
           tree == WithFile(old, path, Entry(a, w))
           row == Version(w, a, {v}, v, b, FALSE)
<1>1. /\ heads[b] # 0 /\ heads[b] = expected /\ path \in DOMAIN old.files /\ pin # Binary
      /\ Child(b, a) \in {None, v}
      /\ CommitOn(b, a, {v}, Child(b, a), SeenIn(trees[expected], path), FALSE)
      /\ Save(b, tree) /\ UNCHANGED reading
  BY DEF Edit, Current, Editable
<1>2. /\ heads[b] \in DOMAIN trees /\ old = trees[heads[b]]
      /\ IsTree(old) /\ WellFormed(old) /\ PinsFit(old, versions)
  BY <1>1, HeadTree DEF RInv
<1>3. SeenIn(trees[expected], path) = v
  BY <1>1, <1>2 DEF SeenIn
<1>4. versions' = Append(versions, row) /\ SetChild(b, a, w)
  BY <1>1, <1>3 DEF CommitOn
<1>5. /\ row.artifact = a /\ ~row.unseen /\ row.branch = b
      /\ row.past = {w} \cup UNION {versions[q].past : q \in {v}}
  BY <1>1 DEF Version
<1>6. Refers(versions, v, a)
  BY <1>1, <1>2 DEF PinsFit
<1>7. {v} \in SUBSET DOMAIN versions /\ versions[v].artifact = a
  BY <1>6 DEF Refers
<1>8. w \in Nat
  BY TableFacts DEF RInv, Versions
<1>9. a \in DOMAIN child[b] => child[b][a] = v
  <2>1. ASSUME a \in DOMAIN child[b]
        PROVE  child[b][a] = v
    <3>1. child[b][a] \in {None, v} /\ child[b][a] \in DOMAIN versions
      BY <1>1, <2>1, ChildHasHead DEF RInv, Child, Refers
    <3>2. DOMAIN versions \subseteq Nat
      BY TableFacts DEF RInv, Versions
    <3> QED
      BY <3>1, <3>2, RepositoryAssumption
  <2> QED
    BY <2>1
<1> HIDE DEF old, row
<1>10. /\ Versions' /\ Growing(versions, versions') /\ versions'[w] = row
       /\ w \notin DOMAIN versions /\ DOMAIN versions' = DOMAIN versions \cup {w}
       /\ {v} \subseteq row.past /\ w \in row.past
  <2> HIDE DEF pin, a, v
  <2> QED
    BY <1>4, <1>5, <1>7, CommitVersion DEF RInv
<1>11. Refers(versions', w, a)
  BY <1>5, <1>10 DEF Refers
<1> HIDE DEF w
<1>12. /\ IsTree(tree) /\ WellFormed(tree) /\ PinsFit(tree, versions')
       /\ DOMAIN tree.files = DOMAIN old.files /\ tree.files[path] = Entry(a, w)
       /\ \A p \in DOMAIN old.files \ {path} : tree.files[p] = old.files[p]
  <2>1. old.files[path] # Binary /\ path \in DOMAIN old.files /\ Refers(versions', w, old.files[path].artifact)
    BY <1>1, <1>11
  <2> HIDE DEF a, pin, tree, v
  <2>2. ASSUME NEW more, Growing(versions, more), Refers(more, w, old.files[path].artifact)
        PROVE  LET x == old.files[path].artifact
                   y == WithFile(old, path, Entry(x, w))
               IN /\ IsTree(y) /\ WellFormed(y) /\ PinsFit(y, more)
                  /\ DOMAIN y.files = DOMAIN old.files /\ y.files[path] = Entry(x, w)
                  /\ \A p \in DOMAIN old.files \ {path} : y.files[p] = old.files[p]
    BY <2>1, <2>2, <1>2, <1>8, Repinned
  <2>3. PinsFit(WithFile(old, path, Entry(old.files[path].artifact, w)), versions')
    BY <2>1, <2>2, <1>10
  <2> QED
    BY <2>1, <2>2, <2>3, <1>10 DEF a, pin, tree
<1>13. tree.files[path].artifact = a /\ tree.files[path].version = w
  BY <1>12 DEF Entry
<1> HIDE DEF a, v, pin, tree
<1>14. Moves(b, a, w)
  BY <1>1, <1>4, <1>5, <1>9, <1>10, <1>11 DEF Moves
<1>15. /\ Trees' /\ heads'[b] # 0 /\ trees'[heads'[b]] = tree
       /\ \A c \in Branch \ {b} : heads'[c] = heads[c]
       /\ \A c \in Branch : heads[c] # 0 => trees'[heads[c]] = trees[heads[c]]
  BY <1>1, <1>10, <1>12, SaveKeeps DEF RInv
<1>16. \A c \in Branch : heads'[c] = 0 => heads[c] = 0
  BY <1>15
<1>17. Children' /\ Work'
  BY <1>10, <1>14, <1>16, MoveKeeps DEF RInv
<1>18. Readings'
  <2>1. /\ reading' \in [Client -> {reading'[d] : d \in Client}]
        /\ \A d \in Client : reading'[d] \in {reading[d], None}
    BY <1>1 DEF RInv, Readings
  <2> QED
    BY <1>10, <1>14, <2>1, MovedChild, ReadingsStay DEF RInv
<1>19. ASSUME NEW c \in Branch, heads'[c] # 0, NEW p \in DOMAIN trees'[heads'[c]].files
       PROVE  PinHeld(versions', child', c, trees'[heads'[c]].files[p])
  <2>1. CASE c = b /\ p = path
    <3>1. child'[b][a] = w
      BY <1>14, MovedChild DEF RInv
    <3> QED
      BY <1>10, <1>13, <1>15, <2>1, <3>1 DEF PinHeld, Held
  <2>2. CASE c = b /\ p # path
    <3>1. p \in DOMAIN old.files /\ trees'[heads'[c]].files[p] = old.files[p]
      BY <1>12, <1>15, <1>19, <2>2
    <3>2. old.files[p].artifact # a
      BY <1>1, <1>2, <2>2, <3>1 DEF PinsFit, a, pin
    <3>3. PinHeld(versions, child, b, old.files[p])
      BY <1>1, <1>2, <3>1 DEF RInv, Pins
    <3> QED
      BY <1>10, <1>14, <2>2, <3>1, <3>2, <3>3, PinMoves DEF RInv
  <2>3. CASE c # b
    <3>1. heads[c] # 0 /\ trees'[heads'[c]] = trees[heads[c]]
      BY <1>15, <1>19, <2>3
    <3>2. PinHeld(versions, child, c, trees[heads[c]].files[p])
      BY <1>19, <3>1 DEF RInv, Pins
    <3> QED
      BY <1>10, <1>14, <2>3, <3>1, <3>2, PinMoves DEF RInv
  <2> QED
    BY <2>1, <2>2, <2>3
<1>20. Pins'
  BY <1>19 DEF Pins
<1>21. v \in versions'[w].past
  BY <1>10
<1> QED
  BY <1>10, <1>15, <1>17, <1>18, <1>20, <1>21 DEF RInv, v, pin, old, w

-----------------------------------------------------------------------------
(* A batch of files: the first versions of m artifacts, each on a child branch. *)

New(m) == Len(versions) + 1 .. Len(versions) + m

Founds(b, m) ==
    /\ heads[b] # 0
    /\ Table(versions') /\ DOMAIN versions' = DOMAIN versions \cup New(m)
    /\ Growing(versions, versions')
    /\ \A v \in New(m) : /\ versions'[v].artifact = v /\ ~versions'[v].unseen
                         /\ versions'[v].past = {v} /\ versions'[v].branch = b
    /\ child' = [child EXCEPT ![b] = [a \in DOMAIN @ \cup New(m) |->
                                          IF a > Len(versions) THEN a ELSE @[a]]]

LEMMA OldArtifacts ==
    ASSUME Versions, NEW v, NEW a, Refers(versions, v, a)
    PROVE  a \in 1..Len(versions) /\ Len(versions) \in Nat /\ ~(a > Len(versions))
<1>1. Len(versions) \in Nat /\ DOMAIN versions = 1..Len(versions)
  BY TableFacts DEF Versions
<1>2. v \in 1..Len(versions) /\ a \in 1..v
  BY <1>1 DEF Versions, IsVersion, Refers
<1> QED
  BY <1>1, <1>2

LEMMA FoundedVersions ==
    ASSUME Versions, NEW m \in Nat, NEW b \in Branch, Founds(b, m)
    PROVE  Versions'
<1>1. Len(versions) \in Nat /\ DOMAIN versions = 1..Len(versions)
  BY TableFacts DEF Versions
<1>2. ASSUME NEW v \in DOMAIN versions
      PROVE  IsVersion(versions', v)
  <2>1. IsVersion(versions, v) /\ v \in 1..Len(versions)
    BY <1>1, <1>2 DEF Versions
  <2>2. \A w \in versions[v].past : w \in DOMAIN versions
    BY <1>1, <2>1 DEF IsVersion
  <2> QED
    BY <1>2, <2>1, <2>2 DEF IsVersion, Founds, Growing
<1>3. ASSUME NEW v \in New(m)
      PROVE  IsVersion(versions', v)
  <2>1. v \in Nat \ {0}
    BY <1>1 DEF New
  <2>2. /\ versions'[v].artifact = v /\ ~versions'[v].unseen /\ versions'[v].past = {v}
    BY DEF Founds
  <2>3. v \in 1..v
    BY <2>1
  <2> QED
    BY <2>2, <2>3 DEF IsVersion
<1> QED
  BY <1>2, <1>3 DEF Versions, Founds

LEMMA FoundedChild ==
    ASSUME Versions, Children, NEW m \in Nat, NEW b \in Branch, Founds(b, m)
    PROVE  /\ child' \in [Branch -> {child'[c] : c \in Branch}]
           /\ DOMAIN child'[b] = DOMAIN child[b] \cup New(m)
           /\ \A a \in New(m) : child'[b][a] = a
           /\ \A c \in Branch : DOMAIN child[c] \subseteq DOMAIN child'[c]
           /\ \A c \in Branch : \A a \in DOMAIN child[c] : child'[c][a] = child[c][a]
           /\ \A c \in Branch \ {b} : child'[c] = child[c]
<1> DEFINE n == Len(versions)
<1>1. /\ child' = [child EXCEPT ![b] = [a \in DOMAIN child[b] \cup New(m) |->
                                            IF a > n THEN a ELSE child[b][a]]]
      /\ child \in [Branch -> {child[c] : c \in Branch}]
  BY DEF Founds, Children
<1>2. n \in Nat /\ \A a \in New(m) : a > n
  BY TableFacts DEF Versions, New
<1>3. ASSUME NEW a \in DOMAIN child[b]
      PROVE  ~(a > n)
  BY ChildHasHead, OldArtifacts
<1> HIDE DEF n
<1>4. child'[b] = [a \in DOMAIN child[b] \cup New(m) |-> IF a > n THEN a ELSE child[b][a]]
  BY <1>1
<1>5. \A c \in Branch \ {b} : child'[c] = child[c]
  BY <1>1
<1>6. child' \in [Branch -> {child'[c] : c \in Branch}]
  BY <1>1
<1>7. \A a \in New(m) : child'[b][a] = a
  BY <1>2, <1>4
<1>8. \A a \in DOMAIN child[b] : child'[b][a] = child[b][a]
  BY <1>3, <1>4
<1>9. DOMAIN child'[b] = DOMAIN child[b] \cup New(m)
  BY <1>4
<1> QED
  BY <1>5, <1>6, <1>7, <1>8, <1>9

LEMMA FoundedHeld ==
    ASSUME Versions, Children, NEW m \in Nat, NEW b \in Branch, Founds(b, m),
           NEW c \in Branch, NEW a \in DOMAIN child[c], NEW v, Held(versions, child, c, a, v)
    PROVE  Held(versions', child', c, a, v)
<1>1. child'[c][a] = child[c][a] /\ child[c][a] \in DOMAIN versions
  BY FoundedChild DEF Children, Refers
<1>2. versions'[child[c][a]] = versions[child[c][a]]
  BY <1>1 DEF Founds, Growing
<1>3. WasForced(versions, c, a) => WasForced(versions', c, a)
  BY ForcedStays DEF Founds
<1> QED
  BY <1>1, <1>2, <1>3 DEF Held

\* A new artifact is held by the child branch it comes with.
LEMMA FoundHeld ==
    ASSUME Versions, Children, NEW m \in Nat, NEW b \in Branch, Founds(b, m), NEW v \in New(m)
    PROVE  v \in DOMAIN child'[b] /\ Held(versions', child', b, v, v)
<1>1. v \in DOMAIN child'[b] /\ child'[b][v] = v
  BY FoundedChild
<1>2. versions'[v].past = {v}
  BY DEF Founds
<1> QED
  BY <1>1, <1>2 DEF Held

LEMMA FoundedKeeps ==
    ASSUME Versions, Children, Work, NEW m \in Nat, NEW b \in Branch, Founds(b, m),
           \A c \in Branch : heads'[c] = 0 => heads[c] = 0
    PROVE  Children' /\ Work'
<1>1. ASSUME NEW c \in Branch, NEW a \in DOMAIN child'[c]
      PROVE  Refers(versions', child'[c][a], a)
  <2>1. CASE a \in DOMAIN child[c]
    <3>1. child'[c][a] = child[c][a]
      BY <2>1, FoundedChild
    <3>2. Refers(versions, child[c][a], a)
      BY <2>1 DEF Children
    <3> QED
      BY <3>1, <3>2 DEF Refers, Founds, Growing
  <2>2. CASE a \notin DOMAIN child[c]
    <3>1. c = b /\ a \in New(m) /\ child'[b][a] = a
      BY <1>1, <2>2, FoundedChild
    <3> QED
      BY <3>1 DEF Refers, Founds
  <2> QED
    BY <2>1, <2>2
<1>2. ASSUME NEW c \in Branch, heads'[c] = 0
      PROVE  DOMAIN child'[c] = {}
  <2>1. heads[c] = 0 /\ c # b
    BY <1>2 DEF Founds
  <2> QED
    BY <2>1, FoundedChild DEF Children
<1>3. Children'
  BY <1>1, <1>2, FoundedChild DEF Children
<1>4. ASSUME NEW v \in DOMAIN versions'
      PROVE  /\ versions'[v].branch \in Branch
             /\ versions'[v].artifact \in DOMAIN child'[versions'[v].branch]
             /\ Held(versions', child', versions'[v].branch, versions'[v].artifact, v)
  <2>1. CASE v \in DOMAIN versions
    <3>1. versions'[v] = versions[v]
      BY <2>1 DEF Founds, Growing
    <3>2. /\ versions[v].branch \in Branch
          /\ versions[v].artifact \in DOMAIN child[versions[v].branch]
          /\ Held(versions, child, versions[v].branch, versions[v].artifact, v)
      BY <2>1 DEF Work
    <3>3. Held(versions', child', versions[v].branch, versions[v].artifact, v)
      BY <3>2, FoundedHeld
    <3> QED
      BY <3>1, <3>2, <3>3, FoundedChild
  <2>2. CASE v \in New(m)
    <3>1. versions'[v].branch = b /\ versions'[v].artifact = v
      BY <2>2 DEF Founds
    <3> QED
      BY <2>2, <3>1, FoundHeld
  <2> QED
    BY <1>4, <2>1, <2>2 DEF Founds
<1>5. Work'
  BY <1>4 DEF Work
<1> QED
  BY <1>3, <1>5

LEMMA FoundedPin ==
    ASSUME Versions, Children, NEW m \in Nat, NEW b \in Branch, Founds(b, m),
           NEW c \in Branch, NEW pin, PinHeld(versions, child, c, pin),
           pin # Binary => Refers(versions, pin.version, pin.artifact)
    PROVE  PinHeld(versions', child', c, pin)
<1>1. SUFFICES ASSUME pin # Binary, pin.artifact \in DOMAIN child'[c]
               PROVE  Held(versions', child', c, pin.artifact, pin.version)
  BY DEF PinHeld
<1>2. pin.artifact \in 1..Len(versions) /\ Len(versions) \in Nat
  BY <1>1, OldArtifacts
<1>3. pin.artifact \notin New(m)
  BY <1>2 DEF New
<1>4. pin.artifact \in DOMAIN child[c]
  BY <1>1, <1>3, FoundedChild
<1>5. Held(versions, child, c, pin.artifact, pin.version)
  BY <1>1, <1>4 DEF PinHeld
<1> QED
  BY <1>4, <1>5, FoundedHeld

\* The manifest of a batch: `import` is the entry of each path in it.
Uploaded(old, paths, import) ==
    [folders |-> old.folders \cup UNION {Above(p) : p \in paths},
     files |-> [p \in DOMAIN old.files \cup paths |-> IF p \in paths THEN import[p] ELSE old.files[p]]]

LEMMA UploadedTree ==
    ASSUME NEW old, IsTree(old), WellFormed(old), NEW list, PinsFit(old, list),
           \A v \in DOMAIN list : list[v].artifact # None,
           NEW more, Growing(list, more), NEW paths \in SUBSET Path, MayUpload(old, paths),
           NEW import,
           \A p \in paths : import[p] # Binary =>
               /\ Refers(more, import[p].version, import[p].artifact)
               /\ \A q \in DOMAIN old.files : old.files[q].artifact # import[p].artifact
               /\ \A q \in paths : import[q].artifact = import[p].artifact => q = p
    PROVE  LET tree == Uploaded(old, paths, import) IN
           /\ IsTree(tree) /\ WellFormed(tree) /\ PinsFit(tree, more)
           /\ DOMAIN tree.files = DOMAIN old.files \cup paths
           /\ \A p \in paths : tree.files[p] = import[p]
           /\ \A p \in DOMAIN old.files \ paths : tree.files[p] = old.files[p]
<1> DEFINE tree == Uploaded(old, paths, import)
<1>1. /\ tree.folders = old.folders \cup UNION {Above(p) : p \in paths}
      /\ DOMAIN tree.files = DOMAIN old.files \cup paths
      /\ \A p \in paths : tree.files[p] = import[p]
      /\ \A p \in DOMAIN old.files \ paths : tree.files[p] = old.files[p]
      /\ tree \in [folders : {tree.folders}, files : {tree.files}]
  BY DEF Uploaded
<1> HIDE DEF tree
<1>2. UNION {Above(p) : p \in paths} \subseteq Path
  BY PathFacts DEF Above
<1>3. IsTree(tree)
  BY <1>1, <1>2 DEF IsTree
<1>4. WellFormed(tree)
  <2>1. DOMAIN tree.files \cap tree.folders = {}
    BY <1>1 DEF WellFormed, MayUpload
  <2>2. ASSUME NEW p \in DOMAIN tree.files \cup tree.folders
        PROVE  Above(p) \subseteq tree.folders
    <3>1. CASE p \in DOMAIN old.files \cup old.folders
      BY <1>1, <3>1 DEF WellFormed
    <3>2. CASE p \in paths
      BY <1>1, <3>2
    <3>3. ASSUME NEW q \in paths, p \in Above(q)
          PROVE  Above(p) \subseteq tree.folders
      <4>1. q \in Path /\ p \in PathsTo(q)
        BY <3>3 DEF Above
      <4>2. Above(p) \subseteq Above(q)
        BY <4>1, AboveNests
      <4> QED
        BY <1>1, <4>2
    <3> QED
      BY <1>1, <2>2, <3>1, <3>2, <3>3
  <2> QED
    BY <2>1, <2>2 DEF WellFormed
<1>5. PinsFit(tree, more)
  <2>1. ASSUME NEW p \in DOMAIN tree.files, tree.files[p] # Binary
        PROVE  /\ Refers(more, tree.files[p].version, tree.files[p].artifact)
               /\ \A q \in DOMAIN tree.files : tree.files[q].artifact = tree.files[p].artifact => q = p
    <3>1. CASE p \in paths
      BY <1>1, <2>1, <3>1
    <3>2. CASE p \notin paths
      <4>1. p \in DOMAIN old.files /\ tree.files[p] = old.files[p]
        BY <1>1, <2>1, <3>2
      <4>2. /\ Refers(more, old.files[p].version, old.files[p].artifact)
            /\ \A q \in DOMAIN old.files : old.files[q].artifact = old.files[p].artifact => q = p
        BY <2>1, <4>1 DEF PinsFit, Refers, Growing
      <4>3. ASSUME NEW q \in paths, import[q].artifact = old.files[p].artifact
            PROVE  FALSE
        <5>1. import[q] = Binary
          BY <4>1, <4>3
        <5>2. old.files[p].artifact = None
          BY <4>3, <5>1 DEF Binary, Entry
        <5>3. Refers(list, old.files[p].version, old.files[p].artifact)
          BY <2>1, <4>1 DEF PinsFit
        <5> QED
          BY <5>2, <5>3 DEF Refers
      <4> QED
        BY <1>1, <4>1, <4>2, <4>3
    <3> QED
      BY <3>1, <3>2
  <2> QED
    BY <2>1 DEF PinsFit
<1> QED
  BY <1>1, <1>3, <1>4, <1>5 DEF tree

\* While a file keeps its artifact, its pin moves to a descendant: PinsOnlyAdvance, of
\* one step and one branch.
Advances(b) ==
    heads[b] \notin {0, heads'[b]} =>
        \A p \in DOMAIN Tree(b).files \cap DOMAIN trees'[heads'[b]].files :
            LET old == Tree(b).files[p]
                new == trees'[heads'[b]].files[p] IN
            old # Binary /\ new.artifact = old.artifact =>
                old.version \in versions'[new.version].past

LEMMA UploadAdds ==
    ASSUME RInv, NEW b \in Branch, heads[b] # 0, NEW m \in Nat, Founds(b, m),
           NEW paths \in SUBSET Path, MayUpload(Tree(b), paths),
           NEW import,
           \A p \in paths : import[p] # Binary =>
               /\ import[p].artifact \in New(m) /\ import[p].version = import[p].artifact
               /\ \A q \in paths : import[q].artifact = import[p].artifact => q = p,
           Save(b, Uploaded(Tree(b), paths, import)), UNCHANGED reading
    PROVE  RInv' /\ Advances(b) /\ \A c \in Branch \ {b} : heads'[c] = heads[c]
<1> DEFINE old == Tree(b)
           tree == Uploaded(old, paths, import)
<1>1. /\ heads[b] \in DOMAIN trees /\ old = trees[heads[b]]
      /\ IsTree(old) /\ WellFormed(old) /\ PinsFit(old, versions)
  BY HeadTree DEF RInv
<1>2. \A v \in DOMAIN versions : versions[v].artifact \in 1..Len(versions)
  BY OldArtifacts DEF RInv, Refers
<1>3. Len(versions) \in Nat /\ \A v \in DOMAIN versions : versions[v].artifact # None
  BY <1>2, TableFacts, RepositoryAssumption DEF RInv, Versions
<1>4. Growing(versions, versions')
  BY DEF Founds
<1>5. \A p \in paths : import[p] # Binary =>
          /\ Refers(versions', import[p].version, import[p].artifact)
          /\ \A q \in DOMAIN old.files : old.files[q].artifact # import[p].artifact
          /\ \A q \in paths : import[q].artifact = import[p].artifact => q = p
  <2>1. ASSUME NEW p \in paths, import[p] # Binary
        PROVE  Refers(versions', import[p].version, import[p].artifact)
    BY <2>1 DEF Founds, Refers
  <2>2. ASSUME NEW p \in paths, import[p] # Binary, NEW q \in DOMAIN old.files,
               old.files[q].artifact = import[p].artifact
        PROVE  FALSE
    <3>1. import[p].artifact \in Nat /\ import[p].artifact \notin 1..Len(versions)
      BY <1>3, <2>2 DEF New
    <3>2. CASE old.files[q] = Binary
      BY <2>2, <3>1, <3>2, RepositoryAssumption DEF Binary, Entry
    <3>3. CASE old.files[q] # Binary
      BY <1>1, <1>2, <2>2, <3>1, <3>3 DEF PinsFit, Refers
    <3> QED
      BY <3>2, <3>3
  <2> QED
    BY <2>1, <2>2
<1>6. /\ IsTree(tree) /\ WellFormed(tree) /\ PinsFit(tree, versions')
      /\ DOMAIN tree.files = DOMAIN old.files \cup paths
      /\ \A p \in paths : tree.files[p] = import[p]
      /\ \A p \in DOMAIN old.files \ paths : tree.files[p] = old.files[p]
  <2>1. ASSUME NEW more, Growing(versions, more),
               \A p \in paths : import[p] # Binary =>
                   /\ Refers(more, import[p].version, import[p].artifact)
                   /\ \A q \in DOMAIN old.files : old.files[q].artifact # import[p].artifact
                   /\ \A q \in paths : import[q].artifact = import[p].artifact => q = p
        PROVE  /\ IsTree(tree) /\ WellFormed(tree) /\ PinsFit(tree, more)
               /\ DOMAIN tree.files = DOMAIN old.files \cup paths
               /\ \A p \in paths : tree.files[p] = import[p]
               /\ \A p \in DOMAIN old.files \ paths : tree.files[p] = old.files[p]
    <3>1. MayUpload(old, paths)
      OBVIOUS
    <3> HIDE DEF old
    <3> QED
      BY <1>1, <1>3, <2>1, <3>1, UploadedTree
  <2> HIDE DEF old, tree
  <2> QED
    BY <1>4, <1>5, <2>1
<1> HIDE DEF old, tree
<1>7. /\ Trees' /\ heads'[b] # 0 /\ trees'[heads'[b]] = tree
      /\ \A c \in Branch \ {b} : heads'[c] = heads[c]
      /\ \A c \in Branch : heads[c] # 0 => trees'[heads[c]] = trees[heads[c]]
  BY <1>4, <1>6, SaveKeeps DEF RInv, old, tree
<1>8. \A c \in Branch : heads'[c] = 0 => heads[c] = 0
  BY <1>7
<1>9. Versions' /\ Children' /\ Work'
  BY <1>8, FoundedVersions, FoundedKeeps DEF RInv
<1>10. Readings'
  <2>1. /\ reading' \in [Client -> {reading'[d] : d \in Client}]
        /\ \A d \in Client : reading'[d] \in {reading[d], None}
    BY DEF RInv, Readings
  <2>2. \A c \in Branch : DOMAIN child[c] \subseteq DOMAIN child'[c]
    BY FoundedChild DEF RInv
  <2> QED
    BY <1>4, <2>1, <2>2, ReadingsStay DEF RInv
<1>11. ASSUME NEW c \in Branch, heads[c] # 0, NEW p \in DOMAIN trees[heads[c]].files
       PROVE  PinHeld(versions', child', c, trees[heads[c]].files[p])
  <2>1. PinHeld(versions, child, c, trees[heads[c]].files[p])
    BY <1>11 DEF RInv, Pins
  <2>2. PinsFit(trees[heads[c]], versions)
    BY <1>11, HeadTree DEF RInv
  <2>3. LET pin == trees[heads[c]].files[p] IN
        pin # Binary => Refers(versions, pin.version, pin.artifact)
    BY <1>11, <2>2 DEF PinsFit
  <2> QED
    BY <2>1, <2>3, FoundedPin DEF RInv
<1>12. ASSUME NEW c \in Branch, heads'[c] # 0, NEW p \in DOMAIN trees'[heads'[c]].files
       PROVE  PinHeld(versions', child', c, trees'[heads'[c]].files[p])
  <2>1. CASE c # b
    BY <1>7, <1>11, <1>12, <2>1
  <2>2. CASE c = b /\ p \in paths
    <3>1. trees'[heads'[c]].files[p] = import[p]
      BY <1>6, <1>7, <2>2
    <3>2. import[p] # Binary => Held(versions', child', b, import[p].artifact, import[p].version)
      BY <2>2, FoundHeld DEF RInv
    <3> QED
      BY <2>2, <3>1, <3>2 DEF PinHeld
  <2>3. CASE c = b /\ p \notin paths
    <3>1. p \in DOMAIN trees[heads[b]].files
      BY <1>1, <1>6, <1>7, <1>12, <2>3
    <3>2. trees'[heads'[b]].files[p] = trees[heads[b]].files[p]
      BY <1>1, <1>6, <1>7, <2>3, <3>1
    <3> QED
      BY <1>11, <2>3, <3>1, <3>2
  <2> QED
    BY <2>1, <2>2, <2>3
<1>13. Pins'
  BY <1>12 DEF Pins
<1>14. Advances(b)
  <2>1. ASSUME NEW p \in DOMAIN old.files \cap DOMAIN tree.files,
               old.files[p] # Binary, tree.files[p].artifact = old.files[p].artifact
        PROVE  old.files[p].version \in versions'[tree.files[p].version].past
    <3>1. Refers(versions, old.files[p].version, old.files[p].artifact)
      BY <1>1, <2>1 DEF PinsFit
    <3>2. CASE p \in paths
      <4>1. import[p].artifact = old.files[p].artifact
        BY <1>6, <2>1, <3>2
      <4>2. import[p] # Binary
        BY <1>3, <3>1, <4>1 DEF Binary, Entry, Refers
      <4> QED
        BY <1>5, <3>2, <4>1, <4>2
    <3>3. CASE p \notin paths
      <4>1. tree.files[p] = old.files[p] /\ old.files[p].version \in DOMAIN versions
        BY <1>6, <2>1, <3>1, <3>3 DEF Refers
      <4>2. old.files[p].version \in versions[old.files[p].version].past
        BY <4>1 DEF RInv, Versions, IsVersion
      <4> QED
        BY <1>4, <4>1, <4>2 DEF Growing
    <3> QED
      BY <3>2, <3>3
  <2> QED
    BY <1>7, <2>1 DEF Advances, old
<1> QED
  BY <1>7, <1>9, <1>10, <1>13, <1>14 DEF RInv

LEMMA UploadKeeps ==
    ASSUME RInv, NEW b \in Branch, NEW expected, Upload(b, expected)
    PROVE  RInv' /\ Advances(b) /\ \A c \in Branch \ {b} : heads'[c] = heads[c]
<1>1. PICK texts \in SeqOf(Path \ BinaryPath, MaxBatch), binaries \in SUBSET BinaryPath :
         LET n == Len(versions)
             paths == Range(texts) \cup binaries
             version(path) == n + CHOOSE k \in DOMAIN texts : texts[k] = path
             imported(path) == IF path \in binaries THEN Binary
                               ELSE Entry(version(path), version(path))
         IN
         /\ IsInjective(texts)
         /\ MayUpload(Tree(b), paths)
         /\ versions' = versions \o [k \in DOMAIN texts |-> Version(n + k, n + k, {}, None, b, FALSE)]
         /\ child' = [child EXCEPT ![b] = [a \in DOMAIN @ \cup n + 1..n + Len(texts) |->
                                               IF a > n THEN a ELSE @[a]]]
         /\ Save(b, [folders |-> Tree(b).folders \cup UNION {Above(path) : path \in paths},
                     files |-> [path \in DOMAIN Tree(b).files \cup paths |->
                                   IF path \in paths THEN imported(path) ELSE Tree(b).files[path]]])
  BY Zenon DEF Upload
<1> DEFINE n == Len(versions)
           m == Len(texts)
           paths == Range(texts) \cup binaries
           place(path) == CHOOSE k \in DOMAIN texts : texts[k] = path
           import == [path \in paths |-> IF path \in binaries THEN Binary
                                         ELSE Entry(n + place(path), n + place(path))]
           row(k) == Version(n + k, n + k, {}, None, b, FALSE)
           rows == [k \in 1..m |-> row(k)]
           tree == Uploaded(Tree(b), paths, import)
<1>2. heads[b] # 0 /\ UNCHANGED reading
  BY DEF Upload, Current
<1>3. n \in Nat /\ DOMAIN versions = 1..n
  BY TableFacts DEF RInv, Versions
<1>4. m \in Nat /\ DOMAIN texts = 1..m /\ texts \in [1..m -> Path \ BinaryPath]
  <2>1. PICK k \in 0..MaxBatch : texts \in [1..k -> Path \ BinaryPath]
    BY DEF SeqOf
  <2>2. k \in Nat /\ texts \in Seq(Path \ BinaryPath)
    BY <2>1, RepositoryAssumption, SeqDef
  <2>3. Len(texts) = k
    BY <2>1, <2>2, LenProperties
  <2> QED
    BY <2>1, <2>2, <2>3
<1>5. Founds(b, m)
  <2>1. versions' = versions \o rows
    BY <1>1, <1>4
  <2> DEFINE D == {row(k) : k \in 1..m}
  <2>2. rows \in [1..m -> D]
    OBVIOUS
  <2>3. /\ Table(versions') /\ DOMAIN versions' = 1..n + m
        /\ \A k \in DOMAIN versions : versions'[k] = versions[k]
        /\ \A k \in 1..m : versions'[n + k] = rows[k]
    <3> HIDE DEF rows, m, D
    <3>1. Table(versions)
      BY DEF RInv, Versions
    <3>2. Table(versions \o rows) /\ DOMAIN (versions \o rows) = 1..Len(versions) + m
      BY <1>4, <2>2, <3>1, TableJoin
    <3>3. /\ \A k \in DOMAIN versions : (versions \o rows)[k] = versions[k]
          /\ \A k \in 1..m : (versions \o rows)[Len(versions) + k] = rows[k]
      BY <1>4, <2>2, <3>1, TableJoin
    <3> QED
      BY <2>1, <3>2, <3>3
  <2>4. ASSUME NEW v \in New(m)
        PROVE  /\ versions'[v].artifact = v /\ ~versions'[v].unseen
               /\ versions'[v].past = {v} /\ versions'[v].branch = b
    <3>1. v - n \in 1..m /\ n + (v - n) = v
      BY <1>3, <1>4, <2>4 DEF New
    <3>2. versions'[v] = row(v - n)
      BY <2>3, <3>1
    <3>3. row(v - n) = Version(v, v, {}, None, b, FALSE)
      BY <3>1
    <3>4. Child(b, v) = None
      <4>1. ASSUME v \in DOMAIN child[b]
            PROVE  v \in 1..n
        BY <4>1, OldArtifacts DEF RInv, Children
      <4>2. v \notin 1..n
        BY <1>3, <2>4 DEF New
      <4> QED
        BY <4>1, <4>2 DEF Child
    <3>5. ~Version(v, v, {}, None, b, FALSE).unseen
      BY <3>4, Zenon DEF Version
    <3>6. LET x == Version(v, v, {}, None, b, FALSE) IN
          x.artifact = v /\ x.past = {v} /\ x.branch = b
      BY DEF Version
    <3> HIDE DEF row
    <3> QED
      BY <3>2, <3>3, <3>5, <3>6
  <2>5. DOMAIN versions' = DOMAIN versions \cup New(m)
    BY <1>3, <1>4, <2>3 DEF New
  <2>6. child' = [child EXCEPT ![b] = [a \in DOMAIN @ \cup New(m) |->
                                           IF a > Len(versions) THEN a ELSE @[a]]]
    BY <1>1 DEF New
  <2> HIDE DEF m, n
  <2> QED
    BY <1>2, <2>3, <2>4, <2>5, <2>6 DEF Founds, Growing
<1>6. paths \in SUBSET Path /\ MayUpload(Tree(b), paths)
  BY <1>1, <1>4, RepositoryAssumption DEF Range
<1>7. ASSUME NEW p \in paths, import[p] # Binary
      PROVE  /\ import[p].artifact = n + place(p) /\ import[p].version = n + place(p)
             /\ place(p) \in 1..m /\ texts[place(p)] = p
  <2>1. p \notin binaries /\ \E k \in DOMAIN texts : texts[k] = p
    BY <1>7 DEF Range
  <2>2. place(p) \in DOMAIN texts /\ texts[place(p)] = p
    BY <2>1
  <2>3. import[p] = Entry(n + place(p), n + place(p))
    BY <2>1
  <2> HIDE DEF place, import
  <2> QED
    BY <1>4, <2>2, <2>3 DEF Entry
<1>8. ASSUME NEW p \in paths, import[p] # Binary
      PROVE  /\ import[p].artifact \in New(m) /\ import[p].version = import[p].artifact
             /\ \A q \in paths : import[q].artifact = import[p].artifact => q = p
  <2> HIDE DEF place, import, paths, m, n
  <2>1. /\ import[p].artifact = n + place(p) /\ import[p].version = n + place(p)
        /\ place(p) \in 1..m /\ texts[place(p)] = p
    BY <1>7, <1>8
  <2>2. n + place(p) \in New(m) /\ n + place(p) \in Nat
    BY <1>3, <1>4, <2>1 DEF New, n
  <2>3. ASSUME NEW q \in paths, import[q].artifact = import[p].artifact
        PROVE  q = p
    <3>1. import[q] # Binary
      BY <2>1, <2>2, <2>3, RepositoryAssumption DEF Binary, Entry
    <3>2. import[q].artifact = n + place(q) /\ place(q) \in 1..m /\ texts[place(q)] = q
      BY <1>7, <3>1
    <3>3. place(q) = place(p)
      BY <1>3, <1>4, <2>1, <2>3, <3>2
    <3> QED
      BY <2>1, <3>2, <3>3
  <2> QED
    BY <2>1, <2>2, <2>3
<1>9. Save(b, tree)
  <2>1. tree.files = [path \in DOMAIN Tree(b).files \cup paths |->
                         IF path \in paths THEN IF path \in binaries THEN Binary
                                                ELSE Entry(n + place(path), n + place(path))
                         ELSE Tree(b).files[path]]
    BY DEF Uploaded
  <2>2. tree = [folders |-> Tree(b).folders \cup UNION {Above(p) : p \in paths}, files |-> tree.files]
    BY DEF Uploaded
  <2> QED
    BY <1>1, <2>1, <2>2, Zenon
<1> HIDE DEF import, paths, m
<1> QED
  BY <1>2, <1>4, <1>5, <1>6, <1>8, <1>9, UploadAdds

-----------------------------------------------------------------------------
(* Every step keeps the invariant and every pin.                           *)

LEMMA InitHolds ==
    ASSUME Init
    PROVE  RInv
<1>1. DOMAIN trees = {1} /\ Len(trees) = 1 /\ trees[1].folders = {} /\ trees[1].files = <<>>
  BY DEF Init
<1>2. DOMAIN <<>> = {}
  OBVIOUS
<1>3. Trees
  <2>1. Table(trees)
    <3>1. trees \in Seq({trees[1]})
      BY <1>1 DEF Init
    <3>2. {trees[k] : k \in DOMAIN trees} = {trees[1]}
      BY <1>1
    <3> QED
      BY <3>1, <3>2 DEF Table
  <2>2. heads \in [Branch -> 0..Len(trees)]
    BY <1>1 DEF Init
  <2>3. IsTree(trees[1])
    BY <1>1, <1>2 DEF Init, IsTree
  <2>4. WellFormed(trees[1]) /\ PinsFit(trees[1], versions)
    BY <1>1, <1>2 DEF WellFormed, PinsFit
  <2> QED
    BY <1>1, <2>1, <2>2, <2>3, <2>4 DEF Trees
<1>4. DOMAIN versions = {} /\ Table(versions)
  BY <1>2 DEF Init, Table
<1>5. Versions /\ Work
  BY <1>4 DEF Versions, Work
<1>6. Children
  BY <1>2 DEF Init, Children
<1>7. Readings
  BY DEF Init, Readings
<1>8. Pins
  BY <1>2, <1>6 DEF Init, Pins, PinHeld
<1> QED
  BY <1>3, <1>5, <1>6, <1>7, <1>8 DEF RInv

LEMMA StepKeeps ==
    ASSUME RInv, [Next]_vars
    PROVE  RInv'
<1>1. CASE UNCHANGED vars
  BY <1>1 DEF vars, RInv, Trees, Versions, Children, Readings, Work, Pins
<1>2. ASSUME NEW b \in Branch, NEW expected \in DOMAIN trees, NEW path \in Path,
             \/ AddFolder(b, expected, path) \/ Edit(b, expected, path)
             \/ DeleteEntry(b, expected, path)
             \/ PrepareLive(b, expected, path) \/ PublishLive(b, expected, path)
      PROVE  RInv'
  BY <1>2, AddFolderKeeps, EditKeeps, DeleteEntryKeeps, PrepareLiveKeeps, PublishLiveKeeps
<1>3. ASSUME NEW b \in Branch, NEW expected \in DOMAIN trees,
             Upload(b, expected) \/ CreateBranch(b, expected)
      PROVE  RInv'
  BY <1>3, UploadKeeps, CreateBranchKeeps
<1>4. CASE DeleteRepository
  BY <1>4 DEF DeleteRepository, RInv, Trees, Versions, Children, Readings, Work, Pins
<1>5. ASSUME NEW c \in Client, NEW b \in Branch, NEW a \in DOMAIN child[b], ReadChild(c, b, a)
      PROVE  RInv'
  BY <1>5, ReadChildKeeps
<1>6. ASSUME NEW c \in Client, NEW loaded, NEW blind \in BOOLEAN, CommitChild(c, loaded, blind)
      PROVE  RInv'
  BY <1>6, CommitChildKeeps
<1>7. ASSUME NEW b \in Branch, NEW from \in Branch, NEW a \in DOMAIN child[b], MergeChild(b, from, a)
      PROVE  RInv'
  BY <1>7, MergeChildKeeps
<1> QED
  BY <1>1, <1>2, <1>3, <1>4, <1>5, <1>6, <1>7 DEF Next

LEMMA Saved ==
    ASSUME Trees, NEW b \in Branch, NEW tree, Save(b, tree)
    PROVE  trees'[heads'[b]] = tree /\ \A c \in Branch \ {b} : heads'[c] = heads[c]
<1>1. trees' = Append(trees, tree) /\ heads' = [heads EXCEPT ![b] = Len(trees) + 1]
  BY DEF Save
<1>2. trees'[Len(trees) + 1] = tree
  BY <1>1, TableAppend DEF Trees
<1> QED
  BY <1>1, <1>2 DEF Trees

\* A new manifest keeps a path's pin, or moves it to a descendant.
LEMMA SavedAdvances ==
    ASSUME RInv, RInv', NEW b \in Branch, heads[b] # 0, NEW tree, Save(b, tree),
           \A p \in DOMAIN Tree(b).files \cap DOMAIN tree.files :
               \/ tree.files[p] = Tree(b).files[p]
               \/ Tree(b).files[p].version \in versions'[tree.files[p].version].past
    PROVE  \A c \in Branch : Advances(c)
<1> DEFINE old == Tree(b)
<1>1. trees'[heads'[b]] = tree /\ \A c \in Branch \ {b} : heads'[c] = heads[c]
  BY Saved DEF RInv
<1>2. ASSUME heads'[b] # heads[b],
             NEW p \in DOMAIN old.files \cap DOMAIN tree.files, old.files[p] # Binary
      PROVE  old.files[p].version \in versions'[tree.files[p].version].past
  <2>1. CASE tree.files[p] = old.files[p]
    <3>1. old = trees[heads[b]] /\ PinsFit(old, versions)
      BY HeadTree DEF RInv
    <3>2. heads'[b] \in DOMAIN trees'
      <4>1. Len(trees') \in Nat /\ DOMAIN trees' = 1..Len(trees') /\ heads'[b] \in 0..Len(trees')
        BY TableFacts DEF RInv, Trees
      <4>2. heads'[b] # 0
        <5>1. heads' = [heads EXCEPT ![b] = Len(trees) + 1] /\ Len(trees) \in Nat
          BY TableFacts DEF Save, RInv, Trees
        <5> QED
          BY <5>1 DEF RInv, Trees
      <4> QED
        BY <4>1, <4>2
    <3>3. PinsFit(tree, versions')
      BY <1>1, <3>2 DEF RInv, Trees
    <3>4. tree.files[p].version \in DOMAIN versions'
      BY <1>2, <2>1, <3>3 DEF PinsFit, Refers
    <3> QED
      BY <2>1, <3>4 DEF RInv, Versions, IsVersion
  <2> QED
    BY <2>1
<1>3. Advances(b)
  BY <1>1, <1>2 DEF Advances
<1>4. \A c \in Branch \ {b} : Advances(c)
  BY <1>1 DEF Advances
<1> QED
  BY <1>3, <1>4

LEMMA FilePlaced ==
    ASSUME NEW old, IsTree(old), NEW path \in DOMAIN old.files, NEW entry
    PROVE  LET tree == WithFile(old, path, entry) IN
           tree.files[path] = entry /\ \A p \in DOMAIN old.files \ {path} : tree.files[p] = old.files[p]
BY DEF WithFile, IsTree

LEMMA StepAdvances ==
    ASSUME RInv, RInv', [Next]_vars
    PROVE  \A b \in Branch : Advances(b)
<1>1. ASSUME UNCHANGED heads
      PROVE  \A b \in Branch : Advances(b)
  BY <1>1 DEF Advances
<1>2. ASSUME NEW b \in Branch, NEW expected \in DOMAIN trees, NEW path \in Path,
             AddFolder(b, expected, path)
      PROVE  \A c \in Branch : Advances(c)
  <2> DEFINE tree == WithFolders(Tree(b), path)
  <2>1. heads[b] # 0 /\ Save(b, tree)
    BY <1>2 DEF AddFolder, Current
  <2>2. tree.files = Tree(b).files
    BY <2>1, HeadTree DEF WithFolders, IsTree, RInv
  <2> HIDE DEF tree
  <2> QED
    BY <2>1, <2>2, SavedAdvances
<1>3. ASSUME NEW b \in Branch, NEW expected \in DOMAIN trees, NEW path \in Path,
             DeleteEntry(b, expected, path)
      PROVE  \A c \in Branch : Advances(c)
  <2> DEFINE tree == Without(Tree(b), path)
  <2>1. heads[b] # 0 /\ Save(b, tree)
    BY <1>3 DEF DeleteEntry, Current
  <2>2. IsTree(Tree(b))
    BY <2>1, HeadTree DEF RInv
  <2>3. \A p \in DOMAIN tree.files : tree.files[p] = Tree(b).files[p]
    BY <2>2 DEF Without, IsTree
  <2> HIDE DEF tree
  <2> QED
    BY <2>1, <2>3, SavedAdvances
<1>4. ASSUME NEW b \in Branch, NEW expected \in DOMAIN trees, NEW path \in Path,
             Edit(b, expected, path)
      PROVE  \A c \in Branch : Advances(c)
  <2> DEFINE w == Len(versions) + 1
             entry == Entry(Tree(b).files[path].artifact, w)
             tree == WithFile(Tree(b), path, entry)
  <2>1. heads[b] # 0 /\ Save(b, tree) /\ path \in DOMAIN Tree(b).files
    BY <1>4 DEF Edit, Current, Editable
  <2>2. Tree(b).files[path].version \in versions'[w].past
    BY <1>4, EditKeeps
  <2>3. entry.version = w
    BY DEF Entry
  <2> HIDE DEF entry, w
  <2>4. tree.files[path] = entry /\ \A p \in DOMAIN Tree(b).files \ {path} : tree.files[p] = Tree(b).files[p]
    BY <2>1, HeadTree, FilePlaced DEF RInv
  <2> HIDE DEF tree
  <2> QED
    BY <2>1, <2>2, <2>3, <2>4, SavedAdvances
<1>5. ASSUME NEW b \in Branch, NEW expected \in DOMAIN trees, NEW path \in Path,
             PublishLive(b, expected, path)
      PROVE  \A c \in Branch : Advances(c)
  <2> DEFINE a == Tree(b).files[path].artifact
             w == Child(b, a)
             entry == Entry(a, w)
             tree == WithFile(Tree(b), path, entry)
  <2>1. /\ heads[b] # 0 /\ Save(b, tree) /\ path \in DOMAIN Tree(b).files
        /\ Tree(b).files[path].version \in versions'[w].past
    BY <1>5 DEF PublishLive, Current, Editable
  <2>2. entry.version = w
    BY DEF Entry
  <2> HIDE DEF entry, w, a
  <2>3. tree.files[path] = entry /\ \A p \in DOMAIN Tree(b).files \ {path} : tree.files[p] = Tree(b).files[p]
    BY <2>1, HeadTree, FilePlaced DEF RInv
  <2> HIDE DEF tree
  <2> QED
    BY <2>1, <2>2, <2>3, SavedAdvances
<1>6. ASSUME NEW b \in Branch, NEW expected \in DOMAIN trees, Upload(b, expected)
      PROVE  \A c \in Branch : Advances(c)
  <2>1. Advances(b) /\ \A c \in Branch \ {b} : heads'[c] = heads[c]
    BY <1>6, UploadKeeps
  <2> QED
    BY <2>1 DEF Advances
<1>7. ASSUME NEW b \in Branch, NEW from \in DOMAIN trees, CreateBranch(b, from)
      PROVE  \A c \in Branch : Advances(c)
  <2>1. heads[b] = 0 /\ \A c \in Branch \ {b} : heads'[c] = heads[c]
    BY <1>7 DEF CreateBranch, RInv, Trees
  <2> QED
    BY <2>1 DEF Advances
<1>8. ASSUME NEW b \in Branch, NEW expected \in DOMAIN trees, NEW path \in Path,
             PrepareLive(b, expected, path)
      PROVE  UNCHANGED heads
  BY <1>8 DEF PrepareLive
<1>9. CASE DeleteRepository
  BY <1>1, <1>9 DEF DeleteRepository
<1>10. ASSUME NEW c \in Client, NEW b \in Branch, NEW a \in DOMAIN child[b], ReadChild(c, b, a)
       PROVE  UNCHANGED heads
  BY <1>10 DEF ReadChild
<1>11. ASSUME NEW c \in Client, NEW loaded, NEW blind \in BOOLEAN, CommitChild(c, loaded, blind)
       PROVE  UNCHANGED heads
  BY <1>11 DEF CommitChild
<1>12. ASSUME NEW b \in Branch, NEW from \in Branch, NEW a \in DOMAIN child[b], MergeChild(b, from, a)
       PROVE  UNCHANGED heads
  BY <1>12 DEF MergeChild
<1>13. CASE UNCHANGED vars
  BY <1>1, <1>13 DEF vars
<1> HIDE DEF Advances
<1> QED
  BY <1>1, <1>2, <1>3, <1>4, <1>5, <1>6, <1>7, <1>8, <1>9, <1>10, <1>11, <1>12, <1>13 DEF Next

-----------------------------------------------------------------------------
(* The properties.                                                         *)

LEMMA Invariance == Spec => []RInv
<1>1. Init => RInv
  BY InitHolds
<1>2. RInv /\ [Next]_vars => RInv'
  BY StepKeeps
<1> QED
  BY <1>1, <1>2, PTL DEF Spec

\* Whatever batches, deletions and branches led to a manifest, no path in it is both
\* file and folder and no entry is without its folders.  (service.py:113-120, 182-189)
THEOREM ManifestsStayWellFormed == Spec => []TreesAreWellFormed
<1>1. RInv => TreesAreWellFormed
  BY DEF RInv, Trees, WellFormed, TreesAreWellFormed
<1> QED
  BY <1>1, Invariance, PTL

\* A file can be edited or its live revision published, however its child branch was
\* moved by clients that named their base.  (service.py:213-217, 276-282)
THEOREM FilesAlwaysEditable == Spec => []FilesStayEditable
<1>1. RInv => FilesStayEditable
  <2>1. SUFFICES ASSUME RInv, NEW b \in Branch, heads[b] # 0, NEW p \in DOMAIN Tree(b).files
                 PROVE  LET pin == Tree(b).files[p] IN
                        pin # Binary /\ pin.artifact \in DOMAIN child[b] =>
                            \/ pin.version \in versions[child[b][pin.artifact]].past
                            \/ Forced(b, pin.artifact)
    BY Zenon DEF FilesStayEditable
  <2>2. PinHeld(versions, child, b, Tree(b).files[p])
    BY <2>1 DEF RInv, Pins, Tree
  <2> QED
    BY <2>2 DEF PinHeld, Held, WasForced, Forced
<1> QED
  BY <1>1, Invariance, PTL

\* No version of a file is lost from its child branch, unless a commit on it named no
\* base.  (service.py:213-219, main.py:474-482)
THEOREM WorkAlwaysKept == Spec => []LiveWorkIsKept
<1>1. RInv => LiveWorkIsKept
  BY DEF RInv, Work, Held, WasForced, LiveWorkIsKept, Forced
<1> QED
  BY <1>1, Invariance, PTL

\* No edit, merge or commit with a base takes the place of a version that its author had
\* not before him, whatever happens between his loading it and the branch's moving; after
\* a commit without a base neither.  (service.py:101-105, 213-219, main.py:477-482)
THEOREM NoBlindOverwrite == Spec => []NoUnseenOverwrite
<1>1. RInv => NoUnseenOverwrite
  BY DEF RInv, Versions, IsVersion, NoUnseenOverwrite
<1> QED
  BY <1>1, Invariance, PTL

\* No step of a repository moves a file's pin back or aside while the file keeps its
\* artifact.  (service.py:202-227, 268-292)
THEOREM PinsAlwaysAdvance == Spec => PinsOnlyAdvance
<1>1. RInv /\ RInv' /\ [Next]_vars => \A b \in Branch : Advances(b)
  BY StepAdvances
<1>2. (\A b \in Branch : Advances(b)) =>
          \A b \in Branch : heads[b] \notin {0, heads'[b]} =>
              \A p \in DOMAIN Tree(b).files \cap DOMAIN trees'[heads'[b]].files :
                 LET old == Tree(b).files[p]
                     new == trees'[heads'[b]].files[p] IN
                 old # Binary /\ new.artifact = old.artifact =>
                     old.version \in versions'[new.version].past
  BY DEF Advances
<1> QED
  BY <1>1, <1>2, Invariance, PTL DEF Spec, PinsOnlyAdvance

-----------------------------------------------------------------------------
=============================================================================
