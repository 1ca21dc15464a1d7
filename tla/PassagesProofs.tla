--------------------------- MODULE PassagesProofs ---------------------------
(***************************************************************************)
(* Proofs about Passages.                                                  *)
(***************************************************************************)
EXTENDS Passages, TableLemmas

-----------------------------------------------------------------------------
(* The fold of Emit over a sequence of spans is what emitting them one by   *)
(* one yields.                                                             *)

Emitting(spans, N, f) ==
    f = [s \in SUBSET (1..N) |-> IF s = {} THEN <<>> ELSE Emit(f[s \ {Max(s)}], spans[Max(s)])]

LEMMA EmittingExists ==
    ASSUME NEW spans, NEW N \in Nat
    PROVE  \E f : Emitting(spans, N, f)
<1> DEFINE S == {n \in 0..N : \E f : Emitting(spans, n, f)}
<1>1. 0 \in S
  <2> DEFINE f == [s \in SUBSET (1..0) |-> <<>>]
  <2>1. \A s \in SUBSET (1..0) : s = {}
    OBVIOUS
  <2>2. Emitting(spans, 0, f)
    BY <2>1 DEF Emitting
  <2> QED
    BY <2>2
<1>2. ASSUME NEW n \in 0..(N - 1), n \in S
      PROVE  n + 1 \in S
  <2>1. PICK f : Emitting(spans, n, f)
    BY <1>2
  <2>2. n \in Nat /\ n + 1 \in 0..N /\ n + 1 \in Nat
    OBVIOUS
  <2> DEFINE D == SUBSET (1..n + 1)
             g == [s \in D |-> IF n + 1 \in s THEN Emit(f[s \ {n + 1}], spans[n + 1]) ELSE f[s]]
  <2>3. ASSUME NEW s \in D
        PROVE  g[s] = IF s = {} THEN <<>> ELSE Emit(g[s \ {Max(s)}], spans[Max(s)])
    <3>1. CASE n + 1 \in s
      <4>1. \A k \in s : k <= n + 1
        BY <2>2
      <4>2. Max(s) = n + 1
        BY <2>2, <3>1, <4>1, LargestIs
      <4>3. s \ {n + 1} \in SUBSET (1..n + 1) /\ n + 1 \notin s \ {n + 1}
        BY <2>2
      <4>4. g[s \ {n + 1}] = f[s \ {n + 1}]
        BY <4>3
      <4> QED
        BY <3>1, <4>2, <4>4
    <3>2. CASE n + 1 \notin s
      <4>1. s \in SUBSET (1..n)
        BY <2>2, <3>2
      <4>2. f[s] = IF s = {} THEN <<>> ELSE Emit(f[s \ {Max(s)}], spans[Max(s)])
        BY <2>1, <4>1 DEF Emitting
      <4>3. s \ {Max(s)} \in D /\ n + 1 \notin s \ {Max(s)}
        BY <3>2
      <4>4. g[s \ {Max(s)}] = f[s \ {Max(s)}] /\ g[s] = f[s]
        BY <3>2, <4>3
      <4> HIDE DEF g, D
      <4> QED
        BY <4>2, <4>4
    <3> QED
      BY <3>1, <3>2
  <2>4. g = [s \in D |-> g[s]]
    OBVIOUS
  <2> HIDE DEF g
  <2>5. g = [s \in D |-> IF s = {} THEN <<>> ELSE Emit(g[s \ {Max(s)}], spans[Max(s)])]
    BY <2>3, <2>4
  <2>6. Emitting(spans, n + 1, g)
    BY <2>5 DEF Emitting
  <2> QED
    BY <2>2, <2>6
<1>3. 0..N \subseteq S
  <2> HIDE DEF S
  <2> QED
    BY <1>1, <1>2, Induct
<1> QED
  BY <1>3

LEMMA EmitsInOrder ==
    ASSUME NEW spans, Table(spans)
    PROVE  \E out :
              /\ out[0] = <<>>
              /\ \A k \in 0..(Len(spans) - 1) : out[k + 1] = Emit(out[k], spans[k + 1])
              /\ FoldLeft(Emit, <<>>, spans) = out[Len(spans)]
<1> DEFINE N == Len(spans)
           f == CHOOSE f : Emitting(spans, N, f)
           out == [k \in 0..N |-> f[1..k]]
<1>1. N \in Nat /\ DOMAIN spans = 1..N
  BY TableFacts
<1>2. FoldLeft(Emit, <<>>, spans) = f[1..N]
  <2>1. FoldLeft(Emit, <<>>, spans) =
           (CHOOSE g : g = [s \in SUBSET (DOMAIN spans) |-> IF s = {} THEN <<>>
                                     ELSE Emit(g[s \ {Max(s)}], spans[Max(s)])])[DOMAIN spans]
    BY DEF FoldLeft, MapThenFoldSet
  <2> QED
    BY <1>1, <2>1 DEF Emitting
<1>3. Emitting(spans, N, f)
  BY <1>1, EmittingExists
<1> HIDE DEF f, N
<1>4. f[1..0] = <<>>
  <2>1. 1..0 = {}
    OBVIOUS
  <2> QED
    BY <1>1, <1>3, <2>1 DEF Emitting
<1>5. ASSUME NEW k \in 0..(N - 1)
      PROVE  f[1..k + 1] = Emit(f[1..k], spans[k + 1])
  <2>1. 1..k + 1 \in SUBSET (1..N) /\ k + 1 \in Nat /\ k + 1 \in 1..k + 1
    BY <1>1
  <2>2. Max(1..k + 1) = k + 1
    <3>1. /\ 1..k + 1 \in SUBSET (1..k + 1)
          /\ \A j \in 1..k + 1 : j <= k + 1
      BY <1>1
    <3> QED
      BY <2>1, <3>1, LargestIs
  <2>3. (1..k + 1) \ {k + 1} = 1..k
    BY <1>1
  <2> QED
    BY <1>3, <2>1, <2>2, <2>3 DEF Emitting
<1>6. /\ out[0] = <<>> /\ out[N] = f[1..N]
      /\ \A k \in 0..(N - 1) : out[k + 1] = Emit(out[k], spans[k + 1])
  <2>1. /\ 0 \in 0..N /\ N \in 0..N
        /\ \A k \in 0..(N - 1) : k \in 0..N /\ k + 1 \in 0..N
    BY <1>1
  <2> QED
    BY <1>4, <1>5, <2>1
<1> QED
  BY <1>2, <1>6 DEF N

-----------------------------------------------------------------------------
(* The dict of chunks, and the ids of source code.                         *)

\* Where an id names one chunk the dict loses none.
LEMMA DictKeeps ==
    ASSUME NEW chunks, Table(chunks),
           \A c, d \in ToSet(chunks) : c.id = d.id => c = d
    PROVE  ToSet(chunks) \subseteq Range(ById(chunks))
<1>1. SUFFICES ASSUME NEW c \in ToSet(chunks) PROVE c \in Range(ById(chunks))
  OBVIOUS
<1> DEFINE ids == {d.id : d \in ToSet(chunks)}
           at == {k \in DOMAIN chunks : chunks[k].id = c.id}
<1>2. Len(chunks) \in Nat /\ DOMAIN chunks = 1..Len(chunks)
  BY TableFacts
<1>3. PICK k \in DOMAIN chunks : chunks[k] = c
  BY DEF ToSet
<1>4. at \in SUBSET (1..Len(chunks)) /\ at # {}
  BY <1>2, <1>3
<1>5. Max(at) \in at
  <2> HIDE DEF at
  <2> QED
    BY <1>2, <1>4, Largest
<1>6. chunks[Max(at)] = c
  <2>1. chunks[Max(at)] \in ToSet(chunks) /\ chunks[Max(at)].id = c.id
    BY <1>5 DEF ToSet
  <2> QED
    BY <2>1
<1>7. c.id \in ids
  OBVIOUS
<1>8. /\ ById(chunks) = [id \in ids |-> chunks[Max({n \in DOMAIN chunks : chunks[n].id = id})]]
  BY DEF ById
<1>9. ById(chunks)[c.id] = chunks[Max(at)] /\ c.id \in DOMAIN ById(chunks)
  BY <1>7, <1>8
<1> QED
  BY <1>6, <1>9 DEF Range

\* A chunker's code id: a name, or a name and a block's length.
Ids(spans) ==
    \A k \in DOMAIN spans : \E a : spans[k].id = <<a>> \/ \E m : spans[k].id = <<a, m>>

\* Of two definitions with one name and id no third one has a block.
Apart(spans) ==
    \A i, j, k \in DOMAIN spans : \A a, m :
        spans[i].id = <<a>> /\ spans[j].id = <<a>> /\ spans[k].id = <<a, m>> => i = j

LEMMA Numbered ==
    /\ \A a, x : Append(<<a>>, x) = <<a, x>>
    /\ \A a, m, x : Append(<<a, m>>, x) = <<a, m, x>>
    /\ \A a, b, y : <<a>> # <<b, y>>
    /\ \A a, b, x, y : <<a, x>> = <<b, y>> => a = b /\ x = y
    /\ \A a, b, x, y, z : <<a, x>> # <<b, y, z>>
    /\ \A a, b, x, y, u, v : <<a, u, x>> = <<b, v, y>> => x = y
    /\ \A a, b, x, y : <<a>> # <<b, x, y>>
    /\ \A a, b : <<a>> = <<b>> => a = b
<1>1. \A a, x : Append(<<a>>, x) = <<a, x>>
  <2>1. TAKE a, x
  <2> DEFINE S == {a, x}
             s == Append(<<a>>, x)
  <2>2. <<a>> \in Seq(S) /\ Len(<<a>>) = 1 /\ <<a>>[1] = a /\ x \in S
    OBVIOUS
  <2>3. s \in Seq(S) /\ Len(s) = 2 /\ s[1] = a /\ s[2] = x
    <3> HIDE DEF S
    <3> QED
      BY <2>2, AppendProperties
  <2>4. <<a, x>> \in Seq(S) /\ Len(<<a, x>>) = 2
    OBVIOUS
  <2>5. \A i \in 1..2 : s[i] = <<a, x>>[i]
    <3>1. \A i \in 1..2 : i = 1 \/ i = 2
      OBVIOUS
    <3> HIDE DEF s
    <3> QED
      BY <2>3, <3>1
  <2> HIDE DEF s, S
  <2> QED
    BY <2>3, <2>4, <2>5, SeqEqual DEF s
<1>2. \A a, m, x : Append(<<a, m>>, x) = <<a, m, x>>
  <2>1. TAKE a, m, x
  <2> DEFINE S == {a, m, x}
             s == Append(<<a, m>>, x)
  <2>2. /\ <<a, m>> \in Seq(S) /\ Len(<<a, m>>) = 2 /\ x \in S
        /\ <<a, m>>[1] = a /\ <<a, m>>[2] = m
    OBVIOUS
  <2>3. s \in Seq(S) /\ Len(s) = 3 /\ s[1] = a /\ s[2] = m /\ s[3] = x
    <3> HIDE DEF S
    <3> QED
      BY <2>2, AppendProperties
  <2>4. <<a, m, x>> \in Seq(S) /\ Len(<<a, m, x>>) = 3
    OBVIOUS
  <2>5. \A i \in 1..3 : s[i] = <<a, m, x>>[i]
    <3>1. \A i \in 1..3 : i = 1 \/ i = 2 \/ i = 3
      OBVIOUS
    <3> HIDE DEF s
    <3> QED
      BY <2>3, <3>1
  <2> HIDE DEF s, S
  <2> QED
    BY <2>3, <2>4, <2>5, SeqEqual DEF s
<1>3. \A a, b, y : <<a>> # <<b, y>>
  OBVIOUS
<1>4. \A a, b, x, y : <<a, x>> = <<b, y>> => a = b /\ x = y
  OBVIOUS
<1>5. \A a, b, x, y, z : <<a, x>> # <<b, y, z>>
  OBVIOUS
<1>6. \A a, b, x, y, u, v : <<a, u, x>> = <<b, v, y>> => x = y
  OBVIOUS
<1>7. \A a, b, x, y : <<a>> # <<b, x, y>>
  OBVIOUS
<1>8. \A a, b : <<a>> = <<b>> => a = b
  OBVIOUS
<1> QED
  BY <1>1, <1>2, <1>3, <1>4, <1>5, <1>6, <1>7, <1>8

\* The first k spans are emitted, each under an id of its own.
Told(spans, k, out) ==
    /\ Table(out) /\ Len(out) = k
    /\ \A i \in 1..k : /\ out[i].text = <<spans[i].from, spans[i].to>>
                       /\ \/ out[i].id = spans[i].id
                          \/ out[i].id = Append(spans[i].id, i - 1)
    /\ \A i, j \in 1..k : out[i].id = out[j].id => i = j

LEMMA NewIdIsFresh ==
    ASSUME NEW spans, Table(spans), Ids(spans), Apart(spans),
           NEW k \in 0..(Len(spans) - 1), NEW out, Told(spans, k, out),
           \E j \in 1..k : out[j].id = spans[k + 1].id
    PROVE  \A i \in 1..k : out[i].id # Append(spans[k + 1].id, k)
<1>1. SUFFICES ASSUME NEW i \in 1..k, out[i].id = Append(spans[k + 1].id, k)
               PROVE  FALSE
  OBVIOUS
<1>2. Len(spans) \in Nat /\ DOMAIN spans = 1..Len(spans)
  BY TableFacts
<1>3. /\ k \in Nat /\ k + 1 \in DOMAIN spans /\ i \in DOMAIN spans /\ i - 1 # k
      /\ \A j \in 1..k : j \in DOMAIN spans /\ j # k + 1
  BY <1>2
<1>4. PICK a : spans[k + 1].id = <<a>> \/ \E m : spans[k + 1].id = <<a, m>>
  BY <1>3 DEF Ids
<1>5. PICK b : spans[i].id = <<b>> \/ \E m : spans[i].id = <<b, m>>
  BY <1>3 DEF Ids
<1>6. PICK j \in 1..k : out[j].id = spans[k + 1].id
  OBVIOUS
<1>7. PICK c : spans[j].id = <<c>> \/ \E m : spans[j].id = <<c, m>>
  BY <1>3 DEF Ids
<1>8. out[i].id = spans[i].id \/ out[i].id = Append(spans[i].id, i - 1)
  BY DEF Told
<1>9. out[j].id = spans[j].id \/ out[j].id = Append(spans[j].id, j - 1)
  BY DEF Told
<1>10. CASE spans[k + 1].id = <<a>>
  <2>1. out[i].id = <<a, k>>
    BY <1>1, <1>10, Numbered
  <2>2. spans[j].id = <<a>>
    <3>1. ASSUME out[j].id = Append(spans[j].id, j - 1) PROVE FALSE
      <4>1. Append(spans[j].id, j - 1) = <<a>>
        BY <1>6, <1>10, <3>1
      <4>2. ASSUME spans[j].id = <<c>> PROVE FALSE
        <5>1. Append(spans[j].id, j - 1) = <<c, j - 1>>
          BY <4>2, Numbered
        <5>2. <<c, j - 1>> # <<a>>
          OBVIOUS
        <5> QED
          BY <4>1, <5>1, <5>2
      <4>3. ASSUME NEW m, spans[j].id = <<c, m>> PROVE FALSE
        <5>1. Append(spans[j].id, j - 1) = <<c, m, j - 1>>
          BY <4>3, Numbered
        <5>2. <<c, m, j - 1>> # <<a>>
          OBVIOUS
        <5> QED
          BY <4>1, <5>1, <5>2
      <4> QED
        BY <1>7, <4>2, <4>3
    <3> QED
      BY <1>6, <1>9, <1>10, <3>1
  <2>3. CASE out[i].id = spans[i].id
    BY <1>3, <1>10, <2>1, <2>2, <2>3 DEF Apart
  <2>4. CASE out[i].id = Append(spans[i].id, i - 1)
    <3>1. Append(spans[i].id, i - 1) = <<a, k>>
      BY <2>1, <2>4
    <3>2. ASSUME spans[i].id = <<b>> PROVE FALSE
      <4>1. Append(spans[i].id, i - 1) = <<b, i - 1>>
        BY <3>2, Numbered
      <4>2. i - 1 = k
        BY <3>1, <4>1, Numbered
      <4> QED
        BY <1>3, <4>2
    <3>3. ASSUME NEW m, spans[i].id = <<b, m>> PROVE FALSE
      <4>1. Append(spans[i].id, i - 1) = <<b, m, i - 1>>
        BY <3>3, Numbered
      <4>2. <<b, m, i - 1>> # <<a, k>>
        OBVIOUS
      <4> QED
        BY <3>1, <4>1, <4>2
    <3> QED
      BY <1>5, <3>2, <3>3
  <2> QED
    BY <1>8, <2>3, <2>4
<1>11. ASSUME NEW m, spans[k + 1].id = <<a, m>>
       PROVE  FALSE
  <2>1. out[i].id = <<a, m, k>>
    BY <1>1, <1>11, Numbered
  <2>2. CASE out[i].id = spans[i].id
    <3>1. spans[i].id = <<a, m, k>>
      BY <2>1, <2>2
    <3> QED
      BY <1>5, <3>1, Numbered
  <2>3. CASE out[i].id = Append(spans[i].id, i - 1)
    <3>1. Append(spans[i].id, i - 1) = <<a, m, k>>
      BY <2>1, <2>3
    <3>2. ASSUME spans[i].id = <<b>> PROVE FALSE
      <4>1. Append(spans[i].id, i - 1) = <<b, i - 1>>
        BY <3>2, Numbered
      <4>2. <<b, i - 1>> # <<a, m, k>>
        OBVIOUS
      <4> QED
        BY <3>1, <4>1, <4>2
    <3>3. ASSUME NEW n, spans[i].id = <<b, n>> PROVE FALSE
      <4>1. Append(spans[i].id, i - 1) = <<b, n, i - 1>>
        BY <3>3, Numbered
      <4>2. i - 1 = k
        BY <3>1, <4>1, Numbered
      <4> QED
        BY <1>3, <4>2
    <3> QED
      BY <1>5, <3>2, <3>3
  <2> QED
    BY <1>8, <2>2, <2>3
<1> QED
  BY <1>4, <1>10, <1>11

LEMMA EmitGoesOn ==
    ASSUME NEW spans, Table(spans), Ids(spans), Apart(spans),
           NEW k \in 0..(Len(spans) - 1), NEW out, Told(spans, k, out)
    PROVE  Told(spans, k + 1, Emit(out, spans[k + 1]))
<1> DEFINE span == spans[k + 1]
           ids == {c.id : c \in ToSet(out)}
           id == IF span.id \in ids THEN Append(span.id, Cardinality(ids)) ELSE span.id
           new == Chunk(id, <<span.from, span.to>>, <<span.id>>)
           more == Append(out, new)
<1>1. Emit(out, span) = more
  BY DEF Emit
<1>2. k \in Nat /\ Table(out) /\ Len(out) = k /\ DOMAIN out = 1..k
  BY TableFacts DEF Told
<1>3. ids = {out[i].id : i \in 1..k}
  BY <1>2 DEF ToSet
<1>4. Cardinality(ids) = k
  <2> DEFINE f == [i \in 1..k |-> out[i].id]
  <2>1. \A i, j \in 1..k : f[i] = f[j] => i = j
    BY DEF Told
  <2>2. f \in [1..k -> ids] /\ \A t \in ids : \E i \in 1..k : f[i] = t
    BY <1>3
  <2> HIDE DEF f, ids
  <2> QED
    BY <1>2, <2>1, <2>2, ManyDistinct
<1>5. id = span.id \/ id = Append(span.id, k)
  BY <1>4
<1>6. \A i \in 1..k : out[i].id # id
  <2>1. CASE span.id \in ids
    <3>1. \E j \in 1..k : out[j].id = spans[k + 1].id
      BY <1>3, <2>1
    <3> QED
      BY <1>4, <2>1, <3>1, NewIdIsFresh
  <2>2. CASE span.id \notin ids
    BY <1>3, <2>2
  <2> QED
    BY <2>1, <2>2
<1>7. new.id = id /\ new.text = <<span.from, span.to>>
  BY DEF Chunk
<1> HIDE DEF new, id, ids
<1>8. /\ Table(more) /\ DOMAIN more = (1..k) \cup {k + 1}
      /\ \A i \in 1..k : more[i] = out[i]
      /\ more[k + 1] = new
  BY <1>2, TableAppend
<1>9. Len(more) = k + 1 /\ 1..k + 1 = (1..k) \cup {k + 1}
  <2>1. 1..k + 1 = (1..k) \cup {k + 1}
    BY <1>2
  <2>2. Len(more) = k + 1
    BY <1>2, AppendLonger
  <2> QED
    BY <2>1, <2>2
<1> HIDE DEF more
<1>10. ASSUME NEW i \in 1..k + 1
       PROVE  /\ more[i].text = <<spans[i].from, spans[i].to>>
              /\ more[i].id = spans[i].id \/ more[i].id = Append(spans[i].id, i - 1)
  <2>1. CASE i \in 1..k
    BY <1>8, <2>1 DEF Told
  <2>2. CASE i = k + 1
    <3>1. i - 1 = k
      BY <1>2, <2>2
    <3> QED
      BY <1>5, <1>7, <1>8, <2>2, <3>1
  <2> QED
    BY <1>9, <2>1, <2>2
<1>11. ASSUME NEW i \in 1..k + 1, NEW j \in 1..k + 1, more[i].id = more[j].id
       PROVE  i = j
  <2>1. CASE i \in 1..k /\ j \in 1..k
    BY <1>8, <1>11, <2>1 DEF Told
  <2>2. CASE i = k + 1 \/ j = k + 1
    BY <1>6, <1>7, <1>8, <1>9, <1>11, <2>2
  <2> QED
    BY <1>9, <2>1, <2>2
<1>12. Told(spans, k + 1, more)
  BY <1>8, <1>9, <1>10, <1>11 DEF Told
<1> QED
  BY <1>1, <1>12

\* Every span is a chunk of the index.
LEMMA EverySpanIsIndexed ==
    ASSUME NEW spans, Table(spans), Ids(spans), Apart(spans), NEW k \in DOMAIN spans
    PROVE  \E c \in Range(ById(FoldLeft(Emit, <<>>, spans))) :
              c.text = <<spans[k].from, spans[k].to>>
<1> DEFINE N == Len(spans)
           chunks == FoldLeft(Emit, <<>>, spans)
<1>1. N \in Nat /\ DOMAIN spans = 1..N
  BY TableFacts
<1>2. PICK out :
         /\ out[0] = <<>>
         /\ \A n \in 0..(N - 1) : out[n + 1] = Emit(out[n], spans[n + 1])
         /\ chunks = out[N]
  BY EmitsInOrder
<1> DEFINE S == {n \in 0..N : Told(spans, n, out[n])}
<1>3. 0 \in S
  <2>1. Table(<<>>) /\ Len(<<>>) = 0 /\ 0 \in 0..N
    BY <1>1 DEF Table
  <2> QED
    BY <1>2, <2>1 DEF Told
<1>4. ASSUME NEW n \in 0..(N - 1), n \in S PROVE n + 1 \in S
  <2>1. Told(spans, n + 1, Emit(out[n], spans[n + 1]))
    BY <1>4, EmitGoesOn
  <2>2. n + 1 \in 0..N
    BY <1>1
  <2> QED
    BY <1>2, <2>1, <2>2
<1>5. 0..N \subseteq S
  <2> HIDE DEF S, N
  <2> QED
    BY <1>1, <1>3, <1>4, Induct
<1>6. Told(spans, N, chunks)
  <2>1. N \in 0..N
    BY <1>1
  <2> QED
    BY <1>2, <1>5, <2>1
<1> HIDE DEF chunks
<1>7. Table(chunks) /\ DOMAIN chunks = 1..N
  BY <1>6, TableFacts DEF Told
<1>8. \A c, d \in ToSet(chunks) : c.id = d.id => c = d
  BY <1>6, <1>7 DEF ToSet, Told
<1>9. chunks[k] \in Range(ById(chunks))
  BY <1>1, <1>7, <1>8, DictKeeps DEF ToSet
<1>10. chunks[k].text = <<spans[k].from, spans[k].to>>
  BY <1>1, <1>6 DEF Told
<1> QED
  BY <1>9, <1>10 DEF chunks

-----------------------------------------------------------------------------
(* The spans of a definition.                                              *)

LEMMA Divides ==
    ASSUME NEW n \in Nat, NEW c \in Nat \ {0}
    PROVE  n \div c \in Nat /\ c * (n \div c) <= n /\ n < c * (n \div c) + c
OBVIOUS

LEMMA FewerTimes ==
    ASSUME NEW a \in Nat, NEW b \in Nat, NEW c \in Nat \ {0}, c * a < c * b
    PROVE  a < b
<1>1. SUFFICES ASSUME b <= a PROVE c * b <= c * a
  OBVIOUS
<1>2. PICK d \in Nat : a = b + d
  <2>1. a - b \in Nat /\ a = b + (a - b)
    BY <1>1
  <2> QED
    BY <2>1
<1>3. c * a = c * b + c * d /\ c * d \in Nat /\ c * b \in Nat
  BY <1>2
<1> QED
  BY <1>3

Definition(def, length) ==
    /\ def.name \in Name
    /\ def.first \in Nat \ {0} /\ def.last \in Nat /\ def.first <= def.last
    /\ def.last <= length

\* The table of where a file's lines end.
Lined(ends) ==
    /\ Table(ends)
    /\ \A i \in 0..Len(ends) : CharEnd(ends, i) \in Nat /\ ByteEnd(ends, i) \in Nat
    /\ \A i, j \in 0..Len(ends) : i < j =>
          CharEnd(ends, i) + 1 < CharEnd(ends, j) /\ ByteEnd(ends, i) < ByteEnd(ends, j)

LEMMA LineAtGrows ==
    ASSUME NEW ends, Table(ends), NEW p, NEW q,
           \A i \in DOMAIN ends : ends[i].char <= p => ends[i].char <= q
    PROVE  LineAt(ends, p) \in Nat /\ LineAt(ends, q) \in Nat /\ LineAt(ends, p) <= LineAt(ends, q)
<1> DEFINE by(r) == {i \in DOMAIN ends : ends[i].char <= r}
<1>1. IsFiniteSet(DOMAIN ends)
  BY TableFacts, FS_Interval
<1>2. by(p) \subseteq by(q) /\ by(q) \subseteq DOMAIN ends
  OBVIOUS
<1>3. LineAt(ends, p) = Cardinality(by(p)) /\ LineAt(ends, q) = Cardinality(by(q))
  BY DEF LineAt
<1> HIDE DEF by
<1>4. IsFiniteSet(by(q)) /\ IsFiniteSet(by(p))
  BY <1>1, <1>2, FS_Subset
<1> QED
  BY <1>2, <1>3, <1>4, FS_Subset, FS_CardinalityType

\* The line a position lies on.
LEMMA LineAtIs ==
    ASSUME NEW ends, Lined(ends), NEW n \in 0..Len(ends), NEW p \in Nat,
           CharEnd(ends, n) <= p, n < Len(ends) => p < CharEnd(ends, n + 1)
    PROVE  LineAt(ends, p) = n
<1>1. Len(ends) \in Nat /\ DOMAIN ends = 1..Len(ends)
  BY TableFacts DEF Lined
<1>2. ASSUME NEW i \in 1..Len(ends) PROVE ends[i].char <= p <=> i <= n
  <2>1. CharEnd(ends, i) = ends[i].char /\ i \in 0..Len(ends)
    BY <1>1 DEF CharEnd
  <2>2. CASE i <= n
    <3>1. i = n \/ i < n
      BY <1>1, <2>2
    <3>2. CharEnd(ends, i) <= CharEnd(ends, n)
      BY <1>1, <2>1, <3>1 DEF Lined
    <3> QED
      BY <2>1, <2>2, <3>2 DEF Lined
  <2>3. CASE ~(i <= n)
    <3>1. n + 1 \in 0..Len(ends) /\ n < Len(ends) /\ (n + 1 = i \/ n + 1 < i)
      BY <1>1, <2>3
    <3>2. CharEnd(ends, n + 1) <= CharEnd(ends, i)
      BY <2>1, <3>1 DEF Lined
    <3> QED
      BY <2>1, <2>3, <3>1, <3>2 DEF Lined
  <2> QED
    BY <2>2, <2>3
<1>3. {i \in DOMAIN ends : ends[i].char <= p} = 1..n
  BY <1>1, <1>2
<1>4. Cardinality(1..n) = n
  BY <1>1, FS_Interval
<1> QED
  BY <1>3, <1>4 DEF LineAt

\* The ids of a definition's spans.
LEMMA SpansAre ==
    ASSUME NEW ends, Lined(ends), NEW def, Definition(def, Len(ends))
    PROVE  /\ Table(Spans(ends, def))
           /\ \A j \in DOMAIN Spans(ends, def) :
                 \/ Spans(ends, def)[j].id = <<def.name>> /\ DOMAIN Spans(ends, def) = {1}
                 \/ \E m : Spans(ends, def)[j].id = <<def.name, m>>
<1> DEFINE start == ByteEnd(ends, def.first - 1)
           stop == ByteEnd(ends, def.last) - 1
           before == LineAt(ends, start)
           found == LineAt(ends, stop) - before
           full == found \div CodeMax
           cut(k) == IF k = 0 THEN start
                     ELSE IF k > full THEN stop ELSE CharEnd(ends, before + k * CodeMax)
           mark(k) == IF k > full THEN found % CodeMax ELSE CodeMax
           blocks == IF cut(full) < stop THEN full + 1 ELSE full
           one == <<[id |-> <<def.name>>, from |-> start, to |-> stop]>>
           long == [k \in 1..blocks |-> [id |-> <<def.name, mark(k)>>, from |-> cut(k - 1), to |-> cut(k)]]
<1>1. Spans(ends, def) = IF def.last + 1 - def.first <= CodeMax THEN one ELSE long
  BY DEF Spans
<1>2. CASE def.last + 1 - def.first <= CodeMax
  <2>1. Spans(ends, def) = one /\ one[1].id = <<def.name>>
    BY <1>1, <1>2
  <2>2. Table(one) /\ DOMAIN one = {1}
    <3>1. DOMAIN one = 1..1 /\ one = [k \in 1..1 |-> one[k]] /\ 1..1 = {1}
      OBVIOUS
    <3> HIDE DEF one
    <3> QED
      BY <3>1, TableFrom
  <2> HIDE DEF one
  <2> QED
    BY <2>1, <2>2
<1>3. CASE ~(def.last + 1 - def.first <= CodeMax)
  <2>1. Spans(ends, def) = long
    BY <1>1, <1>3
  <2>2. start \in Nat /\ stop \in Int /\ start <= stop
    <3>1. Len(ends) \in Nat /\ def.first - 1 \in 0..Len(ends) /\ def.last \in 0..Len(ends)
      BY TableFacts DEF Lined, Definition
    <3>2. def.first - 1 < def.last
      BY DEF Definition
    <3> QED
      BY <3>1, <3>2 DEF Lined
  <2>3. found \in Nat
    <3>1. \A i \in DOMAIN ends : ends[i].char \in Nat
      BY TableFacts DEF Lined, CharEnd
    <3> HIDE DEF start, stop
    <3>2. \A i \in DOMAIN ends : ends[i].char <= start => ends[i].char <= stop
      BY <2>2, <3>1
    <3>3. LineAt(ends, start) \in Nat /\ LineAt(ends, stop) \in Nat
          /\ LineAt(ends, start) <= LineAt(ends, stop)
      BY <3>2, LineAtGrows DEF Lined
    <3> QED
      BY <3>3
  <2>4. full \in Nat
    <3> HIDE DEF found
    <3> QED
      BY <2>3, ChunkingAssumption, Divides
  <2>5. blocks \in Nat
    <3> HIDE DEF full, cut
    <3> QED
      BY <2>4
  <2>6. DOMAIN long = 1..blocks /\ long = [k \in 1..blocks |-> long[k]]
    OBVIOUS
  <2>7. Table(long)
    <3> HIDE DEF long, blocks
    <3> QED
      BY <2>5, <2>6, TableFrom
  <2>8. \A j \in DOMAIN long : \E m : long[j].id = <<def.name, m>>
    OBVIOUS
  <2> HIDE DEF long
  <2> QED
    BY <2>1, <2>7, <2>8
<1> QED
  BY <1>2, <1>3

\* Every line of a definition in an ASCII file is in a span of it.
LEMMA SpansCover ==
    ASSUME NEW ends, Lined(ends), NEW def, Definition(def, Len(ends)), Plain(ends, def.last),
           NEW line \in def.first..def.last
    PROVE  \E j \in DOMAIN Spans(ends, def) :
              /\ Spans(ends, def)[j].from <= CharEnd(ends, line - 1)
              /\ CharEnd(ends, line) - 1 <= Spans(ends, def)[j].to
<1> DEFINE C == CodeMax
           top == def.first - 1
           at(i) == CharEnd(ends, i)
           start == ByteEnd(ends, def.first - 1)
           stop == ByteEnd(ends, def.last) - 1
           before == LineAt(ends, start)
           found == LineAt(ends, stop) - before
           full == found \div CodeMax
           cut(k) == IF k = 0 THEN start
                     ELSE IF k > full THEN stop ELSE CharEnd(ends, before + k * CodeMax)
           mark(k) == IF k > full THEN found % CodeMax ELSE CodeMax
           blocks == IF cut(full) < stop THEN full + 1 ELSE full
           one == <<[id |-> <<def.name>>, from |-> start, to |-> stop]>>
           long == [k \in 1..blocks |-> [id |-> <<def.name, mark(k)>>, from |-> cut(k - 1), to |-> cut(k)]]
<1>1. Spans(ends, def) = IF def.last + 1 - def.first <= CodeMax THEN one ELSE long
  BY DEF Spans
<1>2. /\ Len(ends) \in Nat /\ top \in Nat /\ top + 1 = def.first /\ top < line /\ line <= def.last
      /\ def.last \in Nat /\ line \in Nat /\ def.last <= Len(ends) /\ C \in Nat \ {0}
  BY TableFacts, ChunkingAssumption DEF Lined, Definition
<1>3. \A i \in 0..def.last : at(i) \in Nat /\ ByteEnd(ends, i) = at(i)
  BY <1>2 DEF Plain, CharEnd, ByteEnd, Lined
<1>4. \A i, j \in 0..def.last : i < j => at(i) + 1 < at(j)
  BY <1>2 DEF Lined
<1>5. start = at(top) /\ stop = at(def.last) - 1
  BY <1>2, <1>3
<1>6. top \in 0..def.last /\ def.last \in 0..def.last /\ line \in 0..def.last
      /\ line - 1 \in 0..def.last /\ def.last - 1 \in 0..def.last
  BY <1>2
<1>7. at(top) <= at(line - 1) /\ at(line) <= at(def.last)
  <2>1. top = line - 1 \/ top < line - 1
    BY <1>2
  <2>2. line = def.last \/ line < def.last
    BY <1>2
  <2> HIDE DEF at, top
  <2>5. /\ at(top) \in Nat /\ at(line - 1) \in Nat
        /\ at(line) \in Nat /\ at(def.last) \in Nat
    BY <1>3, <1>6
  <2>6. top = line - 1 \/ at(top) + 1 < at(line - 1)
    BY <1>4, <1>6, <2>1
  <2>7. line = def.last \/ at(line) + 1 < at(def.last)
    BY <1>4, <1>6, <2>2
  <2>3. at(top) <= at(line - 1)
    BY <2>5, <2>6
  <2>4. at(line) <= at(def.last)
    BY <2>5, <2>7
  <2> QED
    BY <2>3, <2>4
<1>8. CASE def.last + 1 - def.first <= CodeMax
  <2>1. Spans(ends, def) = one /\ 1 \in DOMAIN one /\ one[1].from = start /\ one[1].to = stop
    BY <1>1, <1>8
  <2> HIDE DEF one, start, stop
  <2>2. one[1].from <= at(line - 1) /\ at(line) - 1 <= one[1].to
    <3> HIDE DEF at, top
    <3> QED
      BY <1>3, <1>5, <1>6, <1>7, <2>1
  <2> QED
    BY <2>1, <2>2
<1>9. CASE ~(def.last + 1 - def.first <= CodeMax)
  <2>1. Spans(ends, def) = long
    BY <1>1, <1>9
  <2>2. before = top
    <3>1. at(top) <= start /\ start < at(top + 1) /\ start \in Nat /\ top \in 0..Len(ends)
      <4>1. top + 1 \in 0..def.last /\ top < top + 1 /\ top \in 0..Len(ends)
        BY <1>2
      <4> HIDE DEF at, top, start
      <4>2. at(top) \in Nat /\ at(top + 1) \in Nat
        BY <1>3, <1>6, <4>1
      <4>3. at(top) + 1 < at(top + 1)
        BY <1>4, <1>6, <4>1
      <4>4. start = at(top)
        BY <1>5
      <4> QED
        BY <4>1, <4>2, <4>3, <4>4
    <3> HIDE DEF start, top
    <3> QED
      BY <3>1, LineAtIs
  <2>3. LineAt(ends, stop) = def.last - 1
    <3>1. at(def.last - 1) <= stop /\ stop < at((def.last - 1) + 1) /\ stop \in Nat
          /\ def.last - 1 \in 0..Len(ends)
      <4>1. /\ def.last - 1 < def.last /\ (def.last - 1) + 1 = def.last
            /\ def.last - 1 \in 0..Len(ends)
        BY <1>2
      <4> HIDE DEF at, top, stop
      <4>2. at(def.last - 1) \in Nat /\ at(def.last) \in Nat
        BY <1>3, <1>6
      <4>3. at(def.last - 1) + 1 < at(def.last)
        BY <1>4, <1>6, <4>1
      <4>4. stop = at(def.last) - 1
        BY <1>5
      <4> QED
        BY <4>1, <4>2, <4>3, <4>4
    <3> HIDE DEF stop
    <3> QED
      BY <3>1, LineAtIs
  <2>4. found = def.last - def.first /\ found \in Nat
    BY <1>2, <2>2, <2>3
  <2> DEFINE d == line - def.first
             q == d \div C
  <2>5. d \in Nat /\ d <= found /\ line = top + 1 + d
    BY <1>2, <2>4
  <2>6. full \in Nat /\ C * full <= found /\ found < C * full + C
    <3> HIDE DEF found, C
    <3> QED
      BY <1>2, <2>4, Divides DEF C
  <2>7. q \in Nat /\ C * q <= d /\ d < C * q + C
    <3> HIDE DEF d, C
    <3> QED
      BY <1>2, <2>5, Divides
  <2>8. q <= full
    <3>1. C * q < C * (full + 1)
      <4> HIDE DEF q, d, found, full, C
      <4>1. C * q \in Nat /\ C * full \in Nat /\ C * (full + 1) = C * full + C
        BY <1>2, <2>6, <2>7
      <4> DEFINE cq == C * q
                 cf == C * full
      <4>2. cq \in Nat /\ cf \in Nat /\ cq <= d /\ found < cf + C /\ C * (full + 1) = cf + C
        BY <2>6, <2>7, <4>1
      <4>3. d \in Nat /\ d <= found /\ found \in Nat /\ C \in Nat
        BY <1>2, <2>4, <2>5
      <4> HIDE DEF cq, cf
      <4>4. cq < cf + C
        BY <4>2, <4>3
      <4> QED
        BY <4>2, <4>4 DEF cq
    <3> HIDE DEF q, full, C
    <3>2. full + 1 \in Nat
      BY <2>6
    <3>3. q < full + 1
      BY <1>2, <2>7, <3>1, <3>2, FewerTimes
    <3> QED
      BY <2>6, <2>7, <3>3
  <2>9. \A k \in 0..full : cut(k) = at(top + k * C) /\ top + k * C \in top..def.last - 1
    <3>1. SUFFICES ASSUME NEW k \in 0..full
                   PROVE  cut(k) = at(top + k * C) /\ top + k * C \in top..def.last - 1
      OBVIOUS
    <3>2. k \in Nat /\ k <= full
      BY <2>6
    <3>3. k * C \in Nat /\ k * C <= C * full
      <4>1. full - k \in Nat /\ C * full = C * k + C * (full - k)
        BY <1>2, <2>6, <3>2
      <4>2. C * (full - k) \in Nat /\ C * k \in Nat /\ C * k = k * C
        BY <1>2, <3>2, <4>1
      <4> HIDE DEF C, full
      <4> QED
        BY <4>1, <4>2
    <3>4. top + k * C \in top..def.last - 1
      <4>1. found = def.last - 1 - top
        <5> HIDE DEF found
        <5> QED
          BY <1>2, <2>4
      <4>2. C * full \in Nat
        BY <1>2, <2>6
      <4> HIDE DEF C, full, found, top
      <4> QED
        BY <1>2, <2>4, <2>6, <3>3, <4>1, <4>2
    <3>5. CASE k = 0
      <4>1. top + k * C = top
        BY <1>2, <3>5
      <4> QED
        BY <1>5, <3>4, <3>5, <4>1
    <3>6. CASE k # 0
      <4>1. ~(k > full)
        BY <2>6, <3>2
      <4> QED
        BY <2>2, <3>4, <3>6, <4>1
    <3> QED
      BY <3>5, <3>6
  <2>10. cut(full + 1) = stop
    <3> HIDE DEF full
    <3> QED
      BY <2>6
  <2>11. blocks = full + 1
    <3>1. cut(full) = at(top + full * C) /\ top + full * C \in top..def.last - 1
      BY <2>6, <2>9
    <3> DEFINE m == top + full * C
    <3>2. m \in 0..def.last /\ m < def.last
      BY <1>2, <3>1
    <3>3. cut(full) = at(m) /\ stop = at(def.last) - 1
      BY <1>5, <3>1
    <3> HIDE DEF m, at, stop, cut, full
    <3>4. at(m) \in Nat /\ at(def.last) \in Nat
      BY <1>3, <1>6, <3>2
    <3>5. at(m) + 1 < at(def.last)
      BY <1>4, <1>6, <3>2
    <3>6. cut(full) < stop
      BY <3>3, <3>4, <3>5
    <3> QED
      BY <3>6
  <2>12. q + 1 \in DOMAIN long /\ long[q + 1].from = cut(q) /\ long[q + 1].to = cut(q + 1)
    <3>1. q + 1 \in 1..blocks /\ (q + 1) - 1 = q
      <4> HIDE DEF q, full, blocks
      <4> QED
        BY <2>6, <2>7, <2>8, <2>11
    <3> HIDE DEF q, cut, blocks
    <3> QED
      BY <3>1
  <2>13. cut(q) <= at(line - 1)
    <3> DEFINE m == top + q * C
    <3>1. cut(q) = at(m) /\ m \in top..def.last - 1
      BY <2>6, <2>7, <2>8, <2>9
    <3>2. m <= line - 1
      <4>1. q * C = C * q /\ C * q \in Nat
        BY <1>2, <2>7
      <4> HIDE DEF q, C, d, top
      <4> QED
        BY <1>2, <2>5, <2>7, <4>1
    <3>3. m \in 0..def.last /\ (m = line - 1 \/ m < line - 1)
      <4> HIDE DEF m, top
      <4> QED
        BY <1>2, <3>1, <3>2
    <3> HIDE DEF m, at, cut, q
    <3>4. at(m) \in Nat /\ at(line - 1) \in Nat
      BY <1>3, <1>6, <3>3
    <3>5. m = line - 1 \/ at(m) + 1 < at(line - 1)
      BY <1>4, <1>6, <3>3
    <3>6. at(m) <= at(line - 1)
      BY <3>4, <3>5
    <3> QED
      BY <3>1, <3>6
  <2>14. at(line) - 1 <= cut(q + 1)
    <3>1. CASE q = full
      <4>1. cut(q + 1) = stop
        BY <2>10, <3>1
      <4> HIDE DEF cut, stop, at, q
      <4>2. at(line) \in Nat /\ at(def.last) \in Nat
        BY <1>3, <1>6
      <4> QED
        BY <1>5, <1>7, <4>1, <4>2
    <3>2. CASE q # full
      <4> DEFINE m == top + (q + 1) * C
      <4>1. q + 1 \in 0..full
        <5> HIDE DEF q, full
        <5> QED
          BY <2>6, <2>7, <2>8, <3>2
      <4>2. cut(q + 1) = at(m) /\ m \in top..def.last - 1
        BY <2>9, <4>1
      <4>3. line <= m
        <5>1. (q + 1) * C = C * q + C /\ C * q \in Nat
          BY <1>2, <2>7
        <5> HIDE DEF q, C, d, top
        <5> QED
          BY <1>2, <2>5, <2>7, <5>1
      <4>4. m \in 0..def.last /\ (m = line \/ line < m)
        BY <1>2, <4>2, <4>3
      <4> HIDE DEF m, at, cut, q
      <4>5. at(m) \in Nat /\ at(line) \in Nat
        BY <1>3, <1>6, <4>4
      <4>6. m = line \/ at(line) + 1 < at(m)
        BY <1>4, <1>6, <4>4
      <4>7. at(line) <= at(m)
        BY <4>5, <4>6
      <4> QED
        BY <4>2, <4>5, <4>7
    <3> QED
      BY <3>1, <3>2
  <2> HIDE DEF long
  <2> QED
    BY <2>1, <2>12, <2>13, <2>14
<1> QED
  BY <1>8, <1>9

LEMMA ThreeAreNotTwo ==
    ASSUME NEW T, IsFiniteSet(T), Cardinality(T) <= 2, NEW x \in T, NEW y \in T, NEW z \in T
    PROVE  x = y \/ y = z \/ x = z
<1>1. SUFFICES ASSUME x # y, y # z, x # z PROVE FALSE
  OBVIOUS
<1> DEFINE g == [i \in 1..3 |-> IF i = 1 THEN x ELSE IF i = 2 THEN y ELSE z]
           U == {x, y, z}
<1>2. g[1] = x /\ g[2] = y /\ g[3] = z /\ \A i \in 1..3 : i = 1 \/ i = 2 \/ i = 3
  OBVIOUS
<1>3. g \in [1..3 -> U]
  BY <1>2
<1> HIDE DEF g
<1>4. \A t \in U : \E i \in 1..3 : g[i] = t
  <2>1. 1 \in 1..3 /\ 2 \in 1..3 /\ 3 \in 1..3
    OBVIOUS
  <2> QED
    BY <1>2, <2>1
<1>5. \A i, j \in 1..3 : g[i] = g[j] => i = j
  BY <1>1, <1>2
<1>6. Cardinality(U) = 3
  <2> HIDE DEF U
  <2>1. 3 \in Nat
    OBVIOUS
  <2> QED
    BY <1>3, <1>4, <1>5, <2>1, ManyDistinct
<1>7. Cardinality(U) <= Cardinality(T)
  BY FS_Subset
<1>8. Cardinality(T) \in Nat
  BY FS_CardinalityType
<1> QED
  BY <1>6, <1>7, <1>8

Listing ==
    /\ Lined(payload.ends)
    /\ Table(payload.defs)
    /\ \A k \in DOMAIN payload.defs : Definition(payload.defs[k], Len(payload.ends))

LEMMA CodeFollows ==
    ASSUME kind = "code" => Listing
    PROVE  CodeIsIndexed
<1> DEFINE defs == payload.defs
           ends == payload.ends
           times(n) == Cardinality({k \in DOMAIN defs : defs[k].name = n})
<1>1. SUFFICES ASSUME kind = "code", \A n \in Name : times(n) <= 2,
                      NEW k \in DOMAIN defs, Plain(ends, defs[k].last),
                      NEW line \in defs[k].first..defs[k].last
               PROVE  Indexed(line)
  BY DEF CodeIsIndexed, DefinedTwiceAtMost
<1> DEFINE N == Len(defs)
           ss == [i \in DOMAIN defs |-> Spans(ends, defs[i])]
           flat == FlattenSeq(ss)
<1>2. /\ Table(defs) /\ \A i \in DOMAIN defs : Definition(defs[i], Len(ends))
      /\ N \in Nat /\ DOMAIN defs = 1..N /\ Lined(ends)
  BY <1>1, TableFacts DEF Listing
<1>3. /\ Table(ss) /\ Len(ss) = N /\ DOMAIN ss = 1..N
      /\ \A i \in 1..N : ss[i] = Spans(ends, defs[i]) /\ Table(ss[i])
  <2>1. DOMAIN ss = 1..N /\ ss = [i \in 1..N |-> ss[i]]
    BY <1>2
  <2>2. \A i \in 1..N : ss[i] = Spans(ends, defs[i]) /\ Table(ss[i])
    BY <1>2, SpansAre
  <2>3. Table(ss) /\ Len(ss) = N
    <3> HIDE DEF ss
    <3> QED
      BY <1>2, <2>1, TableFrom
  <2> QED
    BY <2>1, <2>2, <2>3
<1> HIDE DEF ss
<1>4. Table(flat) /\ \E place : Placing(ss, N, flat, place)
  BY <1>3, FlattenPlaces
<1>5. PICK place : Placing(ss, N, flat, place)
  BY <1>4
<1> DEFINE def(n) == defs[place[n][1]]
<1>6. ASSUME NEW n \in DOMAIN flat
      PROVE  /\ place[n][1] \in 1..N /\ def(n).name \in Name
             /\ place[n][2] \in DOMAIN Spans(ends, def(n))
             /\ flat[n] = Spans(ends, def(n))[place[n][2]]
             /\ \/ flat[n].id = <<def(n).name>> /\ DOMAIN Spans(ends, def(n)) = {1}
                \/ \E m : flat[n].id = <<def(n).name, m>>
  <2>1. place[n] \in Spots(ss, N) /\ flat[n] = ss[place[n][1]][place[n][2]]
    BY <1>5 DEF Placing
  <2>2. place[n][1] \in 1..N /\ place[n][2] \in DOMAIN ss[place[n][1]]
    BY <2>1 DEF Spots
  <2>3. ss[place[n][1]] = Spans(ends, def(n)) /\ Definition(def(n), Len(ends))
    BY <1>2, <1>3, <2>2
  <2>4. \/ flat[n].id = <<def(n).name>> /\ DOMAIN Spans(ends, def(n)) = {1}
        \/ \E m : flat[n].id = <<def(n).name, m>>
    <3>1. place[n][2] \in DOMAIN Spans(ends, def(n)) /\ flat[n] = Spans(ends, def(n))[place[n][2]]
      BY <2>1, <2>2, <2>3
    <3> HIDE DEF def, ends
    <3> QED
      BY <1>2, <2>3, <3>1, SpansAre
  <2> QED
    BY <2>1, <2>2, <2>3, <2>4 DEF Definition
<1> HIDE DEF flat
<1>7. Ids(flat)
  BY <1>6 DEF Ids
<1>8. Apart(flat)
  <2>1. SUFFICES ASSUME NEW x \in DOMAIN flat, NEW y \in DOMAIN flat, NEW z \in DOMAIN flat,
                        NEW a, NEW m,
                        flat[x].id = <<a>>, flat[y].id = <<a>>, flat[z].id = <<a, m>>
                 PROVE  x = y
    BY DEF Apart
  <2> DEFINE named == {n \in DOMAIN defs : defs[n].name = a}
  <2>2. ASSUME NEW n \in DOMAIN flat, flat[n].id = <<a>>
        PROVE  def(n).name = a /\ DOMAIN Spans(ends, def(n)) = {1} /\ place[n][2] = 1
    <3>1. \A l : flat[n].id # <<def(n).name, l>>
      BY <2>2
    <3>2. flat[n].id = <<def(n).name>> /\ DOMAIN Spans(ends, def(n)) = {1}
      BY <1>6, <3>1
    <3>3. def(n).name = a
      BY <2>2, <3>2, Numbered
    <3> QED
      BY <1>6, <3>2, <3>3
  <2>3. def(z).name = a
    <3>1. flat[z].id # <<def(z).name>>
      BY <2>1
    <3>2. PICK l : flat[z].id = <<def(z).name, l>>
      BY <1>6, <3>1
    <3> QED
      BY <2>1, <3>2, Numbered
  <2>4. place[x][1] # place[z][1] /\ place[y][1] # place[z][1]
    <3>1. ASSUME NEW n \in DOMAIN flat, flat[n].id = <<a>>, place[n][1] = place[z][1]
          PROVE  FALSE
      <4>1. place[n][2] = 1 /\ place[z][2] = 1
        BY <1>6, <2>2, <3>1
      <4>2. flat[n] = flat[z]
        BY <1>6, <3>1, <4>1
      <4>3. <<a>> # <<a, m>>
        OBVIOUS
      <4> QED
        BY <2>1, <3>1, <4>2, <4>3
    <3> QED
      BY <2>1, <3>1
  <2>5. place[x][1] \in named /\ place[y][1] \in named /\ place[z][1] \in named /\ a \in Name
    BY <1>2, <1>6, <2>1, <2>2, <2>3
  <2>6. IsFiniteSet(named) /\ Cardinality(named) <= 2
    <3>1. IsFiniteSet(1..N)
      <4>1. N \in Nat
        BY <1>2
      <4> HIDE DEF N
      <4> QED
        BY <4>1, FS_Interval
    <3>2. named \subseteq 1..N
      BY <1>2
    <3>3. IsFiniteSet(named)
      <4> HIDE DEF named
      <4> QED
        BY <3>1, <3>2, FS_Subset
    <3> QED
      BY <1>1, <2>5, <3>3
  <2>7. place[x][1] = place[y][1]
    <3> HIDE DEF named
    <3> QED
      BY <2>4, <2>5, <2>6, ThreeAreNotTwo
  <2>8. place[x] = place[y]
    <3>1. place[x] \in Spots(ss, N) /\ place[y] \in Spots(ss, N)
      BY <1>5 DEF Placing
    <3>2. place[x] = <<place[x][1], place[x][2]>> /\ place[y] = <<place[y][1], place[y][2]>>
      BY <3>1 DEF Spots
    <3> QED
      BY <2>1, <2>2, <2>7, <3>2
  <2> QED
    BY <1>5, <2>8 DEF Placing
<1>9. PICK j \in DOMAIN Spans(ends, defs[k]) :
        /\ Spans(ends, defs[k])[j].from <= CharEnd(ends, line - 1)
        /\ CharEnd(ends, line) - 1 <= Spans(ends, defs[k])[j].to
  BY <1>1, <1>2, SpansCover
<1>10. PICK n \in DOMAIN flat : place[n] = <<k, j>>
  <2>1. <<k, j>> \in Spots(ss, N)
    BY <1>2, <1>3 DEF Spots
  <2> QED
    BY <1>5, <2>1 DEF Placing
<1>11. flat[n] = Spans(ends, defs[k])[j]
  BY <1>6, <1>10
<1>12. PICK c \in Range(ById(FoldLeft(Emit, <<>>, flat))) :
         c.text = <<flat[n].from, flat[n].to>>
  BY <1>4, <1>7, <1>8, EverySpanIsIndexed
<1>13. Chunks = FoldLeft(Emit, <<>>, flat)
  BY <1>1 DEF Chunks, ChunkDocument, ChunkCode, ss, flat
<1>14. c.text[1] <= CharEnd(ends, line - 1) /\ CharEnd(ends, line) - 1 <= c.text[2]
  BY <1>9, <1>11, <1>12
<1> QED
  BY <1>12, <1>13, <1>14 DEF Indexed

-----------------------------------------------------------------------------
(* Windows.                                                                *)

LEMMA SharedBounds ==
    ASSUME NEW n \in Nat \ {0}, NEW percent \in 0..100
    PROVE  Shared(n, percent) \in 0..(n - 1)
<1> DEFINE r == Rounded(percent, n)
           m == Max({1, r})
<1>1. r \in Nat
  <2>1. percent * n \in Nat
    OBVIOUS
  <2>2. (percent * n) \div 100 \in Nat
    BY <2>1
  <2> QED
    BY <2>2 DEF Rounded
<1> HIDE DEF r
<1>2. m \in Nat
  <2>1. \E x \in {1, r} : \A y \in {1, r} : x >= y
    <3>1. CASE r <= 1
      BY <1>1, <3>1
    <3>2. CASE ~(r <= 1)
      BY <1>1, <3>2
    <3> QED
      BY <3>1, <3>2
  <2>2. m \in {1, r}
    BY <2>1 DEF Max
  <2> QED
    BY <1>1, <2>2
<1> HIDE DEF m
<1> DEFINE T == {m, n - 1}
<1>3. T \in SUBSET Nat /\ T # {}
  BY <1>2
<1>4. Min(T) \in T /\ Min(T) <= n - 1
  <2>1. Min(T) \in T /\ \A k \in T : Min(T) <= k
    <3> HIDE DEF T
    <3> QED
      BY <1>3, Smallest
  <2> QED
    BY <2>1
<1>5. Min(T) \in Nat
  BY <1>3, <1>4
<1> QED
  BY <1>4, <1>5 DEF Shared, T, m, r

LEMMA WindowEndBounds ==
    ASSUME NEW sents, Len(sents) \in Nat, NEW first \in 1..Len(sents), NEW max
    PROVE  WindowEnd(sents, first, max) \in first..Len(sents)
<1> DEFINE T == {first} \cup {last \in first..Len(sents) : Joined(sents, first, last) <= max}
<1>1. T \in SUBSET (1..Len(sents)) /\ T # {} /\ T \subseteq first..Len(sents)
  OBVIOUS
<1>2. Max(T) \in T
  <2> HIDE DEF T
  <2> QED
    BY <1>1, Largest
<1> QED
  BY <1>1, <1>2 DEF WindowEnd

WindowNext(sents, i, max, percent) ==
    LET last == WindowEnd(sents, i, max) IN last + 1 - Shared(last + 1 - i, percent)

LEMMA WindowSteps ==
    ASSUME NEW sents, Len(sents) \in Nat, NEW i \in 1..Len(sents), NEW max, NEW percent \in 0..100
    PROVE  /\ WindowEnd(sents, i, max) \in i..Len(sents)
           /\ WindowNext(sents, i, max, percent) \in i + 1..WindowEnd(sents, i, max) + 1
<1> DEFINE last == WindowEnd(sents, i, max)
<1>1. last \in i..Len(sents)
  BY WindowEndBounds
<1> HIDE DEF last
<1>2. last + 1 - i \in Nat \ {0}
  BY <1>1
<1>3. Shared(last + 1 - i, percent) \in 0..((last + 1 - i) - 1)
  BY <1>2, SharedBounds
<1>4. last + 1 - Shared(last + 1 - i, percent) \in i + 1..last + 1
  BY <1>1, <1>3
<1> QED
  BY <1>1, <1>4 DEF WindowNext, last

Windowing(sents, max, percent, first, f) ==
    f = [i \in first..Len(sents) + 1 |->
            IF i > Len(sents) THEN <<>>
            ELSE <<<<i, WindowEnd(sents, i, max)>>>> \o
                 IF WindowEnd(sents, i, max) = Len(sents) THEN <<>>
                 ELSE f[WindowNext(sents, i, max, percent)]]

LEMMA WindowingExists ==
    ASSUME NEW sents, Len(sents) \in Nat, NEW max, NEW percent \in 0..100
    PROVE  \E f : Windowing(sents, max, percent, 1, f)
<1> DEFINE L == Len(sents)
           S == {n \in 0..L : \E f : Windowing(sents, max, percent, L + 1 - n, f)}
<1>1. 0 \in S
  <2> DEFINE f == [i \in L + 1..L + 1 |-> <<>>]
  <2>1. \A i \in L + 1..L + 1 : i > L
    OBVIOUS
  <2>2. L + 1 - 0 = L + 1
    OBVIOUS
  <2>3. Windowing(sents, max, percent, L + 1, f)
    BY <2>1 DEF Windowing
  <2> HIDE DEF f
  <2> QED
    BY <2>2, <2>3
<1>2. ASSUME NEW n \in 0..(L - 1), n \in S
      PROVE  n + 1 \in S
  <2> DEFINE first == L + 1 - (n + 1)
             end(i) == WindowEnd(sents, i, max)
             next(i) == WindowNext(sents, i, max, percent)
  <2>1. PICK f : Windowing(sents, max, percent, L + 1 - n, f)
    BY <1>2
  <2>2. /\ first \in 1..L /\ first + 1 = L + 1 - n /\ n + 1 \in 0..L
        /\ first..L + 1 = {first} \cup (first + 1..L + 1)
        /\ ~(first > L) /\ first \notin first + 1..L + 1
    OBVIOUS
  <2>3. \A i \in first..L : next(i) \in first + 1..L + 1
    <3>1. ASSUME NEW i \in first..L PROVE next(i) \in first + 1..L + 1
      <4>1. i \in 1..L
        BY <2>2
      <4>2. end(i) \in i..L /\ next(i) \in i + 1..end(i) + 1
        BY <4>1, WindowSteps
      <4> HIDE DEF end, next, first
      <4> QED
        BY <2>2, <4>1, <4>2
    <3> QED
      BY <3>1
  <2> DEFINE win(i, h) == <<<<i, end(i)>>>> \o IF end(i) = L THEN <<>> ELSE h
             g == [i \in first..L + 1 |-> IF i = first THEN win(i, f[next(i)]) ELSE f[i]]
  <2>4. \A i \in first + 1..L + 1 : g[i] = f[i]
    <3> HIDE DEF win, next, first
    <3> QED
      BY <2>2
  <2> HIDE DEF end, next, first
  <2>5. ASSUME NEW i \in first..L + 1
        PROVE  g[i] = IF i > L THEN <<>> ELSE win(i, g[next(i)])
    <3>1. CASE i = first
      <4>1. g[next(i)] = f[next(i)]
        BY <2>2, <2>3, <2>4, <3>1
      <4>2. g[i] = win(i, f[next(i)])
        BY <3>1
      <4> QED
        BY <2>2, <3>1, <4>1, <4>2
    <3>2. CASE i # first
      <4>1. i \in first + 1..L + 1
        BY <2>2, <3>2
      <4>2. f[i] = IF i > L THEN <<>> ELSE win(i, f[next(i)])
        BY <2>1, <2>2, <4>1 DEF Windowing, end, next
      <4>3. ~(i > L) => i \in first..L
        BY <2>2
      <4>4. ~(i > L) => g[next(i)] = f[next(i)]
        BY <2>3, <2>4, <4>3
      <4>5. g[i] = f[i]
        BY <2>4, <4>1
      <4> HIDE DEF g, win
      <4> QED
        BY <4>2, <4>4, <4>5
    <3> QED
      BY <3>1, <3>2
  <2>6. g = [i \in first..L + 1 |-> g[i]]
    OBVIOUS
  <2> HIDE DEF g
  <2>7. Windowing(sents, max, percent, first, g)
    BY <2>5, <2>6 DEF Windowing, end, next
  <2> QED
    BY <2>2, <2>7 DEF first
<1>3. 0..L \subseteq S
  <2> HIDE DEF S
  <2> QED
    BY <1>1, <1>2, Induct
<1>4. L \in S /\ L + 1 - L = 1
  BY <1>3
<1> QED
  BY <1>4

\* Windows from sentence i on: each holds sentences i to L, and none is left out.
Cover(w, i, L) ==
    /\ Table(w)
    /\ \A k \in DOMAIN w : w[k][1] \in i..L /\ w[k][2] \in w[k][1]..L
    /\ \A j \in i..L : \E k \in DOMAIN w : w[k][1] <= j /\ j <= w[k][2]

LEMMA CoverGoesOn ==
    ASSUME NEW L \in Nat, NEW i \in 1..L, NEW last \in i..L, NEW next \in i + 1..last + 1,
           NEW w, IF last = L THEN w = <<>> ELSE Cover(w, next, L)
    PROVE  Cover(<<<<i, last>>>> \o w, i, L)
<1> DEFINE one == <<<<i, last>>>>
           more == one \o w
<1>1. Table(one) /\ Len(one) = 1 /\ DOMAIN one = {1} /\ one[1] = <<i, last>>
  <2>1. DOMAIN one = 1..1 /\ one = [k \in 1..1 |-> one[k]] /\ 1..1 = {1} /\ one[1] = <<i, last>>
    OBVIOUS
  <2> HIDE DEF one
  <2> QED
    BY <2>1, TableFrom
<1>2. Table(w) /\ Len(w) \in Nat /\ DOMAIN w = 1..Len(w)
  <2>1. Table(<<>>)
    BY DEF Table
  <2>2. Table(w)
    BY <2>1 DEF Cover
  <2> QED
    BY <2>2, TableFacts
<1> HIDE DEF one
<1>3. /\ Table(more) /\ DOMAIN more = 1..1 + Len(w) /\ more[1] = <<i, last>>
      /\ \A k \in 1..Len(w) : more[1 + k] = w[k]
  <2>1. Table(one) /\ Table(w)
    BY <1>1, <1>2
  <2>2. /\ Table(one \o w) /\ DOMAIN (one \o w) = 1..Len(one) + Len(w)
        /\ \A k \in DOMAIN one : (one \o w)[k] = one[k]
        /\ \A k \in 1..Len(w) : (one \o w)[Len(one) + k] = w[k]
    BY <2>1, TableConcat
  <2> QED
    BY <1>1, <2>2
<1> HIDE DEF more
<1>4. \A k \in DOMAIN more : k = 1 \/ \E j \in 1..Len(w) : k = 1 + j
  <2>1. ASSUME NEW k \in DOMAIN more, k # 1 PROVE k - 1 \in 1..Len(w) /\ k = 1 + (k - 1)
    BY <1>2, <1>3, <2>1
  <2> QED
    BY <2>1
<1>5. ASSUME NEW k \in DOMAIN w PROVE w[k][1] \in i..L /\ w[k][2] \in w[k][1]..L
  <2>1. last # L
    BY <1>5
  <2>2. w[k][1] \in next..L /\ w[k][2] \in w[k][1]..L
    BY <1>5, <2>1 DEF Cover
  <2>3. next..L \subseteq i..L
    OBVIOUS
  <2> QED
    BY <2>2, <2>3
<1>6. ASSUME NEW k \in DOMAIN more PROVE more[k][1] \in i..L /\ more[k][2] \in more[k][1]..L
  <2>1. CASE k = 1
    BY <1>3, <2>1
  <2>2. ASSUME NEW j \in 1..Len(w), k = 1 + j
        PROVE  more[k][1] \in i..L /\ more[k][2] \in more[k][1]..L
    BY <1>2, <1>3, <1>5, <2>2
  <2> QED
    BY <1>4, <2>1, <2>2
<1>7. ASSUME NEW j \in i..L PROVE \E k \in DOMAIN more : more[k][1] <= j /\ j <= more[k][2]
  <2>1. 1 \in DOMAIN more
    BY <1>2, <1>3
  <2>2. CASE j <= last
    BY <1>3, <2>1, <2>2
  <2>3. CASE ~(j <= last)
    <3>1. last # L /\ j \in next..L
      BY <2>3
    <3>2. PICK k \in DOMAIN w : w[k][1] <= j /\ j <= w[k][2]
      BY <3>1 DEF Cover
    <3>3. 1 + k \in DOMAIN more /\ more[1 + k] = w[k]
      BY <1>2, <1>3
    <3> QED
      BY <3>2, <3>3
  <2> QED
    BY <2>2, <2>3
<1> QED
  BY <1>3, <1>6, <1>7 DEF Cover, more, one

\* Every sentence is in a window.
LEMMA WindowsCover ==
    ASSUME NEW sents, Len(sents) \in Nat, NEW max, NEW percent \in 0..100
    PROVE  Cover(Windows(sents, max, percent), 1, Len(sents))
<1> DEFINE L == Len(sents)
           f == CHOOSE f : Windowing(sents, max, percent, 1, f)
           S == {n \in 0..L : \A i \in L + 1 - n..L + 1 : Cover(f[i], i, L)}
<1>1. Windows(sents, max, percent) = f[1]
  BY DEF Windows, Windowing, WindowNext
<1>2. Windowing(sents, max, percent, 1, f)
  BY WindowingExists
<1> HIDE DEF f
<1>3. 0 \in S
  <2>1. f[L + 1] = <<>>
    BY <1>2 DEF Windowing
  <2>2. Cover(<<>>, L + 1, L)
    BY DEF Cover, Table
  <2>3. \A i \in L + 1 - 0..L + 1 : i = L + 1
    OBVIOUS
  <2> QED
    BY <2>1, <2>2, <2>3
<1>4. ASSUME NEW n \in 0..(L - 1), n \in S
      PROVE  n + 1 \in S
  <2> DEFINE i == L + 1 - (n + 1)
             last == WindowEnd(sents, i, max)
             next == WindowNext(sents, i, max, percent)
             w == IF last = L THEN <<>> ELSE f[next]
  <2>1. /\ i \in 1..L /\ i \in 1..L + 1 /\ ~(i > L) /\ n + 1 \in 0..L
        /\ i + 1 = L + 1 - n /\ i..L + 1 = {i} \cup (i + 1..L + 1)
    OBVIOUS
  <2> HIDE DEF i
  <2>2. last \in i..L /\ next \in i + 1..last + 1
    BY <2>1, WindowSteps
  <2>3. f[i] = <<<<i, last>>>> \o w
    BY <1>2, <2>1 DEF Windowing
  <2> HIDE DEF last, next
  <2>4. IF last = L THEN w = <<>> ELSE Cover(w, next, L)
    <3>1. next \in i + 1..L + 1
      BY <2>1, <2>2
    <3>2. \A j \in i + 1..L + 1 : Cover(f[j], j, L)
      BY <1>4, <2>1
    <3> QED
      BY <3>1, <3>2
  <2> HIDE DEF w
  <2>5. Cover(f[i], i, L)
    BY <2>1, <2>2, <2>3, <2>4, CoverGoesOn
  <2>6. \A j \in i..L + 1 : Cover(f[j], j, L)
    BY <1>4, <2>1, <2>5
  <2> QED
    BY <2>1, <2>6 DEF i
<1>5. 0..L \subseteq S
  <2> HIDE DEF S
  <2> QED
    BY <1>3, <1>4, Induct
<1>6. L \in S /\ L + 1 - L = 1 /\ 1 \in 1..L + 1
  BY <1>5
<1>7. Cover(f[1], 1, L)
  BY <1>6
<1> QED
  BY <1>1, <1>7

-----------------------------------------------------------------------------
(* The chunks of a grid.                                                   *)

\* A chunk has sentence g under its coordinates.
Holds(c, g) == \E i \in DOMAIN c.sids : c.sids[i] = g.sid /\ c.text[i] = g.text

\* A grid split under a path: ids begin with the path, name one chunk each, and no
\* sentence is left out.
Splits(path, grid, chunks) ==
    /\ Table(chunks)
    /\ \A c \in ToSet(chunks) : \E n : c.id = <<path, n>>
    /\ \A c, d \in ToSet(chunks) : c.id = d.id => c = d
    /\ \A g \in ToSet(grid) : \E c \in ToSet(chunks) : Holds(c, g)

LEMMA SplitIs ==
    ASSUME NEW path, NEW grid, Table(grid), NEW max, NEW percent \in 0..100
    PROVE  Splits(path, grid, SplitWindows(path, grid, max, percent))
<1> DEFINE L == Len(grid)
           texts == [i \in DOMAIN grid |-> grid[i].text]
           windows == Windows(texts, max, percent)
           number(k) == IF Len(windows) > 1 THEN k ELSE 0
           part(k) == SubSeq(grid, windows[k][1], windows[k][2])
           chunks == [k \in DOMAIN windows |-> WindowChunk(path, number(k), part(k))]
<1>1. L \in Nat /\ DOMAIN grid = 1..L
  BY TableFacts
<1>2. Len(texts) = L
  <2>1. DOMAIN texts = 1..L /\ texts = [i \in 1..L |-> texts[i]]
    BY <1>1
  <2> HIDE DEF texts
  <2> QED
    BY <1>1, <2>1, TableFrom
<1>3. Cover(windows, 1, L)
  <2> HIDE DEF texts
  <2> QED
    BY <1>1, <1>2, WindowsCover
<1>4. SplitWindows(path, grid, max, percent) = chunks
  BY DEF SplitWindows
<1> HIDE DEF windows, texts
<1>5. Table(windows) /\ Len(windows) \in Nat /\ DOMAIN windows = 1..Len(windows)
  BY <1>3, TableFacts DEF Cover
<1>6. DOMAIN chunks = DOMAIN windows /\ Table(chunks)
  <2>1. DOMAIN chunks = 1..Len(windows) /\ chunks = [k \in 1..Len(windows) |-> chunks[k]]
    BY <1>5
  <2> HIDE DEF chunks
  <2> QED
    BY <1>5, <2>1, TableFrom
<1>7. ASSUME NEW k \in DOMAIN windows
      PROVE  /\ chunks[k].id = <<path, number(k)>>
             /\ chunks[k].text = [i \in DOMAIN part(k) |-> part(k)[i].text]
             /\ chunks[k].sids = [i \in DOMAIN part(k) |-> part(k)[i].sid]
  BY DEF WindowChunk, Chunk
<1>8. ASSUME NEW c \in ToSet(chunks) PROVE \E n : c.id = <<path, n>>
  <2>1. PICK k \in DOMAIN windows : c = chunks[k]
    BY <1>6 DEF ToSet
  <2> HIDE DEF chunks, number, part
  <2> QED
    BY <1>7, <2>1
<1>9. ASSUME NEW c \in ToSet(chunks), NEW d \in ToSet(chunks), c.id = d.id PROVE c = d
  <2>1. PICK k \in DOMAIN windows : c = chunks[k]
    BY <1>6 DEF ToSet
  <2>2. PICK l \in DOMAIN windows : d = chunks[l]
    BY <1>6 DEF ToSet
  <2>3. number(k) = number(l)
    <3> HIDE DEF chunks, number, part
    <3>1. <<path, number(k)>> = <<path, number(l)>>
      BY <1>7, <1>9, <2>1, <2>2
    <3> QED
      BY <3>1
  <2>4. k = l
    BY <1>5, <2>3
  <2> QED
    BY <2>1, <2>2, <2>4
<1>10. ASSUME NEW g \in ToSet(grid) PROVE \E c \in ToSet(chunks) : Holds(c, g)
  <2>1. PICK j \in 1..L : g = grid[j]
    BY <1>1 DEF ToSet
  <2>2. PICK k \in DOMAIN windows : windows[k][1] <= j /\ j <= windows[k][2]
    BY <1>3 DEF Cover
  <2> DEFINE m == windows[k][1]
             n == windows[k][2]
             i == j - m + 1
  <2>3. m \in 1..L /\ n \in m..L
    BY <1>3 DEF Cover
  <2>4. DOMAIN part(k) = 1..n - m + 1 /\ \A x \in 1..n - m + 1 : part(k)[x] = grid[m + x - 1]
    BY <2>3, PartOf
  <2>5. i \in 1..n - m + 1 /\ m + i - 1 = j
    BY <2>2, <2>3
  <2>6. part(k)[i] = g /\ i \in DOMAIN part(k)
    BY <2>1, <2>4, <2>5
  <2> HIDE DEF part, i, m, n
  <2>7. chunks[k].sids[i] = g.sid /\ chunks[k].text[i] = g.text /\ i \in DOMAIN chunks[k].sids
    <3> HIDE DEF chunks, number
    <3>1. /\ chunks[k].text = [x \in DOMAIN part(k) |-> part(k)[x].text]
          /\ chunks[k].sids = [x \in DOMAIN part(k) |-> part(k)[x].sid]
      BY <1>7
    <3> QED
      BY <2>6, <3>1
  <2>8. chunks[k] \in ToSet(chunks)
    BY <1>6 DEF ToSet
  <2> HIDE DEF chunks
  <2> QED
    BY <2>7, <2>8 DEF Holds
<1> HIDE DEF chunks
<1>11. Splits(path, grid, chunks)
  BY <1>6, <1>8, <1>9, <1>10 DEF Splits
<1> QED
  BY <1>4, <1>11

-----------------------------------------------------------------------------
(* Documents and PDFs.                                                     *)

Doc(doc) == Table(doc) /\ \A p \in DOMAIN doc : Table(doc[p])

LEMMA GridIs ==
    ASSUME NEW doc, Doc(doc), NEW p \in DOMAIN doc
    PROVE  Table(GridOf(doc, p)) /\ Len(GridOf(doc, p)) = Len(doc[p])
<1> DEFINE t == GridOf(doc, p)
           N == Len(doc[p])
<1>1. N \in Nat /\ DOMAIN doc[p] = 1..N
  BY TableFacts DEF Doc
<1>2. DOMAIN t = 1..N /\ t = [k \in 1..N |-> t[k]]
  BY <1>1 DEF GridOf
<1> HIDE DEF t, N
<1>3. Table(t) /\ Len(t) = N
  BY <1>1, <1>2, TableFrom
<1> QED
  BY <1>3 DEF t, N

LEMMA SectionEndBounds ==
    ASSUME NEW doc, Doc(doc), NEW p \in DOMAIN doc
    PROVE  /\ SectionEnd(doc, p) \in p..Len(doc)
           /\ \A q \in p..Len(doc) : q = Len(doc) \/ IsHeading(doc[q + 1]) => SectionEnd(doc, p) <= q
           /\ SectionEnd(doc, p) = Len(doc) \/ IsHeading(doc[SectionEnd(doc, p) + 1])
<1> DEFINE T == {q \in p..Len(doc) : q = Len(doc) \/ IsHeading(doc[q + 1])}
<1>1. Len(doc) \in Nat /\ DOMAIN doc = 1..Len(doc)
  BY TableFacts DEF Doc
<1>2. T \in SUBSET Nat
  BY <1>1
<1>3. Len(doc) \in T
  BY <1>1
<1>4. Min(T) \in T /\ \A k \in T : Min(T) <= k
  <2> HIDE DEF T
  <2> QED
    BY <1>2, <1>3, Smallest
<1> QED
  BY <1>4 DEF SectionEnd

\* Every paragraph is in a section.
LEMMA InSection ==
    ASSUME NEW doc, Doc(doc), NEW q \in DOMAIN doc
    PROVE  \E p \in SectionStarts(doc) : p <= q /\ q <= SectionEnd(doc, p)
<1> DEFINE T == {p \in 1..q : p = 1 \/ IsHeading(doc[p])}
           m == Max(T)
<1>1. Len(doc) \in Nat /\ DOMAIN doc = 1..Len(doc) /\ q \in Nat
  BY TableFacts DEF Doc
<1>2. T \in SUBSET (1..q) /\ T # {}
  <2>1. 1 \in T
    BY <1>1
  <2> QED
    BY <2>1
<1>3. m \in T /\ \A k \in T : k <= m
  <2> HIDE DEF T
  <2> QED
    BY <1>1, <1>2, Largest
<1> HIDE DEF m
<1>4. m \in DOMAIN doc /\ m \in SectionStarts(doc) /\ m <= q
  BY <1>1, <1>3 DEF SectionStarts
<1> DEFINE e == SectionEnd(doc, m)
<1>5. e \in m..Len(doc) /\ (e = Len(doc) \/ IsHeading(doc[e + 1]))
  BY <1>4, SectionEndBounds
<1> HIDE DEF e
<1>6. q <= e
  <2>1. e \in Nat /\ m \in Nat /\ m <= e /\ q <= Len(doc)
    <3>1. m \in Nat
      BY <1>3
    <3>2. q \in 1..Len(doc) /\ Len(doc) \in Nat
      BY <1>1
    <3>3. q <= Len(doc)
      BY <3>2
    <3>4. e \in m..Len(doc)
      BY <1>5
    <3>5. e \in Nat /\ m <= e
      BY <3>1, <3>2, <3>4
    <3> QED
      BY <3>1, <3>3, <3>5
  <2>2. SUFFICES ASSUME e < q PROVE FALSE
    BY <1>1, <2>1
  <2>3. e # Len(doc) /\ e + 1 \in 1..q
    <3>1. q \in Nat /\ Len(doc) \in Nat
      BY <1>1
    <3> QED
      BY <2>1, <2>2, <3>1
  <2>4. e + 1 \in T
    BY <1>5, <2>3
  <2>5. e + 1 <= m
    BY <1>3, <2>4
  <2> QED
    BY <2>1, <2>5
<1> QED
  BY <1>4, <1>6 DEF e

SectionParts(doc, p) == [k \in 1..SectionEnd(doc, p) + 1 - p |-> GridOf(doc, p + k - 1)]

LEMMA SectionPartsAre ==
    ASSUME NEW doc, Doc(doc), NEW p \in DOMAIN doc
    PROVE  LET parts == SectionParts(doc, p)
               N == SectionEnd(doc, p) + 1 - p IN
           /\ SectionGrid(doc, p) = FlattenSeq(parts)
           /\ Table(parts) /\ Len(parts) = N /\ DOMAIN parts = 1..N /\ N \in Nat
           /\ \A k \in 1..N : /\ p + k - 1 \in DOMAIN doc
                             /\ parts[k] = GridOf(doc, p + k - 1)
                             /\ Table(parts[k])
<1> DEFINE parts == SectionParts(doc, p)
           e == SectionEnd(doc, p)
           N == e + 1 - p
<1>1. Len(doc) \in Nat /\ DOMAIN doc = 1..Len(doc) /\ e \in p..Len(doc)
  BY TableFacts, SectionEndBounds DEF Doc
<1> HIDE DEF e
<1>2. N \in Nat /\ \A k \in 1..N : p + k - 1 \in DOMAIN doc
  BY <1>1
<1>3. DOMAIN parts = 1..N /\ parts = [k \in 1..N |-> parts[k]] /\ \A k \in 1..N : parts[k] = GridOf(doc, p + k - 1)
  BY DEF SectionParts, e
<1>4. SectionGrid(doc, p) = FlattenSeq(parts)
  BY DEF SectionGrid, SectionParts
<1> HIDE DEF parts, N
<1>5. Table(parts) /\ Len(parts) = N
  BY <1>2, <1>3, TableFrom
<1>6. \A k \in 1..N : Table(parts[k])
  BY <1>2, <1>3, GridIs
<1> QED
  BY <1>2, <1>3, <1>4, <1>5, <1>6 DEF parts, N, e

LEMMA SectionGridIs ==
    ASSUME NEW doc, Doc(doc), NEW p \in DOMAIN doc
    PROVE  /\ Table(SectionGrid(doc, p))
           /\ \A q \in p..SectionEnd(doc, p) : ToSet(GridOf(doc, q)) \subseteq ToSet(SectionGrid(doc, p))
<1> DEFINE parts == SectionParts(doc, p)
           e == SectionEnd(doc, p)
           N == e + 1 - p
<1>1. Len(doc) \in Nat /\ DOMAIN doc = 1..Len(doc) /\ e \in p..Len(doc)
  BY TableFacts, SectionEndBounds DEF Doc
<1>2. /\ SectionGrid(doc, p) = FlattenSeq(parts) /\ Table(parts) /\ DOMAIN parts = 1..N
      /\ \A k \in 1..N : parts[k] = GridOf(doc, p + k - 1) /\ Table(parts[k])
  BY SectionPartsAre
<1> HIDE DEF parts
<1>3. Table(FlattenSeq(parts)) /\ ToSet(FlattenSeq(parts)) = UNION {ToSet(parts[i]) : i \in DOMAIN parts}
  BY <1>2, FlattenPlaces, FlattenedElements
<1>4. ASSUME NEW q \in p..e
      PROVE  ToSet(GridOf(doc, q)) \subseteq ToSet(SectionGrid(doc, p))
  <2>1. q + 1 - p \in 1..N /\ p + (q + 1 - p) - 1 = q
    BY <1>1
  <2>2. parts[q + 1 - p] = GridOf(doc, q)
    BY <1>2, <2>1
  <2> HIDE DEF N, e
  <2> QED
    BY <1>2, <1>3, <2>1, <2>2
<1> QED
  BY <1>2, <1>3, <1>4

MarkdownParts(doc) ==
    [p \in DOMAIN doc |->
        IF p \in SectionStarts(doc)
        THEN SplitWindows(SectionPath(doc, p), SectionGrid(doc, p), MdMax, MdOverlap)
        ELSE <<>>]

LEMMA MarkdownPartsAre ==
    ASSUME NEW doc, Doc(doc)
    PROVE  /\ ChunkMarkdown(doc) = FlattenSeq(MarkdownParts(doc))
           /\ Table(MarkdownParts(doc)) /\ DOMAIN MarkdownParts(doc) = DOMAIN doc
           /\ \A p \in SectionStarts(doc) :
                 Splits(SectionPath(doc, p), SectionGrid(doc, p), MarkdownParts(doc)[p])
           /\ \A p \in DOMAIN doc : Table(MarkdownParts(doc)[p])
           /\ \A p \in DOMAIN doc \ SectionStarts(doc) : MarkdownParts(doc)[p] = <<>>
<1> DEFINE parts == MarkdownParts(doc)
           N == Len(doc)
<1>1. N \in Nat /\ DOMAIN doc = 1..N /\ MdOverlap \in 0..100
  BY TableFacts, ChunkingAssumption DEF Doc
<1>2. DOMAIN parts = 1..N /\ parts = [k \in 1..N |-> parts[k]]
  BY <1>1 DEF MarkdownParts
<1>3. Table(parts)
  <2> HIDE DEF parts
  <2> QED
    BY <1>1, <1>2, TableFrom
<1>4. \A p \in DOMAIN doc \ SectionStarts(doc) : parts[p] = <<>>
  BY DEF MarkdownParts
<1>5. ASSUME NEW p \in SectionStarts(doc)
      PROVE  Splits(SectionPath(doc, p), SectionGrid(doc, p), parts[p])
  <2>1. p \in DOMAIN doc
    BY DEF SectionStarts
  <2>2. parts[p] = SplitWindows(SectionPath(doc, p), SectionGrid(doc, p), MdMax, MdOverlap)
    BY <2>1 DEF MarkdownParts
  <2>3. Table(SectionGrid(doc, p))
    BY <2>1, SectionGridIs
  <2> QED
    BY <1>1, <2>2, <2>3, SplitIs
<1>6. ASSUME NEW p \in DOMAIN doc PROVE Table(parts[p])
  <2>1. Table(<<>>)
    BY DEF Table
  <2> HIDE DEF parts
  <2> QED
    BY <1>4, <1>5, <2>1 DEF Splits
<1> QED
  BY <1>1, <1>2, <1>3, <1>4, <1>5, <1>6 DEF ChunkMarkdown, MarkdownParts

LEMMA MarkdownKeeps ==
    ASSUME NEW doc, Doc(doc), DistinctPaths(doc)
    PROVE  \A g \in ToSet(Grid(doc)) : \E c \in Range(ById(ChunkMarkdown(doc))) : Holds(c, g)
<1> DEFINE parts == MarkdownParts(doc)
           chunks == ChunkMarkdown(doc)
           starts == SectionStarts(doc)
           rows == [p \in DOMAIN doc |-> GridOf(doc, p)]
<1>1. /\ chunks = FlattenSeq(parts) /\ Table(parts) /\ DOMAIN parts = DOMAIN doc
      /\ \A p \in starts : Splits(SectionPath(doc, p), SectionGrid(doc, p), parts[p])
      /\ \A p \in DOMAIN doc : Table(parts[p])
      /\ \A p \in DOMAIN doc \ starts : parts[p] = <<>>
      /\ starts \subseteq DOMAIN doc
  BY MarkdownPartsAre DEF SectionStarts
<1> HIDE DEF parts, chunks
<1>2. Table(chunks) /\ ToSet(chunks) = UNION {ToSet(parts[p]) : p \in DOMAIN doc}
  BY <1>1, FlattenPlaces, FlattenedElements
<1>3. ASSUME NEW c \in ToSet(chunks)
      PROVE  \E p \in starts : c \in ToSet(parts[p]) /\ \E n : c.id = <<SectionPath(doc, p), n>>
  <2>1. PICK p \in DOMAIN doc : c \in ToSet(parts[p])
    BY <1>2
  <2>2. parts[p] # <<>>
    BY <2>1 DEF ToSet
  <2>3. p \in starts
    BY <1>1, <2>2
  <2> QED
    BY <1>1, <2>1, <2>3 DEF Splits
<1>4. ASSUME NEW c \in ToSet(chunks), NEW d \in ToSet(chunks), c.id = d.id
      PROVE  c = d
  <2>1. PICK p \in starts : c \in ToSet(parts[p]) /\ \E n : c.id = <<SectionPath(doc, p), n>>
    BY <1>3
  <2>2. PICK q \in starts : d \in ToSet(parts[q]) /\ \E n : d.id = <<SectionPath(doc, q), n>>
    BY <1>3
  <2>3. SectionPath(doc, p) = SectionPath(doc, q)
    <3>1. PICK n : c.id = <<SectionPath(doc, p), n>>
      BY <2>1
    <3>2. PICK m : d.id = <<SectionPath(doc, q), m>>
      BY <2>2
    <3>3. <<SectionPath(doc, p), n>> = <<SectionPath(doc, q), m>>
      BY <1>4, <3>1, <3>2
    <3> QED
      BY <3>3
  <2>4. p = q
    BY <2>3 DEF DistinctPaths
  <2> QED
    BY <1>1, <1>4, <2>1, <2>2, <2>4 DEF Splits
<1>5. ToSet(chunks) \subseteq Range(ById(chunks))
  BY <1>2, <1>4, DictKeeps
<1>6. ToSet(Grid(doc)) = UNION {ToSet(GridOf(doc, p)) : p \in DOMAIN doc}
  <2>1. Len(doc) \in Nat /\ DOMAIN doc = 1..Len(doc)
    BY TableFacts DEF Doc
  <2>2. DOMAIN rows = 1..Len(doc) /\ rows = [k \in 1..Len(doc) |-> rows[k]]
        /\ \A p \in DOMAIN doc : rows[p] = GridOf(doc, p)
    BY <2>1
  <2>3. Grid(doc) = FlattenSeq(rows)
    BY DEF Grid
  <2> HIDE DEF rows
  <2>4. Table(rows) /\ \A p \in DOMAIN rows : Table(rows[p])
    BY <2>1, <2>2, TableFrom, GridIs
  <2>5. ToSet(FlattenSeq(rows)) = UNION {ToSet(rows[i]) : i \in DOMAIN rows}
    BY <2>4, FlattenedElements
  <2> QED
    BY <2>1, <2>2, <2>3, <2>5
<1>7. ASSUME NEW g \in ToSet(Grid(doc)) PROVE \E c \in ToSet(chunks) : Holds(c, g)
  <2>1. PICK q \in DOMAIN doc : g \in ToSet(GridOf(doc, q))
    BY <1>6
  <2>2. PICK p \in starts : p <= q /\ q <= SectionEnd(doc, p)
    BY InSection
  <2>3. p \in DOMAIN doc /\ q \in p..SectionEnd(doc, p)
    <3>1. DOMAIN doc = 1..Len(doc) /\ Len(doc) \in Nat /\ p \in DOMAIN doc
      BY <1>1, TableFacts DEF Doc
    <3>2. SectionEnd(doc, p) \in p..Len(doc)
      BY <3>1, SectionEndBounds
    <3> QED
      BY <2>2, <3>1, <3>2
  <2>4. g \in ToSet(SectionGrid(doc, p))
    BY <2>1, <2>3, SectionGridIs
  <2>5. PICK c \in ToSet(parts[p]) : Holds(c, g)
    BY <1>1, <2>4 DEF Splits
  <2>6. c \in ToSet(chunks)
    BY <1>1, <1>2
  <2> QED
    BY <2>5, <2>6
<1> QED
  BY <1>5, <1>7 DEF chunks

Pages(pages) == Table(pages) /\ \A n \in DOMAIN pages : Doc(pages[n])

LEMMA FlattenTwice ==
    ASSUME NEW ss, Pages(ss)
    PROVE  LET flat == FlattenSeq([n \in DOMAIN ss |-> FlattenSeq(ss[n])]) IN
           /\ Table(flat)
           /\ \A c : c \in ToSet(flat) <=>
                 \E n \in DOMAIN ss : \E p \in DOMAIN ss[n] : c \in ToSet(ss[n][p])
<1> DEFINE outer == [n \in DOMAIN ss |-> FlattenSeq(ss[n])]
           N == Len(ss)
<1>1. N \in Nat /\ DOMAIN ss = 1..N
  BY TableFacts DEF Pages
<1>2. DOMAIN outer = 1..N /\ outer = [k \in 1..N |-> outer[k]] /\ \A n \in 1..N : outer[n] = FlattenSeq(ss[n])
  BY <1>1
<1> HIDE DEF outer
<1>3. Table(outer)
  BY <1>1, <1>2, TableFrom
<1>4. ASSUME NEW n \in 1..N
      PROVE  Table(outer[n]) /\ ToSet(outer[n]) = UNION {ToSet(ss[n][p]) : p \in DOMAIN ss[n]}
  <2>1. Table(ss[n]) /\ \A p \in DOMAIN ss[n] : Table(ss[n][p])
    BY <1>1 DEF Pages, Doc
  <2> QED
    BY <1>2, <2>1, FlattenPlaces, FlattenedElements
<1>5. Table(FlattenSeq(outer)) /\ ToSet(FlattenSeq(outer)) = UNION {ToSet(outer[n]) : n \in DOMAIN outer}
  BY <1>2, <1>3, <1>4, FlattenPlaces, FlattenedElements
<1>6. \A c : c \in ToSet(FlattenSeq(outer)) <=>
              \E n \in DOMAIN ss : \E p \in DOMAIN ss[n] : c \in ToSet(ss[n][p])
  BY <1>1, <1>2, <1>4, <1>5
<1> QED
  BY <1>5, <1>6 DEF outer

PdfParts(pages) ==
    [n \in DOMAIN pages |-> [p \in DOMAIN pages[n] |->
        SplitWindows(<<n, p>>, PageGrid(pages, n, p), PdfMax, 0)]]

PdfRows(pages) == [n \in DOMAIN pages |-> [p \in DOMAIN pages[n] |-> PageGrid(pages, n, p)]]

LEMMA PageGridIs ==
    ASSUME NEW pages, Pages(pages), NEW n \in DOMAIN pages, NEW p \in DOMAIN pages[n]
    PROVE  Table(PageGrid(pages, n, p))
<1> DEFINE t == PageGrid(pages, n, p)
           N == Len(pages[n][p])
<1>1. N \in Nat /\ DOMAIN pages[n][p] = 1..N
  BY TableFacts DEF Pages, Doc
<1>2. DOMAIN t = 1..N /\ t = [k \in 1..N |-> t[k]]
  BY <1>1 DEF PageGrid
<1> HIDE DEF t, N
<1>3. Table(t)
  BY <1>1, <1>2, TableFrom
<1> QED
  BY <1>3 DEF t

LEMMA PdfPartsAre ==
    ASSUME NEW pages, Pages(pages)
    PROVE  /\ Pages(PdfParts(pages)) /\ Pages(PdfRows(pages))
           /\ DOMAIN PdfParts(pages) = DOMAIN pages /\ DOMAIN PdfRows(pages) = DOMAIN pages
           /\ \A n \in DOMAIN pages :
                 /\ DOMAIN PdfParts(pages)[n] = DOMAIN pages[n]
                 /\ DOMAIN PdfRows(pages)[n] = DOMAIN pages[n]
                 /\ \A p \in DOMAIN pages[n] :
                       /\ PdfRows(pages)[n][p] = PageGrid(pages, n, p)
                       /\ Splits(<<n, p>>, PageGrid(pages, n, p), PdfParts(pages)[n][p])
<1> DEFINE parts == PdfParts(pages)
           rows == PdfRows(pages)
           N == Len(pages)
<1>1. N \in Nat /\ DOMAIN pages = 1..N
  BY TableFacts DEF Pages
<1>2. /\ DOMAIN parts = 1..N /\ parts = [k \in 1..N |-> parts[k]]
      /\ DOMAIN rows = 1..N /\ rows = [k \in 1..N |-> rows[k]]
  BY <1>1 DEF PdfParts, PdfRows
<1>3. ASSUME NEW n \in 1..N
      PROVE  /\ DOMAIN parts[n] = DOMAIN pages[n] /\ DOMAIN rows[n] = DOMAIN pages[n]
             /\ Doc(parts[n]) /\ Doc(rows[n])
             /\ \A p \in DOMAIN pages[n] :
                   /\ rows[n][p] = PageGrid(pages, n, p)
                   /\ Splits(<<n, p>>, PageGrid(pages, n, p), parts[n][p])
  <2> DEFINE M == Len(pages[n])
             part == parts[n]
             row == rows[n]
  <2>1. M \in Nat /\ DOMAIN pages[n] = 1..M
    BY <1>1, TableFacts DEF Pages, Doc
  <2>2. /\ DOMAIN part = 1..M /\ part = [p \in 1..M |-> part[p]]
        /\ DOMAIN row = 1..M /\ row = [p \in 1..M |-> row[p]]
        /\ \A p \in 1..M : /\ part[p] = SplitWindows(<<n, p>>, PageGrid(pages, n, p), PdfMax, 0)
                          /\ row[p] = PageGrid(pages, n, p)
    BY <1>1, <2>1 DEF PdfParts, PdfRows
  <2> HIDE DEF part, row
  <2>3. ASSUME NEW p \in 1..M
        PROVE  Splits(<<n, p>>, PageGrid(pages, n, p), part[p]) /\ Table(row[p])
    <3>1. Table(PageGrid(pages, n, p))
      BY <1>1, <2>1, PageGridIs
    <3>2. 0 \in 0..100
      OBVIOUS
    <3> QED
      BY <2>2, <3>1, <3>2, SplitIs
  <2>4. Table(part) /\ Table(row)
    BY <2>1, <2>2, TableFrom
  <2>5. Doc(part) /\ Doc(row)
    BY <2>2, <2>3, <2>4 DEF Doc, Splits
  <2> QED
    BY <2>1, <2>2, <2>3, <2>5 DEF part, row
<1> HIDE DEF parts, rows
<1>4. Table(parts) /\ Table(rows)
  BY <1>1, <1>2, TableFrom
<1>5. Pages(parts) /\ Pages(rows)
  BY <1>2, <1>3, <1>4 DEF Pages
<1> QED
  BY <1>1, <1>2, <1>3, <1>5 DEF parts, rows

LEMMA PdfKeeps ==
    ASSUME NEW pages, Pages(pages), NEW n \in DOMAIN pages, NEW p \in DOMAIN pages[n],
           NEW g \in ToSet(PageGrid(pages, n, p))
    PROVE  \E c \in Range(ById(ChunkPdf(pages))) : Holds(c, g)
<1> DEFINE parts == PdfParts(pages)
           chunks == FlattenSeq([m \in DOMAIN parts |-> FlattenSeq(parts[m])])
<1>1. ChunkPdf(pages) = chunks
  <2>1. /\ DOMAIN parts = DOMAIN pages
        /\ \A m \in DOMAIN pages : parts[m] = [q \in DOMAIN pages[m] |->
               SplitWindows(<<m, q>>, PageGrid(pages, m, q), PdfMax, 0)]
    BY DEF PdfParts
  <2> HIDE DEF parts
  <2>2. [m \in DOMAIN parts |-> FlattenSeq(parts[m])] =
        [m \in DOMAIN pages |-> FlattenSeq([q \in DOMAIN pages[m] |->
               SplitWindows(<<m, q>>, PageGrid(pages, m, q), PdfMax, 0)])]
    BY <2>1
  <2> QED
    BY <2>2 DEF ChunkPdf
<1>2. /\ Pages(parts) /\ DOMAIN parts = DOMAIN pages
      /\ \A m \in DOMAIN pages :
            /\ DOMAIN parts[m] = DOMAIN pages[m]
            /\ \A q \in DOMAIN pages[m] : Splits(<<m, q>>, PageGrid(pages, m, q), parts[m][q])
  BY PdfPartsAre
<1> HIDE DEF parts
<1>3. /\ Table(chunks)
      /\ \A c : c \in ToSet(chunks) <=>
            \E m \in DOMAIN parts : \E q \in DOMAIN parts[m] : c \in ToSet(parts[m][q])
  BY <1>2, FlattenTwice
<1> HIDE DEF chunks
<1>4. ASSUME NEW c \in ToSet(chunks), NEW d \in ToSet(chunks), c.id = d.id
      PROVE  c = d
  <2>1. PICK m \in DOMAIN pages : \E q \in DOMAIN parts[m] : c \in ToSet(parts[m][q])
    BY <1>2, <1>3
  <2>2. PICK q \in DOMAIN parts[m] : c \in ToSet(parts[m][q])
    BY <2>1
  <2>3. PICK k \in DOMAIN pages : \E r \in DOMAIN parts[k] : d \in ToSet(parts[k][r])
    BY <1>2, <1>3
  <2>4. PICK r \in DOMAIN parts[k] : d \in ToSet(parts[k][r])
    BY <2>3
  <2>5. PICK i : c.id = <<<<m, q>>, i>>
    BY <1>2, <2>2 DEF Splits
  <2>6. PICK j : d.id = <<<<k, r>>, j>>
    BY <1>2, <2>4 DEF Splits
  <2>7. <<<<m, q>>, i>> = <<<<k, r>>, j>>
    BY <1>4, <2>5, <2>6
  <2>8. m = k /\ q = r
    BY <2>7
  <2> QED
    BY <1>2, <1>4, <2>2, <2>4, <2>8 DEF Splits
<1>5. ToSet(chunks) \subseteq Range(ById(chunks))
  BY <1>3, <1>4, DictKeeps
<1>6. PICK c \in ToSet(parts[n][p]) : Holds(c, g)
  BY <1>2 DEF Splits
<1>7. c \in ToSet(chunks)
  BY <1>2, <1>3, <1>6
<1> QED
  BY <1>1, <1>5, <1>6, <1>7

LEMMA SentencesFollow ==
    ASSUME kind = "md" => Doc(payload), kind = "pdf" => Pages(payload)
    PROVE  EverySentenceIsIndexed
<1>1. CASE kind = "md" /\ DistinctPaths(payload)
  <2>1. Sentences = Grid(payload)
    BY <1>1 DEF Sentences
  <2>2. Chunks = ChunkMarkdown(payload)
    BY <1>1 DEF Chunks, ChunkDocument
  <2>3. \A g \in ToSet(Sentences) : \E c \in Range(ById(Chunks)) : Holds(c, g)
    BY <1>1, <2>1, <2>2, MarkdownKeeps
  <2> QED
    BY <2>3 DEF EverySentenceIsIndexed, Holds
<1>2. CASE kind = "pdf"
  <2> DEFINE rows == PdfRows(payload)
             flat == FlattenSeq([n \in DOMAIN rows |-> FlattenSeq(rows[n])])
  <2>1. Sentences = flat
    <3>1. /\ DOMAIN rows = DOMAIN payload
          /\ \A n \in DOMAIN payload : rows[n] = [p \in DOMAIN payload[n] |-> PageGrid(payload, n, p)]
      BY DEF PdfRows
    <3> HIDE DEF rows
    <3>2. [n \in DOMAIN rows |-> FlattenSeq(rows[n])] =
          [n \in DOMAIN payload |-> FlattenSeq([p \in DOMAIN payload[n] |-> PageGrid(payload, n, p)])]
      BY <3>1
    <3> QED
      BY <1>2, <3>2 DEF Sentences
  <2>2. Chunks = ChunkPdf(payload)
    BY <1>2 DEF Chunks, ChunkDocument
  <2>3. /\ Pages(rows) /\ DOMAIN rows = DOMAIN payload
        /\ \A n \in DOMAIN payload :
              /\ DOMAIN rows[n] = DOMAIN payload[n]
              /\ \A p \in DOMAIN payload[n] : rows[n][p] = PageGrid(payload, n, p)
    BY <1>2, PdfPartsAre
  <2> HIDE DEF rows
  <2>4. \A g \in ToSet(flat) : \E n \in DOMAIN rows : \E p \in DOMAIN rows[n] : g \in ToSet(rows[n][p])
    BY <2>3, FlattenTwice
  <2> HIDE DEF flat
  <2>5. ASSUME NEW g \in ToSet(Sentences)
        PROVE  \E c \in Range(ById(Chunks)) : Holds(c, g)
    <3>1. PICK n \in DOMAIN rows : \E p \in DOMAIN rows[n] : g \in ToSet(rows[n][p])
      BY <2>1, <2>4
    <3>2. PICK p \in DOMAIN rows[n] : g \in ToSet(rows[n][p])
      BY <3>1
    <3>3. n \in DOMAIN payload /\ p \in DOMAIN payload[n] /\ g \in ToSet(PageGrid(payload, n, p))
      BY <2>3, <3>2
    <3> QED
      BY <1>2, <2>2, <3>3, PdfKeeps
  <2> QED
    BY <2>5 DEF EverySentenceIsIndexed, Holds
<1>3. CASE ~(kind = "pdf" \/ (kind = "md" /\ DistinctPaths(payload)))
  BY <1>3 DEF EverySentenceIsIndexed
<1> QED
  BY <1>1, <1>2, <1>3

-----------------------------------------------------------------------------
(* What the payload is.                                                    *)

Paragraphs == Seq(Sentence) \ {<<>>}

Shaped ==
    /\ kind = "code" => Listing
    /\ kind = "md" => payload \in Seq(Paragraphs)
    /\ kind = "pdf" => payload \in Seq(Seq(Paragraphs))

LEMMA ParagraphsAreDoc ==
    ASSUME NEW doc \in Seq(Paragraphs)
    PROVE  Doc(doc)
<1>1. Table(doc) /\ \A p \in DOMAIN doc : doc[p] \in Paragraphs
  BY SeqIsTable
<1>2. \A p \in DOMAIN doc : doc[p] \in Seq(Sentence)
  BY <1>1 DEF Paragraphs
<1>3. \A p \in DOMAIN doc : Table(doc[p])
  BY <1>2, SeqIsTable
<1> QED
  BY <1>1, <1>3 DEF Doc

LEMMA PdfIsPages ==
    ASSUME NEW pages \in Seq(Seq(Paragraphs))
    PROVE  Pages(pages)
<1>1. Table(pages) /\ \A n \in DOMAIN pages : pages[n] \in Seq(Paragraphs)
  BY SeqIsTable
<1> QED
  BY <1>1, ParagraphsAreDoc DEF Pages

LEMMA NewParagraph ==
    ASSUME NEW n \in Int, NEW new \in Paragraph(n)
    PROVE  new \in Paragraphs
<1>1. PICK m \in 0..n : new \in [1..m -> Sentence]
  BY DEF Paragraph, SeqOf
<1>2. m \in Nat
  OBVIOUS
<1>3. new \in Seq(Sentence)
  BY <1>1, <1>2, SeqDef
<1> QED
  BY <1>3 DEF Paragraph, Paragraphs

LEMMA Inserted ==
    ASSUME NEW S, NEW s \in Seq(S), NEW i \in 1..Len(s) + 1, NEW e \in S
    PROVE  InsertAt(s, i, e) \in Seq(S)
<1>1. Len(s) \in Nat /\ \A k \in 1..Len(s) : s[k] \in S
  BY LenProperties
<1>2. SubSeq(s, 1, i - 1) \in Seq(S)
  <2>1. 1 \in Int /\ i - 1 \in Int /\ \A k \in 1..i - 1 : s[k] \in S
    BY <1>1
  <2> QED
    BY <2>1, SubSeqProperties
<1>3. SubSeq(s, i, Len(s)) \in Seq(S)
  <2>1. i \in Int /\ Len(s) \in Int /\ \A k \in i..Len(s) : s[k] \in S
    BY <1>1
  <2> QED
    BY <2>1, SubSeqProperties
<1>4. <<e>> \in Seq(S)
  OBVIOUS
<1>5. SubSeq(s, 1, i - 1) \o <<e>> \in Seq(S)
  BY <1>2, <1>4, ConcatProperties
<1>6. (SubSeq(s, 1, i - 1) \o <<e>>) \o SubSeq(s, i, Len(s)) \in Seq(S)
  BY <1>3, <1>5, ConcatProperties
<1> QED
  BY <1>6 DEF InsertAt

LEMMA Removed ==
    ASSUME NEW S, NEW s \in Seq(S), NEW i \in 1..Len(s)
    PROVE  RemoveAt(s, i) \in Seq(S)
<1>1. Len(s) \in Nat /\ \A k \in 1..Len(s) : s[k] \in S
  BY LenProperties
<1>2. SubSeq(s, 1, i - 1) \in Seq(S)
  <2>1. 1 \in Int /\ i - 1 \in Int /\ \A k \in 1..i - 1 : s[k] \in S
    BY <1>1
  <2> QED
    BY <2>1, SubSeqProperties
<1>3. SubSeq(s, i + 1, Len(s)) \in Seq(S)
  <2>1. i + 1 \in Int /\ Len(s) \in Int /\ \A k \in i + 1..Len(s) : s[k] \in S
    BY <1>1
  <2> QED
    BY <2>1, SubSeqProperties
<1>4. SubSeq(s, 1, i - 1) \o SubSeq(s, i + 1, Len(s)) \in Seq(S)
  BY <1>2, <1>3, ConcatProperties
<1> QED
  BY <1>4 DEF RemoveAt

LEMMA Replaced ==
    ASSUME NEW S, NEW s \in Seq(S), NEW i \in 1..Len(s), NEW e \in S
    PROVE  ReplaceAt(s, i, e) \in Seq(S)
<1> DEFINE N == Len(s)
           t == [s EXCEPT ![i] = e]
<1>1. N \in Nat /\ s \in [1..N -> S]
  BY LenProperties
<1> HIDE DEF N
<1>2. t \in [1..N -> S]
  BY <1>1
<1> HIDE DEF t
<1>3. t \in Seq(S)
  BY <1>1, <1>2, SeqDef
<1> QED
  BY <1>3 DEF ReplaceAt, t

LEMMA ShapedStarts == Init => Shaped
<1>1. <<>> \in Seq(Paragraphs) /\ <<>> \in Seq(Seq(Paragraphs)) /\ DOMAIN <<>> = {}
  OBVIOUS
<1>2. Table(<<>>) /\ Len(<<>>) = 0
  BY NoRow
<1>3. Lined(<<>>)
  <2>1. \A i \in 0..0 : i = 0
    OBVIOUS
  <2> QED
    BY <1>2, <2>1 DEF Lined, CharEnd, ByteEnd
<1>4. ASSUME Init, kind = "code" PROVE Listing
  <2>1. payload.defs = <<>> /\ payload.ends = <<>>
    BY <1>4 DEF Init
  <2> QED
    BY <1>1, <1>2, <1>3, <2>1 DEF Listing
<1>5. Init /\ kind \in {"md", "pdf"} => payload = <<>>
  BY DEF Init
<1> QED
  BY <1>1, <1>4, <1>5 DEF Shaped

LEMMA EditKeepsShape == Shaped /\ EditParagraph => Shaped'
<1>0. EditParagraph => kind = "md" /\ kind' = "md"
  BY DEF EditParagraph
<1>1. SUFFICES ASSUME Shaped, EditParagraph PROVE payload' \in Seq(Paragraphs)
  BY <1>0 DEF Shaped
<1>2. payload \in Seq(Paragraphs) /\ DOMAIN payload = 1..Len(payload) /\ Len(payload) \in Nat
  BY <1>1, LenProperties DEF EditParagraph, Shaped
<1>3. Room(payload) \in Int
  <2>1. Table(FlattenSeq(payload))
    BY <1>2, ParagraphsAreDoc, FlattenPlaces DEF Doc
  <2>2. Len(FlattenSeq(payload)) \in Nat
    BY <2>1, TableFacts
  <2> QED
    BY <2>2, PassagesAssumption DEF Room
<1>4. \A x \in Sentence : <<x>> \in Paragraphs
  BY DEF Paragraphs
<1>5. CASE \E p \in 1..Len(payload) + 1 : \E new \in Paragraph(Room(payload)) :
             payload' = InsertAt(payload, p, new)
  BY <1>2, <1>3, <1>5, NewParagraph, Inserted
<1>6. CASE \E p \in DOMAIN payload : \E x \in Sentence : payload' = ReplaceAt(payload, p, <<x>>)
  BY <1>2, <1>4, <1>6, Replaced
<1>7. CASE \E p \in DOMAIN payload : payload' = RemoveAt(payload, p)
  BY <1>2, <1>7, Removed
<1> QED
  BY <1>1, <1>5, <1>6, <1>7 DEF EditParagraph

LEMMA PrintKeepsShape == Shaped /\ PrintParagraph => Shaped'
<1>1. SUFFICES ASSUME Shaped, PrintParagraph PROVE payload' \in Seq(Seq(Paragraphs))
  BY DEF PrintParagraph, Shaped
<1> DEFINE n == MaxSentences - Len(FlattenSeq(FlattenSeq(payload)))
<1>2. payload \in Seq(Seq(Paragraphs)) /\ Len(payload) \in Nat /\ DOMAIN payload = 1..Len(payload)
  BY <1>1, LenProperties DEF PrintParagraph, Shaped
<1>3. n \in Int
  <2>1. Pages(payload)
    BY <1>2, PdfIsPages
  <2>2. Table(payload) /\ \A k \in DOMAIN payload : Table(payload[k])
    BY <2>1 DEF Pages, Doc
  <2>3. /\ Table(FlattenSeq(payload))
        /\ ToSet(FlattenSeq(payload)) = UNION {ToSet(payload[k]) : k \in DOMAIN payload}
    BY <2>2, FlattenPlaces, FlattenedElements
  <2>4. \A k \in DOMAIN FlattenSeq(payload) : Table(FlattenSeq(payload)[k])
    <3>1. TAKE k \in DOMAIN FlattenSeq(payload)
    <3>2. FlattenSeq(payload)[k] \in ToSet(FlattenSeq(payload))
      BY DEF ToSet
    <3>3. PICK m \in DOMAIN payload : FlattenSeq(payload)[k] \in ToSet(payload[m])
      BY <2>3, <3>2
    <3>4. PICK p \in DOMAIN payload[m] : FlattenSeq(payload)[k] = payload[m][p]
      BY <3>3 DEF ToSet
    <3> QED
      BY <2>1, <3>4 DEF Pages, Doc
  <2>5. Len(FlattenSeq(FlattenSeq(payload))) \in Nat
    BY <2>3, <2>4, FlattenPlaces, TableFacts
  <2> QED
    BY <2>5, PassagesAssumption
<1> HIDE DEF n
<1>4. PICK new \in Paragraph(n) :
        \/ payload' = Append(payload, <<new>>)
        \/ payload # <<>> /\ payload' = [payload EXCEPT ![Len(payload)] = Append(@, new)]
  BY <1>1 DEF PrintParagraph, n
<1>5. new \in Paragraphs
  BY <1>3, NewParagraph
<1>6. CASE payload' = Append(payload, <<new>>)
  <2>1. <<new>> \in Seq(Paragraphs)
    BY <1>5
  <2> QED
    BY <1>2, <1>6, <2>1, AppendProperties
<1>7. CASE payload # <<>> /\ payload' = [payload EXCEPT ![Len(payload)] = Append(@, new)]
  <2> DEFINE last == payload[Len(payload)]
             more == Append(last, new)
  <2>1. Len(payload) \in 1..Len(payload)
    BY <1>2, <1>7, EmptySeq
  <2>2. last \in Seq(Paragraphs)
    BY <1>2, <2>1, SeqIsTable
  <2>3. more \in Seq(Paragraphs)
    <3> HIDE DEF last
    <3> QED
      BY <1>5, <2>2, AppendProperties
  <2>4. payload' = ReplaceAt(payload, Len(payload), more)
    BY <1>7 DEF ReplaceAt
  <2> HIDE DEF more, last
  <2> QED
    BY <1>2, <2>1, <2>3, <2>4, Replaced
<1> QED
  BY <1>4, <1>6, <1>7

\* The table of where lines end, after one more line.
LEMMA LinedGoesOn ==
    ASSUME NEW ends, Lined(ends), NEW line \in Line,
           NEW end, end.char = CharEnd(ends, Len(ends)) + line.chars,
           end.byte = ByteEnd(ends, Len(ends)) + line.bytes
    PROVE  Lined(Append(ends, end)) /\ Len(Append(ends, end)) = Len(ends) + 1
<1> DEFINE more == Append(ends, end)
           N == Len(ends)
<1>1. Table(ends) /\ N \in Nat /\ DOMAIN ends = 1..N
  BY TableFacts DEF Lined
<1>2. /\ Table(more) /\ DOMAIN more = DOMAIN ends \cup {N + 1}
      /\ \A i \in DOMAIN ends : more[i] = ends[i]
      /\ more[N + 1] = end
  BY <1>1, TableAppend
<1>3. Len(more) = N + 1
  BY <1>1, AppendLonger
<1>4. /\ line.chars \in Nat /\ line.bytes \in Nat /\ 2 <= line.chars /\ line.chars <= line.bytes
  BY ChunkingAssumption
<1> HIDE DEF more
<1>5. \A i \in 0..N : CharEnd(more, i) = CharEnd(ends, i) /\ ByteEnd(more, i) = ByteEnd(ends, i)
  BY <1>1, <1>2 DEF CharEnd, ByteEnd
<1>6. /\ CharEnd(more, N + 1) = CharEnd(ends, N) + line.chars
      /\ ByteEnd(more, N + 1) = ByteEnd(ends, N) + line.bytes
  BY <1>1, <1>2 DEF CharEnd, ByteEnd
<1>7. /\ \A i \in 0..N : CharEnd(ends, i) \in Nat /\ ByteEnd(ends, i) \in Nat
      /\ \A i, j \in 0..N : i < j =>
            CharEnd(ends, i) + 1 < CharEnd(ends, j) /\ ByteEnd(ends, i) < ByteEnd(ends, j)
  BY DEF Lined
<1>8. N \in Nat /\ N \in 0..N /\ \A i \in 0..N + 1 : i \in 0..N \/ i = N + 1
  BY <1>1
<1> HIDE DEF N
<1>9. \A i \in 0..N + 1 : CharEnd(more, i) \in Nat /\ ByteEnd(more, i) \in Nat
  <2>1. SUFFICES ASSUME NEW i \in 0..N + 1 PROVE CharEnd(more, i) \in Nat /\ ByteEnd(more, i) \in Nat
    OBVIOUS
  <2>2. CASE i \in 0..N
    BY <1>5, <1>7, <2>2
  <2>3. CASE i = N + 1
    <3>1. CharEnd(ends, N) \in Nat /\ ByteEnd(ends, N) \in Nat
      BY <1>7, <1>8
    <3> QED
      BY <1>4, <1>6, <2>3, <3>1
  <2> QED
    BY <1>8, <2>1, <2>2, <2>3
<1>10. ASSUME NEW i \in 0..N + 1, NEW j \in 0..N + 1, i < j
       PROVE  CharEnd(more, i) + 1 < CharEnd(more, j) /\ ByteEnd(more, i) < ByteEnd(more, j)
  <2>1. i \in 0..N
    BY <1>8, <1>10
  <2>2. CASE j \in 0..N
    BY <1>5, <1>7, <1>10, <2>1, <2>2
  <2>3. CASE j = N + 1
    <3>1. i = N \/ i < N
      BY <1>8, <2>1
    <3>2. CharEnd(ends, i) <= CharEnd(ends, N) /\ ByteEnd(ends, i) <= ByteEnd(ends, N)
      BY <1>7, <1>8, <2>1, <3>1
    <3> QED
      BY <1>4, <1>5, <1>6, <1>7, <1>8, <2>1, <2>3, <3>2
  <2> QED
    BY <1>8, <2>2, <2>3
<1> QED
  BY <1>2, <1>3, <1>9, <1>10 DEF Lined, more, N

LEMMA WriteKeepsShape == Shaped /\ WriteLine => Shaped'
<1>1. SUFFICES ASSUME Shaped, WriteLine PROVE Listing'
  BY DEF WriteLine, Shaped
<1> DEFINE defs == payload.defs
           ends == payload.ends
           N == Len(defs)
           here == Len(ends) + 1
<1>2. /\ Lined(ends) /\ Table(defs) /\ \A k \in DOMAIN defs : Definition(defs[k], Len(ends))
      /\ Len(ends) \in Nat /\ N \in Nat /\ DOMAIN defs = 1..N
  BY <1>1, TableFacts DEF WriteLine, Shaped, Listing, Lined
<1> HIDE DEF defs, ends
<1>3. ASSUME NEW new, Written(new), Table(new), \A k \in DOMAIN new : Definition(new[k], here)
      PROVE  Listing'
  <2>1. PICK line \in Line :
          payload' = [defs |-> new,
                      ends |-> Append(ends, [char |-> CharEnd(ends, Len(ends)) + line.chars,
                                             byte |-> ByteEnd(ends, Len(ends)) + line.bytes])]
    BY <1>3 DEF Written, ends
  <2> DEFINE end == [char |-> CharEnd(ends, Len(ends)) + line.chars,
                     byte |-> ByteEnd(ends, Len(ends)) + line.bytes]
  <2>2. /\ end.char = CharEnd(ends, Len(ends)) + line.chars
        /\ end.byte = ByteEnd(ends, Len(ends)) + line.bytes
    OBVIOUS
  <2>3. payload'.defs = new /\ payload'.ends = Append(ends, end)
    BY <2>1
  <2> HIDE DEF end
  <2>4. Lined(Append(ends, end)) /\ Len(Append(ends, end)) = here
    BY <1>2, <2>2, LinedGoesOn
  <2> HIDE DEF here
  <2> QED
    BY <1>3, <2>3, <2>4 DEF Listing
<1>4. \A k \in DOMAIN defs : Definition(defs[k], here)
  BY <1>2 DEF Definition
<1>5. CASE Written(defs)
  BY <1>2, <1>3, <1>4, <1>5
<1>6. ASSUME NEW n \in Name, Written(Append(defs, [name |-> n, first |-> here, last |-> here]))
      PROVE  Listing'
  <2> DEFINE new == [name |-> n, first |-> here, last |-> here]
  <2>1. Definition(new, here)
    BY <1>2 DEF Definition
  <2> HIDE DEF new
  <2>2. /\ Table(Append(defs, new)) /\ DOMAIN Append(defs, new) = DOMAIN defs \cup {N + 1}
        /\ \A k \in DOMAIN defs : Append(defs, new)[k] = defs[k]
        /\ Append(defs, new)[N + 1] = new
    BY <1>2, TableAppend
  <2>3. \A k \in DOMAIN Append(defs, new) : Definition(Append(defs, new)[k], here)
    BY <1>4, <2>1, <2>2
  <2> QED
    BY <1>3, <1>6, <2>2, <2>3 DEF new
<1>7. ASSUME NEW k \in DOMAIN defs, Written([defs EXCEPT ![k].last = here])
      PROVE  Listing'
  <2> DEFINE new == [defs EXCEPT ![k].last = here]
  <2>1. DOMAIN new = 1..N /\ new = [i \in 1..N |-> new[i]]
    BY <1>2
  <2>2. \A i \in DOMAIN defs : Definition(new[i], here)
    <3>1. ASSUME NEW i \in DOMAIN defs PROVE Definition(new[i], here)
      <4>1. new[i] = IF i = k THEN [defs[k] EXCEPT !.last = here] ELSE defs[i]
        OBVIOUS
      <4>2. CASE i = k
        <5>1. Definition(defs[k], Len(ends))
          BY <1>2
        <5>2. /\ [defs[k] EXCEPT !.last = here].name = defs[k].name
              /\ [defs[k] EXCEPT !.last = here].first = defs[k].first
          OBVIOUS
        <5>3. [defs[k] EXCEPT !.last = here].last = here
          OBVIOUS
        <5> QED
          BY <1>2, <4>1, <4>2, <5>1, <5>2, <5>3 DEF Definition
      <4>3. CASE i # k
        BY <1>4, <4>1, <4>3
      <4> QED
        BY <4>2, <4>3
    <3> QED
      BY <3>1
  <2>3. Table(new)
    <3> HIDE DEF new
    <3> QED
      BY <1>2, <2>1, TableFrom
  <2> HIDE DEF here
  <2> QED
    BY <1>2, <1>3, <1>7, <2>1, <2>2, <2>3
<1>8. \/ Written(defs)
      \/ \E n \in Name : Written(Append(defs, [name |-> n, first |-> here, last |-> here]))
      \/ \E k \in DOMAIN defs : Written([defs EXCEPT ![k].last = here])
  BY <1>1 DEF WriteLine, defs, ends
<1> QED
  BY <1>5, <1>6, <1>7, <1>8

LEMMA ShapedHolds == Spec => []Shaped
<1>1. Init => Shaped
  BY ShapedStarts
<1>2. Shaped /\ [Next]_vars => Shaped'
  <2>1. Shaped /\ Reply => Shaped'
    BY DEF Reply, Shaped
  <2>2. Shaped /\ Match => Shaped'
    BY DEF Match, Shaped, Listing
  <2>3. Shaped /\ UNCHANGED vars => Shaped'
    BY DEF vars, Shaped, Listing
  <2> QED
    BY <2>1, <2>2, <2>3, EditKeepsShape, PrintKeepsShape, WriteKeepsShape DEF Next
<1> QED
  BY <1>1, <1>2, PTL DEF Spec

-----------------------------------------------------------------------------
(* A section keeps its chunks wherever it stands.                          *)

\* Two tables with the same texts.
Alike(s, t) ==
    /\ Table(s) /\ Table(t) /\ Len(s) = Len(t)
    /\ \A k \in DOMAIN s : s[k].text = t[k].text

LEMMA AlikeConcat ==
    ASSUME NEW a, NEW b, Alike(a, b), NEW c, NEW d, Alike(c, d)
    PROVE  Alike(a \o c, b \o d)
<1> DEFINE m == Len(a)
           n == Len(c)
<1>1. /\ m \in Nat /\ n \in Nat /\ m = Len(b) /\ n = Len(d)
      /\ DOMAIN a = 1..m /\ DOMAIN b = 1..m /\ DOMAIN c = 1..n /\ DOMAIN d = 1..n
  BY TableFacts DEF Alike
<1> DEFINE s == a \o c
           t == b \o d
<1>0. Table(a) /\ Table(b) /\ Table(c) /\ Table(d)
  BY DEF Alike
<1>2. /\ Table(s) /\ DOMAIN s = 1..m + n /\ (\A k \in 1..m : s[k] = a[k])
      /\ \A k \in 1..n : s[m + k] = c[k]
  <2>1. /\ Table(a \o c) /\ DOMAIN (a \o c) = 1..Len(a) + Len(c)
        /\ \A k \in DOMAIN a : (a \o c)[k] = a[k]
        /\ \A k \in 1..Len(c) : (a \o c)[Len(a) + k] = c[k]
    BY <1>0, TableConcat
  <2> HIDE DEF m, n
  <2> QED
    BY <1>1, <2>1 DEF m, n
<1>3. /\ Table(t) /\ DOMAIN t = 1..m + n /\ (\A k \in 1..m : t[k] = b[k])
      /\ \A k \in 1..n : t[m + k] = d[k]
  <2>1. /\ Table(b \o d) /\ DOMAIN (b \o d) = 1..Len(b) + Len(d)
        /\ \A k \in DOMAIN b : (b \o d)[k] = b[k]
        /\ \A k \in 1..Len(d) : (b \o d)[Len(b) + k] = d[k]
    BY <1>0, TableConcat
  <2> HIDE DEF m, n
  <2> QED
    BY <1>1, <2>1
<1> HIDE DEF s, t, m, n
<1>4. Len(s) = Len(t)
  <2>1. Len(s) \in Nat /\ DOMAIN s = 1..Len(s) /\ Len(t) \in Nat /\ DOMAIN t = 1..Len(t)
    BY <1>2, <1>3, TableFacts
  <2> QED
    BY <1>1, <1>2, <1>3, <2>1
<1>5. ASSUME NEW k \in DOMAIN s PROVE s[k].text = t[k].text
  <2>1. CASE k \in 1..m
    BY <1>1, <1>2, <1>3, <2>1 DEF Alike
  <2>2. CASE k \notin 1..m
    <3>1. PICK j \in 1..n : k = m + j
      <4>1. k - m \in 1..n /\ k = m + (k - m)
        BY <1>1, <1>2, <2>2
      <4> QED
        BY <4>1
    <3>2. s[k] = c[j] /\ t[k] = d[j] /\ j \in DOMAIN c
      BY <1>1, <1>2, <1>3, <3>1
    <3> QED
      BY <3>2 DEF Alike
  <2> QED
    BY <2>1, <2>2
<1>6. Alike(s, t)
  BY <1>2, <1>3, <1>4, <1>5 DEF Alike
<1> QED
  BY <1>6 DEF s, t

LEMMA FlattenAlike ==
    ASSUME NEW ss, Table(ss), NEW tt, Table(tt), Len(ss) = Len(tt),
           \A i \in DOMAIN ss : Alike(ss[i], tt[i])
    PROVE  Alike(FlattenSeq(ss), FlattenSeq(tt))
<1> DEFINE N == Len(ss)
<1>1. N \in Nat /\ DOMAIN ss = 1..N /\ DOMAIN tt = 1..N
  BY TableFacts
<1>2. CASE N = 0
  <2>1. FlattenSeq(ss) = ss /\ FlattenSeq(tt) = tt
    BY <1>2 DEF FlattenSeq
  <2>2. DOMAIN ss = {}
    BY <1>1, <1>2
  <2> QED
    BY <2>1, <2>2 DEF Alike
<1>3. CASE N # 0
  <2>1. PICK f : FlattenSeq(ss) = f[N] /\ FlattensBy(ss, N, f)
    BY <1>3, FlattenSteps
  <2>2. PICK g : FlattenSeq(tt) = g[N] /\ FlattensBy(tt, N, g)
    BY <1>3, FlattenSteps
  <2> HIDE DEF N
  <2> DEFINE S == {n \in 0..(N - 1) : Alike(f[n + 1], g[n + 1])}
  <2>3. N - 1 \in Nat /\ N - 1 \in 0..(N - 1) /\ (N - 1) + 1 = N /\ 1 \in 1..N /\ 0 \in 0..(N - 1)
    BY <1>1, <1>3
  <2>4. 0 \in S
    <3>1. f[1] = ss[1] /\ g[1] = tt[1] /\ 0 + 1 = 1
      BY <2>1, <2>2 DEF FlattensBy
    <3> QED
      BY <1>1, <2>3, <3>1
  <2>5. ASSUME NEW n \in 0..((N - 1) - 1), n \in S
        PROVE  n + 1 \in S
    <3>1. n + 1 \in 0..(N - 1) /\ n + 1 \in 1..(N - 1) /\ (n + 1) + 1 \in DOMAIN ss
      BY <1>1, <1>3
    <3>2. f[(n + 1) + 1] = f[n + 1] \o ss[(n + 1) + 1] /\ g[(n + 1) + 1] = g[n + 1] \o tt[(n + 1) + 1]
      BY <2>1, <2>2, <3>1 DEF FlattensBy
    <3>3. Alike(f[n + 1], g[n + 1]) /\ Alike(ss[(n + 1) + 1], tt[(n + 1) + 1])
      BY <2>5, <3>1
    <3>4. Alike(f[n + 1] \o ss[(n + 1) + 1], g[n + 1] \o tt[(n + 1) + 1])
      BY <3>3, AlikeConcat
    <3> QED
      BY <3>1, <3>2, <3>4
  <2>6. 0..(N - 1) \subseteq S
    <3> HIDE DEF S
    <3> QED
      BY <2>3, <2>4, <2>5, Induct
  <2>7. Alike(f[N], g[N])
    BY <2>3, <2>6
  <2> QED
    BY <2>1, <2>2, <2>7
<1> QED
  BY <1>2, <1>3

\* What of a chunk is its own, wherever its section stands.
IdTexts(chunks) == {[id |-> c.id, text |-> c.text] : c \in ToSet(chunks)}

\* Where a window is cut depends on the texts alone.
LEMMA SplitAlike ==
    ASSUME NEW path, NEW g, NEW h, Alike(g, h), NEW max, NEW percent \in 0..100
    PROVE  IdTexts(SplitWindows(path, g, max, percent))
              \subseteq IdTexts(SplitWindows(path, h, max, percent))
<1> DEFINE L == Len(g)
           texts == [i \in DOMAIN g |-> g[i].text]
           windows == Windows(texts, max, percent)
           number(k) == IF Len(windows) > 1 THEN k ELSE 0
           part(grid, k) == SubSeq(grid, windows[k][1], windows[k][2])
           chunks(grid) == [k \in DOMAIN windows |-> WindowChunk(path, number(k), part(grid, k))]
<1>1. /\ L \in Nat /\ DOMAIN g = 1..L /\ DOMAIN h = 1..L /\ L = Len(h)
      /\ Table(g) /\ Table(h) /\ \A k \in 1..L : g[k].text = h[k].text
  BY TableFacts DEF Alike
<1>2. texts = [i \in DOMAIN h |-> h[i].text]
  BY <1>1
<1>3. SplitWindows(path, g, max, percent) = chunks(g) /\ SplitWindows(path, h, max, percent) = chunks(h)
  BY <1>2 DEF SplitWindows
<1>4. Cover(windows, 1, L)
  <2>1. DOMAIN texts = 1..L /\ texts = [i \in 1..L |-> texts[i]]
    BY <1>1
  <2> HIDE DEF texts
  <2>2. Len(texts) = L
    BY <1>1, <2>1, TableFrom
  <2> QED
    BY <1>1, <2>2, WindowsCover
<1> HIDE DEF windows, texts, L
<1>5. ASSUME NEW k \in DOMAIN windows
      PROVE  chunks(g)[k].id = chunks(h)[k].id /\ chunks(g)[k].text = chunks(h)[k].text
  <2> DEFINE m == windows[k][1]
             n == windows[k][2]
             gs == part(g, k)
             hs == part(h, k)
  <2>1. m \in 1..L /\ n \in m..L
    BY <1>4 DEF Cover
  <2>2. DOMAIN gs = 1..n - m + 1 /\ \A i \in 1..n - m + 1 : gs[i] = g[m + i - 1]
    BY <1>1, <2>1, PartOf
  <2>3. DOMAIN hs = 1..n - m + 1 /\ \A i \in 1..n - m + 1 : hs[i] = h[m + i - 1]
    BY <1>1, <2>1, PartOf
  <2>4. \A i \in 1..n - m + 1 : m + i - 1 \in 1..L
    BY <1>1, <2>1
  <2> HIDE DEF m, n, gs, hs
  <2>5. [i \in DOMAIN gs |-> gs[i].text] = [i \in DOMAIN hs |-> hs[i].text]
    BY <1>1, <2>2, <2>3, <2>4
  <2>6. /\ chunks(g)[k].text = [i \in DOMAIN gs |-> gs[i].text]
        /\ chunks(h)[k].text = [i \in DOMAIN hs |-> hs[i].text]
        /\ chunks(g)[k].id = <<path, number(k)>> /\ chunks(h)[k].id = <<path, number(k)>>
    BY DEF WindowChunk, Chunk, gs, hs
  <2> HIDE DEF chunks
  <2> QED
    BY <2>5, <2>6
<1>6. DOMAIN chunks(g) = DOMAIN windows /\ DOMAIN chunks(h) = DOMAIN windows
  OBVIOUS
<1> HIDE DEF chunks
<1>7. IdTexts(chunks(g)) \subseteq IdTexts(chunks(h))
  <2>1. SUFFICES ASSUME NEW k \in DOMAIN windows
                 PROVE  [id |-> chunks(g)[k].id, text |-> chunks(g)[k].text] \in IdTexts(chunks(h))
    BY <1>6 DEF IdTexts, ToSet
  <2>2. chunks(h)[k] \in ToSet(chunks(h))
    BY <1>6 DEF ToSet
  <2> QED
    BY <1>5, <2>2 DEF IdTexts
<1> QED
  BY <1>3, <1>7

\* A section cut out of a document is the only section of a document.
LEMMA SectionAlone ==
    ASSUME NEW s, Doc(s), s # <<>>, IsHeading(s[1]),
           \A k \in DOMAIN s : k > 1 => ~IsHeading(s[k])
    PROVE  /\ 1 \in DOMAIN s /\ SectionStarts(s) = {1} /\ SectionEnd(s, 1) = Len(s)
           /\ ToSet(ChunkMarkdown(s)) =
                 ToSet(SplitWindows(SectionPath(s, 1), SectionGrid(s, 1), MdMax, MdOverlap))
<1> DEFINE N == Len(s)
           e == SectionEnd(s, 1)
           parts == MarkdownParts(s)
<1>1. N \in Nat /\ DOMAIN s = 1..N
  BY TableFacts DEF Doc
<1>2. 1 \in DOMAIN s /\ N # 0
  <2>1. s \in Seq({s[k] : k \in DOMAIN s})
    BY DEF Doc, Table
  <2>2. N \in Nat \ {0}
    <3> DEFINE D == {s[k] : k \in DOMAIN s}
    <3> HIDE DEF D
    <3> QED
      BY <2>1, EmptySeq DEF D
  <2> QED
    BY <1>1, <2>2
<1>3. SectionStarts(s) = {1}
  <2>1. ASSUME NEW k \in DOMAIN s, k # 1 PROVE ~IsHeading(s[k])
    BY <1>1, <2>1
  <2> QED
    BY <1>2, <2>1 DEF SectionStarts
<1>4. e = N
  <2>1. e \in 1..N /\ (e = N \/ IsHeading(s[e + 1]))
    BY <1>2, SectionEndBounds
  <2> HIDE DEF e, N
  <2>2. SUFFICES ASSUME e # N PROVE FALSE
    OBVIOUS
  <2>3. e + 1 \in DOMAIN s /\ e + 1 > 1
    BY <1>1, <2>1, <2>2
  <2> QED
    BY <2>1, <2>2, <2>3
<1>5. /\ ChunkMarkdown(s) = FlattenSeq(parts) /\ Table(parts) /\ DOMAIN parts = DOMAIN s
      /\ (\A p \in DOMAIN s : Table(parts[p])) /\ \A p \in DOMAIN s \ {1} : parts[p] = <<>>
  BY <1>3, MarkdownPartsAre
<1>6. parts[1] = SplitWindows(SectionPath(s, 1), SectionGrid(s, 1), MdMax, MdOverlap)
  BY <1>2, <1>3 DEF MarkdownParts
<1> HIDE DEF parts
<1>7. ToSet(ChunkMarkdown(s)) = UNION {ToSet(parts[p]) : p \in DOMAIN s}
  BY <1>5, FlattenedElements
<1>8. \A p \in DOMAIN s \ {1} : ToSet(parts[p]) = {}
  <2>1. ToSet(<<>>) = {}
    BY DEF ToSet
  <2> QED
    BY <1>5, <2>1
<1>9. ToSet(ChunkMarkdown(s)) = ToSet(parts[1])
  BY <1>2, <1>7, <1>8
<1> QED
  BY <1>2, <1>3, <1>4, <1>6, <1>9

\* The chunks of a section of a document are those of the section alone.
LEMMA SectionIsKept ==
    ASSUME NEW doc \in Seq(Paragraphs), NEW p \in SectionStarts(doc), NEW q \in DOMAIN doc,
           q = Len(doc) \/ IsHeading(doc[q + 1]),
           NEW s, s = SubSeq(doc, p, q), s # <<>>, IsHeading(s[1]),
           \A k \in DOMAIN s : k > 1 => ~IsHeading(s[k])
    PROVE  IdTexts(ChunkMarkdown(s)) \subseteq IdTexts(ChunkMarkdown(doc))
<1> DEFINE N == Len(doc)
           n == q - p + 1
           e == SectionEnd(doc, p)
           partsS == SectionParts(s, 1)
           partsD == SectionParts(doc, p)
<1>1. /\ Doc(doc) /\ Table(doc) /\ N \in Nat /\ DOMAIN doc = 1..N /\ p \in 1..N /\ q \in 1..N
      /\ \A k \in DOMAIN doc : Table(doc[k])
  <2>1. Doc(doc)
    BY ParagraphsAreDoc
  <2> QED
    BY <2>1, TableFacts DEF Doc, SectionStarts
<1>2. p <= q
  <2>1. SUFFICES ASSUME q < p PROVE FALSE
    BY <1>1
  <2>2. p \in Int /\ q \in Int
    BY <1>1
  <2> QED
    BY <2>1, <2>2, SubSeqEmpty
<1>3. n \in Nat /\ Table(s) /\ DOMAIN s = 1..n /\ Len(s) = n /\ \A k \in 1..n : s[k] = doc[p + k - 1]
  <2>1. q \in p..Len(doc) /\ p \in 1..Len(doc) /\ n \in Nat
    BY <1>1, <1>2
  <2>2. Table(s) /\ DOMAIN s = 1..n /\ \A k \in 1..n : s[k] = doc[p + k - 1]
    <3>1. LET t == SubSeq(doc, p, q) IN
          Table(t) /\ DOMAIN t = 1..q - p + 1 /\ \A i \in 1..q - p + 1 : t[i] = doc[p + i - 1]
      <4> HIDE DEF n
      <4> QED
        BY <1>1, <2>1, PartOf
    <3> QED
      BY <3>1
  <2>3. Len(s) \in Nat /\ DOMAIN s = 1..Len(s)
    BY <2>2, TableFacts
  <2> HIDE DEF n
  <2> QED
    BY <2>1, <2>2, <2>3
<1>4. \A k \in 1..n : p + k - 1 \in 1..N
  BY <1>1, <1>2
<1>5. Doc(s)
  BY <1>1, <1>3, <1>4 DEF Doc
<1>6. /\ 1 \in DOMAIN s /\ SectionEnd(s, 1) = n
      /\ ToSet(ChunkMarkdown(s)) =
            ToSet(SplitWindows(SectionPath(s, 1), SectionGrid(s, 1), MdMax, MdOverlap))
  BY <1>3, <1>5, SectionAlone
<1>7. e = q
  <2>1. e \in p..N /\ (e = N \/ IsHeading(doc[e + 1])) /\ e <= q
    <3>1. q \in p..Len(doc) /\ p \in DOMAIN doc
      BY <1>1, <1>2
    <3> QED
      BY <1>1, <3>1, SectionEndBounds
  <2> HIDE DEF e
  <2>2. SUFFICES ASSUME e < q PROVE FALSE
    BY <1>1, <2>1
  <2> DEFINE k == e + 2 - p
  <2>3. e # N /\ k \in 1..n /\ k > 1 /\ p + k - 1 = e + 1
    <3> HIDE DEF N
    <3>1. e \in Int /\ p \in Int /\ q \in Int /\ N \in Int /\ p <= e /\ q <= N
      BY <1>1, <2>1
    <3> QED
      BY <2>2, <3>1
  <2> HIDE DEF k
  <2>4. s[k] = doc[e + 1] /\ k \in DOMAIN s
    BY <1>3, <2>3
  <2> QED
    BY <2>1, <2>3, <2>4
<1>8. /\ SectionGrid(doc, p) = FlattenSeq(partsD) /\ Table(partsD) /\ Len(partsD) = n
      /\ \A k \in 1..n : partsD[k] = GridOf(doc, p + k - 1) /\ Table(partsD[k])
  <2>1. e + 1 - p = n
    BY <1>1, <1>7
  <2>2. LET M == SectionEnd(doc, p) + 1 - p IN
        /\ SectionGrid(doc, p) = FlattenSeq(partsD) /\ Table(partsD) /\ Len(partsD) = M
        /\ DOMAIN partsD = 1..M /\ \A k \in 1..M : partsD[k] = GridOf(doc, p + k - 1) /\ Table(partsD[k])
    <3>1. p \in DOMAIN doc /\ Doc(doc)
      BY <1>1
    <3> HIDE DEF e, n
    <3> QED
      BY <3>1, SectionPartsAre
  <2> HIDE DEF partsD, n
  <2> QED
    BY <2>1, <2>2
<1>9. /\ SectionGrid(s, 1) = FlattenSeq(partsS) /\ Table(partsS) /\ Len(partsS) = n
      /\ DOMAIN partsS = 1..n /\ \A k \in 1..n : partsS[k] = GridOf(s, k) /\ Table(partsS[k])
  <2>1. SectionEnd(s, 1) + 1 - 1 = n /\ \A k \in 1..n : 1 + k - 1 = k
    BY <1>3, <1>6
  <2>2. LET M == SectionEnd(s, 1) + 1 - 1 IN
        /\ SectionGrid(s, 1) = FlattenSeq(partsS) /\ Table(partsS) /\ Len(partsS) = M
        /\ DOMAIN partsS = 1..M /\ \A k \in 1..M : partsS[k] = GridOf(s, 1 + k - 1) /\ Table(partsS[k])
    BY <1>5, <1>6, SectionPartsAre
  <2> HIDE DEF partsS, n
  <2> QED
    BY <2>1, <2>2
<1> HIDE DEF partsD, partsS
<1>10. ASSUME NEW k \in 1..n PROVE Alike(partsS[k], partsD[k])
  <2>1. s[k] = doc[p + k - 1] /\ p + k - 1 \in DOMAIN doc /\ k \in DOMAIN s
    BY <1>1, <1>3, <1>4
  <2> DEFINE m == p + k - 1
  <2> HIDE DEF m, n
  <2>2. Len(GridOf(s, k)) = Len(s[k]) /\ Len(GridOf(doc, m)) = Len(doc[m])
    BY <1>1, <1>5, <2>1, GridIs DEF m
  <2>3. \A i \in DOMAIN GridOf(s, k) : GridOf(s, k)[i].text = GridOf(doc, m)[i].text
    BY <2>1 DEF GridOf, m
  <2> QED
    BY <1>8, <1>9, <2>1, <2>2, <2>3 DEF Alike, m
<1>11. Alike(SectionGrid(s, 1), SectionGrid(doc, p))
  <2> HIDE DEF n
  <2>1. \A i \in DOMAIN partsS : Alike(partsS[i], partsD[i])
    BY <1>9, <1>10
  <2>2. Table(partsS) /\ Table(partsD) /\ Len(partsS) = Len(partsD)
    BY <1>8, <1>9
  <2>3. Alike(FlattenSeq(partsS), FlattenSeq(partsD))
    BY <2>1, <2>2, FlattenAlike
  <2> QED
    BY <1>8, <1>9, <2>3
<1>12. SectionPath(s, 1) = SectionPath(doc, p)
  <2>1. s[1] = doc[p]
    <3>1. 1 \in 1..n /\ p + 1 - 1 = p
      BY <1>1, <1>3, <1>6
    <3> QED
      BY <1>3, <3>1
  <2> QED
    BY <2>1 DEF SectionPath
<1> DEFINE mine == SplitWindows(SectionPath(s, 1), SectionGrid(s, 1), MdMax, MdOverlap)
           there == SplitWindows(SectionPath(doc, p), SectionGrid(doc, p), MdMax, MdOverlap)
<1>13. IdTexts(mine) \subseteq IdTexts(there)
  <2>1. MdOverlap \in 0..100
    BY ChunkingAssumption
  <2> QED
    BY <1>11, <1>12, <2>1, SplitAlike
<1>14. ToSet(there) \subseteq ToSet(ChunkMarkdown(doc))
  <2>1. there = MarkdownParts(doc)[p] /\ p \in DOMAIN doc
    BY <1>1 DEF MarkdownParts
  <2>2. /\ ChunkMarkdown(doc) = FlattenSeq(MarkdownParts(doc)) /\ Table(MarkdownParts(doc))
        /\ DOMAIN MarkdownParts(doc) = DOMAIN doc
        /\ \A k \in DOMAIN doc : Table(MarkdownParts(doc)[k])
    BY <1>1, MarkdownPartsAre
  <2> HIDE DEF there
  <2>3. ToSet(ChunkMarkdown(doc)) = UNION {ToSet(MarkdownParts(doc)[k]) : k \in DOMAIN doc}
    BY <2>2, FlattenedElements
  <2> QED
    BY <2>1, <2>3
<1> HIDE DEF there
<1>15. IdTexts(ChunkMarkdown(s)) = IdTexts(mine)
  BY <1>6 DEF IdTexts
<1> HIDE DEF mine
<1>16. IdTexts(there) \subseteq IdTexts(ChunkMarkdown(doc))
  BY <1>14 DEF IdTexts
<1> QED
  BY <1>13, <1>15, <1>16

-----------------------------------------------------------------------------
(* The order of the results: every candidate has its own place.            *)

Before(score, d, c) == score[d] > score[c] \/ (score[d] = score[c] /\ d.chunk < c.chunk)
Ahead(cands, score, c) == {d \in cands : Before(score, d, c)}

Scored(cands, score) ==
    /\ IsFiniteSet(cands)
    /\ \A c \in cands : score[c] \in Int /\ c.chunk \in Int
    /\ \A c, d \in cands : c.chunk = d.chunk => c = d

LEMMA AheadGrows ==
    ASSUME NEW cands, NEW score, Scored(cands, score), NEW c \in cands, NEW d \in cands,
           Before(score, c, d)
    PROVE  Cardinality(Ahead(cands, score, c)) < Cardinality(Ahead(cands, score, d))
<1> DEFINE A(x) == Ahead(cands, score, x)
<1>1. IsFiniteSet(A(d))
  <2>1. A(d) \in SUBSET cands
    BY DEF Ahead
  <2> QED
    BY <2>1, FS_Subset DEF Scored
<1>2. A(c) \in SUBSET A(d)
  <2>1. ASSUME NEW e \in cands, Before(score, e, c) PROVE Before(score, e, d)
    BY <2>1 DEF Before, Scored
  <2> QED
    BY <2>1 DEF Ahead
<1>3. c \in A(d) /\ c \notin A(c)
  BY DEF Ahead, Before, Scored
<1> HIDE DEF A
<1>4. A(c) # A(d)
  BY <1>3
<1>5. Cardinality(A(c)) < Cardinality(A(d))
  <2>1. /\ IsFiniteSet(A(c)) /\ Cardinality(A(c)) <= Cardinality(A(d))
        /\ Cardinality(A(d)) = Cardinality(A(c)) => A(d) = A(c)
    BY <1>1, <1>2, FS_Subset
  <2>2. Cardinality(A(c)) \in Nat /\ Cardinality(A(d)) \in Nat
    BY <1>1, <2>1, FS_CardinalityType
  <2> QED
    BY <1>4, <2>1, <2>2
<1> QED
  BY <1>5 DEF A

\* The candidates of a set that come before all others have the first places.
LEMMA FirstPlaces ==
    ASSUME NEW cands, NEW score, Scored(cands, score), NEW D, D \in SUBSET cands,
           \A c \in D : \A d \in cands \ D : Before(score, c, d)
    PROVE  /\ IsFiniteSet(D) /\ Cardinality(D) \in Nat
           /\ \A c \in D : Cardinality(Ahead(cands, score, c)) + 1 \in 1..Cardinality(D)
<1>1. IsFiniteSet(D) /\ Cardinality(D) \in Nat
  <2>1. IsFiniteSet(D)
    BY FS_Subset DEF Scored
  <2> QED
    BY <2>1, FS_CardinalityType
<1>2. ASSUME NEW c \in D PROVE Cardinality(Ahead(cands, score, c)) + 1 \in 1..Cardinality(D)
  <2> DEFINE A == Ahead(cands, score, c)
             E == D \ {c}
  <2>1. \A d \in cands \ D : ~Before(score, d, c)
    <3>1. ASSUME NEW d \in cands \ D PROVE ~Before(score, d, c)
      <4>1. Before(score, c, d) /\ c \in cands /\ d \in cands
        OBVIOUS
      <4> QED
        BY <4>1 DEF Before, Scored
    <3> QED
      BY <3>1
  <2>2. ~Before(score, c, c)
    BY DEF Before, Scored
  <2>3. A \in SUBSET E
    BY <2>1, <2>2 DEF Ahead
  <2>4. IsFiniteSet(E) /\ Cardinality(E) = Cardinality(D) - 1
    BY <1>1, FS_RemoveElement
  <2> HIDE DEF A, E
  <2>5. IsFiniteSet(A) /\ Cardinality(A) <= Cardinality(E)
    BY <2>3, <2>4, FS_Subset
  <2>6. Cardinality(A) \in Nat
    BY <2>5, FS_CardinalityType
  <2>7. Cardinality(A) + 1 \in 1..Cardinality(D)
    BY <1>1, <2>4, <2>5, <2>6
  <2> QED
    BY <2>7 DEF A
<1> QED
  BY <1>1, <1>2

LEMMA PlacesDiffer ==
    ASSUME NEW cands, NEW score, Scored(cands, score), NEW c \in cands, NEW d \in cands,
           Cardinality(Ahead(cands, score, c)) = Cardinality(Ahead(cands, score, d))
    PROVE  c = d
<1>1. Before(score, c, d) \/ Before(score, d, c) \/ c = d
  BY DEF Before, Scored
<1>2. \A x \in cands : Cardinality(Ahead(cands, score, x)) \in Nat
  <2>1. ASSUME NEW x \in cands PROVE Cardinality(Ahead(cands, score, x)) \in Nat
    <3>1. Ahead(cands, score, x) \in SUBSET cands
      BY DEF Ahead
    <3>2. IsFiniteSet(Ahead(cands, score, x))
      BY <3>1, FS_Subset DEF Scored
    <3> QED
      BY <3>2, FS_CardinalityType
  <2> QED
    BY <2>1
<1>3. ASSUME Before(score, c, d) PROVE FALSE
  <2>1. Cardinality(Ahead(cands, score, c)) < Cardinality(Ahead(cands, score, d))
    BY <1>3, AheadGrows
  <2> QED
    BY <1>2, <2>1
<1>4. ASSUME Before(score, d, c) PROVE FALSE
  <2>1. Cardinality(Ahead(cands, score, d)) < Cardinality(Ahead(cands, score, c))
    BY <1>4, AheadGrows
  <2> QED
    BY <1>2, <2>1
<1> QED
  BY <1>1, <1>3, <1>4

\* What Ordered gives: a table of the candidates, each once, the first ones first.
InOrder(cands, score, order) ==
    /\ Table(order) /\ DOMAIN order = 1..Cardinality(cands) /\ Len(order) = Cardinality(cands)
    /\ \A k \in DOMAIN order :
          order[k] \in cands /\ Cardinality(Ahead(cands, score, order[k])) + 1 = k
    /\ \A c \in cands : \E k \in DOMAIN order : order[k] = c
    /\ \A i, j \in DOMAIN order : order[i] = order[j] => i = j

LEMMA OrderedIs ==
    ASSUME NEW cands, NEW score, Scored(cands, score)
    PROVE  InOrder(cands, score, Ordered(cands, score))
<1> DEFINE n == Cardinality(cands)
           at == [c \in cands |-> Cardinality(Ahead(cands, score, c)) + 1]
           order == Ordered(cands, score)
<1>1. n \in Nat
  BY FS_CardinalityType DEF Scored
<1>2. \A c \in cands : at[c] \in 1..n
  <2>1. cands \in SUBSET cands /\ \A c \in cands : \A d \in cands \ cands : Before(score, c, d)
    OBVIOUS
  <2>2. \A c \in cands : Cardinality(Ahead(cands, score, c)) + 1 \in 1..Cardinality(cands)
    BY <2>1, FirstPlaces
  <2> QED
    BY <2>2
<1>3. \A c, d \in cands : at[c] = at[d] => c = d
  <2>1. ASSUME NEW c \in cands, NEW d \in cands, at[c] = at[d] PROVE c = d
    <3>1. /\ Cardinality(Ahead(cands, score, c)) + 1 \in Nat
          /\ Cardinality(Ahead(cands, score, d)) + 1 \in Nat
      BY <1>2
    <3>2. \A x \in {c, d} : Cardinality(Ahead(cands, score, x)) \in Nat
      <4>1. ASSUME NEW x \in {c, d} PROVE Cardinality(Ahead(cands, score, x)) \in Nat
        <5>1. Ahead(cands, score, x) \in SUBSET cands
          BY DEF Ahead
        <5>2. IsFiniteSet(Ahead(cands, score, x))
          BY <5>1, FS_Subset DEF Scored
        <5> QED
          BY <5>2, FS_CardinalityType
      <4> QED
        BY <4>1
    <3>3. Cardinality(Ahead(cands, score, c)) + 1 = Cardinality(Ahead(cands, score, d)) + 1
      BY <2>1
    <3>4. Cardinality(Ahead(cands, score, c)) = Cardinality(Ahead(cands, score, d))
      BY <3>2, <3>3
    <3> QED
      BY <3>4, PlacesDiffer
  <2> QED
    BY <2>1
<1>4. order = [k \in 1..n |-> CHOOSE c \in cands : Cardinality(Ahead(cands, score, c)) = k - 1]
  BY DEF Ordered, Ahead, Before
<1>5. \A c \in cands : Cardinality(Ahead(cands, score, c)) = at[c] - 1
  <2>1. ASSUME NEW c \in cands PROVE Cardinality(Ahead(cands, score, c)) = at[c] - 1
    <3>1. Ahead(cands, score, c) \in SUBSET cands
      BY DEF Ahead
    <3>2. IsFiniteSet(Ahead(cands, score, c))
      BY <3>1, FS_Subset DEF Scored
    <3>3. Cardinality(Ahead(cands, score, c)) \in Nat
      BY <3>2, FS_CardinalityType
    <3>4. at[c] = Cardinality(Ahead(cands, score, c)) + 1
      OBVIOUS
    <3> HIDE DEF at
    <3> QED
      BY <3>3, <3>4
  <2> QED
    BY <2>1
<1>6. \A c \in cands : Cardinality(Ahead(cands, score, c)) + 1 = at[c]
  OBVIOUS
<1> HIDE DEF at, order
<1>7. \A k \in 1..n : \E c \in cands : at[c] = k
  <2>1. n <= Cardinality(cands)
    BY <1>1
  <2> HIDE DEF n
  <2> QED
    BY <1>1, <1>2, <1>3, <2>1, Filled
<1>8. ASSUME NEW k \in 1..n PROVE order[k] \in cands /\ at[order[k]] = k
  <2>1. order[k] = CHOOSE c \in cands : Cardinality(Ahead(cands, score, c)) = k - 1
    BY <1>4
  <2>2. \E c \in cands : Cardinality(Ahead(cands, score, c)) = k - 1
    BY <1>5, <1>7
  <2>3. order[k] \in cands /\ Cardinality(Ahead(cands, score, order[k])) = k - 1
    BY <2>1, <2>2
  <2>4. at[order[k]] - 1 = k - 1 /\ at[order[k]] \in 1..n
    BY <1>2, <1>5, <2>3
  <2> HIDE DEF n
  <2> QED
    BY <1>1, <2>3, <2>4
<1>9. Table(order) /\ DOMAIN order = 1..n /\ Len(order) = n
  <2>1. DOMAIN order = 1..n /\ order = [k \in 1..n |-> order[k]]
    BY <1>4
  <2> HIDE DEF n
  <2> QED
    BY <1>1, <2>1, TableFrom
<1>10. \A c \in cands : \E k \in DOMAIN order : order[k] = c
  <2>1. ASSUME NEW c \in cands PROVE \E k \in DOMAIN order : order[k] = c
    <3>1. at[c] \in 1..n
      BY <1>2
    <3>2. order[at[c]] \in cands /\ at[order[at[c]]] = at[c]
      BY <1>8, <3>1
    <3>3. order[at[c]] = c
      BY <1>3, <3>2
    <3> QED
      BY <1>9, <3>1, <3>3
  <2> QED
    BY <2>1
<1>11. \A i, j \in DOMAIN order : order[i] = order[j] => i = j
  BY <1>8, <1>9
<1>12. \A k \in DOMAIN order : order[k] \in cands /\ Cardinality(Ahead(cands, score, order[k])) + 1 = k
  BY <1>6, <1>8, <1>9
<1> QED
  BY <1>9, <1>10, <1>11, <1>12 DEF InOrder, order, n
-----------------------------------------------------------------------------
(* Which artifacts the first places go to.                                 *)

\* The candidates with the diversity term: the first of each artifact.
Firsts(order) == {order[k] : k \in {k \in DOMAIN order : Diversity(order, k) = 1}}

LEMMA FirstsOf ==
    ASSUME NEW cands, NEW score, Scored(cands, score), NEW order, InOrder(cands, score, order)
    PROVE  /\ Firsts(order) \in SUBSET cands
           /\ \A c \in cands : \E d \in Firsts(order) : d.artifact = c.artifact
           /\ \A c, d \in Firsts(order) : c.artifact = d.artifact => c = d
<1>1. DOMAIN order \subseteq Nat
  BY TableFacts DEF InOrder
<1>2. Firsts(order) \in SUBSET cands
  BY DEF Firsts, InOrder
<1>3. ASSUME NEW c \in cands PROVE \E d \in Firsts(order) : d.artifact = c.artifact
  <2> DEFINE S == {k \in DOMAIN order : order[k].artifact = c.artifact}
  <2>1. PICK k \in DOMAIN order : order[k] = c
    BY DEF InOrder
  <2>2. S \subseteq Nat /\ S # {}
    BY <1>1, <2>1
  <2> HIDE DEF S
  <2>3. PICK m \in S : \A l \in S : m <= l
    BY <2>2, Least
  <2>4. m \in DOMAIN order /\ m \in Nat /\ order[m].artifact = c.artifact
    BY <2>2, <2>3 DEF S
  <2>5. \A i \in 1..m - 1 : order[i].artifact # order[m].artifact
    <3>1. ASSUME NEW i \in 1..m - 1, order[i].artifact = order[m].artifact PROVE FALSE
      <4>1. DOMAIN order = 1..Len(order) /\ Len(order) \in Nat
        BY TableFacts DEF InOrder
      <4>2. i \in DOMAIN order
        BY <2>4, <4>1
      <4>3. i \in S
        BY <2>4, <3>1, <4>2 DEF S
      <4> QED
        BY <2>3, <2>4, <4>3
    <3> QED
      BY <3>1
  <2>6. Diversity(order, m) = 1
    BY <2>5 DEF Diversity
  <2> QED
    BY <2>4, <2>6 DEF Firsts
<1>4. ASSUME NEW i \in DOMAIN order, NEW j \in DOMAIN order, Diversity(order, i) = 1, Diversity(order, j) = 1,
             order[i].artifact = order[j].artifact
      PROVE  i = j
  <2>1. i \in Nat /\ j \in Nat /\ i >= 1 /\ j >= 1
    <3>1. DOMAIN order = 1..Len(order) /\ Len(order) \in Nat
      BY TableFacts DEF InOrder
    <3> QED
      BY <3>1
  <2>2. ~(i \in 1..j - 1) /\ ~(j \in 1..i - 1)
    BY <1>4 DEF Diversity
  <2> QED
    BY <2>1, <2>2
<1>5. \A c, d \in Firsts(order) : c.artifact = d.artifact => c = d
  BY <1>4 DEF Firsts
<1> QED
  BY <1>2, <1>3, <1>5

ArtifactsOf(cands) == {c.artifact : c \in cands}
Taken(rows, m) == {rows[k].artifact : k \in 1..m}

LEMMA DistinctArtifacts ==
    ASSUME NEW s, NEW m \in Nat, \A i, j \in 1..m : s[i].artifact = s[j].artifact => i = j
    PROVE  Cardinality(Taken(s, m)) = m
<1> DEFINE T == {s[k].artifact : k \in 1..m}
           g == [k \in 1..m |-> s[k].artifact]
<1>1. g \in [1..m -> T] /\ \A t \in T : \E i \in 1..m : g[i] = t
  OBVIOUS
<1>2. \A i, j \in 1..m : g[i] = g[j] => i = j
  OBVIOUS
<1> HIDE DEF g, T
<1>3. Cardinality(T) = m
  BY <1>1, <1>2, ManyDistinct
<1> QED
  BY <1>3 DEF T, Taken

\* The first m of an order in which the firsts of their artifacts come first.
LEMMA FirstArtifacts ==
    ASSUME NEW cands, NEW score, Scored(cands, score), NEW ranked, InOrder(cands, score, ranked),
           NEW D, D \in SUBSET cands, \A c \in D : \A d \in cands \ D : Before(score, c, d),
           \A c \in cands : \E d \in D : d.artifact = c.artifact,
           \A c, d \in D : c.artifact = d.artifact => c = d,
           NEW limit \in Nat, NEW m, m = Min({limit, Cardinality(cands)})
    PROVE  Cardinality(Taken(ranked, m))
              = Min({limit, Cardinality(ArtifactsOf(cands))})
<1> DEFINE n == Cardinality(cands)
           a == Cardinality(D)
           found == Taken(ranked, m)
           artifacts == ArtifactsOf(cands)
<1>1. n \in Nat /\ a \in Nat /\ IsFiniteSet(D) /\ a <= n
  <2>1. IsFiniteSet(D) /\ a <= n
    BY FS_Subset DEF Scored
  <2> QED
    BY <2>1, FS_CardinalityType DEF Scored
<1>2. \A c \in D : Cardinality(Ahead(cands, score, c)) + 1 \in 1..a
  BY FirstPlaces
<1>3. DOMAIN ranked = 1..n
  BY DEF InOrder
<1>4. ASSUME NEW k \in 1..a PROVE k \in 1..n /\ ranked[k] \in D
  <2> DEFINE at == [c \in D |-> Cardinality(Ahead(cands, score, c)) + 1]
  <2>1. \A c \in D : at[c] \in 1..a
    BY <1>2
  <2>2. \A c, d \in D : at[c] = at[d] => c = d
    <3>1. ASSUME NEW c \in D, NEW d \in D, at[c] = at[d] PROVE c = d
      <4>1. PICK i \in DOMAIN ranked : ranked[i] = c
        BY DEF InOrder
      <4>2. PICK j \in DOMAIN ranked : ranked[j] = d
        BY DEF InOrder
      <4>3. at[c] = i /\ at[d] = j
        BY <4>1, <4>2 DEF InOrder
      <4> QED
        BY <3>1, <4>1, <4>2, <4>3
    <3> QED
      BY <3>1
  <2>3. a <= Cardinality(D)
    BY <1>1
  <2>4. PICK c \in D : at[c] = k
    <3> HIDE DEF at, a
    <3>1. \A b \in 1..a : \E x \in D : at[x] = b
      BY <1>1, <2>1, <2>2, <2>3, Filled
    <3> QED
      BY <3>1
  <2>5. PICK i \in DOMAIN ranked : ranked[i] = c
    BY DEF InOrder
  <2>6. i = k
    BY <2>4, <2>5 DEF InOrder
  <2> QED
    BY <1>3, <2>5, <2>6
<1>5. IsFiniteSet(artifacts) /\ Cardinality(artifacts) = a
  <2> DEFINE f == [x \in artifacts |-> CHOOSE d \in D : d.artifact = x]
  <2>1. \A x \in artifacts : f[x] \in D /\ f[x].artifact = x
    BY DEF ArtifactsOf
  <2>2. \A d \in D : d.artifact \in artifacts
    BY DEF ArtifactsOf
  <2>3. \A d \in D : f[d.artifact] = d
    BY <2>1, <2>2
  <2>4. \A x \in artifacts : f[x] \in D
    BY <2>1
  <2>5. \A x, y \in artifacts : f[x] = f[y] => x = y
    BY <2>1
  <2>6. \A d \in D : \E x \in artifacts : f[x] = d
    BY <2>2, <2>3
  <2> HIDE DEF f, artifacts
  <2> QED
    BY <1>1, <2>4, <2>5, <2>6, Matched
<1>6. /\ m \in Nat /\ m <= n /\ m <= limit /\ (m = n \/ m = limit)
  <2>1. {limit, n} \in SUBSET Nat /\ {limit, n} # {}
    BY <1>1
  <2>2. Min({limit, n}) \in {limit, n} /\ \A k \in {limit, n} : Min({limit, n}) <= k
    BY <2>1, Smallest
  <2> QED
    BY <1>1, <2>2
<1>7. Min({limit, a}) = IF limit <= a THEN limit ELSE a
  <2>1. {limit, a} \in SUBSET Nat /\ {limit, a} # {}
    BY <1>1
  <2>2. Min({limit, a}) \in {limit, a} /\ \A k \in {limit, a} : Min({limit, a}) <= k
    BY <2>1, Smallest
  <2> HIDE DEF a
  <2> QED
    BY <1>1, <2>2
<1>8. CASE m > a
  <2>1. found \subseteq artifacts
    BY <1>3, <1>6 DEF InOrder, Taken, ArtifactsOf
  <2>2. ASSUME NEW x \in artifacts PROVE x \in found
    <3>1. PICK d \in D : d.artifact = x
      BY DEF ArtifactsOf
    <3>2. PICK i \in DOMAIN ranked : ranked[i] = d
      BY DEF InOrder
    <3>3. i = Cardinality(Ahead(cands, score, d)) + 1
      BY <3>2 DEF InOrder
    <3>4. i \in 1..a
      BY <1>2, <3>3
    <3>5. i \in 1..m
      BY <1>1, <1>6, <1>8, <3>4
    <3> QED
      BY <3>1, <3>2, <3>5 DEF Taken
  <2>3. found = artifacts
    BY <2>1, <2>2
  <2>4. ~(limit <= a)
    <3> HIDE DEF a, n
    <3> QED
      BY <1>1, <1>6, <1>8
  <2> QED
    BY <1>5, <1>7, <2>3, <2>4
<1>9. CASE m <= a
  <2>1. \A k \in 1..m : ranked[k] \in D
    <3>1. \A k \in 1..m : k \in 1..a
      BY <1>1, <1>6, <1>9
    <3> QED
      BY <1>4, <3>1
  <2>2. \A i, j \in 1..m : ranked[i].artifact = ranked[j].artifact => i = j
    <3>1. \A k \in 1..m : k \in DOMAIN ranked
      BY <1>1, <1>3, <1>6
    <3> QED
      BY <2>1, <3>1 DEF InOrder
  <2>3. Cardinality(found) = m
    BY <1>6, <2>2, DistinctArtifacts
  <2>4. m = IF limit <= a THEN limit ELSE a
    <3> HIDE DEF a, n
    <3> QED
      BY <1>1, <1>6, <1>9
  <2> QED
    BY <1>5, <1>7, <2>3, <2>4
<1>10. m > a \/ m <= a
  BY <1>1, <1>6
<1> QED
  BY <1>8, <1>9, <1>10
-----------------------------------------------------------------------------
(* The rows that match are finitely many, each of its own chunk.           *)

Matching ==
    /\ IsFiniteSet(matches)
    /\ \A m \in matches : m \in UNION {Row(id) : id \in ChunkId}
    /\ \A m, n \in matches : m.chunk = n.chunk => m = n

LEMMA MatchingHolds == Spec => []Matching
<1>1. Init => Matching
  BY FS_EmptySet DEF Init, Matching
<1>2. ASSUME Matching, [Next]_vars PROVE Matching'
  <2>1. CASE UNCHANGED matches
    BY <1>2, <2>1 DEF Matching
  <2>2. CASE Found
    <3>0. PICK id \in ChunkId : \E row \in Row(id) :
             /\ \A m \in matches : m.chunk < id
             /\ matches' = matches \cup {row}
      BY <2>2 DEF Found
    <3>1. PICK row \in Row(id) :
             /\ \A m \in matches : m.chunk < id
             /\ matches' = matches \cup {row}
      BY <3>0
    <3>2. IsFiniteSet(matches')
      BY <1>2, <3>1, FS_AddElement DEF Matching
    <3>3. row.chunk = id /\ id \in Int
      BY RankingAssumption DEF Row
    <3>4. \A m \in matches : m.chunk \in Int
      BY <1>2, RankingAssumption DEF Matching, Row
    <3>5. \A m \in matches : m.chunk # row.chunk
      BY <3>1, <3>3, <3>4
    <3>6. \A m, n \in matches' : m.chunk = n.chunk => m = n
      BY <1>2, <3>1, <3>5 DEF Matching
    <3>7. \A m \in matches' : m \in UNION {Row(i) : i \in ChunkId}
      BY <1>2, <3>1 DEF Matching
    <3> QED
      BY <3>2, <3>6, <3>7 DEF Matching
  <2> QED
    BY <1>2, <2>1, <2>2 DEF Next, vars, EditParagraph, PrintParagraph, Reply, WriteLine, Match
<1> QED
  BY <1>1, <1>2, PTL DEF Spec

Ranked(cands) ==
    /\ IsFiniteSet(cands)
    /\ \A c \in cands : c.chunk \in Int /\ c.vec \in Int /\ c.raw \in Int
    /\ \A c, d \in cands : c.chunk = d.chunk => c = d

LEMMA CandidatesAre ==
    ASSUME Matching, NEW branch
    PROVE  Ranked(Candidates(branch))
<1> DEFINE cands == Candidates(branch)
           number(m) == [m EXCEPT !.vec = IF m \in VectorLeg(branch) THEN @ ELSE 0,
                                  !.raw = IF m \in KeywordLeg THEN @ ELSE 0]
           from == [c \in cands |-> CHOOSE m \in matches : c = number(m)]
<1>1. ASSUME NEW m \in matches
      PROVE  number(m).chunk = m.chunk /\ m.chunk \in Int /\ number(m).vec \in Int /\ number(m).raw \in Int
  <2>1. PICK id \in ChunkId : m \in Row(id)
    BY <1>1 DEF Matching
  <2> QED
    BY <2>1, RankingAssumption DEF Row
<1>2. \A c \in cands : \E m \in matches : c = number(m)
  BY DEF Candidates, KeywordLeg, VectorLeg
<1>3. \A c \in cands : from[c] \in matches /\ c = number(from[c])
  BY <1>2
<1> HIDE DEF from, cands, number
<1>4. \A c \in cands : c.chunk = from[c].chunk /\ c.chunk \in Int /\ c.vec \in Int /\ c.raw \in Int
  <2>1. ASSUME NEW c \in cands
        PROVE  c.chunk = from[c].chunk /\ c.chunk \in Int /\ c.vec \in Int /\ c.raw \in Int
    <3>1. from[c] \in matches /\ c = number(from[c])
      BY <1>3
    <3>2. /\ number(from[c]).chunk = from[c].chunk /\ from[c].chunk \in Int
          /\ number(from[c]).vec \in Int /\ number(from[c]).raw \in Int
      BY <1>1, <3>1
    <3> QED
      BY <3>1, <3>2
  <2> QED
    BY <2>1
<1>5. \A c, d \in cands : c.chunk = d.chunk => c = d
  <2>1. ASSUME NEW c \in cands, NEW d \in cands, c.chunk = d.chunk PROVE c = d
    <3>1. from[c].chunk = from[d].chunk /\ from[c] \in matches /\ from[d] \in matches
      BY <1>3, <1>4, <2>1
    <3>2. from[c] = from[d]
      BY <3>1 DEF Matching
    <3>3. c = number(from[c]) /\ d = number(from[d])
      BY <1>3
    <3> QED
      BY <3>2, <3>3
  <2> QED
    BY <2>1
<1>6. IsFiniteSet(cands)
  <2>1. IsFiniteSet(matches)
    BY DEF Matching
  <2>2. \A c \in cands : from[c] \in matches
    BY <1>3
  <2>3. \A c, d \in cands : from[c] = from[d] => c = d
    <3>1. ASSUME NEW c \in cands, NEW d \in cands, from[c] = from[d] PROVE c = d
      <4>1. c = number(from[c]) /\ d = number(from[d])
        BY <1>3
      <4> QED
        BY <3>1, <4>1
    <3> QED
      BY <3>1
  <2> QED
    BY <2>1, <2>2, <2>3, Injected
<1> QED
  BY <1>4, <1>5, <1>6 DEF Ranked, cands

\* Of candidates alike for both legs, the score tells the first of its artifact from the others.
LEMMA ScoreIs ==
    ASSUME NEW cands, NEW c \in cands, c.vec \in Int, c.raw \in Int,
           \A d \in cands : d.vec = c.vec /\ d.raw = c.raw
    PROVE  /\ Score(cands, c, 0) = 6 * c.vec + 3 * Exact
           /\ Score(cands, c, 1) = 6 * c.vec + 3 * Exact + Exact
<1> DEFINE raws == {d.raw : d \in cands}
           v == c.vec
<1>1. raws = {c.raw}
  OBVIOUS
<1>2. Max(raws) = c.raw /\ Min(raws) = c.raw
  <2> DEFINE r == c.raw
  <2>1. r \in Int
    OBVIOUS
  <2> HIDE DEF r
  <2>2. Max({r}) = r /\ Min({r}) = r
    BY <2>1 DEF Max, Min
  <2> QED
    BY <1>1, <2>2 DEF r
<1>3. Best(cands) = Worst(cands)
  BY <1>2 DEF Best, Worst
<1>4. Spread(cands) = 1 /\ Normed(cands, c) = 1
  BY <1>3 DEF Spread, Normed
<1>5. /\ Score(cands, c, 0) = 6 * v * 1 + 3 * 1 * Exact + 0 * 1 * Exact
      /\ Score(cands, c, 1) = 6 * v * 1 + 3 * 1 * Exact + 1 * 1 * Exact
  BY <1>4 DEF Score
<1>6. v \in Int /\ Exact \in Int
  BY RankingAssumption
<1> HIDE DEF v
<1>7. /\ Score(cands, c, 0) = 6 * v + 3 * Exact
      /\ Score(cands, c, 1) = 6 * v + 3 * Exact + Exact
  BY <1>5, <1>6
<1> QED
  BY <1>7 DEF v

-----------------------------------------------------------------------------
(* Sequences flattened, one an extension of the other.                     *)

LEMMA FlattenExtends ==
    ASSUME NEW ss, Table(ss), NEW tt, Table(tt), Len(ss) <= Len(tt),
           \A i \in DOMAIN ss : tt[i] = ss[i], \A i \in DOMAIN tt : Table(tt[i])
    PROVE  \E rest : Table(rest) /\ FlattenSeq(tt) = FlattenSeq(ss) \o rest
<1> DEFINE m == Len(ss)
           n == Len(tt)
<1>1. m \in Nat /\ n \in Nat /\ m <= n /\ DOMAIN ss = 1..m /\ DOMAIN tt = 1..n
  BY TableFacts
<1>2. CASE m = 0
  <2>1. \A k \in DOMAIN ss : ss[k] = <<>>
    BY <1>1, <1>2
  <2>2. FlattenSeq(ss) = <<>>
    BY <2>1, NothingPicked
  <2>3. Table(FlattenSeq(tt))
    BY FlattenPlaces
  <2>4. FlattenSeq(tt) = <<>> \o FlattenSeq(tt)
    BY <2>3, JoinNothing
  <2> QED
    BY <2>2, <2>3, <2>4
<1>3. CASE m # 0
  <2>1. PICK f : FlattenSeq(ss) = f[m] /\ FlattensBy(ss, m, f)
    BY <1>1, <1>3, FlattenSteps
  <2>2. n # 0
    BY <1>1, <1>3
  <2>3. PICK g : FlattenSeq(tt) = g[n] /\ FlattensBy(tt, n, g)
    BY <1>1, <2>2, FlattenSteps
  <2> HIDE DEF m, n
  <2>4. /\ f[1] = ss[1] /\ \A i \in 1..(m - 1) : f[i + 1] = f[i] \o ss[i + 1]
        /\ g[1] = tt[1] /\ \A i \in 1..(n - 1) : g[i + 1] = g[i] \o tt[i + 1]
    BY <2>1, <2>3 DEF FlattensBy
  <2> DEFINE S == {i \in 0..(m - 1) : Table(f[i + 1]) /\ g[i + 1] = f[i + 1]}
  <2>5. 0 \in S
    <3>1. 1 \in DOMAIN ss /\ 1 \in DOMAIN tt
      BY <1>1, <1>3
    <3>2. f[1] = ss[1] /\ g[1] = f[1] /\ Table(f[1])
      BY <2>4, <3>1
    <3> QED
      BY <1>1, <1>3, <3>2
  <2>6. ASSUME NEW i \in 0..((m - 1) - 1), i \in S PROVE i + 1 \in S
    <3> DEFINE k == i + 1
    <3>1. k \in 1..(m - 1) /\ k \in 1..(n - 1) /\ k \in 0..(m - 1) /\ k + 1 \in DOMAIN ss /\ k + 1 \in DOMAIN tt
      BY <1>1
    <3>2. Table(f[k]) /\ g[k] = f[k]
      BY <2>6
    <3> HIDE DEF k, S
    <3>3. f[k + 1] = f[k] \o ss[k + 1] /\ g[k + 1] = g[k] \o tt[k + 1]
      BY <2>4, <3>1
    <3>4. tt[k + 1] = ss[k + 1] /\ Table(tt[k + 1])
      BY <3>1
    <3>5. Table(f[k] \o ss[k + 1])
      BY <3>2, <3>4, TableConcat
    <3>6. Table(f[k + 1]) /\ g[k + 1] = f[k + 1]
      BY <3>2, <3>3, <3>4, <3>5
    <3> QED
      BY <3>1, <3>6 DEF S, k
  <2>7. 0..(m - 1) \subseteq S
    <3>1. m - 1 \in Nat
      BY <1>1, <1>3
    <3> HIDE DEF S
    <3> QED
      BY <2>5, <2>6, <3>1, Induct
  <2>8. Table(f[m]) /\ g[m] = f[m]
    <3>1. m - 1 \in 0..(m - 1) /\ (m - 1) + 1 = m
      BY <1>1, <1>3
    <3>2. m - 1 \in S
      BY <2>7, <3>1
    <3> QED
      BY <3>1, <3>2
  <2> HIDE DEF S
  <2> DEFINE Q == {j \in 0..(n - m) : \E rest : Table(rest) /\ g[m + j] = f[m] \o rest}
  <2>9. 0 \in Q
    <3>1. g[m] = f[m] \o <<>>
      BY <2>8, JoinNothing
    <3>2. m + 0 = m /\ 0 \in 0..(n - m)
      BY <1>1
    <3> QED
      BY <3>1, <3>2, NoRow
  <2>10. ASSUME NEW j \in 0..((n - m) - 1), j \in Q PROVE j + 1 \in Q
    <3>1. PICK rest : Table(rest) /\ g[m + j] = f[m] \o rest
      BY <2>10
    <3>2. m + j \in 1..(n - 1) /\ (m + j) + 1 = m + (j + 1) /\ (m + j) + 1 \in DOMAIN tt /\ j + 1 \in 0..(n - m)
      BY <1>1, <1>3
    <3> DEFINE k == m + j
    <3>3. g[k + 1] = g[k] \o tt[k + 1] /\ Table(tt[k + 1])
      BY <2>4, <3>2
    <3>4. g[k] = f[m] \o rest
      BY <3>1
    <3> HIDE DEF k
    <3> DEFINE r == f[m]
               u == tt[k + 1]
               x == g[k]
               y == g[k + 1]
    <3>5. Table(r) /\ Table(rest) /\ Table(u) /\ x = r \o rest /\ y = x \o u
      BY <2>8, <3>1, <3>3, <3>4
    <3> HIDE DEF r, u, x, y
    <3>6. y = r \o (rest \o u) /\ Table(rest \o u)
      <4>1. (r \o rest) \o u = r \o (rest \o u)
        BY <3>5, JoinAssociates
      <4>2. Table(rest \o u)
        BY <3>5, TableConcat
      <4> QED
        BY <3>5, <4>1, <4>2
    <3>7. \E more : Table(more) /\ g[k + 1] = f[m] \o more
      BY <3>6 DEF r, y
    <3>8. k + 1 = m + (j + 1)
      BY <3>2 DEF k
    <3> QED
      BY <3>2, <3>7, <3>8
  <2>11. 0..(n - m) \subseteq Q
    <3>1. n - m \in Nat
      BY <1>1
    <3> HIDE DEF Q
    <3> QED
      BY <2>9, <2>10, <3>1, Induct
  <2>12. n - m \in 0..(n - m) /\ m + (n - m) = n
    BY <1>1
  <2>13. \E rest : Table(rest) /\ g[n] = f[m] \o rest
    BY <2>11, <2>12
  <2> QED
    BY <2>1, <2>3, <2>13
<1> QED
  BY <1>2, <1>3

LEMMA PrefixOf ==
    ASSUME NEW s, Table(s), NEW rest, Table(rest), NEW t, t = s \o rest
    PROVE  IsPrefix(s, t)
<1> DEFINE n == Len(s)
           one == 1
           a == SubSeq(s, one, n)
           b == SubSeq(t, one, n)
<1>1. /\ Table(t) /\ DOMAIN t = 1..n + Len(rest) /\ \A k \in DOMAIN s : t[k] = s[k]
      /\ n \in Nat /\ Len(rest) \in Nat /\ DOMAIN s = 1..n
  <2>1. Table(s \o rest) /\ DOMAIN (s \o rest) = 1..Len(s) + Len(rest)
    BY TableConcat
  <2>2. \A k \in DOMAIN s : (s \o rest)[k] = s[k]
    BY TableConcat
  <2>3. Len(s) \in Nat /\ Len(rest) \in Nat /\ DOMAIN s = 1..Len(s)
    BY TableFacts
  <2> QED
    BY <2>1, <2>2, <2>3
<1>2. Len(t) = n + Len(rest)
  <2>1. DOMAIN t = 1..Len(t) /\ Len(t) \in Nat
    BY <1>1, TableFacts
  <2>2. 1..Len(t) = 1..n + Len(rest) /\ n + Len(rest) \in Nat
    BY <1>1, <2>1
  <2> QED
    BY <2>1, <2>2, SameUpTo
<1>3. one \in 1..Len(s) + 1 /\ one \in 1..Len(t) + 1 /\ n \in 0..Len(s) /\ n \in 0..Len(t) /\ one <= n + 1
  BY <1>1, <1>2
<1>4. n + 1 - one = n /\ \A i \in 1..n : one + i - 1 = i
  BY <1>1
<1> HIDE DEF one, n
<1>5. LET u == SubSeq(s, one, n) IN
         Table(u) /\ DOMAIN u = 1..n + 1 - one /\ \A i \in 1..n + 1 - one : u[i] = s[one + i - 1]
  BY <1>3, StretchOf
<1>6. LET u == SubSeq(t, one, n) IN
         Table(u) /\ DOMAIN u = 1..n + 1 - one /\ \A i \in 1..n + 1 - one : u[i] = t[one + i - 1]
  BY <1>1, <1>3, StretchOf
<1>7. Table(a) /\ Table(b) /\ DOMAIN a = 1..n /\ DOMAIN b = 1..n
  BY <1>4, <1>5, <1>6
<1>8. \A i \in 1..n : a[i] = s[i] /\ b[i] = t[i]
  BY <1>4, <1>5, <1>6
<1> HIDE DEF a, b
<1>9. a = b
  <2>1. DOMAIN a = DOMAIN b /\ \A i \in DOMAIN a : a[i] = b[i]
    BY <1>1, <1>7, <1>8
  <2> QED
    BY <1>7, <2>1, TableEqual
<1>10. Len(s) <= Len(t)
  BY <1>1, <1>2 DEF n
<1> QED
  BY <1>9, <1>10 DEF IsPrefix, a, b, n, one

-----------------------------------------------------------------------------
(* Those of a sequence that are in a set.                                  *)

Spotted(path, S) == {k \in DOMAIN path : path[k] \in S}

LEMMA AmongIs ==
    ASSUME NEW path, Table(path), NEW S
    PROVE  \E at : Picks(Among(path, S), Spotted(path, S), path, at)
<1> DEFINE ss == [k \in DOMAIN path |-> IF path[k] \in S THEN <<path[k]>> ELSE <<>>]
<1>1. DOMAIN path = 1..Len(path) /\ Len(path) \in Nat
  BY TableFacts
<1>2. Table(ss) /\ DOMAIN ss = DOMAIN path
  BY <1>1, TableFrom
<1>3. \A k \in DOMAIN ss : ss[k] = IF k \in Spotted(path, S) THEN <<path[k]>> ELSE <<>>
  BY DEF Spotted
<1>4. Spotted(path, S) \subseteq DOMAIN ss
  BY DEF Spotted
<1>5. Among(path, S) = FlattenSeq(ss)
  BY DEF Among
<1> HIDE DEF ss
<1>6. \E at : Picks(FlattenSeq(ss), Spotted(path, S), path, at)
  BY <1>2, <1>3, <1>4, FlattenPicks
<1> QED
  BY <1>5, <1>6

Single(path) == \A k, l \in DOMAIN path : path[k] = path[l] => k = l

LEMMA AmongHas ==
    ASSUME NEW path, Table(path), NEW S
    PROVE  /\ Table(Among(path, S))
           /\ \A k \in DOMAIN Among(path, S) : Among(path, S)[k] \in S /\ \E i \in DOMAIN path : path[i] = Among(path, S)[k]
           /\ \A i \in DOMAIN path : path[i] \in S => \E k \in DOMAIN Among(path, S) : Among(path, S)[k] = path[i]
<1>1. PICK at : Picks(Among(path, S), Spotted(path, S), path, at)
  BY AmongIs
<1> DEFINE flat == Among(path, S)
<1> HIDE DEF flat
<1>2. Picks(flat, Spotted(path, S), path, at)
  BY <1>1 DEF flat
<1>3. /\ Table(flat)
      /\ \A k \in DOMAIN flat : flat[k] \in S /\ \E i \in DOMAIN path : path[i] = flat[k]
      /\ \A i \in DOMAIN path : path[i] \in S => \E k \in DOMAIN flat : flat[k] = path[i]
  BY <1>2 DEF Picks, Spotted
<1> QED
  BY <1>3 DEF flat

LEMMA AmongSingle ==
    ASSUME NEW path, Table(path), Single(path), NEW S
    PROVE  Single(Among(path, S))
<1>1. PICK at : Picks(Among(path, S), Spotted(path, S), path, at)
  BY AmongIs
<1> DEFINE flat == Among(path, S)
           D == Spotted(path, S)
<1> HIDE DEF flat, D
<1>2. Picks(flat, D, path, at)
  BY <1>1 DEF flat, D
<1>3. D \subseteq Int /\ D \subseteq DOMAIN path
  <2>1. DOMAIN path = 1..Len(path) /\ Len(path) \in Nat
    BY TableFacts
  <2> QED
    BY <2>1 DEF D, Spotted
<1>4. ASSUME NEW k \in DOMAIN flat, NEW l \in DOMAIN flat, flat[k] = flat[l] PROVE k = l
  <2>1. path[at[k]] = path[at[l]] /\ at[k] \in DOMAIN path /\ at[l] \in DOMAIN path
    BY <1>2, <1>3, <1>4 DEF Picks
  <2>2. at[k] = at[l]
    BY <2>1 DEF Single
  <2>3. DOMAIN flat = 1..Len(flat) /\ Len(flat) \in Nat
    BY <1>2, TableFacts DEF Picks
  <2>4. at[k] \in Int /\ at[l] \in Int
    BY <1>2, <1>3 DEF Picks
  <2>5. \A i, j \in DOMAIN flat : i < j => at[i] < at[j]
    BY <1>2 DEF Picks
  <2> QED
    BY <2>2, <2>3, <2>4, <2>5
<1>5. Single(flat)
  BY <1>4 DEF Single
<1> QED
  BY <1>5 DEF flat

LEMMA AmongExtends ==
    ASSUME NEW s, Table(s), NEW t, Table(t), Len(s) <= Len(t), \A k \in DOMAIN s : t[k] = s[k], NEW S
    PROVE  IsPrefix(Among(s, S), Among(t, S))
<1> DEFINE ss == [k \in DOMAIN s |-> IF s[k] \in S THEN <<s[k]>> ELSE <<>>]
           tt == [k \in DOMAIN t |-> IF t[k] \in S THEN <<t[k]>> ELSE <<>>]
<1>1. /\ DOMAIN s = 1..Len(s) /\ Len(s) \in Nat /\ DOMAIN t = 1..Len(t) /\ Len(t) \in Nat
  BY TableFacts
<1>2. Table(ss) /\ Len(ss) = Len(s)
  BY <1>1, TableFrom
<1>3. Table(tt) /\ Len(tt) = Len(t)
  BY <1>1, TableFrom
<1>4. \A k \in DOMAIN ss : tt[k] = ss[k]
  BY <1>1
<1>5. \A k \in DOMAIN tt : Table(tt[k])
  <2>1. ASSUME NEW k \in DOMAIN tt PROVE Table(tt[k])
    BY OneRow, NoRow
  <2> QED
    BY <2>1
<1>6. Among(s, S) = FlattenSeq(ss) /\ Among(t, S) = FlattenSeq(tt)
  BY DEF Among
<1> HIDE DEF ss, tt
<1>7. Len(ss) <= Len(tt)
  BY <1>2, <1>3
<1>8. PICK rest : Table(rest) /\ FlattenSeq(tt) = FlattenSeq(ss) \o rest
  BY <1>2, <1>3, <1>4, <1>5, <1>7, FlattenExtends
<1>9. Table(FlattenSeq(ss))
  BY <1>6, AmongHas
<1> QED
  BY <1>6, <1>8, <1>9, PrefixOf

-----------------------------------------------------------------------------
(* Threads of first replies.                                               *)

\* Every node is written after its parent.
Tree(nodes) ==
    Table(nodes) /\ \A n \in DOMAIN nodes : nodes[n].parent \in 0..n - 1 /\ nodes[n].kind \in NodeKind

LEMMA ChildrenAre ==
    ASSUME NEW nodes, Tree(nodes), NEW n
    PROVE  /\ Table(Children(nodes, n))
           /\ \A k \in DOMAIN Children(nodes, n) :
                 Children(nodes, n)[k] \in DOMAIN nodes /\ nodes[Children(nodes, n)[k]].parent = n
<1> DEFINE path == [m \in DOMAIN nodes |-> m]
           S == {m \in DOMAIN nodes : nodes[m].parent = n}
<1>1. Table(path)
  <2>1. Len(nodes) \in Nat /\ DOMAIN nodes = 1..Len(nodes)
    BY TableFacts DEF Tree
  <2> QED
    BY <2>1, TableFrom
<1>2. Children(nodes, n) = Among(path, S)
  BY DEF Children
<1>3. \A m \in S : m \in DOMAIN nodes /\ nodes[m].parent = n
  OBVIOUS
<1> HIDE DEF path, S
<1>4. Table(Among(path, S)) /\ \A k \in DOMAIN Among(path, S) : Among(path, S)[k] \in S
  BY <1>1, AmongHas
<1> QED
  BY <1>2, <1>3, <1>4

\* The first child, and whether there is one.
Followed(nodes, n) == Children(nodes, n) # <<>>
FirstReply(nodes, n) == Children(nodes, n)[1]

LEMMA FirstChild ==
    ASSUME NEW nodes, Tree(nodes), NEW n \in DOMAIN nodes, Followed(nodes, n)
    PROVE  FirstReply(nodes, n) \in n + 1..Len(nodes)
<1> DEFINE kids == Children(nodes, n)
           c == kids[1]
<1>1. Table(kids) /\ \A k \in DOMAIN kids : kids[k] \in DOMAIN nodes /\ nodes[kids[k]].parent = n
  BY ChildrenAre
<1>2. kids # <<>>
  BY DEF Followed
<1> HIDE DEF kids
<1>3. 1 \in DOMAIN kids
  <2>1. DOMAIN kids = 1..Len(kids) /\ Len(kids) \in Nat
    BY <1>1, TableFacts
  <2>2. DOMAIN kids # {}
    BY <1>1, <1>2, EmptyTable
  <2> QED
    BY <2>1, <2>2
<1>4. c \in DOMAIN nodes /\ nodes[c].parent = n
  BY <1>1, <1>3
<1>5. DOMAIN nodes = 1..Len(nodes) /\ Len(nodes) \in Nat
  BY TableFacts DEF Tree
<1> HIDE DEF c
<1>6. n \in 0..c - 1
  BY <1>4 DEF Tree
<1>7. c \in n + 1..Len(nodes)
  BY <1>4, <1>5, <1>6
<1> QED
  BY <1>7 DEF FirstReply, c, kids

Threading(nodes, D, f) ==
    f = [m \in D |-> <<m>> \o IF Followed(nodes, m) THEN f[FirstReply(nodes, m)] ELSE <<>>]

\* The last k nodes.
Latest(nodes, k) == Len(nodes) + 1 - k..Len(nodes)

LEMMA ThreadingExists ==
    ASSUME NEW nodes, Tree(nodes)
    PROVE  \E f : Threading(nodes, DOMAIN nodes, f)
<1> DEFINE N == Len(nodes)
           S == {k \in 0..N : \E f : Threading(nodes, Latest(nodes, k), f)}
<1>1. N \in Nat /\ DOMAIN nodes = 1..N
  BY TableFacts DEF Tree
<1> HIDE DEF N
<1>2. 0 \in S
  <2> DEFINE f == [m \in Latest(nodes, 0) |-> 0]
  <2>1. Latest(nodes, 0) = {}
    BY <1>1 DEF Latest, N
  <2>2. Threading(nodes, Latest(nodes, 0), f)
    BY <2>1 DEF Threading
  <2> HIDE DEF f
  <2> QED
    BY <1>1, <2>2
<1>3. ASSUME NEW k \in 0..N - 1, k \in S PROVE k + 1 \in S
  <2>1. PICK f : Threading(nodes, Latest(nodes, k), f)
    BY <1>3
  <2> DEFINE n == N - k
             D == Latest(nodes, k)
             E == Latest(nodes, k + 1)
             there(m) == <<m>> \o IF Followed(nodes, m) THEN f[FirstReply(nodes, m)] ELSE <<>>
             g == [m \in E |-> IF m = n THEN there(n) ELSE f[m]]
             here(m) == <<m>> \o IF Followed(nodes, m) THEN g[FirstReply(nodes, m)] ELSE <<>>
  <2>2. D = n + 1..N /\ E = n..N /\ E = {n} \cup D /\ n \notin D /\ n \in 1..N /\ k + 1 \in 0..N
    BY <1>1 DEF Latest, N
  <2>3. \A m \in D : f[m] = there(m)
    BY <2>1 DEF Threading
  <2>4. ASSUME NEW m \in E, Followed(nodes, m) PROVE FirstReply(nodes, m) \in D
    <3>1. m \in DOMAIN nodes
      BY <1>1, <2>2
    <3>2. FirstReply(nodes, m) \in m + 1..N
      BY <2>4, <3>1, FirstChild DEF N
    <3>3. FirstReply(nodes, m) \in n + 1..N
      BY <1>1, <2>2, <3>2
    <3> QED
      BY <2>2, <3>3
  <2> HIDE DEF n, D, E
  <2>5. \A m \in D : g[m] = f[m]
    BY <2>2
  <2>6. g[n] = there(n)
    BY <2>2
  <2>7. \A m \in E : there(m) = here(m)
    <3> HIDE DEF g
    <3> QED
      BY <2>4, <2>5
  <2>8. \A m \in E : g[m] = here(m)
    <3> HIDE DEF g, here, there
    <3> QED
      BY <2>2, <2>3, <2>5, <2>6, <2>7
  <2>9. g = [m \in E |-> g[m]]
    OBVIOUS
  <2> HIDE DEF g
  <2>10. g = [m \in E |-> here(m)]
    BY <2>8, <2>9
  <2>11. Threading(nodes, E, g)
    BY <2>10 DEF Threading
  <2> QED
    BY <2>2, <2>11 DEF E
<1>4. 0..N \subseteq S
  <2> HIDE DEF S
  <2> QED
    BY <1>1, <1>2, <1>3, Induct
<1>5. N \in S
  BY <1>1, <1>4
<1>6. Latest(nodes, N) = DOMAIN nodes
  BY <1>1 DEF Latest, N
<1> QED
  BY <1>5, <1>6

LEMMA ThreadIs ==
    ASSUME NEW nodes, Tree(nodes), NEW n \in DOMAIN nodes
    PROVE  Thread(nodes, n) = <<n>> \o IF Followed(nodes, n) THEN Thread(nodes, FirstReply(nodes, n)) ELSE <<>>
<1> DEFINE down == CHOOSE f : Threading(nodes, DOMAIN nodes, f)
<1>1. Threading(nodes, DOMAIN nodes, down)
  BY ThreadingExists
<1>2. \A m : Thread(nodes, m) = down[m]
  <2>1. down = CHOOSE f : f = [m \in DOMAIN nodes |->
              <<m>> \o IF Children(nodes, m) # <<>> THEN f[Children(nodes, m)[1]] ELSE <<>>]
    BY DEF Threading, Followed, FirstReply
  <2>2. down = CHOOSE f : f = [m \in DOMAIN nodes |->
              <<m>> \o IF Children(nodes, m) = <<>> THEN <<>> ELSE f[Children(nodes, m)[1]]]
    BY <2>1
  <2> HIDE DEF down
  <2> QED
    BY <2>2 DEF Thread
<1> HIDE DEF down
<1>3. down[n] = <<n>> \o IF Followed(nodes, n) THEN down[FirstReply(nodes, n)] ELSE <<>>
  BY <1>1 DEF Threading
<1> QED
  BY <1>2, <1>3

LEMMA JoinPlaces ==
    ASSUME NEW s, Table(s), NEW t, Table(t), NEW m, m = Len(s), NEW n, n = Len(t)
    PROVE  \A k \in 1..n : (s \o t)[m + k] = t[k]
BY TableConcat

LEMMA JoinStarts ==
    ASSUME NEW s, Table(s), NEW t, Table(t), NEW u, u = s \o t
    PROVE  \A k \in DOMAIN s : u[k] = s[k]
BY TableConcat

\* A path down from n, always to the first child, to a node without children.
Descends(nodes, n, s) ==
    /\ Table(s) /\ 1 \in DOMAIN s /\ s[1] = n
    /\ \A i \in DOMAIN s : s[i] \in DOMAIN nodes /\ n <= s[i]
    /\ \A i, j \in DOMAIN s : i < j => s[i] < s[j]
    /\ \A i \in DOMAIN s :
          Followed(nodes, s[i]) => i + 1 \in DOMAIN s /\ s[i + 1] = FirstReply(nodes, s[i])

LEMMA OneNode ==
    ASSUME NEW nodes, NEW n \in DOMAIN nodes, n \in Nat, ~Followed(nodes, n)
    PROVE  Descends(nodes, n, <<n>>)
<1> DEFINE s == <<n>>
<1>1. Table(s) /\ DOMAIN s = {1} /\ s[1] = n
  BY OneRow
<1> HIDE DEF s
<1>2. Descends(nodes, n, s)
  BY <1>1 DEF Descends
<1> QED
  BY <1>2 DEF s

LEMMA OneMoreNode ==
    ASSUME NEW nodes, Tree(nodes), NEW n \in DOMAIN nodes, Followed(nodes, n),
           NEW t, Descends(nodes, FirstReply(nodes, n), t)
    PROVE  Descends(nodes, n, <<n>> \o t)
<1> DEFINE c == FirstReply(nodes, n)
           one == <<n>>
           s == one \o t
           N == Len(nodes)
           L == Len(t)
<1>1. N \in Nat /\ DOMAIN nodes = 1..N
  BY TableFacts DEF Tree
<1>2. c \in n + 1..N /\ n \in 1..N
  BY <1>1, FirstChild
<1>3. /\ Table(t) /\ 1 \in DOMAIN t /\ t[1] = c
      /\ \A i \in DOMAIN t : t[i] \in DOMAIN nodes /\ c <= t[i]
      /\ \A i, j \in DOMAIN t : i < j => t[i] < t[j]
      /\ \A i \in DOMAIN t :
            Followed(nodes, t[i]) => i + 1 \in DOMAIN t /\ t[i + 1] = FirstReply(nodes, t[i])
  BY DEF Descends
<1>4. L \in Nat /\ DOMAIN t = 1..L
  BY <1>3, TableFacts
<1>5. Table(one) /\ Len(one) = 1 /\ DOMAIN one = {1} /\ one[1] = n
  BY OneRow
<1> HIDE DEF one
<1>6. Table(s) /\ DOMAIN s = 1..1 + L /\ s[1] = n /\ \A k \in 1..L : s[1 + k] = t[k]
  <2>1. Table(s) /\ DOMAIN s = 1..Len(one) + L
    BY <1>3, <1>5, TableConcat
  <2>2. \A k \in DOMAIN one : s[k] = one[k]
    BY <1>3, <1>5, TableConcat
  <2>3. \A k \in 1..L : s[Len(one) + k] = t[k]
    <3> DEFINE m == Len(one)
    <3>1. L = Len(t) /\ Table(t) /\ Table(one) /\ m = Len(one)
      BY <1>3, <1>5
    <3> HIDE DEF s, L, m
    <3>2. \A k \in 1..L : (one \o t)[m + k] = t[k]
      BY <3>1, JoinPlaces
    <3> QED
      BY <3>2 DEF m, s
  <2> QED
    BY <1>5, <2>1, <2>2, <2>3
<1> HIDE DEF s, L, N, c
<1>7. \A i \in DOMAIN s : i = 1 \/ (i - 1 \in DOMAIN t /\ i = 1 + (i - 1))
  BY <1>4, <1>6
<1>8. \A i \in DOMAIN s : i # 1 => i - 1 \in DOMAIN t /\ s[i] = t[i - 1]
  BY <1>4, <1>6, <1>7
<1>9. ASSUME NEW i \in DOMAIN s PROVE s[i] \in DOMAIN nodes /\ n <= s[i]
  <2>1. CASE i = 1
    BY <1>1, <1>2, <1>6, <2>1
  <2>2. CASE i # 1
    <3>1. s[i] = t[i - 1] /\ i - 1 \in DOMAIN t
      BY <1>8, <2>2
    <3>2. s[i] \in 1..N /\ c <= s[i]
      BY <1>1, <1>3, <3>1
    <3> QED
      BY <1>1, <1>2, <3>2
  <2> QED
    BY <2>1, <2>2
<1>10. ASSUME NEW i \in DOMAIN s, NEW j \in DOMAIN s, i < j PROVE s[i] < s[j]
  <2>1. j # 1 /\ i \in Nat /\ j \in Nat
    BY <1>4, <1>6, <1>10
  <2>2. s[j] = t[j - 1] /\ j - 1 \in DOMAIN t
    BY <1>8, <2>1
  <2>3. CASE i = 1
    <3>1. s[j] \in 1..N /\ c <= s[j] /\ s[i] = n
      BY <1>1, <1>3, <1>6, <2>2, <2>3
    <3> QED
      BY <1>1, <1>2, <3>1
  <2>4. CASE i # 1
    <3>1. s[i] = t[i - 1] /\ i - 1 \in DOMAIN t
      BY <1>8, <2>4
    <3>2. i - 1 < j - 1
      BY <1>10, <2>1
    <3> QED
      BY <1>3, <2>2, <3>1, <3>2
  <2> QED
    BY <2>3, <2>4
<1>11. ASSUME NEW i \in DOMAIN s, Followed(nodes, s[i])
       PROVE  i + 1 \in DOMAIN s /\ s[i + 1] = FirstReply(nodes, s[i])
  <2>1. CASE i = 1
    <3>1. i + 1 \in DOMAIN s /\ s[i + 1] = t[1]
      BY <1>3, <1>4, <1>6, <2>1
    <3> QED
      BY <1>3, <1>6, <2>1, <3>1 DEF c
  <2>2. CASE i # 1
    <3> DEFINE k == i - 1
    <3>1. s[i] = t[k] /\ k \in DOMAIN t
      BY <1>8, <2>2
    <3>2. k + 1 \in DOMAIN t /\ t[k + 1] = FirstReply(nodes, t[k])
      <4> HIDE DEF k
      <4> QED
        BY <1>3, <1>11, <3>1
    <3>3. 1 + (k + 1) = i + 1 /\ i + 1 \in DOMAIN s
      BY <1>4, <1>6, <3>2
    <3>4. s[i + 1] = t[k + 1]
      <4> HIDE DEF k
      <4> QED
        BY <1>4, <1>6, <3>2, <3>3
    <3> QED
      BY <3>1, <3>2, <3>3, <3>4
  <2> QED
    BY <2>1, <2>2
<1>12. 1 \in DOMAIN s
  BY <1>4, <1>6
<1>13. Descends(nodes, n, s)
  BY <1>6, <1>9, <1>10, <1>11, <1>12 DEF Descends
<1> QED
  BY <1>13 DEF s, one

LEMMA ThreadDescends ==
    ASSUME NEW nodes, Tree(nodes)
    PROVE  \A n \in DOMAIN nodes : Descends(nodes, n, Thread(nodes, n))
<1> DEFINE N == Len(nodes)
           S == {k \in 0..N : \A m \in Latest(nodes, k) : Descends(nodes, m, Thread(nodes, m))}
<1>1. N \in Nat /\ DOMAIN nodes = 1..N
  BY TableFacts DEF Tree
<1> HIDE DEF N
<1>2. 0 \in S
  <2>1. Latest(nodes, 0) = {}
    BY <1>1 DEF Latest, N
  <2> QED
    BY <1>1, <2>1
<1>3. ASSUME NEW k \in 0..N - 1, k \in S PROVE k + 1 \in S
  <2> DEFINE n == N - k
             c == FirstReply(nodes, n)
  <2>1. /\ Latest(nodes, k) = n + 1..N /\ Latest(nodes, k + 1) = {n} \cup Latest(nodes, k)
        /\ n \in DOMAIN nodes /\ n \in Nat /\ k + 1 \in 0..N
    BY <1>1 DEF Latest, N
  <2>2. \A m \in Latest(nodes, k) : Descends(nodes, m, Thread(nodes, m))
    BY <1>3
  <2> HIDE DEF n
  <2>3. Descends(nodes, n, Thread(nodes, n))
    <3>1. CASE Followed(nodes, n)
      <4>1. c \in Latest(nodes, k)
        BY <2>1, <3>1, FirstChild DEF N
      <4>2. Descends(nodes, c, Thread(nodes, c))
        BY <2>2, <4>1
      <4>3. Thread(nodes, n) = <<n>> \o Thread(nodes, c)
        BY <2>1, <3>1, ThreadIs
      <4>4. Descends(nodes, n, <<n>> \o Thread(nodes, c))
        BY <2>1, <3>1, <4>2, OneMoreNode
      <4> QED
        BY <4>3, <4>4
    <3>2. CASE ~Followed(nodes, n)
      <4>1. Thread(nodes, n) = <<n>> \o <<>>
        BY <2>1, <3>2, ThreadIs
      <4>2. <<n>> \o <<>> = <<n>>
        BY OneRow, JoinNothing
      <4>3. Descends(nodes, n, <<n>>)
        BY <2>1, <3>2, OneNode
      <4> QED
        BY <4>1, <4>2, <4>3
    <3> QED
      BY <3>1, <3>2
  <2> QED
    BY <2>1, <2>2, <2>3
<1>4. 0..N \subseteq S
  <2> HIDE DEF S
  <2> QED
    BY <1>1, <1>2, <1>3, Induct
<1>5. N \in S
  BY <1>1, <1>4
<1>6. Latest(nodes, N) = DOMAIN nodes
  BY <1>1 DEF Latest, N
<1> QED
  BY <1>5, <1>6

-----------------------------------------------------------------------------
(* Walking down a thread to the first node already seen.                   *)

\* A set of places that has every place before one it has is 1..its size.
LEMMA PlacesUpTo ==
    ASSUME NEW n \in Nat, NEW S, S \in SUBSET (1..n), \A k \in S : \A j \in 1..k : j \in S
    PROVE  Cardinality(S) \in 0..n /\ S = 1..Cardinality(S)
<1>1. CASE S = {}
  <2>1. Cardinality(S) = 0
    BY <1>1, FS_EmptySet
  <2> QED
    BY <1>1, <2>1
<1>2. CASE S # {}
  <2> DEFINE m == Max(S)
  <2>1. m \in S /\ \A k \in S : k <= m
    BY <1>2, Largest
  <2> HIDE DEF m
  <2>2. m \in 1..n /\ S = 1..m
    <3>1. m \in 1..n
      BY <2>1
    <3>2. \A k \in S : k \in 1..m
      BY <2>1, <3>1
    <3>3. \A k \in 1..m : k \in S
      BY <2>1
    <3> QED
      BY <3>1, <3>2, <3>3
  <2>3. Cardinality(1..m) = m
    <3>1. m \in Nat
      BY <2>2
    <3> DEFINE one == 1
    <3>2. one \in Int /\ m \in Int /\ one <= m + 1 /\ (IF one > m THEN 0 ELSE m - one + 1) = m
      BY <2>2
    <3> HIDE DEF one
    <3>3. Cardinality(one..m) = IF one > m THEN 0 ELSE m - one + 1
      BY <3>2, FS_Interval
    <3> QED
      BY <3>2, <3>3 DEF one
  <2> QED
    BY <2>2, <2>3
<1> QED
  BY <1>1, <1>2

\* What the walk keeps: no node twice, and with a node its first reply.
WalksDown(nodes, path) ==
    /\ Table(path) /\ Single(path)
    /\ \A k \in DOMAIN path : path[k] \in DOMAIN nodes
    /\ \A k \in DOMAIN path : Followed(nodes, path[k]) =>
          \E l \in DOMAIN path : path[l] = FirstReply(nodes, path[k])

\* The places of a thread before the first node of the path.
Fresh(thread, path) == {k \in DOMAIN thread : \A j \in 1..k : thread[j] \notin ToSet(path)}

LEMMA FreshAre ==
    ASSUME NEW thread, Table(thread), NEW path
    PROVE  LET n == Cardinality(Fresh(thread, path)) IN
           /\ n \in 0..Len(thread) /\ Fresh(thread, path) = 1..n
           /\ Table(SubSeq(thread, 1, n)) /\ Len(SubSeq(thread, 1, n)) = n
           /\ \A k \in 1..n : SubSeq(thread, 1, n)[k] = thread[k]
<1> DEFINE S == Fresh(thread, path)
           n == Cardinality(S)
           N == Len(thread)
           one == 1
           t == SubSeq(thread, one, n)
<1>1. N \in Nat /\ DOMAIN thread = 1..N
  BY TableFacts
<1>2. n \in 0..N /\ S = 1..n
  <2>1. S \in SUBSET (1..N)
    BY <1>1 DEF Fresh
  <2>2. ASSUME NEW k \in S, NEW j \in 1..k PROVE j \in S
    <3>1. k \in 1..N /\ \A i \in 1..k : thread[i] \notin ToSet(path)
      BY <1>1 DEF Fresh
    <3>2. j \in 1..N /\ \A i \in 1..j : i \in 1..k
      BY <3>1
    <3> QED
      BY <1>1, <3>1, <3>2 DEF Fresh
  <2> HIDE DEF S, N
  <2> QED
    BY <1>1, <2>1, <2>2, PlacesUpTo
<1> HIDE DEF n
<1>3. one \in 1..Len(thread) + 1 /\ n \in 0..Len(thread) /\ one <= n + 1
  BY <1>1, <1>2
<1>4. n + 1 - one = n /\ \A i \in 1..n : one + i - 1 = i
  BY <1>2
<1> HIDE DEF one
<1>5. LET u == SubSeq(thread, one, n) IN
         Table(u) /\ DOMAIN u = 1..n + 1 - one /\ \A i \in 1..n + 1 - one : u[i] = thread[one + i - 1]
  BY <1>3, StretchOf
<1>6. Table(t) /\ DOMAIN t = 1..n
  BY <1>4, <1>5
<1>7. \A k \in 1..n : t[k] = thread[k]
  BY <1>4, <1>5
<1> HIDE DEF t
<1>8. Len(t) = n
  <2>1. DOMAIN t = 1..Len(t) /\ Len(t) \in Nat
    BY <1>6, TableFacts
  <2>2. 1..Len(t) = 1..n /\ n \in Nat
    BY <1>2, <1>6, <2>1
  <2> QED
    BY <2>1, <2>2, SameUpTo
<1> QED
  BY <1>2, <1>6, <1>7, <1>8 DEF n, S, N, t, one

LEMMA WalkIs ==
    ASSUME NEW nodes, NEW path, NEW n
    PROVE  LET thread == Thread(nodes, n) IN
           Walk(nodes, path, n) = path \o SubSeq(thread, 1, Cardinality(Fresh(thread, path)))
BY DEF Walk, Fresh

LEMMA WalkGoesDown ==
    ASSUME NEW nodes, Tree(nodes), NEW path, WalksDown(nodes, path), NEW n \in DOMAIN nodes
    PROVE  LET w == Walk(nodes, path, n) IN
           /\ WalksDown(nodes, w) /\ \E k \in DOMAIN w : w[k] = n
           /\ Len(path) <= Len(w) /\ \A k \in DOMAIN path : k \in DOMAIN w /\ w[k] = path[k]
<1> DEFINE thread == Thread(nodes, n)
           c == Cardinality(Fresh(thread, path))
           t == SubSeq(thread, 1, c)
           w == Walk(nodes, path, n)
           P == Len(path)
<1>1. Descends(nodes, n, thread)
  BY ThreadDescends
<1> HIDE DEF thread
<1>2. /\ Table(thread) /\ 1 \in DOMAIN thread /\ thread[1] = n
      /\ \A i \in DOMAIN thread : thread[i] \in DOMAIN nodes
      /\ \A i, j \in DOMAIN thread : i < j => thread[i] < thread[j]
      /\ \A i \in DOMAIN thread :
            Followed(nodes, thread[i]) => i + 1 \in DOMAIN thread /\ thread[i + 1] = FirstReply(nodes, thread[i])
  BY <1>1 DEF Descends
<1>3. /\ c \in 0..Len(thread) /\ Fresh(thread, path) = 1..c
      /\ Table(t) /\ Len(t) = c /\ \A k \in 1..c : t[k] = thread[k]
  BY <1>2, FreshAre
<1>4. w = path \o t
  BY WalkIs DEF thread
<1> HIDE DEF w, c, t
<1>5. DOMAIN thread = 1..Len(thread) /\ Len(thread) \in Nat
  BY <1>2, TableFacts
<1>6. /\ Table(path) /\ Single(path) /\ \A k \in DOMAIN path : path[k] \in DOMAIN nodes
      /\ \A k \in DOMAIN path : Followed(nodes, path[k]) =>
            \E l \in DOMAIN path : path[l] = FirstReply(nodes, path[k])
  BY DEF WalksDown
<1>7. DOMAIN path = 1..P /\ P \in Nat
  BY <1>6, TableFacts
<1>8. Table(w) /\ DOMAIN w = 1..P + c
  <2>1. Table(path \o t) /\ DOMAIN (path \o t) = 1..Len(path) + Len(t)
    BY <1>3, <1>6, TableConcat
  <2> QED
    BY <1>3, <1>4, <2>1
<1>9. \A k \in DOMAIN path : w[k] = path[k]
  BY <1>3, <1>4, <1>6, TableConcat
<1>10. \A k \in 1..c : w[P + k] = t[k]
  <2>1. Table(path) /\ Table(t) /\ P = Len(path) /\ c = Len(t)
    BY <1>3, <1>6
  <2> HIDE DEF P
  <2>2. \A k \in 1..c : (path \o t)[P + k] = t[k]
    BY <2>1, JoinPlaces
  <2> QED
    BY <1>4, <2>2
<1> HIDE DEF P
<1>11. \A k \in 1..c : w[P + k] = thread[k] /\ k \in DOMAIN thread /\ P + k \in DOMAIN w
  BY <1>3, <1>5, <1>7, <1>8, <1>10
<1>12. \A k \in DOMAIN w : k \in DOMAIN path \/ (k - P \in 1..c /\ k = P + (k - P))
  BY <1>3, <1>5, <1>7, <1>8
<1>13. \A k \in 1..c : \A l \in DOMAIN path : path[l] # thread[k]
  <2>1. TAKE k \in 1..c
  <2>2. k \in Fresh(thread, path) /\ k \in 1..k
    BY <1>3, <1>5
  <2>3. thread[k] \notin ToSet(path)
    BY <2>2 DEF Fresh
  <2> QED
    BY <2>3 DEF ToSet
<1>14. Single(w)
  <2>1. SUFFICES ASSUME NEW k \in DOMAIN w, NEW l \in DOMAIN w, w[k] = w[l] PROVE k = l
    BY DEF Single
  <2>2. CASE k \in DOMAIN path /\ l \in DOMAIN path
    BY <1>6, <1>9, <2>1, <2>2 DEF Single
  <2>3. CASE k \notin DOMAIN path /\ l \in DOMAIN path
    <3>1. k - P \in 1..c /\ k = P + (k - P)
      BY <1>12, <2>3
    <3> DEFINE i == k - P
    <3> HIDE DEF i
    <3>2. w[k] = thread[i] /\ i \in 1..c
      BY <1>11, <3>1 DEF i
    <3> QED
      BY <1>9, <1>13, <2>1, <2>3, <3>2
  <2>4. CASE k \in DOMAIN path /\ l \notin DOMAIN path
    <3>1. l - P \in 1..c /\ l = P + (l - P)
      BY <1>12, <2>4
    <3> DEFINE i == l - P
    <3> HIDE DEF i
    <3>2. w[l] = thread[i] /\ i \in 1..c
      BY <1>11, <3>1 DEF i
    <3> QED
      BY <1>9, <1>13, <2>1, <2>4, <3>2
  <2>5. CASE k \notin DOMAIN path /\ l \notin DOMAIN path
    <3> DEFINE i == k - P
               j == l - P
    <3>1. i \in 1..c /\ k = P + i /\ j \in 1..c /\ l = P + j
      BY <1>12, <2>5
    <3> HIDE DEF i, j
    <3>2. thread[i] = thread[j] /\ i \in DOMAIN thread /\ j \in DOMAIN thread
      BY <1>11, <2>1, <3>1
    <3>3. i \in Nat /\ j \in Nat
      BY <1>5, <3>2
    <3>4. ~(i < j) /\ ~(j < i)
      <4>1. \A m \in DOMAIN thread : thread[m] \in Nat
        BY <1>2, TableFacts DEF Tree
      <4> QED
        BY <1>2, <3>2, <4>1
    <3> QED
      BY <3>1, <3>3, <3>4
  <2> QED
    BY <2>2, <2>3, <2>4, <2>5
<1>15. \A k \in DOMAIN w : w[k] \in DOMAIN nodes
  <2>1. TAKE k \in DOMAIN w
  <2>2. CASE k \in DOMAIN path
    BY <1>6, <1>9, <2>2
  <2>3. CASE k \notin DOMAIN path
    <3> DEFINE i == k - P
    <3>1. i \in 1..c /\ k = P + i
      BY <1>12, <2>3
    <3> HIDE DEF i
    <3> QED
      BY <1>2, <1>11, <3>1
  <2> QED
    BY <2>2, <2>3
<1>16. \A k \in DOMAIN path : k \in DOMAIN w
  BY <1>3, <1>5, <1>7, <1>8
<1>17. ASSUME NEW k \in DOMAIN w, Followed(nodes, w[k])
       PROVE  \E l \in DOMAIN w : w[l] = FirstReply(nodes, w[k])
  <2>1. CASE k \in DOMAIN path
    <3>1. PICK l \in DOMAIN path : path[l] = FirstReply(nodes, path[k])
      BY <1>6, <1>9, <1>17, <2>1
    <3> QED
      BY <1>9, <1>16, <2>1, <3>1
  <2>2. CASE k \notin DOMAIN path
    <3> DEFINE i == k - P
    <3>1. i \in 1..c /\ k = P + i
      BY <1>12, <2>2
    <3> HIDE DEF i
    <3>2. w[k] = thread[i] /\ i \in DOMAIN thread
      BY <1>11, <3>1
    <3>3. i + 1 \in DOMAIN thread /\ thread[i + 1] = FirstReply(nodes, w[k])
      BY <1>2, <1>17, <3>2
    <3>4. CASE i + 1 \in 1..c
      BY <1>11, <3>3, <3>4
    <3>5. CASE i + 1 \notin 1..c
      <4>1. i + 1 \notin Fresh(thread, path)
        BY <1>3, <3>5
      <4>2. PICK j \in 1..i + 1 : thread[j] \in ToSet(path)
        BY <3>3, <4>1 DEF Fresh
      <4>3. PICK l \in DOMAIN path : path[l] = thread[j]
        BY <4>2 DEF ToSet
      <4>4. j \notin 1..c
        BY <1>13, <4>3
      <4>5. j = i + 1
        BY <1>3, <1>5, <3>1, <4>4
      <4> QED
        BY <1>9, <1>16, <3>3, <4>3, <4>5
    <3> QED
      BY <3>4, <3>5
  <2> QED
    BY <2>1, <2>2
<1>18. \E k \in DOMAIN w : w[k] = n
  <2>1. CASE n \in ToSet(path)
    <3>1. PICK l \in DOMAIN path : path[l] = n
      BY <2>1 DEF ToSet
    <3> QED
      BY <1>9, <1>16, <3>1
  <2>2. CASE n \notin ToSet(path)
    <3>1. \A j \in 1..1 : thread[j] \notin ToSet(path)
      BY <1>2, <2>2
    <3>2. 1 \in Fresh(thread, path)
      BY <1>2, <3>1 DEF Fresh
    <3>3. 1 \in 1..c
      BY <1>3, <3>2
    <3> QED
      BY <1>2, <1>11, <3>3
  <2> QED
    BY <2>1, <2>2
<1>19. Len(path) <= Len(w)
  <2>1. DOMAIN w = 1..Len(w) /\ Len(w) \in Nat
    BY <1>8, TableFacts
  <2>2. 1..Len(w) = 1..P + c /\ P + c \in Nat
    BY <1>3, <1>5, <1>7, <1>8, <2>1
  <2>3. Len(w) = P + c
    BY <2>1, <2>2, SameUpTo
  <2> QED
    BY <1>3, <1>5, <1>7, <2>3 DEF P
<1>20. WalksDown(nodes, w)
  BY <1>8, <1>14, <1>15, <1>17 DEF WalksDown
<1> QED
  BY <1>9, <1>16, <1>18, <1>19, <1>20 DEF w

-----------------------------------------------------------------------------
(* The walks, one after the other.                                         *)

Visiting(nodes, steps, N, f) ==
    f = [s \in SUBSET (1..N) |-> IF s = {} THEN <<>> ELSE Walk(nodes, f[s \ {Max(s)}], steps[Max(s)])]

LEMMA VisitExists ==
    ASSUME NEW nodes, NEW steps, NEW N \in Nat
    PROVE  \E f : Visiting(nodes, steps, N, f)
<1> DEFINE S == {n \in 0..N : \E f : Visiting(nodes, steps, n, f)}
<1>1. 0 \in S
  <2> DEFINE f == [s \in SUBSET (1..0) |-> <<>>]
  <2>1. \A s \in SUBSET (1..0) : s = {}
    OBVIOUS
  <2>2. Visiting(nodes, steps, 0, f)
    BY <2>1 DEF Visiting
  <2> QED
    BY <2>2
<1>2. ASSUME NEW n \in 0..(N - 1), n \in S
      PROVE  n + 1 \in S
  <2>1. PICK f : Visiting(nodes, steps, n, f)
    BY <1>2
  <2>2. n \in Nat /\ n + 1 \in 0..N /\ n + 1 \in Nat
    OBVIOUS
  <2> DEFINE D == SUBSET (1..n + 1)
             g == [s \in D |-> IF n + 1 \in s THEN Walk(nodes, f[s \ {n + 1}], steps[n + 1]) ELSE f[s]]
  <2>3. ASSUME NEW s \in D
        PROVE  g[s] = IF s = {} THEN <<>> ELSE Walk(nodes, g[s \ {Max(s)}], steps[Max(s)])
    <3>1. CASE n + 1 \in s
      <4>1. \A k \in s : k <= n + 1
        BY <2>2
      <4>2. Max(s) = n + 1
        BY <2>2, <3>1, <4>1, LargestIs
      <4>3. s \ {n + 1} \in SUBSET (1..n + 1) /\ n + 1 \notin s \ {n + 1}
        BY <2>2
      <4>4. g[s \ {n + 1}] = f[s \ {n + 1}]
        BY <4>3
      <4> QED
        BY <3>1, <4>2, <4>4
    <3>2. CASE n + 1 \notin s
      <4>1. s \in SUBSET (1..n)
        BY <2>2, <3>2
      <4>2. f[s] = IF s = {} THEN <<>> ELSE Walk(nodes, f[s \ {Max(s)}], steps[Max(s)])
        BY <2>1, <4>1 DEF Visiting
      <4>3. s \ {Max(s)} \in D /\ n + 1 \notin s \ {Max(s)}
        BY <3>2
      <4>4. g[s \ {Max(s)}] = f[s \ {Max(s)}] /\ g[s] = f[s]
        BY <3>2, <4>3
      <4> HIDE DEF g, D
      <4> QED
        BY <4>2, <4>4
    <3> QED
      BY <3>1, <3>2
  <2>4. g = [s \in D |-> g[s]]
    OBVIOUS
  <2> HIDE DEF g
  <2>5. g = [s \in D |-> IF s = {} THEN <<>> ELSE Walk(nodes, g[s \ {Max(s)}], steps[Max(s)])]
    BY <2>3, <2>4
  <2>6. Visiting(nodes, steps, n + 1, g)
    BY <2>5 DEF Visiting
  <2> QED
    BY <2>2, <2>6
<1>3. 0..N \subseteq S
  <2> HIDE DEF S
  <2> QED
    BY <1>1, <1>2, Induct
<1> QED
  BY <1>3

LEMMA VisitInOrder ==
    ASSUME NEW nodes, NEW steps, NEW N \in Nat
    PROVE  LET f == CHOOSE f : Visiting(nodes, steps, N, f) IN
           /\ f[1..0] = <<>>
           /\ \A k \in 0..(N - 1) : f[1..k + 1] = Walk(nodes, f[1..k], steps[k + 1])
<1> DEFINE f == CHOOSE f : Visiting(nodes, steps, N, f)
<1>1. Visiting(nodes, steps, N, f)
  BY VisitExists
<1> HIDE DEF f
<1>2. f[1..0] = <<>>
  <2>1. 1..0 = {} /\ 1..0 \in SUBSET (1..N)
    OBVIOUS
  <2> QED
    BY <1>1, <2>1 DEF Visiting
<1>3. ASSUME NEW k \in 0..(N - 1)
      PROVE  f[1..k + 1] = Walk(nodes, f[1..k], steps[k + 1])
  <2>1. 1..k + 1 \in SUBSET (1..N) /\ k + 1 \in Nat /\ k + 1 \in 1..k + 1
    OBVIOUS
  <2>2. Max(1..k + 1) = k + 1
    <3>1. /\ 1..k + 1 \in SUBSET (1..k + 1)
          /\ \A j \in 1..k + 1 : j <= k + 1
      OBVIOUS
    <3> QED
      BY <2>1, <3>1, LargestIs
  <2>3. (1..k + 1) \ {k + 1} = 1..k
    OBVIOUS
  <2> QED
    BY <1>1, <2>1, <2>2, <2>3 DEF Visiting
<1> QED
  BY <1>2, <1>3 DEF f

\* Where the walks start: at the roots, then at whatever has a role.
Starts(nodes, keys) ==
    Roots(nodes, keys) \o Among(keys, {n \in DOMAIN nodes : nodes[n].kind # "tool"})

LEMMA VisitedInOrder ==
    ASSUME NEW nodes, NEW keys, Table(Starts(nodes, keys))
    PROVE  LET q == Starts(nodes, keys) IN
           \E v : /\ v[0] = <<>>
                  /\ \A k \in 0..(Len(q) - 1) : v[k + 1] = Walk(nodes, v[k], q[k + 1])
                  /\ Visited(nodes, keys) = v[Len(q)]
<1> DEFINE q == Starts(nodes, keys)
           N == Len(q)
           f == CHOOSE f : Visiting(nodes, q, N, f)
           v == [k \in 0..N |-> f[1..k]]
<1>1. N \in Nat /\ DOMAIN q = 1..N
  BY TableFacts
<1>2. Visited(nodes, keys) = f[1..N]
  <2>1. Visited(nodes, keys) =
           (CHOOSE g : g = [s \in SUBSET (DOMAIN q) |-> IF s = {} THEN <<>>
                              ELSE Walk(nodes, g[s \ {Max(s)}], q[Max(s)])])[DOMAIN q]
    BY DEF Visited, Starts, FoldLeft, MapThenFoldSet
  <2> QED
    BY <1>1, <2>1 DEF Visiting
<1> HIDE DEF N, q
<1>3. /\ f[1..0] = <<>>
      /\ \A k \in 0..(N - 1) : f[1..k + 1] = Walk(nodes, f[1..k], q[k + 1])
  BY <1>1, VisitInOrder
<1> HIDE DEF f
<1>4. \A k \in 0..N : v[k] = f[1..k]
  OBVIOUS
<1>5. /\ 0 \in 0..N /\ N \in 0..N
      /\ \A k \in 0..(N - 1) : k \in 0..N /\ k + 1 \in 0..N
  BY <1>1
<1> HIDE DEF v
<1> QED
  BY <1>2, <1>3, <1>4, <1>5 DEF N, q

\* The conversation: every node has its key once.
Chat(nodes, keys) ==
    /\ Tree(nodes) /\ Table(keys) /\ Single(keys)
    /\ \A k \in DOMAIN keys : keys[k] \in DOMAIN nodes
    /\ \A n \in DOMAIN nodes : \E k \in DOMAIN keys : keys[k] = n

LEMMA StartsAre ==
    ASSUME NEW nodes, NEW keys, Chat(nodes, keys)
    PROVE  LET q == Starts(nodes, keys) IN
           /\ Table(q) /\ \A k \in DOMAIN q : q[k] \in DOMAIN nodes
           /\ \A n \in DOMAIN nodes : nodes[n].kind = "said" => \E k \in DOMAIN q : q[k] = n
<1> DEFINE r == {n \in DOMAIN nodes : nodes[n].parent = 0}
           s == {n \in DOMAIN nodes : nodes[n].kind # "tool"}
           a == Among(keys, r)
           b == Among(keys, s)
           q == a \o b
           m == Len(a)
<1>1. Starts(nodes, keys) = q
  BY DEF Starts, Roots
<1>2. r \subseteq DOMAIN nodes /\ s \subseteq DOMAIN nodes
  OBVIOUS
<1>3. \A n \in DOMAIN nodes : nodes[n].kind = "said" => n \in s
  OBVIOUS
<1> HIDE DEF r, s
<1>4. Table(a) /\ \A k \in DOMAIN a : a[k] \in r
  BY AmongHas DEF Chat
<1>5. /\ Table(b) /\ \A k \in DOMAIN b : b[k] \in s
      /\ \A i \in DOMAIN keys : keys[i] \in s => \E k \in DOMAIN b : b[k] = keys[i]
  BY AmongHas DEF Chat
<1> HIDE DEF a, b
<1>6. /\ Table(q) /\ DOMAIN q = 1..m + Len(b)
      /\ m \in Nat /\ DOMAIN a = 1..m /\ Len(b) \in Nat /\ DOMAIN b = 1..Len(b)
  BY <1>4, <1>5, TableConcat, TableFacts
<1>7. \A k \in DOMAIN a : q[k] = a[k]
  BY <1>4, <1>5, TableConcat
<1>8. \A k \in DOMAIN b : q[m + k] = b[k]
  <2> DEFINE n == Len(b)
  <2>1. n = Len(b) /\ m = Len(a) /\ DOMAIN b = 1..n
    BY <1>6
  <2> HIDE DEF m, n, q
  <2>2. \A k \in 1..n : (a \o b)[m + k] = b[k]
    BY <1>4, <1>5, <2>1, JoinPlaces
  <2> QED
    BY <2>1, <2>2 DEF q
<1> HIDE DEF m, q
<1>9. ASSUME NEW k \in DOMAIN q PROVE q[k] \in DOMAIN nodes
  <2>1. CASE k \in DOMAIN a
    BY <1>2, <1>4, <1>7, <2>1
  <2>2. CASE k \notin DOMAIN a
    <3> DEFINE i == k - m
    <3>1. i \in DOMAIN b /\ k = m + i
      BY <1>6, <2>2
    <3> HIDE DEF i
    <3> QED
      BY <1>2, <1>5, <1>8, <3>1
  <2> QED
    BY <2>1, <2>2
<1>10. ASSUME NEW n \in DOMAIN nodes, nodes[n].kind = "said" PROVE \E k \in DOMAIN q : q[k] = n
  <2>1. PICK i \in DOMAIN keys : keys[i] = n
    BY DEF Chat
  <2>2. PICK k \in DOMAIN b : b[k] = n
    BY <1>3, <1>5, <1>10, <2>1
  <2>3. m + k \in DOMAIN q
    BY <1>6
  <2> QED
    BY <1>8, <2>2, <2>3
<1> QED
  BY <1>1, <1>6, <1>9, <1>10

\* The walk is a path down, has every node with a text, and goes on from any of its
\* walks.
LEMMA VisitedIs ==
    ASSUME NEW nodes, NEW keys, Chat(nodes, keys)
    PROVE  /\ WalksDown(nodes, Visited(nodes, keys))
           /\ \A n \in DOMAIN nodes : nodes[n].kind = "said" =>
                 \E k \in DOMAIN Visited(nodes, keys) : Visited(nodes, keys)[k] = n
           /\ DOMAIN Starts(nodes, keys) # {} =>
                 LET w == Walk(nodes, <<>>, Starts(nodes, keys)[1]) IN
                 /\ Table(w) /\ Len(w) <= Len(Visited(nodes, keys))
                 /\ \A k \in DOMAIN w : Visited(nodes, keys)[k] = w[k]
<1> DEFINE q == Starts(nodes, keys)
           N == Len(q)
           all == Visited(nodes, keys)
<1>1. /\ Table(q) /\ \A k \in DOMAIN q : q[k] \in DOMAIN nodes
      /\ \A n \in DOMAIN nodes : nodes[n].kind = "said" => \E k \in DOMAIN q : q[k] = n
  BY StartsAre
<1>2. \E v : /\ v[0] = <<>>
             /\ \A k \in 0..(Len(q) - 1) : v[k + 1] = Walk(nodes, v[k], q[k + 1])
             /\ Visited(nodes, keys) = v[Len(q)]
  BY <1>1, VisitedInOrder
<1> HIDE DEF q, all
<1>3. PICK v : /\ v[0] = <<>>
               /\ \A k \in 0..(N - 1) : v[k + 1] = Walk(nodes, v[k], q[k + 1])
               /\ all = v[N]
  BY <1>2 DEF all
<1>4. N \in Nat /\ DOMAIN q = 1..N
  BY <1>1, TableFacts
<1> HIDE DEF N
<1>5. Tree(nodes)
  BY DEF Chat
<1> DEFINE Through(k) ==
              /\ WalksDown(nodes, v[k]) /\ Len(v[k]) \in Nat
              /\ \A j \in 1..k : \E i \in DOMAIN v[k] : v[k][i] = q[j]
              /\ k >= 1 => /\ Len(v[1]) <= Len(v[k])
                           /\ \A i \in DOMAIN v[1] : i \in DOMAIN v[k] /\ v[k][i] = v[1][i]
           S == {k \in 0..N : Through(k)}
<1>6. 0 \in S
  <2>1. WalksDown(nodes, <<>>) /\ Len(<<>>) \in Nat
    BY NoRow DEF WalksDown, Single
  <2>2. Through(0)
    BY <1>3, <2>1
  <2> HIDE DEF Through
  <2> QED
    BY <1>4, <2>2
<1>7. ASSUME NEW k \in 0..N - 1, k \in S PROVE k + 1 \in S
  <2>1. k \in Nat /\ k + 1 \in 1..N
    BY <1>4
  <2>2. Through(k)
    BY <1>7
  <2> DEFINE path == v[k]
             n == q[k + 1]
             w == v[k + 1]
  <2>3. WalksDown(nodes, path) /\ n \in DOMAIN nodes /\ w = Walk(nodes, path, n)
    BY <1>1, <1>3, <1>4, <2>1, <2>2
  <2> HIDE DEF path, n, w
  <2>4. /\ WalksDown(nodes, w) /\ \E i \in DOMAIN w : w[i] = n
        /\ Len(path) <= Len(w) /\ \A i \in DOMAIN path : i \in DOMAIN w /\ w[i] = path[i]
    BY <1>5, <2>3, WalkGoesDown
  <2>5. Len(w) \in Nat
    BY <2>4, TableFacts DEF WalksDown
  <2>6. ASSUME NEW j \in 1..k + 1 PROVE \E i \in DOMAIN w : w[i] = q[j]
    <3>1. CASE j = k + 1
      BY <2>4, <3>1 DEF n
    <3>2. CASE j # k + 1
      <4>1. j \in 1..k
        BY <2>1, <3>2
      <4>2. PICK i \in DOMAIN path : path[i] = q[j]
        BY <2>2, <4>1 DEF path
      <4> QED
        BY <2>4, <4>2
    <3> QED
      BY <3>1, <3>2
  <2>7. /\ Len(v[1]) <= Len(w)
        /\ \A i \in DOMAIN v[1] : i \in DOMAIN w /\ w[i] = v[1][i]
    <3>1. CASE k = 0
      <4>1. w = v[1]
        BY <3>1 DEF w
      <4> QED
        BY <2>5, <4>1
    <3>2. CASE k # 0
      <4>1. k >= 1
        BY <2>1, <3>2
      <4>2. Len(v[1]) <= Len(path) /\ \A i \in DOMAIN v[1] : i \in DOMAIN path /\ path[i] = v[1][i]
        BY <2>2, <4>1 DEF path
      <4>3. Len(v[1]) \in Nat /\ Len(path) \in Nat
        <5>1. v[1] = Walk(nodes, v[0], q[1]) /\ WalksDown(nodes, v[0]) /\ q[1] \in DOMAIN nodes
          <6>1. 0 \in 0..N - 1 /\ 0 + 1 = 1 /\ 1 \in DOMAIN q
            BY <1>4, <2>1, <4>1
          <6>2. WalksDown(nodes, v[0])
            BY <1>6
          <6> QED
            BY <1>1, <1>3, <6>1, <6>2
        <5>2. WalksDown(nodes, v[1])
          BY <1>5, <5>1, WalkGoesDown
        <5>3. Table(v[1]) /\ Table(path)
          BY <2>3, <5>2 DEF WalksDown
        <5> QED
          BY <5>3, TableFacts
      <4>4. Len(v[1]) <= Len(w)
        BY <2>4, <2>5, <4>2, <4>3
      <4> QED
        BY <2>4, <4>2, <4>4
    <3> QED
      BY <3>1, <3>2
  <2>8. Through(k + 1)
    BY <2>4, <2>5, <2>6, <2>7 DEF w
  <2> HIDE DEF Through
  <2> QED
    BY <2>1, <2>8
<1>8. N \in S
  <2>1. 0..N \subseteq S
    <3> HIDE DEF S
    <3> QED
      BY <1>4, <1>6, <1>7, Induct
  <2> QED
    BY <1>4, <2>1
<1>9. Through(N)
  BY <1>8
<1>10. WalksDown(nodes, all)
  BY <1>3, <1>9
<1>11. ASSUME NEW n \in DOMAIN nodes, nodes[n].kind = "said"
       PROVE  \E k \in DOMAIN all : all[k] = n
  <2>1. PICK j \in DOMAIN q : q[j] = n
    BY <1>1, <1>11
  <2>2. j \in 1..N
    BY <1>4
  <2> QED
    BY <1>3, <1>9, <2>1, <2>2
<1>12. ASSUME DOMAIN q # {}
       PROVE  LET w == Walk(nodes, <<>>, q[1]) IN
              Table(w) /\ Len(w) <= Len(all) /\ \A k \in DOMAIN w : all[k] = w[k]
  <2>1. N >= 1 /\ 0 \in 0..N - 1 /\ 0 + 1 = 1 /\ 1 \in DOMAIN q
    BY <1>4, <1>12
  <2>2. v[1] = Walk(nodes, <<>>, q[1])
    BY <1>3, <2>1
  <2>3. Len(v[1]) <= Len(all) /\ \A i \in DOMAIN v[1] : all[i] = v[1][i]
    BY <1>3, <1>9, <2>1
  <2>4. WalksDown(nodes, <<>>)
    BY <1>3, <1>6
  <2>5. WalksDown(nodes, v[1])
    BY <1>1, <1>5, <2>1, <2>2, <2>4, WalkGoesDown
  <2> QED
    BY <2>2, <2>3, <2>5 DEF WalksDown
<1> QED
  BY <1>10, <1>11, <1>12 DEF all, q

LEMMA FirstWalk ==
    ASSUME NEW nodes, Tree(nodes), NEW n \in DOMAIN nodes
    PROVE  Walk(nodes, <<>>, n) = Thread(nodes, n)
<1> DEFINE thread == Thread(nodes, n)
           none == <<>>
           c == Cardinality(Fresh(thread, none))
           one == 1
           t == SubSeq(thread, one, c)
<1>1. Table(thread)
  BY ThreadDescends DEF Descends
<1>2. Walk(nodes, none, n) = none \o t
  <2> HIDE DEF none
  <2> QED
    BY WalkIs
<1>3. Table(none) /\ ToSet(none) = {}
  BY NoRow DEF ToSet
<1>4. DOMAIN thread = 1..Len(thread) /\ Len(thread) \in Nat
  BY <1>1, TableFacts
<1> HIDE DEF thread, none
<1>5. /\ c \in 0..Len(thread) /\ Fresh(thread, none) = 1..c
      /\ Table(t) /\ Len(t) = c /\ \A k \in 1..c : t[k] = thread[k]
  BY <1>1, FreshAre
<1>6. Fresh(thread, none) = DOMAIN thread
  BY <1>3 DEF Fresh
<1> HIDE DEF c, t
<1>7. DOMAIN t = 1..c
  BY <1>5, TableFacts
<1>8. DOMAIN t = DOMAIN thread /\ \A k \in DOMAIN t : t[k] = thread[k]
  BY <1>5, <1>6, <1>7
<1>9. t = thread
  BY <1>1, <1>5, <1>8, TableEqual
<1>10. none \o thread = thread
  BY <1>1, JoinNothing DEF none
<1> QED
  BY <1>2, <1>9, <1>10 DEF thread, none

-----------------------------------------------------------------------------
(* What an import has of a conversation.                                   *)

LEMMA SaidOnce ==
    ASSUME NEW nodes, NEW keys, Chat(nodes, keys)
    PROVE  LET said == Said(nodes, Visited(nodes, keys))
               all == {n \in DOMAIN nodes : nodes[n].kind = "said"} IN
           /\ Table(said) /\ ToSet(said) = all
           /\ IsFiniteSet(all) /\ Len(said) = Cardinality(all)
<1> DEFINE path == Visited(nodes, keys)
           all == {n \in DOMAIN nodes : nodes[n].kind = "said"}
           said == Among(path, all)
           N == Len(said)
<1>1. /\ WalksDown(nodes, path)
      /\ \A n \in DOMAIN nodes : nodes[n].kind = "said" => \E k \in DOMAIN path : path[k] = n
  BY VisitedIs
<1>2. Said(nodes, path) = said
  BY DEF Said
<1> HIDE DEF path
<1>3. Table(path) /\ Single(path)
  BY <1>1 DEF WalksDown
<1>4. \A n \in all : \E k \in DOMAIN path : path[k] = n
  BY <1>1
<1> HIDE DEF all
<1>5. /\ Table(said) /\ \A k \in DOMAIN said : said[k] \in all
      /\ \A i \in DOMAIN path : path[i] \in all => \E k \in DOMAIN said : said[k] = path[i]
  BY <1>3, AmongHas
<1>6. Single(said)
  BY <1>3, AmongSingle
<1> HIDE DEF said
<1>7. N \in Nat /\ DOMAIN said = 1..N
  BY <1>5, TableFacts
<1>8. \A n \in all : \E k \in DOMAIN said : said[k] = n
  BY <1>4, <1>5
<1>9. ToSet(said) = all
  BY <1>5, <1>8 DEF ToSet
<1>10. IsFiniteSet(all) /\ Cardinality(all) = N
  <2> HIDE DEF N
  <2>1. said \in [1..N -> all]
    <3>1. said = [k \in DOMAIN said |-> said[k]]
      <4>1. said \in Seq({said[k] : k \in DOMAIN said})
        BY <1>5 DEF Table
      <4> QED
        BY <4>1, LenProperties
    <3> QED
      BY <1>5, <1>7, <3>1
  <2>2. \A i, j \in 1..N : said[i] = said[j] => i = j
    BY <1>6, <1>7 DEF Single
  <2>3. \A n \in all : \E i \in 1..N : said[i] = n
    BY <1>7, <1>8
  <2> QED
    BY <1>7, <2>1, <2>2, <2>3, ManyDistinct
<1> QED
  BY <1>2, <1>5, <1>9, <1>10 DEF said, path, all

LEMMA ThreadIsFirst ==
    ASSUME NEW nodes, NEW keys, Chat(nodes, keys), NEW root,
           {n \in DOMAIN nodes : nodes[n].parent = 0} = {root}
    PROVE  IsPrefix(Said(nodes, Thread(nodes, root)), Said(nodes, Visited(nodes, keys)))
<1> DEFINE r == {n \in DOMAIN nodes : nodes[n].parent = 0}
           a == Among(keys, r)
           b == Among(keys, {n \in DOMAIN nodes : nodes[n].kind # "tool"})
           q == Starts(nodes, keys)
           all == Visited(nodes, keys)
           thread == Thread(nodes, root)
           S == {n \in DOMAIN nodes : nodes[n].kind = "said"}
<1>1. Tree(nodes) /\ Table(keys) /\ \A n \in DOMAIN nodes : \E k \in DOMAIN keys : keys[k] = n
  BY DEF Chat
<1>2. q = a \o b
  BY DEF Starts, Roots
<1>3. root \in DOMAIN nodes /\ r = {root}
  OBVIOUS
<1> HIDE DEF r
<1>4. /\ Table(a) /\ \A k \in DOMAIN a : a[k] \in r
      /\ \A i \in DOMAIN keys : keys[i] \in r => \E k \in DOMAIN a : a[k] = keys[i]
  BY <1>1, AmongHas
<1>5. Table(b)
  BY <1>1, AmongHas
<1> HIDE DEF a, b
<1>6. 1 \in DOMAIN a /\ a[1] = root
  <2>1. PICK i \in DOMAIN keys : keys[i] = root
    BY <1>1, <1>3
  <2>2. PICK k \in DOMAIN a : a[k] = root
    BY <1>3, <1>4, <2>1
  <2>3. DOMAIN a = 1..Len(a) /\ Len(a) \in Nat
    BY <1>4, TableFacts
  <2>4. 1 \in DOMAIN a
    BY <2>2, <2>3
  <2> QED
    BY <1>3, <1>4, <2>4
<1>7. 1 \in DOMAIN q /\ q[1] = root
  <2>1. \A k \in DOMAIN a : (a \o b)[k] = a[k]
    BY <1>4, <1>5, TableConcat
  <2>2. DOMAIN (a \o b) = 1..Len(a) + Len(b)
    BY <1>4, <1>5, TableConcat
  <2>3. DOMAIN a = 1..Len(a) /\ Len(a) \in Nat /\ Len(b) \in Nat
    BY <1>4, <1>5, TableFacts
  <2> QED
    BY <1>2, <1>6, <2>1, <2>2, <2>3
<1>8. /\ WalksDown(nodes, all)
      /\ DOMAIN q # {} =>
            LET w == Walk(nodes, <<>>, q[1]) IN
            /\ Table(w) /\ Len(w) <= Len(all) /\ \A k \in DOMAIN w : all[k] = w[k]
  BY VisitedIs
<1>9. Walk(nodes, <<>>, root) = thread
  BY <1>1, <1>3, FirstWalk
<1> HIDE DEF thread, all, q
<1>10. /\ Table(thread) /\ Len(thread) <= Len(all) /\ \A k \in DOMAIN thread : all[k] = thread[k]
       /\ Table(all)
  BY <1>7, <1>8, <1>9 DEF WalksDown
<1> HIDE DEF S
<1>11. IsPrefix(Among(thread, S), Among(all, S))
  BY <1>10, AmongExtends
<1> QED
  BY <1>11 DEF Said, S, thread, all

LEMMA ThreadsFollow ==
    ASSUME kind = "chat", Chat(payload.nodes, payload.keys)
    PROVE  ThreadsAreWhole
<1> DEFINE nodes == payload.nodes
           keys == payload.keys
           said == Said(nodes, Visited(nodes, keys))
           all == {n \in DOMAIN nodes : nodes[n].kind = "said"}
           texts == [k \in DOMAIN Messages |-> Messages[k].text]
           roots == {n \in DOMAIN nodes : nodes[n].parent = 0}
           N == Len(said)
<1>1. /\ Table(said) /\ ToSet(said) = all
      /\ IsFiniteSet(all) /\ N = Cardinality(all)
  BY SaidOnce
<1>2. N \in Nat /\ DOMAIN said = 1..N
  BY <1>1, TableFacts
<1>3. /\ DOMAIN Messages = 1..N
      /\ \A k \in 1..N : Messages[k].text = said[k] /\ Messages[k].ord = k /\ Messages[k].role = "msg"
  BY <1>2 DEF Messages, ChatgptMessages
<1>4. \A root \in roots : roots = {root} => IsPrefix(Said(nodes, Thread(nodes, root)), said)
  BY ThreadIsFirst
<1> HIDE DEF said, roots, all, N
<1>5. texts = said
  <2>1. DOMAIN texts = 1..N /\ \A k \in 1..N : texts[k] = said[k]
    BY <1>3
  <2>2. texts = [k \in 1..N |-> texts[k]]
    BY <1>3
  <2> HIDE DEF texts
  <2>3. Table(texts)
    BY <1>2, <2>1, <2>2, TableFrom
  <2> QED
    BY <1>1, <1>2, <2>1, <2>3, TableEqual
<1> HIDE DEF texts
<1>6. /\ DOMAIN Chunks = 1..N /\ Chunks = [k \in 1..N |-> Chunks[k]]
      /\ \A k \in 1..N : Chunks[k].id = <<"msg", k>>
  <2>1. Chunks = ChunkChat(Messages)
    BY DEF Chunks, ChunkDocument
  <2>2. DOMAIN Chunks = 1..N /\ Chunks = [k \in 1..N |-> Chunks[k]]
    BY <1>3, <2>1 DEF ChunkChat
  <2>3. \A k \in 1..N : Chunks[k].id = <<Messages[k].role, Messages[k].ord>>
    BY <1>3, <2>1 DEF ChunkChat, Chunk
  <2> QED
    BY <1>3, <2>2, <2>3
<1>7. DOMAIN ById(Chunks) = {<<"msg", k>> : k \in 1..N}
  <2>1. ToSet(Chunks) = {Chunks[k] : k \in 1..N}
    BY <1>6 DEF ToSet
  <2>2. DOMAIN ById(Chunks) = {c.id : c \in ToSet(Chunks)}
    BY DEF ById
  <2>3. {c.id : c \in ToSet(Chunks)} = {Chunks[k].id : k \in 1..N}
    BY <2>1
  <2> QED
    BY <1>6, <2>2, <2>3
<1>8. Cardinality(DOMAIN ById(Chunks)) = N
  <2> DEFINE T == {<<"msg", k>> : k \in 1..N}
             g == [k \in 1..N |-> <<"msg", k>>]
  <2>1. g \in [1..N -> T]
    OBVIOUS
  <2>2. \A t \in T : \E i \in 1..N : g[i] = t
    OBVIOUS
  <2>3. \A i, j \in 1..N : g[i] = g[j] => i = j
    OBVIOUS
  <2> HIDE DEF g, T
  <2>4. Cardinality(T) = N
    BY <1>2, <2>1, <2>2, <2>3, ManyDistinct
  <2> QED
    BY <1>7, <2>4 DEF T
<1>9. /\ Len(texts) = Cardinality(all) /\ ToSet(texts) = all
      /\ Cardinality(DOMAIN ById(Chunks)) = Cardinality(all)
      /\ \A root \in roots : roots = {root} => IsPrefix(Said(nodes, Thread(nodes, root)), texts)
  BY <1>1, <1>4, <1>5, <1>8 DEF N
<1> QED
  BY <1>9 DEF ThreadsAreWhole, texts, all, roots

-----------------------------------------------------------------------------
(* A reply keeps the conversation one.                                     *)

Exported == kind = "chat" => Chat(payload.nodes, payload.keys)

LEMMA ExportedStarts == Init => Exported
<1>1. SUFFICES ASSUME Init, kind = "chat" PROVE Chat(payload.nodes, payload.keys)
  BY DEF Exported
<1>2. payload.nodes = <<>> /\ payload.keys = <<>>
  BY <1>1 DEF Init
<1>3. Table(<<>>) /\ DOMAIN <<>> = {}
  BY NoRow
<1> QED
  BY <1>2, <1>3 DEF Chat, Tree, Single

LEMMA InsertedOnce ==
    ASSUME NEW s, Table(s), NEW i \in 1..Len(s) + 1, NEW x, \A k \in DOMAIN s : s[k] # x, Single(s)
    PROVE  LET t == InsertAt(s, i, x) IN
           /\ Table(t) /\ Single(t)
           /\ \A k \in DOMAIN t : t[k] = x \/ \E l \in DOMAIN s : s[l] = t[k]
           /\ \E k \in DOMAIN t : t[k] = x
           /\ \A l \in DOMAIN s : \E k \in DOMAIN t : t[k] = s[l]
<1> DEFINE N == Len(s)
           one == 1
           pre == SubSeq(s, one, i - 1)
           mid == <<x>>
           post == SubSeq(s, i, N)
           t == InsertAt(s, i, x)
           m == i - 1
           n == N - m
<1>1. N \in Nat /\ DOMAIN s = 1..N /\ i \in 1..N + 1
  BY TableFacts
<1>2. Table(pre) /\ DOMAIN pre = 1..m /\ \A k \in 1..m : pre[k] = s[k]
  <2>1. one \in 1..Len(s) + 1 /\ m \in 0..Len(s) /\ one <= m + 1
    BY <1>1
  <2>2. m + 1 - one = m /\ \A k \in 1..m : one + k - 1 = k
    BY <1>1
  <2>3. pre = SubSeq(s, one, m)
    OBVIOUS
  <2> HIDE DEF one, m, pre
  <2>4. LET u == SubSeq(s, one, m) IN
           Table(u) /\ DOMAIN u = 1..m + 1 - one /\ \A k \in 1..m + 1 - one : u[k] = s[one + k - 1]
    BY <2>1, StretchOf
  <2> QED
    BY <2>2, <2>3, <2>4
<1>3. Table(post) /\ DOMAIN post = 1..n /\ \A k \in 1..n : post[k] = s[m + k]
  <2>1. i \in 1..Len(s) + 1 /\ N \in 0..Len(s) /\ i <= N + 1
    BY <1>1
  <2>2. N + 1 - i = n /\ \A k \in 1..n : i + k - 1 = m + k
    BY <1>1
  <2> HIDE DEF N, m, n
  <2>3. LET u == SubSeq(s, i, N) IN
           Table(u) /\ DOMAIN u = 1..N + 1 - i /\ \A k \in 1..N + 1 - i : u[k] = s[i + k - 1]
    BY <2>1, StretchOf
  <2> QED
    BY <2>2, <2>3
<1>4. t = (pre \o mid) \o post
  BY DEF InsertAt
<1>5. Table(mid) /\ Len(mid) = 1 /\ DOMAIN mid = {1} /\ mid[1] = x
  BY OneRow
<1>6. m \in Nat /\ n \in Nat /\ m + n = N /\ i = m + 1
  BY <1>1
<1> HIDE DEF pre, post, mid, t, m, n, one
<1>7. Len(pre) = m /\ Len(post) = n
  <2>1. Len(pre) \in Nat /\ DOMAIN pre = 1..Len(pre) /\ Len(post) \in Nat /\ DOMAIN post = 1..Len(post)
    BY <1>2, <1>3, TableFacts
  <2>2. 1..Len(pre) = 1..m /\ 1..Len(post) = 1..n
    BY <1>2, <1>3, <2>1
  <2> QED
    BY <1>6, <2>1, <2>2, SameUpTo
<1>8. /\ Table(t) /\ DOMAIN t = 1..i + n /\ t[i] = x
      /\ \A k \in 1..m : t[k] = s[k]
      /\ \A k \in 1..n : t[i + k] = s[m + k]
  <2> DEFINE front == pre \o mid
             b == Len(mid)
  <2>0. front = pre \o mid /\ Table(pre) /\ Table(mid) /\ m = Len(pre) /\ b = Len(mid)
    BY <1>2, <1>5, <1>7
  <2>1. Table(front) /\ DOMAIN front = 1..Len(pre) + Len(mid)
    BY <1>2, <1>5, TableConcat
  <2> HIDE DEF front, b
  <2>2. \A k \in DOMAIN pre : front[k] = pre[k]
    BY <2>0, JoinStarts
  <2>3. front[i] = x
    <3>1. \A k \in 1..b : front[m + k] = mid[k]
      BY <2>0, JoinPlaces
    <3>2. b = 1 /\ mid[1] = x
      BY <1>5, <2>0
    <3> HIDE DEF b
    <3> QED
      BY <1>6, <3>1, <3>2
  <2>4. Len(front) = i
    <3>1. Len(front) \in Nat /\ DOMAIN front = 1..Len(front)
      BY <2>1, TableFacts
    <3>2. 1..Len(front) = 1..i
      BY <1>5, <1>6, <1>7, <2>1, <3>1
    <3> DEFINE c == Len(front)
    <3>3. c \in Nat /\ 1..c = 1..i
      BY <3>1, <3>2
    <3> HIDE DEF c
    <3>4. i \in Nat
      BY <1>6
    <3>5. c = i
      BY <3>3, <3>4, SameUpTo
    <3> QED
      BY <3>5 DEF c
  <2>5. t = front \o post
    BY <1>4, <2>0
  <2>6. Table(t) /\ DOMAIN t = 1..Len(front) + Len(post)
    BY <1>3, <2>1, <2>5, TableConcat
  <2>7. \A k \in DOMAIN front : t[k] = front[k]
    BY <1>3, <2>1, <2>5, TableConcat
  <2>8. \A k \in 1..n : (front \o post)[i + k] = post[k]
    <3>1. i = Len(front) /\ n = Len(post)
      BY <1>7, <2>4
    <3> QED
      BY <1>3, <2>1, <3>1, JoinPlaces
  <2>9. DOMAIN front = 1..i /\ i \in 1..i /\ \A k \in 1..m : k \in 1..i
    BY <1>5, <1>6, <1>7, <2>1
  <2>10. t[i] = x /\ \A k \in 1..m : t[k] = s[k]
    BY <1>2, <2>2, <2>3, <2>7, <2>9
  <2>11. \A k \in 1..n : t[i + k] = s[m + k]
    BY <1>3, <2>5, <2>8
  <2> QED
    BY <1>7, <2>4, <2>6, <2>10, <2>11
<1>9. DOMAIN t = 1..N + 1
  BY <1>6, <1>8
<1> HIDE DEF N
<1> DEFINE from(k) == IF k < i THEN k ELSE k - 1
<1>10. ASSUME NEW k \in DOMAIN t, k # i PROVE from(k) \in DOMAIN s /\ t[k] = s[from(k)]
  <2>1. CASE k < i
    BY <1>1, <1>6, <1>8, <1>9, <2>1
  <2>2. CASE ~(k < i)
    <3> DEFINE l == k - i
    <3>1. l \in 1..n /\ k = i + l /\ from(k) = m + l /\ m + l \in 1..N
      BY <1>6, <1>9, <1>10, <2>2
    <3> HIDE DEF l, from
    <3> QED
      BY <1>1, <1>8, <3>1
  <2> QED
    BY <2>1, <2>2
<1>11. \A k, l \in DOMAIN t : k # i /\ l # i /\ from(k) = from(l) => k = l
  BY <1>6, <1>9
<1>12. ASSUME NEW l \in DOMAIN s PROVE \E k \in DOMAIN t : t[k] = s[l]
  <2>1. CASE l \in 1..m
    <3>1. l \in DOMAIN t
      BY <1>6, <1>9, <2>1
    <3> QED
      BY <1>8, <2>1, <3>1
  <2>2. CASE l \notin 1..m
    <3> DEFINE j == l - m
    <3>1. j \in 1..n /\ l = m + j /\ i + j \in 1..N + 1
      BY <1>1, <1>6, <2>2
    <3> HIDE DEF j
    <3>2. t[i + j] = s[l] /\ i + j \in DOMAIN t
      BY <1>8, <1>9, <3>1
    <3> QED
      BY <3>2
  <2> QED
    BY <2>1, <2>2
<1>13. i \in DOMAIN t
  BY <1>1, <1>9
<1> HIDE DEF from
<1>14. Single(t)
  <2>1. SUFFICES ASSUME NEW k \in DOMAIN t, NEW l \in DOMAIN t, t[k] = t[l] PROVE k = l
    BY DEF Single
  <2>2. CASE k = i /\ l = i
    BY <2>2
  <2>3. CASE k = i /\ l # i
    BY <1>8, <1>10, <2>1, <2>3
  <2>4. CASE k # i /\ l = i
    BY <1>8, <1>10, <2>1, <2>4
  <2>5. CASE k # i /\ l # i
    <3>1. s[from(k)] = s[from(l)] /\ from(k) \in DOMAIN s /\ from(l) \in DOMAIN s
      BY <1>10, <2>1, <2>5
    <3>2. from(k) = from(l)
      BY <3>1 DEF Single
    <3> QED
      BY <1>11, <2>5, <3>2
  <2> QED
    BY <2>2, <2>3, <2>4, <2>5
<1> QED
  BY <1>8, <1>10, <1>12, <1>13, <1>14 DEF t

LEMMA ReplyKeepsExport == Exported /\ Reply => Exported'
<1>1. SUFFICES ASSUME Exported, Reply PROVE Chat(payload'.nodes, payload'.keys)
  BY DEF Exported
<1> DEFINE nodes == payload.nodes
           keys == payload.keys
           last == Len(nodes) + 1
<1>2. PICK parent \in 0..Len(nodes), k \in NodeKind, i \in 1..Len(keys) + 1 :
          payload' = [nodes |-> Append(nodes, [parent |-> parent, kind |-> k]),
                      keys |-> InsertAt(keys, i, last)]
  BY <1>1 DEF Reply
<1> DEFINE node == [parent |-> parent, kind |-> k]
           more == Append(nodes, node)
           keyed == InsertAt(keys, i, last)
<1>3. payload'.nodes = more /\ payload'.keys = keyed
  BY <1>2
<1>4. Tree(nodes) /\ Table(keys) /\ Single(keys)
  BY <1>1 DEF Reply, Exported, Chat
<1>5. /\ \A j \in DOMAIN keys : keys[j] \in DOMAIN nodes
      /\ \A n \in DOMAIN nodes : \E j \in DOMAIN keys : keys[j] = n
  BY <1>1 DEF Reply, Exported, Chat
<1> HIDE DEF nodes, keys
<1>6. node.parent \in 0..last - 1 /\ node.kind \in NodeKind
  <2>1. Len(nodes) \in Nat
    BY <1>4, TableFacts DEF Tree
  <2> QED
    BY <2>1
<1>7. Len(nodes) \in Nat /\ DOMAIN nodes = 1..Len(nodes) /\ last \notin DOMAIN nodes
  BY <1>4, TableFacts DEF Tree
<1> HIDE DEF node
<1>8. /\ Table(more) /\ DOMAIN more = DOMAIN nodes \cup {last}
      /\ \A n \in DOMAIN nodes : more[n] = nodes[n]
      /\ more[last] = node
  BY <1>4, TableAppend DEF Tree
<1> HIDE DEF more
<1>9. Tree(more)
  BY <1>4, <1>6, <1>8 DEF Tree
<1>10. \A j \in DOMAIN keys : keys[j] # last
  BY <1>5, <1>7
<1> HIDE DEF last
<1>11. /\ Table(keyed) /\ Single(keyed)
       /\ \A j \in DOMAIN keyed : keyed[j] = last \/ \E l \in DOMAIN keys : keys[l] = keyed[j]
       /\ \E j \in DOMAIN keyed : keyed[j] = last
       /\ \A l \in DOMAIN keys : \E j \in DOMAIN keyed : keyed[j] = keys[l]
  BY <1>4, <1>10, InsertedOnce
<1> HIDE DEF keyed
<1>12. \A j \in DOMAIN keyed : keyed[j] \in DOMAIN more
  BY <1>5, <1>8, <1>11
<1>13. ASSUME NEW n \in DOMAIN more PROVE \E j \in DOMAIN keyed : keyed[j] = n
  <2>1. CASE n = last
    BY <1>11, <2>1
  <2>2. CASE n # last
    <3>1. PICK l \in DOMAIN keys : keys[l] = n
      BY <1>5, <1>8, <2>2
    <3> QED
      BY <1>11, <3>1
  <2> QED
    BY <2>1, <2>2
<1>14. Chat(more, keyed)
  BY <1>9, <1>11, <1>12, <1>13 DEF Chat
<1> QED
  BY <1>3, <1>14

LEMMA ExportedHolds == Spec => []Exported
<1>1. Exported /\ [Next]_vars => Exported'
  <2>1. Exported /\ (EditParagraph \/ PrintParagraph \/ WriteLine) => Exported'
    BY DEF EditParagraph, PrintParagraph, WriteLine, Exported
  <2>2. Exported /\ Match => Exported'
    BY DEF Match, Exported
  <2>3. Exported /\ UNCHANGED vars => Exported'
    BY DEF vars, Exported
  <2> QED
    BY <2>1, <2>2, <2>3, ReplyKeepsExport DEF Next
<1> QED
  BY <1>1, ExportedStarts, PTL DEF Spec

-----------------------------------------------------------------------------
(* The theorems.                                                           *)

\* No line of a source file's definitions is lost from the index, however the file
\* grows, provided no name is defined three times and the file is ASCII up to the end
\* of the definition.
THEOREM NoLineIsLost == Spec => []CodeIsIndexed
<1>1. Shaped => CodeIsIndexed
  BY CodeFollows DEF Shaped
<1> QED
  BY <1>1, ShapedHolds, PTL

\* No sentence of a document or a PDF is lost from the index, whatever its sections,
\* windows and overlaps, provided no two sections have one path.
THEOREM NoSentenceIsLost == Spec => []EverySentenceIsIndexed
<1>1. Shaped => EverySentenceIsIndexed
  BY SentencesFollow, ParagraphsAreDoc, PdfIsPages DEF Shaped
<1> QED
  BY <1>1, ShapedHolds, PTL

\* A commit elsewhere in a document leaves the chunks of a section alone, their ids
\* and their texts, wherever the section moves.
THEOREM SectionsStay == Spec => SectionsKeepTheirChunks
<1>1. ASSUME Shaped, Shaped', [Next]_vars, kind = "md",
             NEW s \in Sections(payload) \cap Sections(payload'), s # <<>>, Whole(s)
      PROVE  Texts(s) \subseteq Texts(payload) \cap Texts(payload')
  <2>1. kind' = "md"
    BY <1>1 DEF Next, EditParagraph, PrintParagraph, Reply, WriteLine, Match, vars
  <2>2. payload \in Seq(Paragraphs) /\ payload' \in Seq(Paragraphs)
    BY <1>1, <2>1 DEF Shaped
  <2>3. ASSUME NEW doc \in Seq(Paragraphs), s \in Sections(doc)
        PROVE  Texts(s) \subseteq Texts(doc)
    <3>1. PICK p \in SectionStarts(doc) :
               \E q \in DOMAIN doc : (q = Len(doc) \/ IsHeading(doc[q + 1])) /\ s = SubSeq(doc, p, q)
      BY <2>3 DEF Sections
    <3>2. PICK q \in DOMAIN doc : (q = Len(doc) \/ IsHeading(doc[q + 1])) /\ s = SubSeq(doc, p, q)
      BY <3>1
    <3>3. IsHeading(s[1]) /\ \A k \in DOMAIN s : k > 1 => ~IsHeading(s[k])
      BY <1>1 DEF Whole
    <3>4. IdTexts(ChunkMarkdown(s)) \subseteq IdTexts(ChunkMarkdown(doc))
      BY <1>1, <3>2, <3>3, SectionIsKept
    <3> QED
      BY <3>4 DEF IdTexts, Texts
  <2> QED
    BY <2>2, <2>3
<1>2. Shaped /\ Shaped' /\ [Next]_vars =>
         [ kind = "md" =>
              \A s \in Sections(payload) \cap Sections(payload') :
                  s # <<>> /\ Whole(s) => Texts(s) \subseteq Texts(payload) \cap Texts(payload') ]_vars
  BY <1>1
<1> QED
  BY <1>2, ShapedHolds, PTL DEF Spec, SectionsKeepTheirChunks

\* Of equally good matches the results take as many artifacts as they can: the first
\* match of each artifact comes before every second one (rerank_candidates,
\* service.py:61-94).
THEOREM ResultsAlwaysSpan == Spec => []ResultsSpanArtifacts
<1>1. ASSUME Matching, NEW branch \in Branch,
             \A c, d \in Candidates(branch) : c.vec = d.vec /\ c.raw = d.raw
      PROVE  Cardinality({c.artifact : c \in ToSet(Results(branch))})
                = Min({MaxResults, Cardinality({c.artifact : c \in Candidates(branch)})})
  <2> DEFINE cands == Candidates(branch)
             one == [c \in cands |-> Score(cands, c, 1)]
             order == Ordered(cands, one)
             place(c) == CHOOSE k \in DOMAIN order : order[k] = c
             two == [c \in cands |-> Score(cands, c, Diversity(order, place(c)))]
             ranked == Ordered(cands, two)
             D == Firsts(order)
             n == Cardinality(cands)
             m == Min({MaxResults, n})
  <2>1. Ranked(cands)
    BY <1>1, CandidatesAre
  <2>2. Results(branch) = SubSeq(ranked, 1, Min({MaxResults, Len(ranked)}))
    BY DEF Results
  <2>3. \A c, d \in cands : c.vec = d.vec /\ c.raw = d.raw
    BY <1>1
  <2> HIDE DEF cands
  <2>4. ASSUME NEW c \in cands
        PROVE  /\ Score(cands, c, 0) = 6 * c.vec + 3 * Exact
               /\ Score(cands, c, 1) = 6 * c.vec + 3 * Exact + Exact
               /\ c.vec \in Int
    <3>1. c.vec \in Int /\ c.raw \in Int /\ \A d \in cands : d.vec = c.vec /\ d.raw = c.raw
      BY <2>1, <2>3 DEF Ranked
    <3> QED
      BY <3>1, ScoreIs
  <2>5. Scored(cands, one)
    <3>1. \A c \in cands : one[c] = 6 * c.vec + 3 * Exact + Exact /\ c.vec \in Int
      BY <2>4
    <3> HIDE DEF one
    <3>2. \A c \in cands : one[c] \in Int
      BY <3>1, RankingAssumption
    <3> QED
      BY <2>1, <3>2 DEF Scored, Ranked
  <2>6. InOrder(cands, one, order)
    BY <2>5, OrderedIs
  <2> HIDE DEF one, order
  <2>7. ASSUME NEW c \in cands
        PROVE  Diversity(order, place(c)) = IF c \in D THEN 1 ELSE 0
    <3>1. place(c) \in DOMAIN order /\ order[place(c)] = c
      BY <2>6 DEF InOrder
    <3>2. \A k \in DOMAIN order : order[k] = c => k = place(c)
      BY <2>6, <3>1 DEF InOrder
    <3> HIDE DEF place
    <3>3. c \in D <=> Diversity(order, place(c)) = 1
      BY <3>1, <3>2 DEF Firsts
    <3>4. Diversity(order, place(c)) \in {0, 1}
      BY DEF Diversity
    <3> QED
      BY <3>3, <3>4
  <2>8. \A c \in cands : two[c] = IF c \in D THEN Score(cands, c, 1) ELSE Score(cands, c, 0)
    BY <2>7
  <2> HIDE DEF two, place, D
  <2>9. Scored(cands, two)
    <3>1. \A c \in cands : two[c] \in Int
      <4>1. ASSUME NEW c \in cands PROVE two[c] \in Int
        BY <2>4, <2>8, RankingAssumption
      <4> QED
        BY <4>1
    <3> QED
      BY <2>1, <3>1 DEF Scored, Ranked
  <2>10. InOrder(cands, two, ranked)
    BY <2>9, OrderedIs
  <2> HIDE DEF ranked
  <2>11. /\ D \in SUBSET cands
         /\ \A c \in cands : \E d \in D : d.artifact = c.artifact
         /\ \A c, d \in D : c.artifact = d.artifact => c = d
    BY <2>5, <2>6, FirstsOf DEF D
  <2>12. \A c \in D : \A d \in cands \ D : Before(two, c, d)
    <3>1. ASSUME NEW c \in D, NEW d \in cands \ D PROVE Before(two, c, d)
      <4>1. c \in cands /\ d \in cands /\ c.vec = d.vec
        BY <2>3, <2>11
      <4>2. two[c] = 6 * c.vec + 3 * Exact + Exact /\ two[d] = 6 * d.vec + 3 * Exact /\ c.vec \in Int
        BY <2>4, <2>8, <3>1, <4>1
      <4>3. two[c] > two[d]
        BY <4>1, <4>2, RankingAssumption
      <4> QED
        BY <4>3 DEF Before
    <3> QED
      BY <3>1
  <2>13. MaxResults \in Nat
    BY RankingAssumption
  <2>14. Cardinality(Taken(ranked, m)) = Min({MaxResults, Cardinality(ArtifactsOf(cands))})
    <3>1. m = Min({MaxResults, Cardinality(cands)})
      OBVIOUS
    <3> HIDE DEF m, n
    <3> QED
      BY <2>9, <2>10, <2>11, <2>12, <2>13, <3>1, FirstArtifacts
  <2>15. {c.artifact : c \in ToSet(Results(branch))} = Taken(ranked, m)
    <3>1. n \in Nat
      BY <2>1, FS_CardinalityType DEF Ranked
    <3>2. m \in 0..n
      <4>1. {MaxResults, n} \in SUBSET Nat /\ {MaxResults, n} # {}
        BY <2>13, <3>1
      <4>2. m \in {MaxResults, n} /\ \A k \in {MaxResults, n} : m <= k
        BY <4>1, Smallest
      <4> QED
        BY <2>13, <3>1, <4>2
    <3>3. Table(ranked) /\ Len(ranked) = n
      BY <2>10 DEF InOrder
    <3>4. Results(branch) = SubSeq(ranked, 1, m)
      BY <2>2, <3>3
    <3> HIDE DEF n, m
    <3> DEFINE t == SubSeq(ranked, 1, m)
               s == 1
    <3>5. DOMAIN t = 1..m /\ \A i \in 1..m : t[i] = ranked[i]
      <4>1. s \in 1..Len(ranked) + 1 /\ m \in 0..Len(ranked) /\ s <= m + 1
        BY <3>1, <3>2, <3>3
      <4>2. m + 1 - s = m /\ \A i \in 1..m : s + i - 1 = i
        BY <3>1, <3>2
      <4> HIDE DEF s
      <4>3. LET u == SubSeq(ranked, s, m) IN
               Table(u) /\ DOMAIN u = 1..m + 1 - s /\ \A i \in 1..m + 1 - s : u[i] = ranked[s + i - 1]
        BY <3>3, <4>1, StretchOf
      <4> QED
        BY <4>2, <4>3 DEF s
    <3> HIDE DEF t
    <3>6. ToSet(t) = {t[i] : i \in 1..m}
      BY <3>5 DEF ToSet
    <3>7. {c.artifact : c \in ToSet(t)} = {ranked[k].artifact : k \in 1..m}
      BY <3>5, <3>6
    <3> QED
      BY <3>4, <3>7 DEF Taken, t
  <2> QED
    BY <2>14, <2>15 DEF cands, ArtifactsOf
<1>2. Matching => ResultsSpanArtifacts
  BY <1>1 DEF ResultsSpanArtifacts
<1> QED
  BY <1>2, MatchingHolds, PTL

\* An import has every message of the export once, whatever replies were regenerated,
\* each as a chunk of its own, and the thread of first replies before anything else.
\* ("so nothing is lost", chat_common.py:128-130)
THEOREM ThreadsStayWhole == Spec => []ThreadsAreWhole
<1>1. Exported => ThreadsAreWhole
  <2>1. CASE kind = "chat"
    BY <2>1, ThreadsFollow DEF Exported
  <2>2. CASE kind # "chat"
    BY <2>2 DEF ThreadsAreWhole
  <2> QED
    BY <2>1, <2>2
<1> QED
  BY <1>1, ExportedHolds, PTL
=============================================================================
