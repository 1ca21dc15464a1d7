---------------------------- MODULE TableLemmas ----------------------------
(***************************************************************************)
(* Lemmas about the tables of the store: a table is a sequence of rows (the *)
(* values in a row need no set of their own), and the commit table is a    *)
(* graph in which parents come before children.                            *)
(***************************************************************************)
EXTENDS VersionDag, Integers, Sequences, SequenceTheorems, FiniteSetTheorems,
        WellFoundedInduction, TLAPS

Table(s) == s \in Seq({s[k] : k \in DOMAIN s})

LEMMA TableFacts ==
    ASSUME NEW s, Table(s)
    PROVE  Len(s) \in Nat /\ DOMAIN s = 1..Len(s) /\ Len(s) + 1 \notin DOMAIN s
BY LenProperties DEF Table

LEMMA TableAppend ==
    ASSUME NEW s, Table(s), NEW row
    PROVE  /\ Table(Append(s, row)) /\ DOMAIN Append(s, row) = DOMAIN s \cup {Len(s) + 1}
           /\ \A k \in DOMAIN s : Append(s, row)[k] = s[k]
           /\ Append(s, row)[Len(s) + 1] = row
<1> DEFINE S == {s[k] : k \in DOMAIN s} \cup {row}
           t == Append(s, row)
<1>1. s \in Seq(S)
  BY SeqMonotonic DEF Table
<1>2. /\ t \in Seq(S) /\ Len(t) = Len(s) + 1 /\ Len(s) \in Nat
      /\ DOMAIN s = 1..Len(s)
      /\ \A k \in 1..Len(s) : t[k] = s[k]
      /\ t[Len(s) + 1] = row
  BY <1>1, AppendProperties, LenProperties
<1>3. DOMAIN t = 1..Len(t)
  BY <1>2, LenProperties
<1>4. DOMAIN t = DOMAIN s \cup {Len(s) + 1}
  BY <1>2, <1>3
<1>5. t \in [1..Len(t) -> {t[k] : k \in DOMAIN t}]
  BY <1>2, <1>3, LenProperties
<1>6. Table(t)
  BY <1>2, <1>5, SeqDef DEF Table
<1> QED
  BY <1>2, <1>4, <1>6

LEMMA TableExcept ==
    ASSUME NEW s, Table(s), NEW m \in DOMAIN s, NEW row
    PROVE  LET t == [s EXCEPT ![m] = row] IN
           /\ Table(t) /\ DOMAIN t = DOMAIN s
           /\ t[m] = row /\ \A k \in DOMAIN s \ {m} : t[k] = s[k]
<1> DEFINE t == [s EXCEPT ![m] = row]
<1>1. Len(s) \in Nat /\ DOMAIN s = 1..Len(s) /\ s = [k \in DOMAIN s |-> s[k]]
  BY LenProperties DEF Table
<1>2. DOMAIN t = DOMAIN s /\ t[m] = row /\ \A k \in DOMAIN s \ {m} : t[k] = s[k]
  OBVIOUS
<1>3. t \in [1..Len(s) -> {t[k] : k \in DOMAIN t}]
  BY <1>1
<1>4. Table(t)
  <2>1. Len(s) \in Nat
    BY <1>1
  <2> HIDE DEF t
  <2> QED
    BY <1>3, <2>1, SeqDef DEF Table
<1> QED
  BY <1>2, <1>4

LEMMA TableJoin ==
    ASSUME NEW s, Table(s), NEW n \in Nat, NEW D, NEW t \in [1..n -> D]
    PROVE  /\ Table(s \o t) /\ DOMAIN (s \o t) = 1..Len(s) + n
           /\ \A k \in DOMAIN s : (s \o t)[k] = s[k]
           /\ \A k \in 1..n : (s \o t)[Len(s) + k] = t[k]
<1> DEFINE S == {s[k] : k \in DOMAIN s} \cup D
           u == s \o t
<1>1. s \in Seq(S)
  BY SeqMonotonic DEF Table
<1>2. t \in Seq(S) /\ Len(t) = n
  <2>1. t \in [1..n -> S]
    OBVIOUS
  <2>2. t \in Seq(S)
    BY <2>1, SeqDef
  <2>3. DOMAIN t = 1..n
    OBVIOUS
  <2> HIDE DEF S
  <2> QED
    BY <2>2, <2>3, LenProperties
<1>3. Len(s) \in Nat /\ DOMAIN s = 1..Len(s)
  BY <1>1, LenProperties
<1>4. /\ u \in Seq(S) /\ Len(u) = Len(s) + n
      /\ \A k \in 1..Len(s) + n : u[k] = IF k <= Len(s) THEN s[k] ELSE t[k - Len(s)]
  <2> HIDE DEF S
  <2> QED
    BY <1>1, <1>2, ConcatProperties
<1>5. DOMAIN u = 1..Len(s) + n
  <2> HIDE DEF S, u
  <2> QED
    BY <1>4, LenProperties
<1>6. Table(u)
  <2>1. u \in [1..Len(u) -> {u[k] : k \in DOMAIN u}]
    <3> HIDE DEF u, S
    <3> QED
      BY <1>4, <1>5, LenProperties
  <2>2. Len(u) \in Nat
    BY <1>3, <1>4
  <2> HIDE DEF u, S
  <2> QED
    BY <2>1, <2>2, SeqDef DEF Table
<1> HIDE DEF S, u
<1>7. ASSUME NEW k \in DOMAIN s
      PROVE  u[k] = s[k]
  <2>1. k \in 1..Len(s) + n /\ k <= Len(s)
    BY <1>3, <1>7
  <2> QED
    BY <1>4, <2>1
<1>8. ASSUME NEW k \in 1..n
      PROVE  u[Len(s) + k] = t[k]
  <2>1. /\ Len(s) + k \in 1..Len(s) + n /\ ~(Len(s) + k <= Len(s))
        /\ (Len(s) + k) - Len(s) = k
    BY <1>3, <1>8
  <2> QED
    BY <1>4, <2>1
<1> QED
  BY <1>5, <1>6, <1>7, <1>8 DEF u
-----------------------------------------------------------------------------
(* Induction over the naturals, from the least counterexample.             *)

Below == {ss \in Nat \X Nat : ss[1] < ss[2]}

LEMMA Least ==
    ASSUME NEW S, S \subseteq Nat, S # {}
    PROVE  \E m \in S : \A k \in S : m <= k
<1>1. IsWellFoundedOn(Below, Nat)
  BY NatLessThanWellFounded DEF OpToRel, Below
<1>2. PICK m \in S : \A k \in S : ~ (<<k, m>> \in Below)
  BY <1>1, WFMin
<1>3. ASSUME NEW k \in S
      PROVE  m <= k
  <2>1. k \in Nat /\ m \in Nat
    OBVIOUS
  <2>2. k < m => <<k, m>> \in Below
    BY <2>1 DEF Below
  <2> QED
    BY <1>2, <2>1, <2>2
<1> QED
  BY <1>3

\* A set with 0 that goes on to N from each of its elements.
LEMMA Induct ==
    ASSUME NEW S, NEW N \in Nat, 0 \in S, \A n \in 0..(N - 1) : n \in S => n + 1 \in S
    PROVE  0..N \subseteq S
<1>1. SUFFICES ASSUME (0..N) \ S # {} PROVE FALSE
  OBVIOUS
<1>2. PICK m \in (0..N) \ S : \A k \in (0..N) \ S : m <= k
  <2>1. (0..N) \ S \subseteq Nat
    OBVIOUS
  <2> QED
    BY <1>1, <2>1, Least
<1>3. m # 0
  BY <1>2
<1>4. m - 1 \in 0..(N - 1) /\ m - 1 \in 0..N /\ (m - 1) + 1 = m /\ ~(m <= m - 1)
  BY <1>3
<1>5. m - 1 \in S
  BY <1>2, <1>4
<1>6. m \in S
  BY <1>4, <1>5
<1> QED
  BY <1>6

-----------------------------------------------------------------------------
(* A commit table: the parents of a commit are earlier commits, two at most. *)

Older(table, n) == ToSet(table[n].parents)

Dag(table) ==
    /\ Table(table)
    /\ \A n \in DOMAIN table :
          /\ Table(table[n].parents) /\ Len(table[n].parents) <= 2
          /\ Older(table, n) \subseteq 1..(n - 1)

LEMMA DagFacts ==
    ASSUME NEW table, Dag(table)
    PROVE  /\ Len(table) \in Nat /\ DOMAIN table = 1..Len(table)
           /\ \A n \in DOMAIN table : \A p \in Older(table, n) : p \in DOMAIN table /\ p < n
<1>1. Len(table) \in Nat /\ DOMAIN table = 1..Len(table)
  BY TableFacts DEF Dag
<1>2. ASSUME NEW n \in DOMAIN table, NEW p \in Older(table, n)
      PROVE  p \in DOMAIN table /\ p < n
  <2>1. p \in 1..(n - 1) /\ n \in 1..Len(table)
    BY <1>1 DEF Dag
  <2> QED
    BY <1>1, <2>1
<1> QED
  BY <1>1, <1>2

Past(table, past) ==
    past = [n \in DOMAIN table |-> {n} \cup UNION {past[p] : p \in Older(table, n)}]

\* The recursion that defines the ancestors has a solution.
LEMMA PastExists ==
    ASSUME NEW table, Dag(table)
    PROVE  \E past : Past(table, past)
<1> DEFINE Upto(N, f) == f = [n \in 1..N |-> {n} \cup UNION {f[p] : p \in Older(table, n)}]
           S == {N \in 0..Len(table) : \E f : Upto(N, f)}
<1>0. Len(table) \in Nat /\ DOMAIN table = 1..Len(table)
  BY DagFacts
<1>1. 0 \in S
  <2>1. Upto(0, [n \in 1..0 |-> {}])
    OBVIOUS
  <2>2. 0 \in 0..Len(table)
    BY <1>0
  <2> QED
    BY <2>1, <2>2
<1>2. ASSUME NEW N \in 0..(Len(table) - 1), N \in S
      PROVE  N + 1 \in S
  <2>1. PICK f : Upto(N, f)
    BY <1>2
  <2> DEFINE g == [n \in 1..N + 1 |-> IF n = N + 1 THEN {n} \cup UNION {f[p] : p \in Older(table, n)}
                                      ELSE f[n]]
  <2>2. ASSUME NEW n \in 1..N + 1
        PROVE  g[n] = {n} \cup UNION {g[p] : p \in Older(table, n)}
    <3>1. \A p \in Older(table, n) : p \in 1..N /\ g[p] = f[p]
      <4>1. n \in DOMAIN table
        BY <1>0, <1>2
      <4>2. Older(table, n) \subseteq 1..(n - 1)
        BY <4>1 DEF Dag
      <4> QED
        BY <4>2
    <3>2. g[n] = {n} \cup UNION {f[p] : p \in Older(table, n)}
      <4>1. CASE n = N + 1
        BY <4>1
      <4>2. CASE n # N + 1
        <5>1. n \in 1..N
          BY <1>0, <4>2
        <5>2. f[n] = {n} \cup UNION {f[p] : p \in Older(table, n)}
          <6> DEFINE h == [k \in 1..N |-> {k} \cup UNION {f[p] : p \in Older(table, k)}]
          <6>1. h[n] = {n} \cup UNION {f[p] : p \in Older(table, n)}
            BY <5>1
          <6>2. f = h
            BY <2>1
          <6> HIDE DEF h
          <6> QED
            BY <6>1, <6>2
        <5> QED
          BY <4>2, <5>2
      <4> QED
        BY <4>1, <4>2
    <3> QED
      BY <3>1, <3>2
  <2>3. Upto(N + 1, g)
    <3> DEFINE h == [n \in 1..N + 1 |-> {n} \cup UNION {g[p] : p \in Older(table, n)}]
    <3>1. \A n \in 1..N + 1 : g[n] = h[n]
      BY <2>2
    <3>2. g = h
      BY <3>1
    <3> QED
      BY <3>2
  <2>4. N + 1 \in 0..Len(table)
    BY <1>0
  <2> HIDE DEF g
  <2> QED
    BY <2>3, <2>4
<1>3. Len(table) \in S
  <2> HIDE DEF S
  <2>1. 0..Len(table) \subseteq S
    BY <1>0, <1>1, <1>2, Induct
  <2> QED
    BY <1>0, <2>1
<1> QED
  BY <1>0, <1>3 DEF Past

\* A commit is an ancestor of itself, and so are the ancestors of its parents.
LEMMA AncestorsFrom ==
    ASSUME NEW table, Dag(table), NEW c \in DOMAIN table
    PROVE  Ancestors(table, c) =
              {c} \cup UNION {Ancestors(table, p) : p \in Older(table, c)}
<1> DEFINE past == CHOOSE f : Past(table, f)
<1>1. Past(table, past)
  BY PastExists
<1>2. \A n \in DOMAIN table : Ancestors(table, n) = past[n]
  BY DEF Ancestors, Past, Older
<1> HIDE DEF past
<1>3. past[c] = {c} \cup UNION {past[p] : p \in Older(table, c)}
  BY <1>1 DEF Past
<1>4. \A p \in Older(table, c) : Ancestors(table, p) = past[p]
  BY <1>2, DagFacts
<1> QED
  BY <1>2, <1>3, <1>4

LEMMA AncestorsSelf ==
    ASSUME NEW table, Dag(table), NEW c \in DOMAIN table
    PROVE  c \in Ancestors(table, c)
BY AncestorsFrom

\* A set that holds with a commit the parents of each of its commits holds its ancestors.
LEMMA AncestorsLeast ==
    ASSUME NEW table, Dag(table), NEW S,
           \A n \in S \cap DOMAIN table : Older(table, n) \subseteq S,
           NEW c \in DOMAIN table, c \in S
    PROVE  Ancestors(table, c) \subseteq S
<1> DEFINE Bad == {n \in DOMAIN table \cap S : ~ (Ancestors(table, n) \subseteq S)}
<1>1. SUFFICES ASSUME Bad # {} PROVE FALSE
  OBVIOUS
<1>2. Bad \subseteq Nat
  BY DagFacts
<1>3. PICK m \in Bad : \A k \in Bad : m <= k
  BY <1>1, <1>2, Least
<1>4. m \in DOMAIN table /\ m \in S /\ m \in Nat
  BY <1>2
<1>5. \A p \in Older(table, m) : Ancestors(table, p) \subseteq S
  <2>1. TAKE p \in Older(table, m)
  <2>2. p \in DOMAIN table /\ p < m /\ p \in S /\ p \in Nat
    BY <1>4, DagFacts
  <2>3. p \notin Bad
    BY <1>3, <1>4, <2>2
  <2> QED
    BY <2>2, <2>3
<1>6. Ancestors(table, m) \subseteq S
  BY <1>4, <1>5, AncestorsFrom
<1> QED
  BY <1>6

LEMMA AncestorsBelow ==
    ASSUME NEW table, Dag(table), NEW c \in DOMAIN table
    PROVE  Ancestors(table, c) \subseteq 1..c
<1> DEFINE S == 1..c
<1>1. \A n \in S \cap DOMAIN table : Older(table, n) \subseteq S
  BY DagFacts
<1>2. c \in S
  BY DagFacts
<1> HIDE DEF S
<1>3. Ancestors(table, c) \subseteq S
  BY <1>1, <1>2, AncestorsLeast
<1> QED
  BY <1>3 DEF S

LEMMA AncestorsInTable ==
    ASSUME NEW table, Dag(table), NEW c \in DOMAIN table
    PROVE  Ancestors(table, c) \subseteq DOMAIN table
BY DagFacts, AncestorsBelow

\* The ancestors of an ancestor are ancestors.
LEMMA AncestorsTrans ==
    ASSUME NEW table, Dag(table), NEW c \in DOMAIN table, NEW n \in Ancestors(table, c)
    PROVE  n \in DOMAIN table /\ Ancestors(table, n) \subseteq Ancestors(table, c)
<1> DEFINE S == {k \in DOMAIN table : \A a \in Ancestors(table, k) :
                    Ancestors(table, a) \subseteq Ancestors(table, k)}
           Bad == DOMAIN table \ S
<1>1. ASSUME Bad # {} PROVE FALSE
  <2>1. Bad \subseteq Nat
    BY DagFacts
  <2>2. PICK m \in Bad : \A k \in Bad : m <= k
    BY <1>1, <2>1, Least
  <2>3. m \in DOMAIN table /\ m \in Nat
    BY <2>1
  <2>4. ASSUME NEW a \in Ancestors(table, m)
        PROVE  Ancestors(table, a) \subseteq Ancestors(table, m)
    <3>1. CASE a = m
      BY <3>1
    <3>2. CASE a # m
      <4>1. PICK p \in Older(table, m) : a \in Ancestors(table, p)
        BY <2>3, <2>4, <3>2, AncestorsFrom
      <4>2. p \in DOMAIN table /\ p < m /\ p \in Nat
        BY <2>3, DagFacts
      <4>3. p \in S
        BY <2>2, <2>3, <4>2
      <4>4. Ancestors(table, a) \subseteq Ancestors(table, p)
        BY <4>1, <4>3
      <4>5. Ancestors(table, p) \subseteq Ancestors(table, m)
        BY <2>3, AncestorsFrom
      <4> QED
        BY <4>4, <4>5
    <3> QED
      BY <3>1, <3>2
  <2> QED
    BY <2>2, <2>4
<1>2. c \in S
  BY <1>1
<1>3. n \in DOMAIN table
  BY AncestorsInTable
<1> QED
  BY <1>2, <1>3

LEMMA AncestorsClosed ==
    ASSUME NEW table, Dag(table), NEW c \in DOMAIN table, NEW n \in Ancestors(table, c)
    PROVE  Older(table, n) \subseteq Ancestors(table, c)
<1>1. n \in DOMAIN table /\ Ancestors(table, n) \subseteq Ancestors(table, c)
  BY AncestorsTrans
<1>2. ASSUME NEW p \in Older(table, n) PROVE p \in Ancestors(table, n)
  BY <1>1, AncestorsFrom, AncestorsSelf, DagFacts
<1> QED
  BY <1>1, <1>2

\* A table that grows changes no commit's ancestors.
LEMMA AncestorsStable ==
    ASSUME NEW old, Dag(old), NEW new, Dag(new), DOMAIN old \subseteq DOMAIN new,
           \A n \in DOMAIN old : Older(new, n) = Older(old, n),
           NEW c \in DOMAIN old
    PROVE  Ancestors(new, c) = Ancestors(old, c)
<1> DEFINE Bad == {n \in DOMAIN old : Ancestors(new, n) # Ancestors(old, n)}
<1>1. SUFFICES ASSUME Bad # {} PROVE FALSE
  OBVIOUS
<1>2. Bad \subseteq Nat
  BY DagFacts
<1>3. PICK m \in Bad : \A k \in Bad : m <= k
  BY <1>1, <1>2, Least
<1>4. m \in DOMAIN old /\ m \in DOMAIN new /\ m \in Nat
  BY <1>2
<1>5. \A p \in Older(old, m) : Ancestors(new, p) = Ancestors(old, p)
  <2>1. TAKE p \in Older(old, m)
  <2>2. p \in DOMAIN old /\ p < m /\ p \in Nat
    BY <1>4, DagFacts
  <2> QED
    BY <1>3, <1>4, <2>2
<1>6. Ancestors(new, m) = Ancestors(old, m)
  <2>1. Ancestors(new, m) = {m} \cup UNION {Ancestors(new, p) : p \in Older(new, m)}
    BY <1>4, AncestorsFrom
  <2>2. Ancestors(old, m) = {m} \cup UNION {Ancestors(old, p) : p \in Older(old, m)}
    BY <1>4, AncestorsFrom
  <2>3. Older(new, m) = Older(old, m)
    BY <1>4
  <2> QED
    BY <1>5, <2>1, <2>2, <2>3
<1> QED
  BY <1>6

\* A walk to smaller numbers has an end wherever it starts.
Ends(N, G, next, end) == end = [d \in 1..N |-> IF d \in G THEN end[next[d]] ELSE d]

LEMMA EndsExist ==
    ASSUME NEW N \in Nat, NEW G, NEW next, \A d \in G \cap 1..N : next[d] \in 1..(d - 1)
    PROVE  \E end : Ends(N, G, next, end)
<1> DEFINE Upto(n, f) == f = [d \in 1..n |-> IF d \in G THEN f[next[d]] ELSE d]
           S == {n \in 0..N : \E f : Upto(n, f)}
<1>1. 0 \in S
  <2>1. Upto(0, [d \in 1..0 |-> 0])
    OBVIOUS
  <2>2. 0 \in 0..N
    OBVIOUS
  <2> QED
    BY <2>1, <2>2
<1>2. ASSUME NEW n \in 0..(N - 1), n \in S
      PROVE  n + 1 \in S
  <2>1. PICK f : Upto(n, f)
    BY <1>2
  <2> DEFINE last == n + 1
             g == [d \in 1..last |-> IF d = last THEN IF d \in G THEN f[next[d]] ELSE d ELSE f[d]]
             h == [d \in 1..last |-> IF d \in G THEN g[next[d]] ELSE d]
             f0 == [d \in 1..n |-> IF d \in G THEN f[next[d]] ELSE d]
  <2>2. ASSUME NEW d \in 1..last PROVE g[d] = h[d]
    <3>1. d \in G => next[d] \in 1..n /\ next[d] \in 1..last /\ next[d] # last
      <4>1. d \in 1..N
        OBVIOUS
      <4>2. d \in G => next[d] \in 1..(d - 1)
        BY <4>1
      <4> QED
        BY <4>2
    <3>2. d \in G => g[next[d]] = f[next[d]]
      BY <3>1
    <3>3. h[d] = IF d \in G THEN g[next[d]] ELSE d
      OBVIOUS
    <3>4. CASE d = last
      <4>1. g[d] = IF d \in G THEN f[next[d]] ELSE d
        BY <3>4
      <4> HIDE DEF g, h
      <4> QED
        BY <3>2, <3>3, <4>1
    <3>5. CASE d # last
      <4>1. g[d] = f[d]
        BY <3>5
      <4>2. d \in 1..n
        BY <3>5
      <4>3. f0[d] = IF d \in G THEN f[next[d]] ELSE d
        BY <4>2
      <4>4. f = f0
        BY <2>1
      <4> HIDE DEF g, h, f0
      <4> QED
        BY <3>2, <3>3, <4>1, <4>3, <4>4
    <3> QED
      BY <3>4, <3>5
  <2>3. Upto(last, g)
    <3>1. g = h
      BY <2>2
    <3> QED
      BY <3>1
  <2>4. last \in 0..N
    OBVIOUS
  <2> HIDE DEF g
  <2> QED
    BY <2>3, <2>4
<1>3. N \in S
  <2> HIDE DEF S
  <2>1. 0..N \subseteq S
    BY <1>1, <1>2, Induct
  <2> QED
    BY <2>1
<1> QED
  BY <1>3 DEF Ends

LEMMA ShortTables ==
    ASSUME NEW p, NEW q
    PROVE  /\ Table(<<>>) /\ Table(<<p>>) /\ Table(<<p, q>>)
           /\ Len(<<>>) = 0 /\ Len(<<p>>) = 1 /\ Len(<<p, q>>) = 2
           /\ ToSet(<<>>) = {} /\ ToSet(<<p>>) = {p} /\ ToSet(<<p, q>>) = {p, q}
<1>1. /\ DOMAIN <<p>> = 1..1 /\ <<p>>[1] = p /\ Len(<<p>>) = 1
      /\ DOMAIN <<p, q>> = 1..2 /\ <<p, q>>[1] = p /\ <<p, q>>[2] = q /\ Len(<<p, q>>) = 2
  OBVIOUS
<1>2. 1..1 = {1} /\ 1..2 = {1, 2}
  OBVIOUS
<1>3. ToSet(<<>>) = {} /\ ToSet(<<p>>) = {p} /\ ToSet(<<p, q>>) = {p, q}
  BY <1>1, <1>2 DEF ToSet
<1>4. {<<p>>[k] : k \in DOMAIN <<p>>} = {p} /\ {<<p, q>>[k] : k \in DOMAIN <<p, q>>} = {p, q}
  BY <1>1, <1>2
<1>5. Table(<<>>) /\ Table(<<p>>) /\ Table(<<p, q>>)
  BY <1>4, EmptySeq DEF Table
<1> QED
  BY <1>1, <1>3, <1>5, EmptySeq

\* A commit whose parents are known is written at the end of the table.
LEMMA DagAppend ==
    ASSUME NEW table, Dag(table), NEW commit, Table(commit.parents), Len(commit.parents) <= 2,
           ToSet(commit.parents) \subseteq DOMAIN table
    PROVE  LET new == Append(table, commit) IN
           /\ Dag(new) /\ Len(table) + 1 \notin DOMAIN table
           /\ DOMAIN new = DOMAIN table \cup {Len(table) + 1} /\ new[Len(table) + 1] = commit
           /\ \A n \in DOMAIN table : new[n] = table[n] /\ Ancestors(new, n) = Ancestors(table, n)
<1> DEFINE new == Append(table, commit)
           last == Len(table) + 1
<1>1. /\ Table(table) /\ DOMAIN table = 1..Len(table) /\ Len(table) \in Nat
      /\ last \notin DOMAIN table
  BY TableFacts DEF Dag
<1>2. /\ Table(new) /\ DOMAIN new = DOMAIN table \cup {last}
      /\ \A n \in DOMAIN table : new[n] = table[n]
      /\ new[last] = commit
  BY <1>1, TableAppend
<1>3. ToSet(commit.parents) \subseteq 1..(last - 1)
  BY <1>1
<1> HIDE DEF new, last
<1>4. ASSUME NEW n \in DOMAIN table
      PROVE  /\ Table(new[n].parents) /\ Len(new[n].parents) <= 2
             /\ Older(new, n) \subseteq 1..(n - 1) /\ Older(new, n) = Older(table, n)
  BY <1>2 DEF Dag, Older
<1>5. /\ Table(new[last].parents) /\ Len(new[last].parents) <= 2
      /\ Older(new, last) \subseteq 1..(last - 1)
  BY <1>2, <1>3 DEF Older
<1>6. Dag(new)
  BY <1>2, <1>4, <1>5 DEF Dag
<1>7. \A n \in DOMAIN table : Ancestors(new, n) = Ancestors(table, n)
  BY <1>2, <1>4, <1>6, AncestorsStable
<1> QED
  BY <1>1, <1>2, <1>6, <1>7 DEF new, last

-----------------------------------------------------------------------------
(* The history walk.                                                       *)

\* One turn of the walk.
Turn(table, w) ==
    IF w.queue = <<>> THEN w
    ELSE IF Head(w.queue) \in ToSet(w.order) THEN [w EXCEPT !.queue = Tail(@)]
    ELSE [queue |-> Tail(w.queue) \o table[Head(w.queue)].parents,
          order |-> Append(w.order, Head(w.queue))]

Traversal(table, start, N, walk) ==
    walk = [k \in 0..N |-> IF k = 0 THEN [queue |-> <<start>>, order |-> <<>>]
                           ELSE Turn(table, walk[k - 1])]

LEMMA WalkExists ==
    ASSUME NEW table, NEW start, NEW N \in Nat
    PROVE  \E walk : Traversal(table, start, N, walk)
<1> DEFINE S == {n \in 0..N : \E walk : Traversal(table, start, n, walk)}
<1>1. 0 \in S
  <2> DEFINE g == [k \in 0..0 |-> [queue |-> <<start>>, order |-> <<>>]]
             h == [k \in 0..0 |-> IF k = 0 THEN [queue |-> <<start>>, order |-> <<>>]
                                  ELSE Turn(table, g[k - 1])]
  <2>1. g = h
    OBVIOUS
  <2> HIDE DEF g
  <2>2. Traversal(table, start, 0, g)
    BY <2>1 DEF Traversal
  <2> QED
    BY <2>2
<1>2. ASSUME NEW n \in 0..(N - 1), n \in S
      PROVE  n + 1 \in S
  <2>1. PICK f : Traversal(table, start, n, f)
    BY <1>2
  <2> DEFINE g == [k \in 0..n + 1 |-> IF k = n + 1 THEN Turn(table, f[n]) ELSE f[k]]
             h == [k \in 0..n + 1 |-> IF k = 0 THEN [queue |-> <<start>>, order |-> <<>>]
                                      ELSE Turn(table, g[k - 1])]
             f0 == [k \in 0..n |-> IF k = 0 THEN [queue |-> <<start>>, order |-> <<>>]
                                   ELSE Turn(table, f[k - 1])]
  <2>2. f = f0
    BY <2>1 DEF Traversal
  <2>3. ASSUME NEW k \in 0..n + 1 PROVE g[k] = h[k]
    <3>1. CASE k = n + 1
      <4>1. k # 0 /\ k - 1 = n /\ n \in 0..n + 1 /\ n # n + 1
        BY <3>1
      <4>2. g[n] = f[n]
        BY <4>1
      <4> QED
        BY <3>1, <4>1, <4>2
    <3>2. CASE k # n + 1 /\ k # 0
      <4>1. k \in 0..n /\ k - 1 \in 0..n + 1 /\ k - 1 # n + 1
        BY <3>2
      <4>2. g[k] = f[k] /\ g[k - 1] = f[k - 1]
        BY <3>2, <4>1
      <4>3. f0[k] = Turn(table, f[k - 1])
        BY <3>2, <4>1
      <4>4. h[k] = Turn(table, g[k - 1])
        BY <3>2
      <4> HIDE DEF f0, g, h
      <4> QED
        BY <2>2, <4>2, <4>3, <4>4
    <3>3. CASE k # n + 1 /\ k = 0
      <4>1. k \in 0..n
        BY <3>3
      <4>2. g[k] = f[k]
        BY <3>3
      <4>3. f0[k] = [queue |-> <<start>>, order |-> <<>>]
        BY <3>3, <4>1
      <4>4. h[k] = [queue |-> <<start>>, order |-> <<>>]
        BY <3>3
      <4> HIDE DEF f0, g, h
      <4> QED
        BY <2>2, <4>2, <4>3, <4>4
    <3> QED
      BY <3>1, <3>2, <3>3
  <2>4. Traversal(table, start, n + 1, g)
    <3>1. g = h
      BY <2>3
    <3> QED
      BY <3>1 DEF Traversal
  <2>5. n + 1 \in 0..N
    OBVIOUS
  <2> HIDE DEF g
  <2> QED
    BY <2>4, <2>5
<1>3. N \in S
  <2> HIDE DEF S
  <2>1. 0..N \subseteq S
    BY <1>1, <1>2, Induct
  <2> QED
    BY <2>1
<1> QED
  BY <1>3

\* Where the walk stands after k turns.
Walked(table, start, k, w) ==
    LET seen == ToSet(w.order) IN
    /\ w = [queue |-> w.queue, order |-> w.order]
    /\ w.queue \in Seq(Ancestors(table, start)) /\ w.order \in Seq(Ancestors(table, start))
    /\ \A i, j \in DOMAIN w.order : w.order[i] = w.order[j] => i = j
    /\ w.order = <<>> => w.queue = <<start>>
    /\ w.order # <<>> => w.order[1] = start
    /\ \A n \in seen : Older(table, n) \subseteq seen \cup ToSet(w.queue)
    /\ w.queue # <<>> => Len(w.queue) + k <= 1 + 2 * Len(w.order)

LEMMA RangeOf ==
    ASSUME NEW S, NEW s \in Seq(S)
    PROVE  ToSet(s) = {s[k] : k \in 1..Len(s)} /\ ToSet(s) \subseteq S
BY LenProperties DEF ToSet

LEMMA RangeAppend ==
    ASSUME NEW S, NEW s \in Seq(S), NEW e \in S
    PROVE  ToSet(Append(s, e)) = ToSet(s) \cup {e}
<1> DEFINE t == Append(s, e)
<1>1. /\ t \in Seq(S) /\ Len(t) = Len(s) + 1 /\ Len(s) \in Nat
      /\ \A i \in 1..Len(s) : t[i] = s[i]
      /\ t[Len(s) + 1] = e
  BY AppendProperties, LenProperties
<1> HIDE DEF t
<1>2. ToSet(t) = {t[k] : k \in 1..Len(s) + 1} /\ ToSet(s) = {s[k] : k \in 1..Len(s)}
  BY <1>1, RangeOf
<1>3. 1..Len(s) + 1 = (1..Len(s)) \cup {Len(s) + 1}
  BY <1>1
<1>4. ToSet(t) = ToSet(s) \cup {e}
  BY <1>1, <1>2, <1>3
<1> QED
  BY <1>4 DEF t

LEMMA RangeTail ==
    ASSUME NEW S, NEW s \in Seq(S), s # <<>>
    PROVE  ToSet(s) = ToSet(Tail(s)) \cup {Head(s)}
<1> DEFINE t == Tail(s)
<1>1. /\ Len(s) \in Nat \ {0} /\ t \in Seq(S) /\ Len(t) = Len(s) - 1
      /\ \A i \in 1..Len(t) : t[i] = s[i + 1]
  BY HeadTailProperties, EmptySeq
<1>2. Head(s) = s[1]
  OBVIOUS
<1> HIDE DEF t
<1>3. ToSet(t) = {t[k] : k \in 1..Len(t)} /\ ToSet(s) = {s[k] : k \in 1..Len(s)}
  BY <1>1, RangeOf
<1>4. ASSUME NEW k \in 1..Len(s) PROVE s[k] \in ToSet(t) \cup {s[1]}
  <2>1. k # 1 => k - 1 \in 1..Len(t) /\ (k - 1) + 1 = k
    BY <1>1
  <2>2. k # 1 => t[k - 1] = s[k]
    BY <1>1, <2>1
  <2> QED
    BY <1>3, <2>1, <2>2
<1>5. ASSUME NEW k \in 1..Len(t) PROVE t[k] \in ToSet(s)
  <2>1. k + 1 \in 1..Len(s)
    BY <1>1
  <2> QED
    BY <1>1, <1>3, <2>1
<1>6. s[1] \in ToSet(s)
  BY <1>1, <1>3
<1>7. ToSet(s) = ToSet(t) \cup {s[1]}
  BY <1>3, <1>4, <1>5, <1>6
<1> QED
  BY <1>2, <1>7 DEF t

LEMMA RangeConcat ==
    ASSUME NEW S, NEW s \in Seq(S), NEW t \in Seq(S)
    PROVE  ToSet(s \o t) = ToSet(s) \cup ToSet(t)
<1> DEFINE u == s \o t
<1>1. /\ Len(s) \in Nat /\ Len(t) \in Nat
      /\ u \in Seq(S) /\ Len(u) = Len(s) + Len(t)
      /\ \A i \in 1..Len(s) + Len(t) : u[i] = IF i <= Len(s) THEN s[i] ELSE t[i - Len(s)]
  BY ConcatProperties, LenProperties
<1> HIDE DEF u
<1>2. /\ ToSet(u) = {u[k] : k \in 1..Len(s) + Len(t)}
      /\ ToSet(s) = {s[k] : k \in 1..Len(s)} /\ ToSet(t) = {t[k] : k \in 1..Len(t)}
  BY <1>1, RangeOf
<1>3. ASSUME NEW k \in 1..Len(s) + Len(t) PROVE u[k] \in ToSet(s) \cup ToSet(t)
  <2>1. k <= Len(s) => k \in 1..Len(s)
    BY <1>1
  <2>2. ~(k <= Len(s)) => k - Len(s) \in 1..Len(t)
    BY <1>1
  <2> QED
    BY <1>1, <1>2, <2>1, <2>2
<1>4. ASSUME NEW k \in 1..Len(s) PROVE s[k] \in ToSet(u)
  <2>1. k \in 1..Len(s) + Len(t) /\ k <= Len(s)
    BY <1>1
  <2> QED
    BY <1>1, <1>2, <2>1
<1>5. ASSUME NEW k \in 1..Len(t) PROVE t[k] \in ToSet(u)
  <2>1. Len(s) + k \in 1..Len(s) + Len(t) /\ ~(Len(s) + k <= Len(s)) /\ (Len(s) + k) - Len(s) = k
    BY <1>1
  <2> QED
    BY <1>1, <1>2, <2>1
<1>6. ToSet(u) = ToSet(s) \cup ToSet(t)
  BY <1>2, <1>3, <1>4, <1>5
<1> QED
  BY <1>6 DEF u

LEMMA WalkStarts ==
    ASSUME NEW table, Dag(table), NEW start \in DOMAIN table
    PROVE  Walked(table, start, 0, [queue |-> <<start>>, order |-> <<>>])
<1> DEFINE A == Ancestors(table, start)
<1>1. start \in A
  BY AncestorsSelf
<1> HIDE DEF A
<1>2. <<start>> \in Seq(A) /\ <<>> \in Seq(A) /\ Len(<<start>>) = 1 /\ Len(<<>>) = 0
  BY <1>1
<1>3. ToSet(<<>>) = {}
  BY DEF ToSet
<1> QED
  BY <1>2, <1>3 DEF Walked, A

LEMMA WalkGoesOn ==
    ASSUME NEW table, Dag(table), NEW start \in DOMAIN table, NEW k \in Nat, NEW w,
           Walked(table, start, k, w)
    PROVE  Walked(table, start, k + 1, Turn(table, w))
<1> DEFINE A == Ancestors(table, start)
           q == w.queue
           o == w.order
           h == Head(w.queue)
           t == Tail(w.queue)
<1>1. CASE q = <<>>
  BY <1>1 DEF Walked, Turn
<1>2. CASE q # <<>>
  <2>1. /\ q \in Seq(A) /\ o \in Seq(A) /\ Len(o) \in Nat /\ Len(q) \in Nat \ {0}
        /\ h \in A /\ t \in Seq(A) /\ Len(t) = Len(q) - 1
        /\ ToSet(q) = ToSet(t) \cup {h}
    <3> HIDE DEF A
    <3>1. q \in Seq(A) /\ o \in Seq(A)
      BY DEF Walked, A
    <3> HIDE DEF q, o
    <3> QED
      BY <1>2, <3>1, HeadTailProperties, EmptySeq, LenProperties, RangeTail DEF q
  <2>2. Len(q) + k <= 1 + 2 * Len(o)
    BY <1>2 DEF Walked
  <2>3. CASE h \in ToSet(o)
    <3> DEFINE v == [queue |-> t, order |-> o]
    <3>1. Turn(table, w) = v
      BY <1>2, <2>3 DEF Turn, Walked
    <3>2. o # <<>>
      BY <2>3 DEF ToSet
    <3>3. Len(t) + (k + 1) <= 1 + 2 * Len(o)
      <4> HIDE DEF t, q, o
      <4> QED
        BY <2>1, <2>2
    <3>4. \A n \in ToSet(o) : Older(table, n) \subseteq ToSet(o) \cup ToSet(t)
      BY <2>1, <2>3 DEF Walked
    <3>5. /\ \A i, j \in DOMAIN o : o[i] = o[j] => i = j
          /\ o[1] = start
      BY <3>2 DEF Walked
    <3> HIDE DEF A, t, o
    <3>6. Walked(table, start, k + 1, v)
      BY <2>1, <3>2, <3>3, <3>4, <3>5 DEF Walked, A
    <3> QED
      BY <3>1, <3>6
  <2>4. CASE h \notin ToSet(o)
    <3> DEFINE p == table[h].parents
               q2 == t \o p
               o2 == Append(o, h)
               v == [queue |-> q2, order |-> o2]
    <3>1. Turn(table, w) = v
      BY <1>2, <2>4 DEF Turn
    <3>2. h \in DOMAIN table
      BY <2>1, AncestorsInTable
    <3>3. /\ p \in Seq(A) /\ Len(p) <= 2 /\ Len(p) \in Nat
          /\ ToSet(p) = Older(table, h)
      <4>1. p \in Seq({p[i] : i \in DOMAIN p}) /\ Len(p) <= 2
        BY <3>2 DEF Dag, Table
      <4>2. ToSet(p) = Older(table, h) /\ Older(table, h) \subseteq A
        BY <2>1, AncestorsClosed DEF Older
      <4>3. {p[i] : i \in DOMAIN p} \subseteq A
        BY <4>2 DEF ToSet
      <4> HIDE DEF A, p
      <4> QED
        BY <4>1, <4>2, <4>3, SeqMonotonic, LenProperties
    <3>4. /\ q2 \in Seq(A) /\ Len(q2) = Len(t) + Len(p) /\ ToSet(q2) = ToSet(t) \cup ToSet(p)
      <4> HIDE DEF A, p, t
      <4> QED
        BY <2>1, <3>3, ConcatProperties, RangeConcat
    <3>5. /\ o2 \in Seq(A) /\ o2 # <<>> /\ Len(o2) = Len(o) + 1
          /\ \A i \in 1..Len(o) : o2[i] = o[i]
          /\ o2[Len(o) + 1] = h
          /\ ToSet(o2) = ToSet(o) \cup {h}
      <4> HIDE DEF A, o, h
      <4> QED
        BY <2>1, AppendProperties, RangeAppend
    <3>6. \A n \in ToSet(o2) : Older(table, n) \subseteq ToSet(o2) \cup ToSet(q2)
      <4>1. \A n \in ToSet(o) : Older(table, n) \subseteq ToSet(o) \cup ToSet(q)
        BY DEF Walked
      <4> HIDE DEF o, q, q2, o2, h, t, p
      <4> QED
        BY <2>1, <3>3, <3>4, <3>5, <4>1
    <3>7. Len(q2) + (k + 1) <= 1 + 2 * Len(o2)
      <4> HIDE DEF q2, o2, o, q, t, p
      <4> QED
        BY <2>1, <2>2, <3>3, <3>4, <3>5
    <3>8. \A i, j \in DOMAIN o2 : o2[i] = o2[j] => i = j
      <4>1. /\ \A i, j \in DOMAIN o : o[i] = o[j] => i = j
        BY DEF Walked
      <4>2. /\ DOMAIN o2 = 1..Len(o) + 1 /\ DOMAIN o = 1..Len(o)
            /\ ToSet(o) = {o[i] : i \in 1..Len(o)}
        <5> HIDE DEF o, o2, A
        <5> QED
          BY <2>1, <3>5, LenProperties, RangeOf
      <4> HIDE DEF o, o2, h
      <4>3. \A i \in DOMAIN o2 : i = Len(o) + 1 \/ i \in 1..Len(o)
        BY <2>1, <4>2
      <4> QED
        BY <2>1, <2>4, <3>5, <4>1, <4>2, <4>3
    <3>9. o2[1] = start
      <4>1. CASE o = <<>>
        <5>1. q = <<start>>
          BY <4>1 DEF Walked
        <5>2. h = start
          BY <5>1
        <5>3. Len(o) + 1 = 1
          BY <4>1
        <5> HIDE DEF o2, o, h
        <5> QED
          BY <3>5, <5>2, <5>3
      <4>2. CASE o # <<>>
        <5>1. o[1] = start
          BY <4>2 DEF Walked
        <5>2. 1 \in 1..Len(o)
          <6> HIDE DEF o, A
          <6> QED
            BY <2>1, <4>2, EmptySeq
        <5> HIDE DEF o2, o, h
        <5> QED
          BY <3>5, <5>1, <5>2
      <4> QED
        BY <4>1, <4>2
    <3> HIDE DEF q2, o2
    <3>10. Walked(table, start, k + 1, v)
      BY <3>4, <3>5, <3>6, <3>7, <3>8, <3>9 DEF Walked
    <3> QED
      BY <3>1, <3>10
  <2> QED
    BY <2>3, <2>4
<1> QED
  BY <1>1, <1>2

\* A sequence without repetition is no longer than the set it is drawn from.
LEMMA NoRepetition ==
    ASSUME NEW N \in Nat, NEW s \in Seq(1..N), \A i, j \in DOMAIN s : s[i] = s[j] => i = j
    PROVE  Len(s) <= N /\ Cardinality(ToSet(s)) = Len(s)
<1>1. Len(s) \in Nat /\ DOMAIN s = 1..Len(s) /\ s \in [1..Len(s) -> 1..N]
  BY LenProperties
<1>2. /\ IsFiniteSet(1..Len(s)) /\ Cardinality(1..Len(s)) = Len(s)
      /\ IsFiniteSet(1..N) /\ Cardinality(1..N) = N
  <2>1. \A n \in Nat : IsFiniteSet(1..n) /\ Cardinality(1..n) = n
    <3>1. TAKE n \in Nat
    <3>2. n \in Int /\ 1 \in Int
      OBVIOUS
    <3>3. IsFiniteSet(1..n) /\ Cardinality(1..n) = IF 1 > n THEN 0 ELSE n - 1 + 1
      BY <3>2, FS_Interval
    <3> QED
      BY <3>3
  <2> QED
    BY <1>1, <2>1
<1>3. Len(s) <= N
  <2>1. SUFFICES ASSUME N < Len(s) PROVE FALSE
    BY <1>1
  <2>2. \E x, y \in 1..Len(s) : x # y /\ s[x] = s[y]
    BY <1>1, <1>2, <2>1, FS_PigeonHole
  <2> QED
    BY <1>1, <2>2
<1>4. Cardinality(ToSet(s)) = Len(s)
  <2>1. ToSet(s) = {s[k] : k \in 1..Len(s)}
    BY <1>1 DEF ToSet
  <2>2. s \in [1..Len(s) -> ToSet(s)]
    BY <1>1, <2>1
  <2>3. ExistsBijection(1..Len(s), ToSet(s))
    BY <1>1, <2>1, <2>2 DEF ExistsBijection, Bijection, Injection, Surjection, IsInjective
  <2> QED
    BY <1>2, <2>3, FS_Bijection
<1> QED
  BY <1>3, <1>4

\* The history of a commit lists each of its ancestors once, the commit first.
LEMMA HistoryOf ==
    ASSUME NEW table, Dag(table), NEW start \in DOMAIN table
    PROVE  LET log == History(table, start) IN
           /\ log[1] = start
           /\ ToSet(log) = Ancestors(table, start)
           /\ Len(log) = Cardinality(ToSet(log))
           /\ Len(log) \in Nat \ {0} /\ DOMAIN log = 1..Len(log)
<1> DEFINE N == 2 * Len(table) + 1
           walk == CHOOSE f : Traversal(table, start, N, f)
           log == walk[N].order
           A == Ancestors(table, start)
<1>0. Len(table) \in Nat /\ N \in Nat /\ DOMAIN table = 1..Len(table)
  BY DagFacts
<1>1. Traversal(table, start, N, walk)
  BY <1>0, WalkExists
<1>2. History(table, start) = log
  BY DEF History, Traversal, Turn
<1> HIDE DEF walk
<1>3. Walked(table, start, N, walk[N])
  <2> DEFINE S == {k \in 0..N : Walked(table, start, k, walk[k])}
             f == [k \in 0..N |-> IF k = 0 THEN [queue |-> <<start>>, order |-> <<>>]
                                  ELSE Turn(table, walk[k - 1])]
  <2> HIDE DEF N
  <2>1. walk = f
    BY <1>1 DEF Traversal
  <2>2. 0 \in S
    <3>1. f[0] = [queue |-> <<start>>, order |-> <<>>]
      BY <1>0
    <3> HIDE DEF f
    <3>2. Walked(table, start, 0, walk[0])
      BY <2>1, <3>1, WalkStarts
    <3> QED
      BY <1>0, <3>2
  <2>3. ASSUME NEW k \in 0..(N - 1), k \in S
        PROVE  k + 1 \in S
    <3>1. k + 1 \in 0..N /\ k + 1 # 0 /\ (k + 1) - 1 = k /\ k \in Nat
      BY <1>0
    <3>2. f[k + 1] = Turn(table, walk[k])
      BY <3>1
    <3>3. Walked(table, start, k, walk[k])
      BY <2>3
    <3> HIDE DEF f
    <3>4. Walked(table, start, k + 1, walk[k + 1])
      BY <2>1, <3>1, <3>2, <3>3, WalkGoesOn
    <3> QED
      BY <3>1, <3>4
  <2>4. 0..N \subseteq S
    <3> HIDE DEF S
    <3> QED
      BY <1>0, <2>2, <2>3, Induct
  <2> QED
    BY <1>0, <2>4
<1> DEFINE q == walk[N].queue
<1>4. /\ q \in Seq(A) /\ log \in Seq(A)
      /\ \A i, j \in DOMAIN log : log[i] = log[j] => i = j
      /\ log = <<>> => q = <<start>>
      /\ log # <<>> => log[1] = start
      /\ \A n \in ToSet(log) : Older(table, n) \subseteq ToSet(log) \cup ToSet(q)
      /\ q # <<>> => Len(q) + N <= 1 + 2 * Len(log)
  BY <1>3 DEF Walked
<1>5. A \subseteq 1..Len(table)
  BY <1>0, AncestorsInTable
<1> HIDE DEF log, q, A
<1>6. log \in Seq(1..Len(table))
  BY <1>4, <1>5, SeqMonotonic
<1>7. Len(log) <= Len(table) /\ Cardinality(ToSet(log)) = Len(log) /\ Len(log) \in Nat
  BY <1>0, <1>4, <1>6, NoRepetition, LenProperties
<1>8. q = <<>>
  <2>1. q # <<>> => Len(q) \in Nat \ {0}
    BY <1>4, EmptySeq
  <2> QED
    BY <1>0, <1>4, <1>7, <2>1
<1>9. log # <<>> /\ log[1] = start
  BY <1>4, <1>8
<1>10. start \in ToSet(log)
  <2>1. 1 \in DOMAIN log
    BY <1>4, <1>9, EmptySeq, LenProperties
  <2> QED
    BY <1>9, <2>1 DEF ToSet
<1>11. ToSet(log) \subseteq A
  BY <1>4, RangeOf
<1>12. \A n \in ToSet(log) : Older(table, n) \subseteq ToSet(log)
  BY <1>4, <1>8 DEF ToSet
<1>13. A \subseteq ToSet(log)
  <2>1. \A n \in ToSet(log) \cap DOMAIN table : Older(table, n) \subseteq ToSet(log)
    BY <1>12
  <2> QED
    BY <1>10, <2>1, AncestorsLeast DEF A
<1>14. Len(log) \in Nat \ {0} /\ DOMAIN log = 1..Len(log)
  BY <1>4, <1>9, EmptySeq, LenProperties
<1> QED
  BY <1>2, <1>7, <1>9, <1>11, <1>13, <1>14 DEF A

-----------------------------------------------------------------------------
(* More of tables; the largest and the least of a set of numbers.          *)

LEMMA TableOf ==
    ASSUME NEW n \in Nat, NEW D, NEW t \in [1..n -> D]
    PROVE  Table(t) /\ Len(t) = n /\ DOMAIN t = 1..n
<1>1. t \in [1..n -> {t[k] : k \in DOMAIN t}] /\ DOMAIN t = 1..n
  OBVIOUS
<1>2. t \in Seq({t[k] : k \in DOMAIN t})
  BY <1>1, SeqDef
<1> QED
  BY <1>1, <1>2, LenProperties DEF Table

\* A function from 1 to n is a table.
LEMMA TableFrom ==
    ASSUME NEW n \in Nat, NEW t, DOMAIN t = 1..n, t = [k \in 1..n |-> t[k]]
    PROVE  Table(t) /\ Len(t) = n
<1> DEFINE D == {t[k] : k \in 1..n}
<1>1. t \in [1..n -> D]
  OBVIOUS
<1> HIDE DEF D
<1> QED
  BY <1>1, TableOf

LEMMA SeqIsTable ==
    ASSUME NEW S, NEW s \in Seq(S)
    PROVE  Table(s) /\ \A k \in DOMAIN s : s[k] \in S
<1>1. Len(s) \in Nat /\ DOMAIN s = 1..Len(s) /\ s \in [1..Len(s) -> S]
  BY LenProperties
<1>2. s = [k \in 1..Len(s) |-> s[k]]
  BY <1>1
<1> QED
  BY <1>1, <1>2, TableFrom

LEMMA TableConcat ==
    ASSUME NEW s, Table(s), NEW t, Table(t)
    PROVE  /\ Table(s \o t) /\ DOMAIN (s \o t) = 1..Len(s) + Len(t)
           /\ \A k \in DOMAIN s : (s \o t)[k] = s[k]
           /\ \A k \in 1..Len(t) : (s \o t)[Len(s) + k] = t[k]
<1> DEFINE n == Len(t)
           D == {t[k] : k \in DOMAIN t}
<1>1. n \in Nat /\ t \in [1..n -> D]
  BY LenProperties DEF Table
<1> HIDE DEF n, D
<1>2. /\ Table(s \o t) /\ DOMAIN (s \o t) = 1..Len(s) + n
      /\ \A k \in DOMAIN s : (s \o t)[k] = s[k]
      /\ \A k \in 1..n : (s \o t)[Len(s) + k] = t[k]
  BY <1>1, TableJoin
<1> QED
  BY <1>2 DEF n

LEMMA AppendLonger ==
    ASSUME NEW s, Table(s), NEW row
    PROVE  Len(Append(s, row)) = Len(s) + 1
<1> DEFINE S == {s[k] : k \in DOMAIN s} \cup {row}
<1>1. s \in Seq(S) /\ row \in S
  BY SeqMonotonic DEF Table
<1> HIDE DEF S
<1> QED
  BY <1>1, AppendProperties

LEMMA PartOf ==
    ASSUME NEW s, Table(s), NEW m \in 1..Len(s), NEW n \in m..Len(s)
    PROVE  LET t == SubSeq(s, m, n) IN
           Table(t) /\ DOMAIN t = 1..n - m + 1 /\ \A i \in 1..n - m + 1 : t[i] = s[m + i - 1]
<1> DEFINE D == {s[k] : k \in DOMAIN s}
           t == SubSeq(s, m, n)
<1>1. s \in Seq(D) /\ Len(s) \in Nat /\ DOMAIN s = 1..Len(s)
  BY TableFacts DEF Table
<1>2. m \in Int /\ n \in Int /\ m <= n /\ \A i \in m..n : s[i] \in D
  BY <1>1
<1>3. /\ t \in Seq(D) /\ Len(t) = n - m + 1
      /\ \A i \in 1..n - m + 1 : t[i] = s[m + i - 1]
  <2> HIDE DEF D
  <2> QED
    BY <1>2, SubSeqProperties
<1>4. DOMAIN t = 1..n - m + 1 /\ t = [k \in 1..n - m + 1 |-> t[k]]
  <2> HIDE DEF t, D
  <2> QED
    BY <1>3, LenProperties
<1>5. Table(t)
  <2> DEFINE N == n - m + 1
  <2>1. N \in Nat
    BY <1>2
  <2>2. DOMAIN t = 1..N /\ t = [k \in 1..N |-> t[k]]
    BY <1>4
  <2> HIDE DEF t, N
  <2> QED
    BY <2>1, <2>2, TableFrom
<1> QED
  BY <1>3, <1>4, <1>5

LEMMA Largest ==
    ASSUME NEW n \in Nat, NEW s \in SUBSET (1..n), s # {}
    PROVE  Max(s) \in s /\ \A k \in s : k <= Max(s)
<1> DEFINE T == {n - k : k \in s}
<1>1. T \subseteq Nat /\ T # {}
  <2>1. \A k \in s : k \in 1..n /\ n - k \in Nat
    OBVIOUS
  <2> QED
    BY <2>1
<1>2. PICK m \in T : \A k \in T : m <= k
  BY <1>1, Least
<1>3. PICK x \in s : m = n - x
  BY <1>2
<1>4. ASSUME NEW k \in s PROVE k <= x /\ x >= k
  <2>1. n - k \in T /\ n - x <= n - k
    BY <1>2, <1>3
  <2> QED
    BY <2>1
<1>5. \E y \in s : \A k \in s : y >= k
  BY <1>3, <1>4
<1>6. Max(s) \in s /\ \A k \in s : Max(s) >= k
  BY <1>5 DEF Max
<1> QED
  BY <1>6

LEMMA LargestIs ==
    ASSUME NEW n \in Nat, NEW s \in SUBSET (1..n), NEW m \in s, \A k \in s : k <= m
    PROVE  Max(s) = m
<1>1. s # {}
  OBVIOUS
<1>2. Max(s) \in s /\ m <= Max(s) /\ Max(s) <= m
  BY <1>1, Largest
<1>3. Max(s) \in Int /\ m \in Int
  <2>1. \A k \in s : k \in Int
    OBVIOUS
  <2> QED
    BY <1>2, <2>1
<1> QED
  BY <1>2, <1>3

LEMMA Smallest ==
    ASSUME NEW s \in SUBSET Nat, s # {}
    PROVE  Min(s) \in s /\ \A k \in s : Min(s) <= k
<1>1. \E m \in s : \A k \in s : m <= k
  BY Least
<1> QED
  BY <1>1 DEF Min

LEMMA ManyDistinct ==
    ASSUME NEW n \in Nat, NEW T, NEW g \in [1..n -> T],
           \A t \in T : \E i \in 1..n : g[i] = t,
           \A i, j \in 1..n : g[i] = g[j] => i = j
    PROVE  IsFiniteSet(T) /\ Cardinality(T) = n
<1>1. IsFiniteSet(1..n) /\ Cardinality(1..n) = n
  <2>1. n \in Int /\ 1 \in Int
    OBVIOUS
  <2>2. IsFiniteSet(1..n) /\ Cardinality(1..n) = IF 1 > n THEN 0 ELSE n - 1 + 1
    BY <2>1, FS_Interval
  <2> QED
    BY <2>2
<1>2. ExistsBijection(1..n, T)
  BY DEF ExistsBijection, Bijection, Injection, Surjection, IsInjective
<1> QED
  BY <1>1, <1>2, FS_Bijection

-----------------------------------------------------------------------------
(* What is flattened has each element of each sequence in one place.       *)

Flattening(ss, N, f) == f = [i \in 1..N |-> IF i = 1 THEN ss[i] ELSE f[i - 1] \o ss[i]]

LEMMA FlatteningExists ==
    ASSUME NEW ss, NEW N \in Nat
    PROVE  \E f : Flattening(ss, N, f)
<1> DEFINE S == {n \in 0..N : \E f : Flattening(ss, n, f)}
<1>1. 0 \in S
  <2> DEFINE f == [i \in 1..0 |-> <<>>]
  <2>1. Flattening(ss, 0, f)
    BY DEF Flattening
  <2> QED
    BY <2>1
<1>2. ASSUME NEW n \in 0..(N - 1), n \in S
      PROVE  n + 1 \in S
  <2>1. PICK f : Flattening(ss, n, f)
    BY <1>2
  <2>2. n \in Nat /\ n + 1 \in 0..N /\ n + 1 \in Nat
    OBVIOUS
  <2> DEFINE g == [i \in 1..n + 1 |-> IF i = n + 1 /\ i # 1 THEN f[n] \o ss[i]
                                   ELSE IF i = 1 THEN ss[i] ELSE f[i]]
  <2>3. ASSUME NEW i \in 1..n + 1
        PROVE  g[i] = IF i = 1 THEN ss[i] ELSE g[i - 1] \o ss[i]
    <3>1. CASE i = 1
      BY <3>1
    <3>2. CASE i # 1
      <4>1. i - 1 \in 1..n + 1 /\ i - 1 \in 1..n /\ i - 1 # n + 1
        BY <2>2, <3>2
      <4>2. f[i - 1] = IF i - 1 = 1 THEN ss[i - 1] ELSE f[(i - 1) - 1] \o ss[i - 1]
        BY <2>1, <4>1 DEF Flattening
      <4>3. g[i - 1] = f[i - 1]
        BY <4>1, <4>2
      <4>4. CASE i = n + 1
        <5>1. i - 1 = n
          BY <2>2, <4>4
        <5>2. g[i] = f[n] \o ss[i]
          BY <3>2, <4>4
        <5> HIDE DEF g
        <5> QED
          BY <3>2, <4>3, <5>1, <5>2
      <4>5. CASE i # n + 1
        <5>1. i \in 1..n
          BY <2>2, <4>5
        <5>2. f[i] = f[i - 1] \o ss[i]
          BY <2>1, <3>2, <5>1 DEF Flattening
        <5>3. g[i] = f[i]
          BY <3>2, <4>5
        <5> HIDE DEF g
        <5> QED
          BY <3>2, <4>3, <5>2, <5>3
      <4> QED
        BY <4>4, <4>5
    <3> QED
      BY <3>1, <3>2
  <2>4. g = [i \in 1..n + 1 |-> g[i]]
    OBVIOUS
  <2> HIDE DEF g
  <2>5. Flattening(ss, n + 1, g)
    BY <2>3, <2>4 DEF Flattening
  <2> QED
    BY <2>2, <2>5
<1>3. 0..N \subseteq S
  <2> HIDE DEF S
  <2> QED
    BY <1>1, <1>2, Induct
<1> QED
  BY <1>3

\* FlattenSeq takes the sequences one after the other.
FlattensBy(ss, N, f) == f[1] = ss[1] /\ \A i \in 1..(N - 1) : f[i + 1] = f[i] \o ss[i + 1]

LEMMA FlattenSteps ==
    ASSUME NEW ss, Len(ss) \in Nat, Len(ss) # 0
    PROVE  \E f : FlattenSeq(ss) = f[Len(ss)] /\ FlattensBy(ss, Len(ss), f)
<1> DEFINE N == Len(ss)
           f == CHOOSE f : Flattening(ss, N, f)
<1>1. FlattenSeq(ss) = f[N]
  BY DEF FlattenSeq, Flattening
<1>2. Flattening(ss, N, f)
  BY FlatteningExists
<1> HIDE DEF f, N
<1>3. N \in Nat /\ 1 \in 1..N
  BY DEF N
<1>4. f[1] = ss[1]
  BY <1>2, <1>3 DEF Flattening
<1>5. ASSUME NEW i \in 1..(N - 1) PROVE f[i + 1] = f[i] \o ss[i + 1]
  <2>1. i + 1 \in 1..N /\ i + 1 # 1 /\ (i + 1) - 1 = i
    BY <1>3
  <2> QED
    BY <1>2, <2>1 DEF Flattening
<1> QED
  BY <1>1, <1>4, <1>5 DEF FlattensBy, N

Spots(ss, n) == UNION {{i} \X DOMAIN ss[i] : i \in 1..n}

Placing(ss, n, flat, place) ==
    /\ \A k \in DOMAIN flat : place[k] \in Spots(ss, n) /\ flat[k] = ss[place[k][1]][place[k][2]]
    /\ \A spot \in Spots(ss, n) : \E k \in DOMAIN flat : place[k] = spot
    /\ \A k, l \in DOMAIN flat : place[k] = place[l] => k = l
    /\ \A k, l \in DOMAIN flat : k < l =>
          place[k][1] < place[l][1] \/ (place[k][1] = place[l][1] /\ place[k][2] < place[l][2])

\* Where the elements are once sequence n + 1, of length m, follows the first N.
Onward(place, N, n, m) ==
    [k \in 1..N + m |-> IF k <= N THEN place[k] ELSE <<n + 1, k - N>>]

LEMMA PlacingGoesOn ==
    ASSUME NEW ss, NEW n \in Nat, Table(ss[n + 1]), NEW flat, Table(flat),
           NEW place, Placing(ss, n, flat, place)
    PROVE  LET more == flat \o ss[n + 1] IN
           /\ Table(more) /\ Len(more) = Len(flat) + Len(ss[n + 1])
           /\ Placing(ss, n + 1, more, Onward(place, Len(flat), n, Len(ss[n + 1])))
<1> DEFINE t == ss[n + 1]
           N == Len(flat)
           more == flat \o t
           there == Onward(place, N, n, Len(t))
<1>1. /\ N \in Nat /\ DOMAIN flat = 1..N
      /\ Len(t) \in Nat /\ DOMAIN t = 1..Len(t) /\ t \in [1..Len(t) -> {t[k] : k \in DOMAIN t}]
  BY TableFacts, LenProperties DEF Table
<1>2. /\ Table(more) /\ DOMAIN more = 1..N + Len(t)
      /\ \A k \in DOMAIN flat : more[k] = flat[k]
      /\ \A k \in 1..Len(t) : more[N + k] = t[k]
  <2> HIDE DEF t
  <2> QED
    BY TableConcat DEF t
<1> HIDE DEF more, N
<1>3. /\ Spots(ss, n + 1) = Spots(ss, n) \cup ({n + 1} \X DOMAIN t)
      /\ \A spot \in Spots(ss, n) : spot[1] \in 1..n
  <2>1. 1..n + 1 = (1..n) \cup {n + 1}
    OBVIOUS
  <2> QED
    BY <2>1 DEF Spots
<1>4. /\ \A k \in 1..N : there[k] = place[k]
      /\ \A k \in 1..Len(t) : there[N + k] = <<n + 1, k>>
      /\ \A k \in 1..N + Len(t) : k \in 1..N \/ \E j \in 1..Len(t) : k = N + j
  <2>1. ASSUME NEW k \in 1..N PROVE there[k] = place[k]
    BY <1>1 DEF Onward
  <2>2. ASSUME NEW k \in 1..Len(t) PROVE there[N + k] = <<n + 1, k>>
    <3>1. N + k \in 1..N + Len(t) /\ ~(N + k <= N) /\ (N + k) - N = k
      BY <1>1
    <3> QED
      BY <3>1 DEF Onward
  <2>3. ASSUME NEW k \in 1..N + Len(t), k \notin 1..N PROVE \E j \in 1..Len(t) : k = N + j
    <3>1. k - N \in 1..Len(t) /\ k = N + (k - N)
      BY <1>1, <2>3
    <3> QED
      BY <3>1
  <2> QED
    BY <2>1, <2>2, <2>3
<1> HIDE DEF there, t
<1>5. ASSUME NEW k \in DOMAIN more
      PROVE  there[k] \in Spots(ss, n + 1) /\ more[k] = ss[there[k][1]][there[k][2]]
  <2>1. CASE k \in 1..N
    <3>1. place[k] \in Spots(ss, n) /\ flat[k] = ss[place[k][1]][place[k][2]]
      BY <1>1, <2>1 DEF Placing
    <3> QED
      BY <1>1, <1>2, <1>3, <1>4, <2>1, <3>1
  <2>2. ASSUME NEW j \in 1..Len(t), k = N + j
        PROVE  there[k] \in Spots(ss, n + 1) /\ more[k] = ss[there[k][1]][there[k][2]]
    <3>1. there[k] = <<n + 1, j>> /\ more[k] = t[j]
      BY <1>2, <1>4, <2>2
    <3>2. <<n + 1, j>> \in Spots(ss, n + 1)
      BY <1>1, <1>3
    <3> QED
      BY <3>1, <3>2 DEF t
  <2> QED
    BY <1>2, <1>4, <2>1, <2>2
<1>6. ASSUME NEW spot \in Spots(ss, n + 1)
      PROVE  \E k \in DOMAIN more : there[k] = spot
  <2>1. CASE spot \in Spots(ss, n)
    <3>1. PICK k \in 1..N : place[k] = spot
      BY <1>1, <2>1 DEF Placing
    <3>2. k \in DOMAIN more
      BY <1>1, <1>2
    <3> QED
      BY <1>4, <3>1, <3>2
  <2>2. CASE spot \in {n + 1} \X DOMAIN t
    <3>1. PICK j \in 1..Len(t) : spot = <<n + 1, j>>
      BY <1>1, <2>2
    <3>2. N + j \in DOMAIN more
      BY <1>1, <1>2
    <3> QED
      BY <1>4, <3>1, <3>2
  <2> QED
    BY <1>3, <2>1, <2>2
<1>7. ASSUME NEW k \in DOMAIN more, NEW l \in DOMAIN more, there[k] = there[l]
      PROVE  k = l
  <2>1. \A i \in 1..N : there[i] \in Spots(ss, n) /\ there[i][1] \in 1..n
    BY <1>1, <1>3, <1>4 DEF Placing
  <2>2. \A j \in 1..Len(t) : there[N + j][1] = n + 1 /\ there[N + j][2] = j
    BY <1>4
  <2>3. n + 1 \notin 1..n
    OBVIOUS
  <2>4. CASE k \in 1..N /\ l \in 1..N
    BY <1>1, <1>4, <1>7, <2>4 DEF Placing
  <2>5. CASE k \in 1..N <=> l \notin 1..N
    BY <1>2, <1>4, <1>7, <2>1, <2>2, <2>3, <2>5
  <2>6. CASE k \notin 1..N /\ l \notin 1..N
    BY <1>2, <1>4, <1>7, <2>2, <2>6
  <2> QED
    BY <2>4, <2>5, <2>6
<1>8. ASSUME NEW k \in DOMAIN more, NEW l \in DOMAIN more, k < l
      PROVE  \/ there[k][1] < there[l][1]
             \/ there[k][1] = there[l][1] /\ there[k][2] < there[l][2]
  <2>1. \A i \in 1..N : there[i] \in Spots(ss, n) /\ there[i][1] \in 1..n
    BY <1>1, <1>3, <1>4 DEF Placing
  <2>2. \A j \in 1..Len(t) : there[N + j][1] = n + 1 /\ there[N + j][2] = j
    BY <1>4
  <2>3. CASE k \in 1..N /\ l \in 1..N
    <3>1. \/ place[k][1] < place[l][1]
          \/ place[k][1] = place[l][1] /\ place[k][2] < place[l][2]
      BY <1>1, <1>8, <2>3 DEF Placing
    <3>2. there[k] = place[k] /\ there[l] = place[l]
      BY <1>4, <2>3
    <3> QED
      BY <3>1, <3>2
  <2>4. CASE k \in 1..N /\ l \notin 1..N
    <3>1. PICK j \in 1..Len(t) : l = N + j
      BY <1>2, <1>4, <2>4
    <3>2. there[k][1] \in 1..n /\ there[l][1] = n + 1
      BY <2>1, <2>2, <2>4, <3>1
    <3> QED
      BY <3>2
  <2>5. CASE k \notin 1..N
    <3>1. PICK i \in 1..Len(t) : k = N + i
      BY <1>2, <1>4, <2>5
    <3>2. l \notin 1..N
      BY <1>1, <1>2, <1>8, <2>5
    <3>3. PICK j \in 1..Len(t) : l = N + j
      BY <1>2, <1>4, <3>2
    <3>4. i < j
      BY <1>1, <1>8, <3>1, <3>3
    <3>5. there[k][1] = n + 1 /\ there[l][1] = n + 1 /\ there[k][2] = i /\ there[l][2] = j
      BY <2>2, <3>1, <3>3
    <3>6. there[k][1] = there[l][1] /\ there[k][2] < there[l][2]
      BY <3>4, <3>5
    <3> QED
      BY <3>6
  <2> QED
    BY <2>3, <2>4, <2>5
<1>9. Placing(ss, n + 1, more, there)
  BY <1>5, <1>6, <1>7, <1>8 DEF Placing
<1>10. Len(more) = N + Len(t)
  <2>1. Len(more) \in Nat /\ DOMAIN more = 1..Len(more)
    BY <1>2, TableFacts
  <2> QED
    BY <1>1, <1>2, <2>1
<1> QED
  BY <1>2, <1>9, <1>10 DEF more, t, there, N

\* Sequences of the same lengths are flattened alike: one place for both.
LEMMA FlattenTogether ==
    ASSUME NEW ss, Table(ss), NEW tt, Table(tt), Len(ss) = Len(tt),
           \A i \in DOMAIN ss : Table(ss[i]) /\ Table(tt[i]) /\ Len(ss[i]) = Len(tt[i])
    PROVE  /\ Table(FlattenSeq(ss)) /\ Table(FlattenSeq(tt))
           /\ Len(FlattenSeq(ss)) = Len(FlattenSeq(tt))
           /\ \E place : /\ Placing(ss, Len(ss), FlattenSeq(ss), place)
                         /\ Placing(tt, Len(tt), FlattenSeq(tt), place)
<1> DEFINE N == Len(ss)
<1>1. N \in Nat /\ DOMAIN ss = 1..N /\ DOMAIN tt = 1..N /\ Len(tt) = N
  BY TableFacts
<1>2. CASE N = 0
  <2>1. FlattenSeq(ss) = ss /\ FlattenSeq(tt) = tt
    BY <1>2 DEF FlattenSeq
  <2>2. Spots(ss, N) = {} /\ Spots(tt, N) = {} /\ DOMAIN ss = {} /\ DOMAIN tt = {}
    BY <1>1, <1>2 DEF Spots
  <2>3. Placing(ss, N, ss, ss) /\ Placing(tt, N, tt, ss)
    BY <2>2 DEF Placing
  <2> QED
    BY <1>1, <2>1, <2>3
<1>3. CASE N # 0
  <2>1. PICK f : FlattenSeq(ss) = f[N] /\ FlattensBy(ss, N, f)
    BY <1>1, <1>3, FlattenSteps
  <2>2. PICK g : FlattenSeq(tt) = g[N] /\ FlattensBy(tt, N, g)
    BY <1>1, <1>3, FlattenSteps
  <2>3. /\ f[1] = ss[1] /\ \A i \in 1..(N - 1) : f[i + 1] = f[i] \o ss[i + 1]
        /\ g[1] = tt[1] /\ \A i \in 1..(N - 1) : g[i + 1] = g[i] \o tt[i + 1]
    BY <2>1, <2>2 DEF FlattensBy
  <2> HIDE DEF N
  <2> DEFINE Both(n) == /\ Table(f[n]) /\ Table(g[n]) /\ Len(f[n]) = Len(g[n])
                        /\ \E place : Placing(ss, n, f[n], place) /\ Placing(tt, n, g[n], place)
             S == {n \in 0..(N - 1) : Both(n + 1)}
  <2>4. 0 \in S
    <3>1. /\ 0 \in 0..(N - 1) /\ 1 \in DOMAIN ss /\ 0 + 1 = 1
      BY <1>1, <1>3
    <3>2. Spots(ss, 1) = {1} \X DOMAIN ss[1] /\ Spots(tt, 1) = {1} \X DOMAIN tt[1]
      <4>1. 1..1 = {1}
        OBVIOUS
      <4> QED
        BY <4>1 DEF Spots
    <3> DEFINE place == [k \in DOMAIN ss[1] |-> <<1, k>>]
    <3>3. Table(ss[1]) /\ Table(tt[1]) /\ Len(ss[1]) = Len(tt[1]) /\ DOMAIN ss[1] = DOMAIN tt[1]
      BY <3>1, TableFacts
    <3>4. Placing(ss, 1, ss[1], place)
      BY <3>2 DEF Placing
    <3>5. Placing(tt, 1, tt[1], place)
      BY <3>2, <3>3 DEF Placing
    <3> HIDE DEF place
    <3> QED
      BY <2>3, <3>1, <3>3, <3>4, <3>5
  <2>5. ASSUME NEW n \in 0..((N - 1) - 1), n \in S
        PROVE  n + 1 \in S
    <3> DEFINE m == n + 1
    <3>1. m \in 0..(N - 1) /\ m \in 1..(N - 1) /\ m \in Nat /\ m + 1 \in DOMAIN ss
      BY <1>1, <1>3
    <3>2. /\ Table(f[m]) /\ Table(g[m]) /\ Len(f[m]) = Len(g[m])
          /\ \E place : Placing(ss, m, f[m], place) /\ Placing(tt, m, g[m], place)
      BY <2>5
    <3> HIDE DEF m
    <3>3. Table(ss[m + 1]) /\ Table(tt[m + 1]) /\ Len(ss[m + 1]) = Len(tt[m + 1])
      BY <3>1
    <3>4. PICK place : Placing(ss, m, f[m], place) /\ Placing(tt, m, g[m], place)
      BY <3>2
    <3> DEFINE there == Onward(place, Len(f[m]), m, Len(ss[m + 1]))
    <3>5. LET more == f[m] \o ss[m + 1] IN
          Table(more) /\ Len(more) = Len(f[m]) + Len(ss[m + 1]) /\ Placing(ss, m + 1, more, there)
      BY <3>1, <3>2, <3>3, <3>4, PlacingGoesOn
    <3>6. LET more == g[m] \o tt[m + 1] IN
          /\ Table(more) /\ Len(more) = Len(g[m]) + Len(tt[m + 1])
          /\ Placing(tt, m + 1, more, Onward(place, Len(g[m]), m, Len(tt[m + 1])))
      BY <3>1, <3>2, <3>3, <3>4, PlacingGoesOn
    <3>7. f[m + 1] = f[m] \o ss[m + 1] /\ g[m + 1] = g[m] \o tt[m + 1]
      BY <2>3, <3>1
    <3>8. Onward(place, Len(g[m]), m, Len(tt[m + 1])) = there
      BY <3>2, <3>3
    <3> HIDE DEF there
    <3>9. Both(m + 1)
      BY <3>2, <3>3, <3>5, <3>6, <3>7, <3>8
    <3> QED
      BY <3>1, <3>9 DEF m
  <2>6. N - 1 \in Nat /\ N - 1 \in 0..(N - 1) /\ (N - 1) + 1 = N
    BY <1>1, <1>3
  <2>7. 0..(N - 1) \subseteq S
    <3> HIDE DEF S
    <3> QED
      BY <2>4, <2>5, <2>6, Induct
  <2>8. N - 1 \in S
    BY <2>6, <2>7
  <2>9. Both(N)
    BY <2>6, <2>8
  <2> QED
    BY <1>1, <2>1, <2>2, <2>9 DEF N
<1> QED
  BY <1>2, <1>3

LEMMA FlattenPlaces ==
    ASSUME NEW ss, Table(ss), \A i \in DOMAIN ss : Table(ss[i])
    PROVE  Table(FlattenSeq(ss)) /\ \E place : Placing(ss, Len(ss), FlattenSeq(ss), place)
BY FlattenTogether

\* What a flattened sequence consists of.
LEMMA FlattenedElements ==
    ASSUME NEW ss, Table(ss), \A i \in DOMAIN ss : Table(ss[i])
    PROVE  ToSet(FlattenSeq(ss)) = UNION {ToSet(ss[i]) : i \in DOMAIN ss}
<1> DEFINE flat == FlattenSeq(ss)
<1>1. PICK place : Placing(ss, Len(ss), flat, place)
  BY FlattenPlaces
<1>2. DOMAIN ss = 1..Len(ss)
  BY TableFacts
<1> HIDE DEF flat
<1>3. ASSUME NEW k \in DOMAIN flat
      PROVE  flat[k] \in UNION {ToSet(ss[i]) : i \in DOMAIN ss}
  <2>1. place[k] \in Spots(ss, Len(ss)) /\ flat[k] = ss[place[k][1]][place[k][2]]
    BY <1>1 DEF Placing
  <2>2. PICK i \in DOMAIN ss : place[k] \in {i} \X DOMAIN ss[i]
    BY <1>2, <2>1 DEF Spots
  <2>3. flat[k] \in ToSet(ss[i])
    BY <2>1, <2>2 DEF ToSet
  <2> QED
    BY <2>3
<1>4. ASSUME NEW i \in DOMAIN ss, NEW j \in DOMAIN ss[i]
      PROVE  ss[i][j] \in ToSet(flat)
  <2>1. <<i, j>> \in Spots(ss, Len(ss))
    BY <1>2 DEF Spots
  <2>2. PICK k \in DOMAIN flat : place[k] = <<i, j>>
    BY <1>1, <2>1 DEF Placing
  <2>3. flat[k] = ss[i][j]
    BY <1>1, <2>2 DEF Placing
  <2> QED
    BY <2>3 DEF ToSet
<1> QED
  BY <1>3, <1>4 DEF ToSet, flat

\* What is flattened out of one element or none of each index keeps their order.
Picks(flat, D, e, at) ==
    /\ Table(flat)
    /\ \A k \in DOMAIN flat : at[k] \in D /\ flat[k] = e[at[k]]
    /\ \A d \in D : \E k \in DOMAIN flat : at[k] = d
    /\ \A k, l \in DOMAIN flat : k < l => at[k] < at[l]

LEMMA OneRow ==
    ASSUME NEW x
    PROVE  Table(<<x>>) /\ Len(<<x>>) = 1 /\ DOMAIN <<x>> = {1} /\ <<x>>[1] = x
<1>1. Len(<<x>>) = 1 /\ DOMAIN <<x>> = 1..1 /\ <<x>>[1] = x
  OBVIOUS
<1>2. 1..1 = {1}
  OBVIOUS
<1>3. <<x>> \in Seq({x})
  OBVIOUS
<1>4. {<<x>>[k] : k \in DOMAIN <<x>>} = {x}
  BY <1>1, <1>2
<1> QED
  BY <1>1, <1>2, <1>3, <1>4 DEF Table

LEMMA NoRow ==
    Table(<<>>) /\ Len(<<>>) = 0 /\ DOMAIN <<>> = {}
<1>1. <<>> \in Seq({<<>>[k] : k \in DOMAIN <<>>}) /\ Len(<<>>) = 0 /\ DOMAIN <<>> = {}
  OBVIOUS
<1> QED
  BY <1>1 DEF Table

LEMMA FlattenPicks ==
    ASSUME NEW ss, Table(ss), NEW D, NEW e, D \subseteq DOMAIN ss,
           \A k \in DOMAIN ss : ss[k] = IF k \in D THEN <<e[k]>> ELSE <<>>
    PROVE  \E at : Picks(FlattenSeq(ss), D, e, at)
<1> DEFINE flat == FlattenSeq(ss)
           N == Len(ss)
<1>1. N \in Nat /\ DOMAIN ss = 1..N
  BY TableFacts
<1>2. \A k \in DOMAIN ss : Table(ss[k]) /\ DOMAIN ss[k] = IF k \in D THEN {1} ELSE {}
  <2>1. SUFFICES ASSUME NEW k \in DOMAIN ss
                 PROVE  Table(ss[k]) /\ DOMAIN ss[k] = IF k \in D THEN {1} ELSE {}
    OBVIOUS
  <2>2. CASE k \in D
    BY <2>2, OneRow
  <2>3. CASE k \notin D
    BY <2>3, NoRow
  <2> QED
    BY <2>2, <2>3
<1>3. Table(flat)
  BY <1>2, FlattenPlaces
<1>4. PICK place : Placing(ss, N, flat, place)
  BY <1>2, FlattenPlaces
<1> HIDE DEF flat, N
<1> DEFINE at == [k \in DOMAIN flat |-> place[k][1]]
<1>5. ASSUME NEW k \in DOMAIN flat
      PROVE  place[k][1] \in D /\ place[k][2] = 1 /\ flat[k] = e[place[k][1]]
  <2>1. place[k] \in Spots(ss, N) /\ flat[k] = ss[place[k][1]][place[k][2]]
    BY <1>4 DEF Placing
  <2>2. PICK i \in 1..N : place[k] \in {i} \X DOMAIN ss[i]
    BY <2>1 DEF Spots
  <2>3. place[k][1] = i /\ place[k][2] \in DOMAIN ss[i]
    BY <2>2
  <2>4. i \in D /\ place[k][2] = 1
    BY <1>1, <1>2, <2>3
  <2>5. ss[i] = <<e[i]>>
    BY <1>1, <2>4
  <2> QED
    BY <2>1, <2>3, <2>4, <2>5
<1>6. ASSUME NEW d \in D PROVE \E k \in DOMAIN flat : place[k][1] = d
  <2>1. d \in 1..N /\ 1 \in DOMAIN ss[d]
    BY <1>1, <1>2
  <2>2. <<d, 1>> \in Spots(ss, N)
    BY <2>1 DEF Spots
  <2>3. PICK k \in DOMAIN flat : place[k] = <<d, 1>>
    BY <1>4, <2>2 DEF Placing
  <2> QED
    BY <2>3
<1>7. ASSUME NEW k \in DOMAIN flat, NEW l \in DOMAIN flat, k < l
      PROVE  place[k][1] < place[l][1]
  <2>1. \/ place[k][1] < place[l][1]
        \/ place[k][1] = place[l][1] /\ place[k][2] < place[l][2]
    BY <1>4, <1>7 DEF Placing
  <2>2. place[k][2] = 1 /\ place[l][2] = 1
    BY <1>5
  <2>3. ~(1 < 1)
    OBVIOUS
  <2> QED
    BY <2>1, <2>2, <2>3
<1>8. Picks(flat, D, e, at)
  BY <1>3, <1>5, <1>6, <1>7 DEF Picks
<1> QED
  BY <1>8 DEF flat

\* Numbers in a row.
Consecutive(i, n) == [k \in 1..n |-> i + k]

LEMMA ConsecutiveFacts ==
    ASSUME NEW i \in Nat, NEW n \in Nat
    PROVE  /\ Table(Consecutive(i, n)) /\ Len(Consecutive(i, n)) = n /\ DOMAIN Consecutive(i, n) = 1..n
           /\ \A k \in 1..n : Consecutive(i, n)[k] = i + k
           /\ ToSet(Consecutive(i, n)) = i + 1..i + n
<1>1. DOMAIN Consecutive(i, n) = 1..n /\ \A k \in 1..n : Consecutive(i, n)[k] = i + k
  BY DEF Consecutive
<1>2. Consecutive(i, n) \in [1..n -> Nat]
  BY DEF Consecutive
<1>3. Table(Consecutive(i, n)) /\ Len(Consecutive(i, n)) = n
  BY <1>2, TableOf
<1>4. ToSet(Consecutive(i, n)) = i + 1..i + n
  <2>1. \A k \in 1..n : i + k \in i + 1..i + n
    OBVIOUS
  <2>2. \A l \in i + 1..i + n : l - i \in 1..n /\ i + (l - i) = l
    OBVIOUS
  <2>3. ToSet(Consecutive(i, n)) = {i + k : k \in 1..n}
    BY <1>1 DEF ToSet
  <2> QED
    BY <2>1, <2>2, <2>3
<1> QED
  BY <1>1, <1>3, <1>4

\* Tables with the same rows are the same.
LEMMA TableEqual ==
    ASSUME NEW s, Table(s), NEW t, Table(t), DOMAIN s = DOMAIN t, \A k \in DOMAIN s : s[k] = t[k]
    PROVE  s = t
<1>1. DOMAIN s = 1..Len(s) /\ s = [k \in DOMAIN s |-> s[k]] /\ t = [k \in DOMAIN t |-> t[k]]
  BY LenProperties DEF Table
<1> QED
  BY <1>1

LEMMA ConsecutiveGoOn ==
    ASSUME NEW i \in Nat, NEW n \in Nat
    PROVE  Append(Consecutive(i, n), i + n + 1) = Consecutive(i, n + 1)
<1> DEFINE s == Append(Consecutive(i, n), i + n + 1)
<1>1. Table(Consecutive(i, n)) /\ Len(Consecutive(i, n)) = n /\ DOMAIN Consecutive(i, n) = 1..n
  BY ConsecutiveFacts
<1>2. /\ Table(s) /\ DOMAIN s = (1..n) \cup {n + 1}
      /\ \A k \in 1..n : s[k] = i + k
      /\ s[n + 1] = i + n + 1
  <2> DEFINE r == Consecutive(i, n)
  <2>1. \A k \in 1..n : r[k] = i + k
    BY ConsecutiveFacts
  <2>2. Table(r) /\ Len(r) = n /\ DOMAIN r = 1..n
    BY <1>1
  <2> HIDE DEF r
  <2>3. LET a == Append(r, i + n + 1) IN
        /\ Table(a) /\ DOMAIN a = DOMAIN r \cup {Len(r) + 1}
        /\ (\A k \in DOMAIN r : a[k] = r[k]) /\ a[Len(r) + 1] = i + n + 1
    BY <2>2, TableAppend
  <2> QED
    BY <2>1, <2>2, <2>3 DEF r
<1>3. /\ Table(Consecutive(i, n + 1)) /\ DOMAIN Consecutive(i, n + 1) = 1..n + 1
      /\ \A k \in 1..n + 1 : Consecutive(i, n + 1)[k] = i + k
  BY ConsecutiveFacts
<1>4. 1..n + 1 = (1..n) \cup {n + 1} /\ i + (n + 1) = i + n + 1
  OBVIOUS
<1> HIDE DEF s
<1>5. s = Consecutive(i, n + 1)
  <2> DEFINE r == Consecutive(i, n + 1)
  <2>1. Table(r) /\ DOMAIN r = DOMAIN s
    BY <1>2, <1>3, <1>4
  <2>2. ASSUME NEW k \in DOMAIN s PROVE s[k] = r[k]
    <3>1. k \in 1..n \/ k = n + 1
      BY <1>2
    <3>2. k \in 1..n + 1
      BY <1>2, <1>4
    <3> QED
      BY <1>2, <1>3, <1>4, <3>1, <3>2
  <2> HIDE DEF r
  <2> QED
    BY <1>2, <2>1, <2>2, TableEqual DEF r
<1> QED
  BY <1>5 DEF s

\* A set whose elements go one to one into a finite set is no larger than it.
LEMMA Injected ==
    ASSUME NEW S, NEW T, IsFiniteSet(T), NEW f, \A x \in S : f[x] \in T,
           \A x, y \in S : f[x] = f[y] => x = y
    PROVE  IsFiniteSet(S) /\ Cardinality(S) <= Cardinality(T)
<1> DEFINE g == [x \in S |-> f[x]]
<1>1. g \in Injection(S, T)
  <2>1. g \in [S -> T] /\ \A x, y \in S : g[x] = g[y] => x = y
    OBVIOUS
  <2> QED
    BY <2>1 DEF Injection, IsInjective
<1> HIDE DEF g
<1> QED
  BY <1>1, FS_Injection

\* Two sets whose elements match one to one are equally large.
LEMMA Matched ==
    ASSUME NEW S, NEW T, IsFiniteSet(T), NEW f, \A x \in S : f[x] \in T,
           \A x, y \in S : f[x] = f[y] => x = y, \A y \in T : \E x \in S : f[x] = y
    PROVE  IsFiniteSet(S) /\ Cardinality(S) = Cardinality(T)
<1> DEFINE g == [x \in S |-> f[x]]
<1>1. g \in [S -> T] /\ (\A x, y \in S : g[x] = g[y] => x = y) /\ \A y \in T : \E x \in S : g[x] = y
  OBVIOUS
<1>2. g \in Injection(S, T) /\ g \in Surjection(S, T)
  <2> HIDE DEF g
  <2>1. g \in Injection(S, T)
    BY <1>1 DEF Injection, IsInjective
  <2>2. g \in Surjection(S, T)
    BY <1>1 DEF Surjection
  <2> QED
    BY <2>1, <2>2
<1> HIDE DEF g
<1> QED
  BY <1>2, FS_Injection

LEMMA TableIsSeq ==
    ASSUME NEW s, Table(s)
    PROVE  s \in Seq({s[k] : k \in DOMAIN s})
<1>1. Len(s) \in Nat /\ s \in [1..Len(s) -> {s[k] : k \in DOMAIN s}]
  BY LenProperties, TableFacts DEF Table
<1> QED
  BY <1>1, SeqDef

\* Each k of K comes from A, B or C, as the tag of f[k] says.
FromThree(K, f, A, B, C, p, q, r) ==
    \A k \in K : \/ \E x \in A : f[k] = <<p, x>>
                 \/ \E x \in B : f[k] = <<q, x>>
                 \/ \E x \in C : f[k] = <<r, x>>

\* Elements that come one to one from three finite sets, each told apart by a tag.
LEMMA ThreeSources ==
    ASSUME NEW K, NEW f, NEW A, NEW B, NEW C, IsFiniteSet(A), IsFiniteSet(B), IsFiniteSet(C),
           NEW p, NEW q, NEW r, FromThree(K, f, A, B, C, p, q, r),
           \A k, l \in K : f[k] = f[l] => k = l
    PROVE  Cardinality(K) <= Cardinality(A) + Cardinality(B) + Cardinality(C)
<1> DEFINE From(tag, S) == {k \in K : \E x \in S : f[k] = <<tag, x>>}
           g == [k \in K |-> f[k][2]]
<1>1. ASSUME NEW tag, NEW S, IsFiniteSet(S)
      PROVE  IsFiniteSet(From(tag, S)) /\ Cardinality(From(tag, S)) <= Cardinality(S)
  <2> DEFINE T == From(tag, S)
  <2>1. \A k \in T : k \in K /\ g[k] \in S /\ f[k] = <<tag, g[k]>>
    OBVIOUS
  <2> HIDE DEF T, g
  <2>2. \A k \in T : g[k] \in S
    BY <2>1
  <2>3. \A k, l \in T : g[k] = g[l] => k = l
    BY <2>1
  <2>4. IsFiniteSet(T) /\ Cardinality(T) <= Cardinality(S)
    BY <1>1, <2>2, <2>3, Injected
  <2> QED
    BY <2>4 DEF T
<1> DEFINE KA == From(p, A)
           KB == From(q, B)
           KC == From(r, C)
<1>2. IsFiniteSet(KA) /\ IsFiniteSet(KB) /\ IsFiniteSet(KC)
  BY <1>1
<1>3. /\ Cardinality(KA) <= Cardinality(A) /\ Cardinality(KB) <= Cardinality(B)
      /\ Cardinality(KC) <= Cardinality(C)
  BY <1>1
<1>4. K = (KA \cup KB) \cup KC
  BY DEF FromThree
<1> HIDE DEF KA, KB, KC
<1>5. /\ IsFiniteSet(KA \cup KB) /\ IsFiniteSet(KA \cap KB)
      /\ Cardinality(KA \cup KB) = Cardinality(KA) + Cardinality(KB) - Cardinality(KA \cap KB)
  <2>1. KA \cap KB \in SUBSET KA
    OBVIOUS
  <2> QED
    BY <1>2, <2>1, FS_Union, FS_Subset
<1>6. /\ IsFiniteSet((KA \cup KB) \cap KC)
      /\ Cardinality((KA \cup KB) \cup KC) =
            Cardinality(KA \cup KB) + Cardinality(KC) - Cardinality((KA \cup KB) \cap KC)
  <2> DEFINE KD == KA \cup KB
  <2>1. KD \cap KC \in SUBSET KC /\ IsFiniteSet(KD)
    BY <1>5
  <2> HIDE DEF KD
  <2>2. /\ IsFiniteSet(KD \cap KC)
        /\ Cardinality(KD \cup KC) = Cardinality(KD) + Cardinality(KC) - Cardinality(KD \cap KC)
    BY <1>2, <2>1, FS_Union, FS_Subset
  <2> QED
    BY <2>2 DEF KD
<1>7. /\ Cardinality(A) \in Nat /\ Cardinality(B) \in Nat /\ Cardinality(C) \in Nat
      /\ Cardinality(KA) \in Nat /\ Cardinality(KB) \in Nat /\ Cardinality(KC) \in Nat
      /\ Cardinality(KA \cap KB) \in Nat /\ Cardinality((KA \cup KB) \cap KC) \in Nat
      /\ Cardinality(KA \cup KB) \in Nat
  BY <1>2, <1>5, <1>6, FS_CardinalityType
<1>8. Cardinality(K) = Cardinality((KA \cup KB) \cup KC)
  BY <1>4
<1> DEFINE n == Cardinality(K)
<1> HIDE DEF n
<1>9. n = Cardinality((KA \cup KB) \cup KC)
  BY <1>8 DEF n
<1>10. n <= Cardinality(A) + Cardinality(B) + Cardinality(C)
  BY <1>3, <1>5, <1>6, <1>7, <1>9
<1> QED
  BY <1>10 DEF n

\* No element is picked twice.
LEMMA PicksOnce ==
    ASSUME NEW flat, Table(flat), NEW D, NEW e, NEW at, Picks(flat, D, e, at),
           NEW i \in DOMAIN flat, NEW j \in DOMAIN flat, at[i] = at[j], D \subseteq Int
    PROVE  i = j
<1>1. Len(flat) \in Nat /\ DOMAIN flat = 1..Len(flat)
  BY TableFacts
<1>2. SUFFICES ASSUME i # j PROVE FALSE
  OBVIOUS
<1>3. i < j \/ j < i
  BY <1>1, <1>2
<1>4. at[i] \in Int /\ at[j] \in Int
  BY DEF Picks
<1>5. at[i] < at[j] \/ at[j] < at[i]
  BY <1>3 DEF Picks
<1> QED
  BY <1>4, <1>5

LEMMA TableFinite ==
    ASSUME NEW s, Table(s)
    PROVE  IsFiniteSet(DOMAIN s) /\ Cardinality(DOMAIN s) = Len(s)
<1> DEFINE n == Len(s)
<1>1. n \in Nat /\ DOMAIN s = 1..n
  BY TableFacts
<1> HIDE DEF n
<1>2. IsFiniteSet(1..n) /\ Cardinality(1..n) = n
  <2>1. n \in Int /\ 1 \in Int
    BY <1>1
  <2>2. IsFiniteSet(1..n) /\ Cardinality(1..n) = IF 1 > n THEN 0 ELSE n - 1 + 1
    BY <2>1, FS_Interval
  <2> QED
    BY <1>1, <2>2
<1> QED
  BY <1>1, <1>2 DEF n

\* A set no smaller than the first n numbers that goes one to one into them goes onto them.
LEMMA Filled ==
    ASSUME NEW n \in Nat, NEW S, NEW f, \A x \in S : f[x] \in 1..n,
           \A x, y \in S : f[x] = f[y] => x = y, n <= Cardinality(S)
    PROVE  \A a \in 1..n : \E x \in S : f[x] = a
<1>1. SUFFICES ASSUME NEW a \in 1..n, \A x \in S : f[x] # a PROVE FALSE
  OBVIOUS
<1> DEFINE T == (1..n) \ {a}
<1>2. IsFiniteSet(1..n) /\ Cardinality(1..n) = n
  BY FS_Interval
<1>3. IsFiniteSet(T) /\ Cardinality(T) = n - 1
  BY <1>2, FS_RemoveElement
<1>4. \A x \in S : f[x] \in T
  BY <1>1
<1> HIDE DEF T
<1>5. IsFiniteSet(S) /\ Cardinality(S) <= Cardinality(T)
  BY <1>3, <1>4, Injected
<1>6. Cardinality(S) \in Nat
  BY <1>5, FS_CardinalityType
<1> QED
  BY <1>3, <1>5, <1>6

\* Joining is associative.
LEMMA JoinAssociates ==
    ASSUME NEW r, Table(r), NEW s, Table(s), NEW t, Table(t)
    PROVE  (r \o s) \o t = r \o (s \o t)
<1> DEFINE x == (r \o s) \o t
           y == r \o (s \o t)
           l == Len(r)
           m == Len(s)
           n == Len(t)
<1>1. /\ l \in Nat /\ DOMAIN r = 1..l /\ m \in Nat /\ DOMAIN s = 1..m
      /\ n \in Nat /\ DOMAIN t = 1..n
  BY TableFacts
<1>2. /\ Table(r \o s) /\ DOMAIN (r \o s) = 1..l + m
      /\ \A k \in DOMAIN r : (r \o s)[k] = r[k]
      /\ \A k \in 1..m : (r \o s)[l + k] = s[k]
  BY TableConcat
<1>3. /\ Table(s \o t) /\ DOMAIN (s \o t) = 1..m + n
      /\ \A k \in DOMAIN s : (s \o t)[k] = s[k]
      /\ \A k \in 1..n : (s \o t)[m + k] = t[k]
  BY TableConcat
<1>4. Len(r \o s) = l + m /\ Len(s \o t) = m + n
  <2>1. DOMAIN (r \o s) = 1..Len(r \o s) /\ Len(r \o s) \in Nat
    BY <1>2, TableFacts
  <2>2. DOMAIN (s \o t) = 1..Len(s \o t) /\ Len(s \o t) \in Nat
    BY <1>3, TableFacts
  <2> QED
    BY <1>1, <1>2, <1>3, <2>1, <2>2
<1>5. /\ Table(x) /\ DOMAIN x = 1..Len(r \o s) + n
      /\ \A k \in DOMAIN (r \o s) : x[k] = (r \o s)[k]
      /\ \A k \in 1..n : x[Len(r \o s) + k] = t[k]
  BY <1>2, TableConcat
<1>6. /\ Table(y) /\ DOMAIN y = 1..l + Len(s \o t)
      /\ \A k \in DOMAIN r : y[k] = r[k]
      /\ \A k \in 1..Len(s \o t) : y[l + k] = (s \o t)[k]
  BY <1>3, TableConcat
<1> HIDE DEF x, y, l, m, n
<1>7. DOMAIN x = DOMAIN y
  BY <1>1, <1>4, <1>5, <1>6
<1>8. ASSUME NEW k \in DOMAIN x PROVE x[k] = y[k]
  <2>1. CASE k \in 1..l
    BY <1>1, <1>2, <1>5, <1>6, <2>1
  <2>2. CASE k \in l + 1..l + m
    <3> DEFINE i == k - l
    <3>1. i \in 1..m /\ k = l + i /\ i \in 1..m + n /\ k \in 1..l + m
      BY <1>1, <2>2
    <3> HIDE DEF i
    <3>2. x[k] = s[i]
      BY <1>2, <1>5, <3>1
    <3>3. y[k] = s[i]
      BY <1>1, <1>3, <1>4, <1>6, <3>1
    <3> QED
      BY <3>2, <3>3
  <2>3. CASE k \in l + m + 1..l + m + n
    <3> DEFINE i == k - (l + m)
    <3>1. i \in 1..n /\ k = (l + m) + i /\ m + i \in 1..m + n /\ k = l + (m + i)
      BY <1>1, <2>3
    <3> HIDE DEF i
    <3>2. x[k] = t[i]
      BY <1>4, <1>5, <3>1
    <3>3. y[k] = t[i]
      BY <1>3, <1>4, <1>6, <3>1
    <3> QED
      BY <3>2, <3>3
  <2>4. k \in 1..l + m + n
    BY <1>1, <1>4, <1>5
  <2> QED
    BY <1>1, <2>1, <2>2, <2>3, <2>4
<1>9. x = y
  BY <1>5, <1>6, <1>7, <1>8, TableEqual
<1> QED
  BY <1>9 DEF x, y

LEMMA EmptyTable ==
    ASSUME NEW s, Table(s), DOMAIN s = {}
    PROVE  s = <<>>
BY NoRow, TableEqual

LEMMA JoinNothing ==
    ASSUME NEW s, Table(s)
    PROVE  s \o <<>> = s /\ <<>> \o s = s
<1>1. Len(s) \in Nat /\ DOMAIN s = 1..Len(s) /\ Table(<<>>) /\ Len(<<>>) = 0 /\ DOMAIN <<>> = {}
  BY TableFacts, NoRow
<1>2. /\ Table(s \o <<>>) /\ DOMAIN (s \o <<>>) = 1..Len(s) + Len(<<>>)
      /\ \A k \in DOMAIN s : (s \o <<>>)[k] = s[k]
  BY <1>1, TableConcat
<1>3. /\ Table(<<>> \o s) /\ DOMAIN (<<>> \o s) = 1..Len(<<>>) + Len(s)
      /\ \A k \in 1..Len(s) : (<<>> \o s)[Len(<<>>) + k] = s[k]
  BY <1>1, TableConcat
<1>4. s \o <<>> = s
  BY <1>1, <1>2, TableEqual
<1>5. \A k \in DOMAIN s : (<<>> \o s)[k] = s[k]
  BY <1>1, <1>3
<1>6. <<>> \o s = s
  BY <1>1, <1>3, <1>5, TableEqual
<1> QED
  BY <1>4, <1>6

\* What is flattened out of nothing.
LEMMA NothingPicked ==
    ASSUME NEW ss, Table(ss), \A k \in DOMAIN ss : ss[k] = <<>>
    PROVE  FlattenSeq(ss) = <<>>
<1> DEFINE flat == FlattenSeq(ss)
           e == <<>>
<1>1. \A k \in DOMAIN ss : ss[k] = IF k \in {} THEN <<e[k]>> ELSE <<>>
  OBVIOUS
<1>2. \E at : Picks(flat, {}, e, at)
  BY <1>1, FlattenPicks
<1>3. Table(flat) /\ DOMAIN flat = {}
  BY <1>2 DEF Picks
<1> QED
  BY <1>3, EmptyTable

\* The first sequence, then the others flattened.
LEMMA FlattenFirst ==
    ASSUME NEW ss, Table(ss), NEW tt, Table(tt), Len(ss) = Len(tt) + 1,
           \A i \in DOMAIN ss : Table(ss[i]), \A i \in DOMAIN tt : tt[i] = ss[i + 1]
    PROVE  FlattenSeq(ss) = ss[1] \o FlattenSeq(tt)
<1> DEFINE n == Len(tt)
<1>1. n \in Nat /\ DOMAIN tt = 1..n /\ DOMAIN ss = 1..n + 1 /\ Len(ss) = n + 1
  BY TableFacts
<1>2. \A i \in 1..n : Table(tt[i]) /\ tt[i] = ss[i + 1]
  <2>1. ASSUME NEW i \in 1..n PROVE i + 1 \in 1..n + 1
    BY <1>1
  <2> QED
    BY <1>1, <2>1
<1>3. Table(ss[1])
  BY <1>1
<1>4. PICK f : FlattenSeq(ss) = f[n + 1] /\ FlattensBy(ss, n + 1, f)
  <2>1. \E f : FlattenSeq(ss) = f[Len(ss)] /\ FlattensBy(ss, Len(ss), f)
    BY <1>1, FlattenSteps
  <2> QED
    BY <1>1, <2>1
<1> HIDE DEF n
<1>5. f[1] = ss[1] /\ \A i \in 1..n : f[i + 1] = f[i] \o ss[i + 1]
  <2>1. f[1] = ss[1] /\ \A i \in 1..((n + 1) - 1) : f[i + 1] = f[i] \o ss[i + 1]
    BY <1>4 DEF FlattensBy
  <2>2. (n + 1) - 1 = n
    BY <1>1
  <2> QED
    BY <2>1, <2>2
<1>6. CASE n = 0
  <2>1. FlattenSeq(tt) = <<>>
    BY <1>1, <1>6, NothingPicked
  <2>2. FlattenSeq(ss) = ss[1]
    BY <1>4, <1>5, <1>6
  <2> QED
    BY <1>3, <2>1, <2>2, JoinNothing
<1>7. CASE n # 0
  <2>1. PICK g : FlattenSeq(tt) = g[n] /\ FlattensBy(tt, n, g)
    <3>1. \E g : FlattenSeq(tt) = g[Len(tt)] /\ FlattensBy(tt, Len(tt), g)
      BY <1>1, <1>7, FlattenSteps DEF n
    <3> QED
      BY <3>1 DEF n
  <2>2. g[1] = tt[1] /\ \A i \in 1..(n - 1) : g[i + 1] = g[i] \o tt[i + 1]
    BY <2>1 DEF FlattensBy
  <2> DEFINE S == {i \in 0..n : i = 0 \/ (Table(g[i]) /\ f[i + 1] = ss[1] \o g[i])}
  <2>3. 0 \in S
    BY <1>1
  <2>4. ASSUME NEW i \in 0..(n - 1), i \in S PROVE i + 1 \in S
    <3> DEFINE m == i + 1
    <3>1. m \in 1..n /\ m = i + 1
      BY <1>1
    <3>2. i = 0 \/ (Table(g[i]) /\ f[m] = ss[1] \o g[i])
      BY <2>4
    <3> HIDE DEF m, S
    <3>3. Table(tt[m]) /\ f[m + 1] = f[m] \o tt[m]
      BY <1>2, <1>5, <3>1
    <3>4. Table(g[m]) /\ f[m + 1] = ss[1] \o g[m]
      <4>1. CASE i = 0
        <5>1. m = 1 /\ g[m] = tt[m] /\ f[m] = ss[1]
          BY <1>5, <2>2, <3>1, <4>1
        <5> QED
          BY <3>3, <5>1
      <4>2. CASE i # 0
        <5>1. i \in 1..(n - 1)
          BY <1>1, <4>2
        <5>2. g[m] = g[i] \o tt[m]
          BY <2>2, <3>1, <5>1
        <5>3. Table(g[i]) /\ f[m] = ss[1] \o g[i]
          BY <3>2, <4>2
        <5>4. Table(g[m])
          BY <3>3, <5>2, <5>3, TableConcat
        <5> DEFINE p == ss[1]
                   q == g[i]
                   r == tt[m]
        <5> HIDE DEF p, q, r
        <5>5. (p \o q) \o r = p \o (q \o r)
          <6>1. Table(p) /\ Table(q) /\ Table(r)
            BY <1>3, <3>3, <5>3 DEF p, q, r
          <6> QED
            BY <6>1, JoinAssociates
        <5> QED
          BY <3>3, <5>2, <5>3, <5>4, <5>5 DEF p, q, r
      <4> QED
        BY <4>1, <4>2
    <3>5. m \in 0..n
      BY <1>1, <3>1
    <3> QED
      BY <3>1, <3>4, <3>5 DEF S
  <2>5. 0..n \subseteq S
    <3> HIDE DEF S
    <3> QED
      BY <1>1, <2>3, <2>4, Induct
  <2>6. n \in 0..n /\ n # 0
    BY <1>1, <1>7
  <2> QED
    BY <1>4, <2>1, <2>5, <2>6
<1> QED
  BY <1>6, <1>7

\* Numbers that grow from 1 to n within 2 to n + 1 grow by one.
LEMMA GrowsByOne ==
    ASSUME NEW n \in Nat, NEW f, \A a \in 1..n : f[a] \in 2..n + 1,
           \A a, b \in 1..n : a < b => f[a] < f[b], NEW a \in 1..n
    PROVE  f[a] = a + 1
<1> DEFINE Up == {i \in 0..n : i = 0 \/ f[i] >= i + 1}
           Down == {i \in 0..n : i = n \/ f[n - i] <= (n - i) + 1}
<1>1. 0..n \subseteq Up
  <2>1. 0 \in Up
    OBVIOUS
  <2>2. ASSUME NEW i \in 0..(n - 1), i \in Up PROVE i + 1 \in Up
    <3>1. i + 1 \in 1..n /\ f[i + 1] \in 2..n + 1
      OBVIOUS
    <3>2. CASE i = 0
      BY <3>1, <3>2
    <3>3. CASE i # 0
      <4>1. i \in 1..n /\ i < i + 1
        BY <3>3
      <4>2. f[i] < f[i + 1] /\ f[i] \in 2..n + 1 /\ f[i] >= i + 1
        BY <2>2, <3>1, <3>3, <4>1
      <4> QED
        BY <3>1, <4>2
    <3> QED
      BY <3>2, <3>3
  <2> HIDE DEF Up
  <2> QED
    BY <2>1, <2>2, Induct
<1>2. 0..n \subseteq Down
  <2>1. 0 \in Down
    <3>1. CASE n = 0
      BY <3>1
    <3>2. CASE n # 0
      <4>1. n \in 1..n /\ n - 0 = n /\ f[n] \in 2..n + 1
        BY <3>2
      <4> QED
        BY <4>1
    <3> QED
      BY <3>1, <3>2
  <2>2. ASSUME NEW i \in 0..(n - 1), i \in Down PROVE i + 1 \in Down
    <3> DEFINE b == n - i
               c == n - (i + 1)
    <3>1. CASE i + 1 = n
      BY <3>1
    <3>2. CASE i + 1 # n
      <4>1. b \in 1..n /\ c \in 1..n /\ c < b /\ c + 1 = b
        BY <3>2
      <4>2. f[c] < f[b] /\ f[b] \in 2..n + 1 /\ f[c] \in 2..n + 1
        BY <4>1
      <4>3. f[b] <= b + 1
        BY <2>2
      <4> HIDE DEF b
      <4>4. f[c] <= c + 1
        <5> HIDE DEF c
        <5> QED
          BY <4>1, <4>2, <4>3
      <4> QED
        BY <4>4
    <3> QED
      BY <3>1, <3>2
  <2> HIDE DEF Down
  <2> QED
    BY <2>1, <2>2, Induct
<1>3. f[a] >= a + 1
  <2>1. a \in Up /\ a # 0
    BY <1>1
  <2> QED
    BY <2>1
<1>4. f[a] <= a + 1
  <2>1. n - a \in Down /\ n - a # n /\ n - (n - a) = a
    BY <1>2
  <2> QED
    BY <2>1
<1> QED
  BY <1>3, <1>4

LEMMA SameUpTo ==
    ASSUME NEW m \in Nat, NEW n \in Nat, 1..m = 1..n
    PROVE  m = n
<1>1. SUFFICES ASSUME m # n PROVE FALSE
  OBVIOUS
<1>2. CASE m < n
  <2>1. n \in 1..n /\ n \notin 1..m
    BY <1>2
  <2> QED
    BY <2>1
<1>3. CASE n < m
  <2>1. m \in 1..m /\ m \notin 1..n
    BY <1>3
  <2> QED
    BY <2>1
<1> QED
  BY <1>1, <1>2, <1>3

LEMMA JoinOn ==
    ASSUME NEW r, Table(r), NEW s, Table(s), NEW t, Table(t), NEW x, x = r \o s, NEW y, y = x \o t
    PROVE  y = r \o (s \o t)
BY JoinAssociates

Joins(x, r, s) == x = r \o s

LEMMA JoinsOn ==
    ASSUME NEW r, Table(r), NEW s, Table(s), NEW t, Table(t), NEW x, Joins(x, r, s),
           NEW y, Joins(y, x, t), NEW z, Joins(z, s, t)
    PROVE  Joins(y, r, z)
<1>1. x = r \o s /\ y = x \o t /\ z = s \o t
  BY DEF Joins
<1>2. y = r \o (s \o t)
  BY <1>1, JoinOn
<1> QED
  BY <1>1, <1>2 DEF Joins

\* The same but for element p, between what comes before and after it.
Replacing(ss, tt, p, pre, post) ==
    /\ Table(pre) /\ Table(post)
    /\ FlattenSeq(ss) = (pre \o ss[p]) \o post /\ FlattenSeq(tt) = (pre \o tt[p]) \o post
    /\ \A k \in DOMAIN pre : \E i \in DOMAIN ss : i # p /\ \E j \in DOMAIN ss[i] : pre[k] = ss[i][j]

\* Two lists of sequences that differ in one place only, flattened: what comes before
\* that place and after it is the same.
LEMMA FlattenReplaced ==
    ASSUME NEW ss, Table(ss), NEW tt, Table(tt), DOMAIN tt = DOMAIN ss, NEW p \in DOMAIN ss,
           \A i \in DOMAIN ss : Table(ss[i]), \A i \in DOMAIN ss : i # p => tt[i] = ss[i], Table(tt[p])
    PROVE  \E pre, post : Replacing(ss, tt, p, pre, post)
<1> DEFINE n == Len(ss)
           From(t) == \A k \in DOMAIN t : \E i \in DOMAIN ss : i # p /\ \E j \in DOMAIN ss[i] : t[k] = ss[i][j]
<1>1. n \in Nat /\ DOMAIN ss = 1..n /\ DOMAIN tt = 1..Len(tt) /\ Len(tt) \in Nat
  BY TableFacts
<1>2. Len(tt) = n /\ n # 0 /\ p \in 1..n /\ p \in Nat /\ p # 0
  <2>1. 1..Len(tt) = 1..n
    BY <1>1
  <2>2. Len(tt) = n
    BY <1>1, <2>1, SameUpTo
  <2> QED
    BY <1>1, <2>2
<1>3. \A i \in 1..n : Table(ss[i]) /\ (i # p => tt[i] = ss[i])
  BY <1>1
<1>4. PICK f : FlattenSeq(ss) = f[n] /\ FlattensBy(ss, n, f)
  BY <1>1, <1>2, FlattenSteps
<1>5. PICK g : FlattenSeq(tt) = g[n] /\ FlattensBy(tt, n, g)
  <2>1. \E g : FlattenSeq(tt) = g[Len(tt)] /\ FlattensBy(tt, Len(tt), g)
    BY <1>1, <1>2, FlattenSteps
  <2> QED
    BY <1>2, <2>1
<1> HIDE DEF n
<1>6. /\ f[1] = ss[1] /\ \A i \in 1..(n - 1) : f[i + 1] = f[i] \o ss[i + 1]
      /\ g[1] = tt[1] /\ \A i \in 1..(n - 1) : g[i + 1] = g[i] \o tt[i + 1]
  BY <1>4, <1>5 DEF FlattensBy
<1>7. ASSUME NEW i \in 1..n, i # p PROVE From(ss[i])
  BY <1>1, <1>7
<1> DEFINE S == {i \in 0..(p - 1) : i = 0 \/ (Table(f[i]) /\ g[i] = f[i] /\ From(f[i]))}
<1>8. 0 \in S
  BY <1>2
<1>9. ASSUME NEW i \in 0..((p - 1) - 1), i \in S PROVE i + 1 \in S
  <2> DEFINE m == i + 1
  <2>1. m \in 1..n /\ m \in 0..(p - 1) /\ m # p /\ m = i + 1
    BY <1>1, <1>2
  <2>2. i = 0 \/ (Table(f[i]) /\ g[i] = f[i] /\ From(f[i]))
    BY <1>9
  <2> HIDE DEF m, S, From
  <2>3. Table(ss[m]) /\ tt[m] = ss[m] /\ From(ss[m])
    BY <1>3, <1>7, <2>1
  <2>4. Table(f[m]) /\ g[m] = f[m] /\ From(f[m])
    <3>1. CASE i = 0
      <4>1. m = 1 /\ f[m] = ss[m] /\ g[m] = tt[m]
        BY <1>6, <2>1, <3>1
      <4> QED
        BY <2>3, <4>1
    <3>2. CASE i # 0
      <4>1. i \in 1..(n - 1)
        BY <1>1, <1>2, <3>2
      <4>2. f[m] = f[i] \o ss[m] /\ g[m] = g[i] \o tt[m]
        BY <1>6, <2>1, <4>1
      <4>3. Table(f[i]) /\ g[i] = f[i] /\ From(f[i])
        BY <2>2, <3>2
      <4> DEFINE a == f[i]
                 b == ss[m]
      <4>4. Table(a) /\ Table(b) /\ From(a) /\ From(b)
        BY <2>3, <4>3
      <4> HIDE DEF a, b
      <4>5. Table(a \o b) /\ DOMAIN (a \o b) = 1..Len(a) + Len(b)
        BY <4>4, TableConcat
      <4>6. \A k \in DOMAIN a : (a \o b)[k] = a[k]
        BY <4>4, TableConcat
      <4>7. \A k \in 1..Len(b) : (a \o b)[Len(a) + k] = b[k]
        BY <4>4, TableConcat
      <4>8. Len(a) \in Nat /\ Len(b) \in Nat /\ DOMAIN a = 1..Len(a) /\ DOMAIN b = 1..Len(b)
        BY <4>4, TableFacts
      <4>9. From(a \o b)
        <5>1. ASSUME NEW k \in 1..Len(a) + Len(b)
              PROVE  \/ k \in DOMAIN a
                     \/ k - Len(a) \in 1..Len(b) /\ Len(a) + (k - Len(a)) = k
          BY <4>8
        <5>2. ASSUME NEW k \in DOMAIN (a \o b)
              PROVE  \E j \in DOMAIN ss : j # p /\ \E h \in DOMAIN ss[j] : (a \o b)[k] = ss[j][h]
          <6>1. CASE k \in DOMAIN a
            BY <4>4, <4>6, <6>1 DEF From
          <6>2. CASE k - Len(a) \in 1..Len(b) /\ Len(a) + (k - Len(a)) = k
            <7>1. (a \o b)[k] = b[k - Len(a)] /\ k - Len(a) \in DOMAIN b
              BY <4>7, <4>8, <6>2
            <7> QED
              BY <4>4, <7>1 DEF From
          <6> QED
            BY <4>5, <5>1, <6>1, <6>2
        <5> QED
          BY <5>2 DEF From
      <4> QED
        BY <2>3, <4>2, <4>3, <4>5, <4>9 DEF a, b
    <3> QED
      BY <3>1, <3>2
  <2> QED
    BY <2>1, <2>4 DEF m, S
<1>10. 0..(p - 1) \subseteq S
  <2>1. p - 1 \in Nat
    BY <1>2
  <2> HIDE DEF S
  <2> QED
    BY <1>8, <1>9, <2>1, Induct
<1> DEFINE pre == IF p = 1 THEN <<>> ELSE f[p - 1]
           A == pre \o ss[p]
           B == pre \o tt[p]
<1>11. Table(pre) /\ From(pre) /\ f[p] = A /\ g[p] = B
  <2>1. CASE p = 1
    <3>1. pre = <<>> /\ f[p] = ss[p] /\ g[p] = tt[p]
      BY <1>6, <2>1
    <3>2. Table(<<>>) /\ DOMAIN <<>> = {} /\ <<>> \o ss[p] = ss[p] /\ <<>> \o tt[p] = tt[p]
      BY <1>2, <1>3, NoRow, JoinNothing
    <3>3. From(<<>>)
      BY <3>2
    <3> HIDE DEF pre, From
    <3> QED
      BY <3>1, <3>2, <3>3
  <2>2. CASE p # 1
    <3>1. p - 1 \in 0..(p - 1) /\ p - 1 # 0 /\ p - 1 \in 1..(n - 1) /\ (p - 1) + 1 = p
      BY <1>1, <1>2, <2>2
    <3>2. Table(f[p - 1]) /\ g[p - 1] = f[p - 1] /\ From(f[p - 1])
      BY <1>10, <3>1
    <3>3. f[p] = f[p - 1] \o ss[p] /\ g[p] = g[p - 1] \o tt[p]
      <4>1. f[(p - 1) + 1] = f[p - 1] \o ss[(p - 1) + 1] /\ g[(p - 1) + 1] = g[p - 1] \o tt[(p - 1) + 1]
        BY <1>6, <3>1
      <4> QED
        BY <3>1, <4>1
    <3> HIDE DEF From
    <3> QED
      BY <2>2, <3>2, <3>3
  <2> QED
    BY <2>1, <2>2
<1> HIDE DEF pre
<1>12. Table(A) /\ Table(B)
  BY <1>2, <1>3, <1>11, TableConcat
<1> HIDE DEF A, B, S
<1> DEFINE T == {i \in 0..(n - p) : \E post : Table(post) /\ f[p + i] = A \o post /\ g[p + i] = B \o post}
<1>13. 0 \in T
  <2>1. A \o <<>> = A /\ B \o <<>> = B /\ Table(<<>>)
    BY <1>12, JoinNothing, NoRow
  <2>2. p + 0 = p /\ 0 \in 0..(n - p)
    BY <1>1, <1>2
  <2>3. f[p + 0] = A \o <<>> /\ g[p + 0] = B \o <<>>
    BY <1>11, <2>1, <2>2
  <2> QED
    BY <2>1, <2>2, <2>3
<1>14. ASSUME NEW i \in 0..((n - p) - 1), i \in T PROVE i + 1 \in T
  <2> DEFINE m == p + (i + 1)
  <2>1. PICK post : Table(post) /\ f[p + i] = A \o post /\ g[p + i] = B \o post
    BY <1>14
  <2>2. /\ m \in 1..n /\ m # p /\ p + i \in 1..(n - 1) /\ (p + i) + 1 = m /\ i + 1 \in 0..(n - p)
    BY <1>1, <1>2
  <2>3. f[m] = f[p + i] \o ss[m] /\ g[m] = g[p + i] \o tt[m]
    <3>1. f[(p + i) + 1] = f[p + i] \o ss[(p + i) + 1] /\ g[(p + i) + 1] = g[p + i] \o tt[(p + i) + 1]
      BY <1>6, <2>2
    <3> QED
      BY <2>2, <3>1
  <2> DEFINE s == ss[m]
             more == post \o s
  <2>4. Table(s) /\ tt[m] = s
    BY <1>3, <2>2
  <2> HIDE DEF s
  <2>5. Table(more)
    BY <2>1, <2>4, TableConcat
  <2>6. f[m] = A \o more /\ g[m] = B \o more
    <3>1. f[m] = f[p + i] \o s /\ g[m] = g[p + i] \o s /\ f[p + i] = A \o post /\ g[p + i] = B \o post
      BY <2>1, <2>3, <2>4 DEF s
    <3> DEFINE x == f[p + i]
               y == g[p + i]
               u == f[m]
               v == g[m]
    <3>2. u = x \o s /\ x = A \o post /\ v = y \o s /\ y = B \o post
      BY <3>1
    <3>3. Table(A) /\ Table(B) /\ Table(post) /\ Table(s)
      BY <1>12, <2>1, <2>4
    <3> HIDE DEF x, y, u, v
    <3>4. Joins(u, x, s) /\ Joins(x, A, post) /\ Joins(v, y, s) /\ Joins(y, B, post) /\ Joins(more, post, s)
      BY <3>2 DEF Joins
    <3> HIDE DEF more
    <3>5. Joins(u, A, more)
      BY <3>3, <3>4, JoinsOn
    <3>6. Joins(v, B, more)
      BY <3>3, <3>4, JoinsOn
    <3> QED
      BY <3>5, <3>6 DEF Joins, u, v
  <2> HIDE DEF more
  <2>7. \E q : Table(q) /\ f[m] = A \o q /\ g[m] = B \o q
    BY <2>5, <2>6
  <2> QED
    BY <2>2, <2>7
<1>15. 0..(n - p) \subseteq T
  <2>1. n - p \in Nat
    BY <1>1, <1>2
  <2> HIDE DEF T
  <2> QED
    BY <1>13, <1>14, <2>1, Induct
<1>16. PICK post : Table(post) /\ f[p + (n - p)] = A \o post /\ g[p + (n - p)] = B \o post
  <2>1. n - p \in 0..(n - p)
    BY <1>1, <1>2
  <2> QED
    BY <1>15, <2>1
<1>17. p + (n - p) = n
  BY <1>1, <1>2
<1>18. FlattenSeq(ss) = A \o post /\ FlattenSeq(tt) = B \o post
  BY <1>4, <1>5, <1>16, <1>17
<1>19. FlattenSeq(ss) = (pre \o ss[p]) \o post /\ FlattenSeq(tt) = (pre \o tt[p]) \o post
  BY <1>18 DEF A, B
<1> QED
  <2>1. Replacing(ss, tt, p, pre, post)
    BY <1>11, <1>16, <1>19 DEF Replacing
  <2> QED
    BY <2>1

\* A stretch of a table, possibly none of it.
LEMMA StretchOf ==
    ASSUME NEW s, Table(s), NEW m \in 1..Len(s) + 1, NEW n \in 0..Len(s), m <= n + 1
    PROVE  LET t == SubSeq(s, m, n) IN
           Table(t) /\ DOMAIN t = 1..n + 1 - m /\ \A i \in 1..n + 1 - m : t[i] = s[m + i - 1]
<1>1. Len(s) \in Nat /\ m \in Int /\ n \in Int
  BY TableFacts
<1>2. CASE m = n + 1
  <2>1. SubSeq(s, m, n) = <<>>
    <3>1. n < m
      BY <1>1, <1>2
    <3> QED
      BY <1>1, <3>1, SubSeqEmpty
  <2>2. 1..n + 1 - m = {}
    BY <1>1, <1>2
  <2> QED
    BY <2>1, <2>2, NoRow
<1>3. CASE m # n + 1
  <2>1. m \in 1..Len(s) /\ n \in m..Len(s) /\ n - m + 1 = n + 1 - m
    BY <1>1, <1>3
  <2>2. LET t == SubSeq(s, m, n) IN
           Table(t) /\ DOMAIN t = 1..n - m + 1 /\ \A i \in 1..n - m + 1 : t[i] = s[m + i - 1]
    BY <2>1, PartOf
  <2> QED
    BY <2>1, <2>2
<1> QED
  BY <1>2, <1>3

\* One element with what comes before and after it, taken apart again.
LEMMA AroundOne ==
    ASSUME NEW pre, Table(pre), NEW post, Table(post), NEW x, NEW t, t = (pre \o <<x>>) \o post,
           NEW k, k = Len(pre) + 1
    PROVE  /\ Table(t) /\ k \in DOMAIN t /\ t[k] = x /\ \A i \in DOMAIN pre : t[i] = pre[i]
           /\ SubSeq(t, 1, k - 1) = pre /\ SubSeq(t, k + 1, Len(t)) = post
<1> DEFINE n == Len(pre)
           m == Len(post)
           a == pre \o <<x>>
<1>1. n \in Nat /\ m \in Nat /\ DOMAIN pre = 1..n /\ DOMAIN post = 1..m /\ k = n + 1
  BY TableFacts
<1>2. Table(a) /\ DOMAIN a = 1..n + 1 /\ (\A i \in 1..n : a[i] = pre[i]) /\ a[n + 1] = x
  <2>1. Table(<<x>>) /\ Len(<<x>>) = 1 /\ <<x>>[1] = x
    BY OneRow
  <2>2. Table(a) /\ DOMAIN a = 1..n + 1
    <3>1. Table(a) /\ DOMAIN a = 1..Len(pre) + Len(<<x>>)
      BY <2>1, TableConcat
    <3> QED
      BY <2>1, <3>1
  <2>3. \A i \in DOMAIN pre : a[i] = pre[i]
    BY <2>1, TableConcat
  <2>4. \A i \in 1..Len(<<x>>) : a[n + i] = <<x>>[i]
    BY <2>1, TableConcat
  <2>5. 1 \in 1..Len(<<x>>)
    BY <2>1
  <2> HIDE DEF a, n
  <2> QED
    BY <1>1, <2>1, <2>2, <2>3, <2>4, <2>5
<1>3. Len(a) = n + 1
  <2>1. DOMAIN a = 1..Len(a) /\ Len(a) \in Nat
    BY <1>2, TableFacts
  <2>2. n + 1 \in Nat /\ 1..n + 1 = 1..Len(a)
    BY <1>1, <1>2, <2>1
  <2> HIDE DEF a, n
  <2> QED
    BY <2>1, <2>2, SameUpTo
<1> HIDE DEF a
<1>4. t = a \o post
  BY DEF a
<1>5. Table(t) /\ DOMAIN t = 1..n + 1 + m
  <2>1. Table(a \o post) /\ DOMAIN (a \o post) = 1..Len(a) + Len(post)
    BY <1>2, TableConcat
  <2> QED
    BY <1>3, <1>4, <2>1
<1>6. \A i \in 1..n + 1 : t[i] = a[i]
  <2>1. \A i \in DOMAIN a : (a \o post)[i] = a[i]
    BY <1>2, TableConcat
  <2> QED
    BY <1>2, <1>4, <2>1
<1>7. \A i \in 1..m : t[n + 1 + i] = post[i]
  <2>1. \A i \in 1..Len(post) : (a \o post)[Len(a) + i] = post[i]
    BY <1>2, TableConcat
  <2> QED
    BY <1>3, <1>4, <2>1
<1> HIDE DEF n, m
<1>8. Len(t) = n + 1 + m
  <2>1. DOMAIN t = 1..Len(t) /\ Len(t) \in Nat
    BY <1>5, TableFacts
  <2>2. n + 1 + m \in Nat /\ 1..n + 1 + m = 1..Len(t)
    BY <1>1, <1>5, <2>1
  <2> QED
    BY <2>1, <2>2, SameUpTo
<1>9. k \in DOMAIN t /\ t[k] = x
  <2>1. n + 1 \in 1..n + 1 /\ n + 1 \in 1..n + 1 + m
    BY <1>1
  <2> QED
    BY <1>1, <1>2, <1>5, <1>6, <2>1
<1>10. \A i \in 1..n : t[i] = pre[i]
  <2>1. \A i \in 1..n : i \in 1..n + 1
    BY <1>1
  <2> QED
    BY <1>2, <1>6, <2>1
<1>11. SubSeq(t, 1, k - 1) = pre
  <2> DEFINE K == 1
             s == SubSeq(t, K, n)
  <2>1. K \in 1..Len(t) + 1 /\ n \in 0..Len(t) /\ K <= n + 1 /\ n + 1 - K = n /\ k - 1 = n
    BY <1>1, <1>8
  <2>4. \A i \in 1..n : K + i - 1 = i
    BY <1>1
  <2> HIDE DEF K
  <2>2. Table(s) /\ DOMAIN s = 1..n + 1 - K
    <3>1. Table(SubSeq(t, K, n))
      BY <1>5, <2>1, StretchOf
    <3>2. DOMAIN SubSeq(t, K, n) = 1..n + 1 - K
      BY <1>5, <2>1, StretchOf
    <3> QED
      BY <3>1, <3>2
  <2>3. \A i \in 1..n + 1 - K : s[i] = t[K + i - 1]
    BY <1>5, <2>1, StretchOf
  <2> HIDE DEF s
  <2>5. DOMAIN s = DOMAIN pre /\ \A i \in DOMAIN s : s[i] = pre[i]
    BY <1>1, <1>10, <2>1, <2>2, <2>3, <2>4
  <2>6. s = pre
    BY <2>2, <2>5, TableEqual
  <2> QED
    BY <2>1, <2>6 DEF s, K
<1>12. SubSeq(t, k + 1, Len(t)) = post
  <2> DEFINE K == k + 1
             N == Len(t)
             s == SubSeq(t, K, N)
  <2>1. K \in 1..N + 1 /\ N \in 0..N /\ K <= N + 1 /\ N + 1 - K = m /\ K = n + 2
    BY <1>1, <1>8
  <2> HIDE DEF K
  <2>2. Table(s) /\ DOMAIN s = 1..N + 1 - K
    BY <1>5, <2>1, StretchOf
  <2>3. \A i \in 1..N + 1 - K : s[i] = t[K + i - 1]
    BY <1>5, <2>1, StretchOf
  <2>4. \A i \in 1..m : K + i - 1 = n + 1 + i
    BY <1>1, <2>1
  <2> HIDE DEF s, N
  <2>5. DOMAIN s = DOMAIN post /\ \A i \in DOMAIN s : s[i] = post[i]
    BY <1>1, <1>7, <2>1, <2>2, <2>3, <2>4
  <2>6. s = post
    BY <2>2, <2>5, TableEqual
  <2> QED
    BY <2>6 DEF s, N, K
<1> QED
  BY <1>1, <1>5, <1>9, <1>10, <1>11, <1>12

\* Flattening undoes making each element a sequence of its own.
LEMMA FlattenSingles ==
    ASSUME NEW s, Table(s), NEW ss, DOMAIN ss = DOMAIN s, Table(ss), \A k \in DOMAIN s : ss[k] = <<s[k]>>
    PROVE  FlattenSeq(ss) = s
<1> DEFINE n == Len(s)
<1>1. n \in Nat /\ DOMAIN s = 1..n /\ DOMAIN ss = 1..Len(ss) /\ Len(ss) \in Nat
  BY TableFacts
<1>2. Len(ss) = n
  <2>1. 1..Len(ss) = 1..n
    BY <1>1
  <2> QED
    BY <1>1, <2>1, SameUpTo
<1>3. CASE n = 0
  <2>1. s = <<>>
    BY <1>1, <1>3, EmptyTable
  <2>2. \A k \in DOMAIN ss : ss[k] = <<>>
    BY <1>1, <1>3
  <2> QED
    BY <2>1, <2>2, NothingPicked
<1>4. CASE n # 0
  <2>1. PICK f : FlattenSeq(ss) = f[n] /\ FlattensBy(ss, n, f)
    <3>1. \E f : FlattenSeq(ss) = f[Len(ss)] /\ FlattensBy(ss, Len(ss), f)
      BY <1>1, <1>2, <1>4, FlattenSteps
    <3> QED
      BY <1>2, <3>1
  <2>2. f[1] = ss[1] /\ \A i \in 1..(n - 1) : f[i + 1] = f[i] \o ss[i + 1]
    BY <2>1 DEF FlattensBy
  <2> DEFINE Good(t, i) == Table(t) /\ DOMAIN t = 1..i /\ \A k \in 1..i : t[k] = s[k]
             S == {i \in 0..n : i = 0 \/ Good(f[i], i)}
  <2>3. 0 \in S
    BY <1>1
  <2>4. ASSUME NEW i \in 0..(n - 1), i \in S PROVE i + 1 \in S
    <3> DEFINE m == i + 1
    <3>1. m \in 1..n /\ m = i + 1 /\ m \in 0..n /\ i \in Nat
      BY <1>1
    <3>2. i = 0 \/ Good(f[i], i)
      BY <2>4
    <3>3. ss[m] = <<s[m]>>
      BY <1>1, <3>1
    <3> HIDE DEF m, S, n
    <3>4. Good(f[m], m)
      <4> DEFINE x == s[m]
      <4>1. Table(<<x>>) /\ Len(<<x>>) = 1 /\ DOMAIN <<x>> = {1} /\ <<x>>[1] = x
        BY OneRow
      <4> HIDE DEF x
      <4>2. CASE i = 0
        <5>1. m = 1 /\ f[m] = <<x>> /\ 1..m = {1}
          BY <2>2, <3>1, <3>3, <4>2 DEF x
        <5> QED
          BY <4>1, <5>1 DEF x
      <4>3. CASE i # 0
        <5>1. i \in 1..(n - 1)
          BY <1>1, <4>3
        <5> DEFINE a == f[i]
        <5>2. f[m] = a \o <<x>> /\ Good(a, i)
          BY <2>2, <3>1, <3>2, <3>3, <4>3, <5>1 DEF x
        <5> HIDE DEF a
        <5>3. Table(a) /\ DOMAIN a = 1..i
          BY <5>2
        <5>4. Len(a) = i
          <6>1. Len(a) \in Nat /\ 1..Len(a) = 1..i
            BY <5>3, TableFacts
          <6> QED
            BY <3>1, <6>1, SameUpTo
        <5>5. Table(a \o <<x>>) /\ DOMAIN (a \o <<x>>) = 1..Len(a) + Len(<<x>>)
          BY <4>1, <5>3, TableConcat
        <5>6. \A k \in DOMAIN a : (a \o <<x>>)[k] = a[k]
          BY <4>1, <5>3, TableConcat
        <5>7. \A k \in 1..Len(<<x>>) : (a \o <<x>>)[Len(a) + k] = <<x>>[k]
          BY <4>1, <5>3, TableConcat
        <5>8. (a \o <<x>>)[m] = x
          <6>1. 1 \in 1..Len(<<x>>)
            BY <4>1
          <6> QED
            BY <3>1, <4>1, <5>4, <5>7, <6>1
        <5>9. \A k \in 1..m : k \in DOMAIN a \/ k = m
          BY <3>1, <5>3
        <5>10. \A k \in 1..m : (a \o <<x>>)[k] = s[k]
          BY <5>2, <5>3, <5>6, <5>8, <5>9 DEF x
        <5>11. DOMAIN (a \o <<x>>) = 1..m
          BY <3>1, <4>1, <5>4, <5>5
        <5> QED
          BY <5>2, <5>5, <5>10, <5>11
      <4> QED
        BY <4>2, <4>3
    <3> QED
      BY <3>1, <3>4 DEF m, S, n
  <2>5. 0..n \subseteq S
    <3> HIDE DEF S, n
    <3> QED
      BY <1>1, <2>3, <2>4, Induct
  <2>6. Good(f[n], n)
    <3>1. n \in 0..n
      BY <1>1
    <3> QED
      BY <1>4, <2>5, <3>1
  <2> HIDE DEF n
  <2>7. f[n] = s
    <3> DEFINE t == f[n]
    <3>1. Table(t) /\ DOMAIN t = DOMAIN s /\ \A k \in DOMAIN t : t[k] = s[k]
      BY <1>1, <2>6
    <3> HIDE DEF t
    <3>2. t = s
      BY <3>1, TableEqual
    <3> QED
      BY <3>2 DEF t
  <2> QED
    BY <2>1, <2>7
<1> QED
  BY <1>3, <1>4
=============================================================================
