--------------------------- MODULE DirectoryProofs ---------------------------
(***************************************************************************)
(* Proofs about Directory.                                                 *)
(***************************************************************************)
EXTENDS Directory, FiniteSetTheorems, SequenceTheorems, TLAPS

\* A non-empty set of naturals has a least element.
LEMMA LeastNatural ==
    ASSUME NEW T, T \subseteq Nat, T # {}
    PROVE  \E x \in T : \A y \in T : x <= y
  <1>1. PICK x \in T : \A y \in T : <<y, x>> \notin OpToRel(<, Nat)
    BY WFMin, NatLessThanWellFounded
  <1>2. \A y \in T : ~(y < x)
    BY <1>1 DEF OpToRel
  <1> QED BY <1>2

\* Induction on a set of naturals.
LEMMA EveryNatural ==
    ASSUME NEW T, T \subseteq Nat, 0 \in T, \A n \in T : n + 1 \in T
    PROVE  T = Nat
  <1> SUFFICES ASSUME Nat \ T # {} PROVE FALSE
    OBVIOUS
  <1>1. PICK x \in Nat \ T : \A y \in Nat \ T : x <= y
    BY LeastNatural
  <1>2. x # 0 /\ x - 1 \in Nat
    BY <1>1
  <1>3. x - 1 \in T
    BY <1>1, <1>2
  <1> QED BY <1>1, <1>2, <1>3

\* A strict total order on a set.
Orders(R, S) ==
    /\ \A x \in S : <<x, x>> \notin R
    /\ \A x, y, z \in S : <<x, y>> \in R /\ <<y, z>> \in R => <<x, z>> \in R
    /\ \A x, y \in S : x = y \/ <<x, y>> \in R \/ <<y, x>> \in R

\* Every place in the order is taken, once: inOrder lists all members.
LEMMA ListedOnce ==
    ASSUME NEW S, IsFiniteSet(S), NEW R, Orders(R, S)
    PROVE  /\ Cardinality(S) \in Nat
           /\ inOrder(S, R) \in [1 .. Cardinality(S) -> S]
           /\ \A j, k \in 1 .. Cardinality(S) :
                inOrder(S, R)[j] = inOrder(S, R)[k] => j = k
           /\ \A x \in S : \E k \in 1 .. Cardinality(S) : inOrder(S, R)[k] = x
  <1> DEFINE n == Cardinality(S)
             below(x) == {y \in S : <<y, x>> \in R}
             rank == [x \in S |-> Cardinality(below(x))]
             g == inOrder(S, R)
  <1>1. n \in Nat
    BY FS_CardinalityType
  <1>2. ASSUME NEW x \in S
        PROVE  IsFiniteSet(below(x)) /\ rank[x] \in 0 .. n - 1
    <2>1. below(x) \subseteq S /\ x \notin below(x)
      BY DEF Orders
    <2>2. IsFiniteSet(below(x)) /\ Cardinality(below(x)) <= n
          /\ (Cardinality(below(x)) = n => below(x) = S)
      BY <2>1, FS_Subset
    <2>3. Cardinality(below(x)) \in Nat
      BY <2>2, FS_CardinalityType
    <2> QED BY <1>1, <2>1, <2>2, <2>3
  <1>3. ASSUME NEW x \in S, NEW y \in S, <<x, y>> \in R
        PROVE  rank[x] # rank[y]
    <2>1. below(x) \subseteq below(y) /\ x \in below(y) /\ x \notin below(x)
      BY <1>3 DEF Orders
    <2>2. Cardinality(below(x)) = Cardinality(below(y)) => below(x) = below(y)
      BY <1>2, <2>1, FS_Subset
    <2> QED BY <2>1, <2>2
  <1>4. rank \in Injection(S, 0 .. n - 1)
    <2>1. \A x, y \in S : x # y => rank[x] # rank[y]
      BY <1>3 DEF Orders
    <2> QED BY <1>2, <2>1 DEF Injection, IsInjective
  <1>5. IsFiniteSet(0 .. n - 1) /\ Cardinality(0 .. n - 1) = n
    BY <1>1, FS_Interval
  <1>6. rank \in Surjection(S, 0 .. n - 1)
    BY <1>4, <1>5, FS_Injection
  <1>r. \A x \in S : rank[x] \in 0 .. n - 1
    BY <1>2
  <1>c. \A x \in S : rank[x] = Cardinality(below(x))
    OBVIOUS
  <1>p. \A k \in 0 .. n - 1 : \E x \in S : rank[x] = k
    BY <1>6 DEF Surjection
  <1>q. \A x, y \in S : rank[x] = rank[y] => x = y
    BY <1>3 DEF Orders
  <1> HIDE DEF rank, g, n
  <1>7. ASSUME NEW k \in 1 .. n PROVE g[k] \in S /\ rank[g[k]] = k - 1
    <2>1. PICK x \in S : rank[x] = k - 1
      BY <1>1, <1>p
    <2>2. \E y \in S : Cardinality({z \in S : <<z, y>> \in R}) = k - 1
      BY <2>1, <1>c
    <2>3. g[k] = CHOOSE y \in S : Cardinality({z \in S : <<z, y>> \in R}) = k - 1
      BY DEF inOrder, g, n
    <2>4. g[k] \in S /\ Cardinality({z \in S : <<z, g[k]>> \in R}) = k - 1
      BY <2>2, <2>3
    <2> QED BY <1>c, <2>4
  <1>8. g \in [1 .. n -> S]
    BY <1>7 DEF inOrder, g, n
  <1>9. \A j, k \in 1 .. n : g[j] = g[k] => j = k
    BY <1>1, <1>7
  <1>10. ASSUME NEW x \in S PROVE \E k \in 1 .. n : g[k] = x
    <2>1. rank[x] + 1 \in 1 .. n
      BY <1>1, <1>r
    <2>2. rank[g[rank[x] + 1]] = rank[x] /\ g[rank[x] + 1] \in S
      <3> DEFINE k == rank[x] + 1
      <3>1. k \in 1 .. n /\ rank[x] = k - 1
        BY <1>1, <1>r, <2>1
      <3> HIDE DEF k
      <3>2. g[k] \in S /\ rank[g[k]] = k - 1
        BY <1>7, <3>1
      <3> QED BY <3>1, <3>2 DEF k
    <2>3. g[rank[x] + 1] = x
      BY <1>q, <2>2
    <2> QED BY <2>1, <2>3
  <1> QED BY <1>1, <1>8, <1>9, <1>10 DEF g, n
-----------------------------------------------------------------------------
(* What a fold over contacts computes.                                      *)

\* The fold's values, by the set of contacts seen.
Rows(g, start, s) ==
    [T \in SUBSET DOMAIN s |->
        IF T = {} THEN start ELSE saw(g[T \ {Max(T)}], s[Max(T)])]

sightings(start, s) == FoldLeft(saw, start, s)

LEMMA FoldUnfold ==
    ASSUME NEW start, NEW s
    PROVE  sightings(start, s) = (CHOOSE g : g = Rows(g, start, s))[DOMAIN s]
  BY DEF sightings, FoldLeft, MapThenFoldSet, Rows

LEMMA MaxOfNaturals ==
    ASSUME NEW n \in Nat, NEW T \in SUBSET (1 .. n), n \in T
    PROVE  Max(T) = n
  <1>1. \A y \in T : n >= y
    OBVIOUS
  <1>2. Max(T) \in T /\ \A y \in T : Max(T) >= y
    BY <1>1 DEF Max
  <1>3. ASSUME NEW m \in T, \A y \in T : m >= y PROVE m = n
    <2>1. m \in 1 .. n /\ m >= n
      BY <1>3
    <2> QED BY <2>1
  <1> QED BY <1>2, <1>3

\* Such values exist, for as many contacts as there are.
LEMMA RowsExist ==
    ASSUME NEW start, NEW n \in Nat, NEW s, DOMAIN s = 1 .. n
    PROVE  \E g : g = Rows(g, start, s)
  <1> DEFINE good == {k \in Nat : \E g : g = [T \in SUBSET (1 .. k) |->
                        IF T = {} THEN start
                        ELSE saw(g[T \ {Max(T)}], s[Max(T)])]}
  <1>1. 0 \in good
    <2> DEFINE g == [T \in SUBSET (1 .. 0) |-> start]
    <2>1. \A T \in SUBSET (1 .. 0) : T = {}
      OBVIOUS
    <2>2. g = [T \in SUBSET (1 .. 0) |->
                  IF T = {} THEN start ELSE saw(g[T \ {Max(T)}], s[Max(T)])]
      BY <2>1
    <2> HIDE DEF g
    <2> QED BY <2>2
  <1>2. ASSUME NEW k \in good PROVE k + 1 \in good
    <2>0. k \in Nat
      OBVIOUS
    <2>1. PICK g : g = [T \in SUBSET (1 .. k) |->
                  IF T = {} THEN start ELSE saw(g[T \ {Max(T)}], s[Max(T)])]
      OBVIOUS
    <2> DEFINE h == [T \in SUBSET (1 .. k + 1) |->
                        IF T \subseteq 1 .. k THEN g[T]
                        ELSE saw(g[T \ {k + 1}], s[k + 1])]
    <2>2. ASSUME NEW T \in SUBSET (1 .. k + 1)
          PROVE  h[T] = IF T = {} THEN start
                        ELSE saw(h[T \ {Max(T)}], s[Max(T)])
      <3>1. CASE T \subseteq 1 .. k
        <4>1. T \ {Max(T)} \subseteq 1 .. k /\ T \ {Max(T)} \in SUBSET (1 .. k + 1)
          BY <3>1
        <4>2. h[T] = g[T] /\ h[T \ {Max(T)}] = g[T \ {Max(T)}]
          BY <3>1, <4>1
        <4>3. g[T] = IF T = {} THEN start
                     ELSE saw(g[T \ {Max(T)}], s[Max(T)])
          BY <2>1, <3>1
        <4> HIDE DEF h
        <4> QED BY <4>2, <4>3
      <3>2. CASE ~(T \subseteq 1 .. k)
        <4>1. k + 1 \in T /\ k + 1 \in Nat
          BY <2>0, <3>2
        <4>2. Max(T) = k + 1
          BY <4>1, MaxOfNaturals
        <4>3. T \ {k + 1} \subseteq 1 .. k /\ T \ {k + 1} \in SUBSET (1 .. k + 1)
          BY <2>0
        <4>4. h[T] = saw(g[T \ {k + 1}], s[k + 1])
          BY <3>2
        <4>5. h[T \ {k + 1}] = g[T \ {k + 1}]
          BY <4>3
        <4> HIDE DEF h
        <4> QED BY <4>1, <4>2, <4>4, <4>5
      <3> QED BY <3>1, <3>2
    <2>3. h = [T \in SUBSET (1 .. k + 1) |->
                  IF T = {} THEN start ELSE saw(h[T \ {Max(T)}], s[Max(T)])]
      <3> DEFINE r == [T \in SUBSET (1 .. k + 1) |->
                  IF T = {} THEN start ELSE saw(h[T \ {Max(T)}], s[Max(T)])]
      <3>1. \A T \in SUBSET (1 .. k + 1) : h[T] = r[T]
        <4> HIDE DEF h
        <4> QED BY <2>2
      <3>2. h = [T \in SUBSET (1 .. k + 1) |-> h[T]]
        OBVIOUS
      <3>3. r = [T \in SUBSET (1 .. k + 1) |-> r[T]]
        OBVIOUS
      <3> HIDE DEF h, r
      <3>4. h = r
        BY <3>1, <3>2, <3>3
      <3> QED BY <3>4 DEF r
    <2> HIDE DEF h
    <2>4. \E g1 : g1 = [T \in SUBSET (1 .. k + 1) |->
                  IF T = {} THEN start ELSE saw(g1[T \ {Max(T)}], s[Max(T)])]
      BY <2>3
    <2>5. k + 1 \in Nat
      BY <2>0
    <2> QED BY <2>4, <2>5
  <1>3. good = Nat
    <2> HIDE DEF good
    <2>1. good \subseteq Nat
      BY DEF good
    <2> QED BY <1>1, <1>2, <2>1, EveryNatural
  <1>4. n \in good
    BY <1>3
  <1> QED BY <1>4 DEF Rows

\* The fold is the end of a sequence of directories, one contact each.
Trace(h, start, n, s) ==
    /\ h[0] = start
    /\ \A k \in 1 .. n : h[k] = saw(h[k - 1], s[k])
    /\ sightings(start, s) = h[n]

LEMMA FoldTrace ==
    ASSUME NEW start, NEW n \in Nat, NEW s, DOMAIN s = 1 .. n
    PROVE  \E h : Trace(h, start, n, s)
  <1> DEFINE g == CHOOSE g : g = Rows(g, start, s)
             h == [k \in 0 .. n |-> g[1 .. k]]
  <1>1. g = Rows(g, start, s)
    BY RowsExist
  <1>2. sightings(start, s) = g[1 .. n]
    BY FoldUnfold
  <1> HIDE DEF g
  <1>3. h[0] = start
    <2>1. 1 .. 0 = {} /\ 0 \in 0 .. n
      OBVIOUS
    <2>2. g[{}] = start
      BY <1>1 DEF Rows
    <2> QED BY <2>1, <2>2
  <1>4. ASSUME NEW k \in 1 .. n PROVE h[k] = saw(h[k - 1], s[k])
    <2>0. k \in Nat /\ k \in 1 .. k
      OBVIOUS
    <2>1. 1 .. k \in SUBSET (1 .. n) /\ 1 .. k # {}
      BY <2>0
    <2>2. Max(1 .. k) = k
      BY <2>0, MaxOfNaturals
    <2>3. (1 .. k) \ {k} = 1 .. k - 1 /\ k - 1 \in 0 .. n /\ k \in 0 .. n
      OBVIOUS
    <2>4. g[1 .. k] = saw(g[(1 .. k) \ {Max(1 .. k)}], s[Max(1 .. k)])
      BY <1>1, <2>1 DEF Rows
    <2>5. h[k] = g[1 .. k] /\ h[k - 1] = g[1 .. k - 1]
      BY <2>3
    <2> HIDE DEF h
    <2> QED BY <2>2, <2>3, <2>4, <2>5
  <1>5. h[n] = g[1 .. n]
    OBVIOUS
  <1> HIDE DEF h
  <1>6. Trace(h, start, n, s)
    BY <1>2, <1>3, <1>4, <1>5 DEF Trace
  <1> QED BY <1>6
-----------------------------------------------------------------------------
(* The directory, and what one sighting does to it.                         *)

Contacts == [id : Ids, seq : Nat]
Held == [id : Peers, seq : Nat]

LookupType ==
    [on : BOOLEAN, shortlist : SUBSET Ids, queried : SUBSET Ids,
     in_flight : SUBSET Ids, holders : SUBSET Peers]

DirType ==
    [routing : [Buckets -> Seq(Held)], providers : [Keys -> SUBSET Peers],
     lookups : [Keys -> LookupType], outstanding : [Ids -> SUBSET Keys],
     failures : [Ids -> 0 .. MaxFailures - 1], pending : [Ids -> SUBSET Held],
     deferrals : [Ids -> 0 .. MaxDeferrals + 1], key_wants : SUBSET Ids]

\* The ids in one bucket.
names(s) == {s[i].id : i \in DOMAIN s}

LEMMA RoutedNames ==
    ASSUME NEW d, d.routing \in [Buckets -> Seq(Held)]
    PROVE  /\ routed(d) = UNION {names(d.routing[b]) : b \in Buckets}
           /\ routed(d) \subseteq Peers
  <1>1. \A b \in Buckets : d.routing[b] \in Seq(Held)
    OBVIOUS
  <1>2. \A b \in Buckets : names(d.routing[b]) = {c.id : c \in ToSet(d.routing[b])}
    BY <1>1 DEF names, ToSet
  <1>3. DOMAIN d.routing = Buckets
    OBVIOUS
  <1>4. routed(d) = UNION {names(d.routing[b]) : b \in Buckets}
    <2>1. contacts(d) = UNION {ToSet(d.routing[b]) : b \in Buckets}
      BY <1>3 DEF contacts
    <2>2. \A p : p \in routed(d) <=> \E b \in Buckets : p \in names(d.routing[b])
      <3>1. ASSUME NEW p
            PROVE  p \in routed(d) <=> \E c \in contacts(d) : p = c.id
        BY DEF routed
      <3>2. ASSUME NEW p, NEW b \in Buckets
            PROVE  p \in names(d.routing[b]) <=> \E c \in ToSet(d.routing[b]) : p = c.id
        BY <1>2
      <3>3. ASSUME NEW c
            PROVE  c \in contacts(d) <=> \E b \in Buckets : c \in ToSet(d.routing[b])
        BY <2>1
      <3> QED BY <3>1, <3>2, <3>3
    <2> QED BY <2>2
  <1>5. ASSUME NEW b \in Buckets PROVE names(d.routing[b]) \subseteq Peers
    <2>1. \A i \in DOMAIN d.routing[b] : d.routing[b][i] \in Held
      BY <1>1
    <2> QED BY <2>1 DEF names, Held
  <1> QED BY <1>4, <1>5

\* position is a place of the id, if there is one.
LEMMA Positions ==
    ASSUME NEW s \in Seq(Held), NEW id
    PROVE  \/ position(s, id) = 0 /\ id \notin names(s)
           \/ position(s, id) \in DOMAIN s /\ s[position(s, id)].id = id
  <1>0. DOMAIN s = 1 .. Len(s) /\ Len(s) \in Nat
    OBVIOUS
  <1>1. CASE \A i \in DOMAIN s : s[i].id # id
    BY <1>1 DEF position, names
  <1>2. CASE ~(\A i \in DOMAIN s : s[i].id # id)
    <2> DEFINE T == {i \in DOMAIN s : s[i].id = id}
    <2>1. T \subseteq Nat /\ T # {}
      BY <1>0, <1>2
    <2>2. PICK i \in T : \A j \in T : i <= j
      BY <2>1, LeastNatural
    <2>3. \A j \in 1 .. i - 1 : s[j].id # id
      BY <1>0, <2>2
    <2>4. \E k \in DOMAIN s : s[k].id = id /\ \A j \in 1 .. k - 1 : s[j].id # id
      BY <2>2, <2>3
    <2>5. position(s, id) =
            CHOOSE k \in DOMAIN s : s[k].id = id /\ \A j \in 1 .. k - 1 : s[j].id # id
      BY <1>2 DEF position
    <2> QED BY <2>4, <2>5
  <1> QED BY <1>1, <1>2

\* A sequence without one of its members.
LEMMA Removed ==
    ASSUME NEW s \in Seq(Held), NEW i \in DOMAIN s
    PROVE  /\ RemoveAt(s, i) \in Seq(Held)
           /\ Len(RemoveAt(s, i)) = Len(s) - 1
           /\ names(s) \subseteq names(RemoveAt(s, i)) \cup {s[i].id}
  <1> DEFINE a == SubSeq(s, 1, i - 1)
             b == SubSeq(s, i + 1, Len(s))
             r == RemoveAt(s, i)
  <1>1. i \in 1 .. Len(s) /\ Len(s) \in Nat
    OBVIOUS
  <1>2. /\ a \in Seq(Held) /\ Len(a) = i - 1 /\ \A j \in 1 .. i - 1 : a[j] = s[j]
    BY <1>1
  <1>3. /\ b \in Seq(Held) /\ Len(b) = Len(s) - i
        /\ \A j \in 1 .. Len(s) - i : b[j] = s[i + j]
    BY <1>1
  <1>4. r = a \o b
    BY DEF RemoveAt
  <1> HIDE DEF a, b, r
  <1>5. r \in Seq(Held) /\ Len(r) = Len(s) - 1
    BY <1>1, <1>2, <1>3, <1>4
  <1>6. ASSUME NEW j \in 1 .. Len(s), j # i
        PROVE  \E k \in 1 .. Len(r) : r[k] = s[j]
    <2>1. CASE j < i
      <3>1. j \in 1 .. Len(a) /\ j \in 1 .. Len(r) /\ r[j] = a[j]
        BY <1>1, <1>2, <1>3, <1>4, <1>5, <2>1
      <3> QED BY <1>2, <3>1
    <2>2. CASE j > i
      <3>1. j - i \in 1 .. Len(s) - i /\ j - 1 \in 1 .. Len(r)
        BY <1>1, <1>5, <2>2
      <3>4. Len(a) \in Nat /\ Len(b) \in Nat /\ Len(a) = i - 1 /\ Len(b) = Len(s) - i
            /\ i \in Nat /\ j \in Nat /\ Len(s) \in Nat /\ j <= Len(s) /\ i < j /\ 1 <= i
        BY <1>1, <1>2, <1>3, <2>2
      <3>5. \A k \in 1 .. Len(a) + Len(b) :
                (a \o b)[k] = IF k <= Len(a) THEN a[k] ELSE b[k - Len(a)]
        <4>1. a \in Seq(Held) /\ b \in Seq(Held)
          BY <1>2, <1>3
        <4> QED BY <4>1, ConcatProperties
      <3>6. /\ (j - 1) - Len(a) = j - i /\ j - 1 \in 1 .. Len(a) + Len(b)
            /\ ~(j - 1 <= Len(a))
        BY <3>4
      <3>2. r[j - 1] = b[(j - 1) - Len(a)] /\ (j - 1) - Len(a) = j - i
        <4> DEFINE k == j - 1
        <4>1. k \in 1 .. Len(a) + Len(b) /\ ~(k <= Len(a))
          BY <3>6
        <4> HIDE DEF k
        <4>2. r[k] = b[k - Len(a)]
          BY <1>4, <3>5, <4>1
        <4> QED BY <3>6, <4>2 DEF k
      <3>3. b[j - i] = s[i + (j - i)] /\ i + (j - i) = j
        BY <1>1, <1>3, <3>1
      <3> QED BY <3>1, <3>2, <3>3
    <2> QED BY <1>1, <1>6, <2>1, <2>2
  <1>7. names(s) \subseteq names(r) \cup {s[i].id}
    <2>1. DOMAIN r = 1 .. Len(r) /\ DOMAIN s = 1 .. Len(s)
      BY <1>5
    <2> QED BY <1>6, <2>1 DEF names
  <1> QED BY <1>5, <1>7 DEF r

LEMMA Appended ==
    ASSUME NEW s \in Seq(Held), NEW c \in Held
    PROVE  /\ Append(s, c) \in Seq(Held) /\ Len(Append(s, c)) = Len(s) + 1
           /\ names(Append(s, c)) = names(s) \cup {c.id}
  <1> DEFINE r == Append(s, c)
  <1>1. r \in Seq(Held) /\ Len(r) = Len(s) + 1 /\ r[Len(s) + 1] = c
        /\ \A i \in 1 .. Len(s) : r[i] = s[i]
    OBVIOUS
  <1>2. DOMAIN r = 1 .. Len(r) /\ DOMAIN s = 1 .. Len(s) /\ Len(s) \in Nat
    OBVIOUS
  <1> HIDE DEF r
  <1>3. names(r) = names(s) \cup {c.id}
    <2>1. names(r) \subseteq names(s) \cup {c.id}
      <3> SUFFICES ASSUME NEW i \in 1 .. Len(r)
                   PROVE  r[i].id \in names(s) \cup {c.id}
        BY <1>2 DEF names
      <3>1. i \in 1 .. Len(s) \/ i = Len(s) + 1
        BY <1>1, <1>2
      <3> QED BY <1>1, <1>2, <3>1 DEF names
    <2>2. names(s) \subseteq names(r)
      <3>1. \A i \in 1 .. Len(s) : i \in 1 .. Len(r) /\ r[i].id = s[i].id
        BY <1>1, <1>2
      <3> QED BY <1>2, <3>1 DEF names
    <2>3. c.id \in names(r)
      <3>1. Len(s) + 1 \in 1 .. Len(r)
        BY <1>1, <1>2
      <3> QED BY <1>1, <1>2, <3>1 DEF names
    <2> QED BY <2>1, <2>2, <2>3
  <1> QED BY <1>1, <1>3 DEF r

\* One bucket changes.
with_bucket(d, b, s) == [d EXCEPT !.routing[b] = s]

\* Nobody leaves the bucket but these.
Spares(d, b, s, gone) == names(d.routing[b]) \subseteq names(s) \cup gone

LEMMA BucketChanged ==
    ASSUME NEW d \in DirType, NEW b \in Buckets, NEW s \in Seq(Held), NEW gone,
           Spares(d, b, s, gone)
    PROVE  /\ with_bucket(d, b, s) \in DirType
           /\ with_bucket(d, b, s).routing[b] = s
           /\ \A x \in Buckets \ {b} : with_bucket(d, b, s).routing[x] = d.routing[x]
           /\ with_bucket(d, b, s).providers = d.providers
           /\ with_bucket(d, b, s).lookups = d.lookups
           /\ with_bucket(d, b, s).outstanding = d.outstanding
           /\ with_bucket(d, b, s).failures = d.failures
           /\ with_bucket(d, b, s).deferrals = d.deferrals
           /\ with_bucket(d, b, s).key_wants = d.key_wants
           /\ routed(d) \subseteq routed(with_bucket(d, b, s)) \cup gone
  <1> DEFINE e == with_bucket(d, b, s)
  <1>1. /\ e \in DirType /\ e.routing = [d.routing EXCEPT ![b] = s]
        /\ e.providers = d.providers /\ e.lookups = d.lookups
        /\ e.outstanding = d.outstanding /\ e.failures = d.failures
        /\ e.deferrals = d.deferrals /\ e.key_wants = d.key_wants
    BY DEF with_bucket, DirType
  <1>2. d.routing \in [Buckets -> Seq(Held)]
    BY DEF DirType
  <1> HIDE DEF e
  <1>3. e.routing \in [Buckets -> Seq(Held)]
    BY <1>1 DEF DirType
  <1>4. e.routing[b] = s /\ \A x \in Buckets \ {b} : e.routing[x] = d.routing[x]
    BY <1>1, <1>2
  <1>5. routed(d) \subseteq routed(e) \cup gone
    <2>1. /\ routed(d) = UNION {names(d.routing[x]) : x \in Buckets}
          /\ routed(e) = UNION {names(e.routing[x]) : x \in Buckets}
      BY <1>2, <1>3, RoutedNames
    <2> QED BY <1>4, <2>1 DEF Spares
  <1> QED BY <1>1, <1>4, <1>5 DEF e
\* No bucket is overfull.
Fits(d) == \A b \in Buckets : Len(d.routing[b]) <= K

\* What a sighting leaves alone: nobody leaves the table, and no count of
\* failures grows.
Keeps(d, e) ==
    /\ e \in DirType
    /\ e.providers = d.providers /\ e.lookups = d.lookups
    /\ e.outstanding = d.outstanding /\ e.deferrals = d.deferrals
    /\ e.key_wants = d.key_wants
    /\ routed(d) \subseteq routed(e)
    /\ \A p \in Ids : e.failures[p] = d.failures[p] \/ e.failures[p] = 0
    /\ Fits(d) => Fits(e)

LEMMA KeepsItself == ASSUME NEW d \in DirType PROVE Keeps(d, d)
  BY DEF Keeps

LEMMA KeepsOn ==
    ASSUME NEW d, NEW e, NEW f, Keeps(d, e), Keeps(e, f)
    PROVE  Keeps(d, f)
  BY DEF Keeps

LEMMA InsertKeeps ==
    ASSUME NEW d \in DirType, NEW c \in Held
    PROVE  Keeps(d, insert(d, c))
  <1> DEFINE b == BucketOf[c.id]
             s == d.routing[b]
             i == position(s, c.id)
             next == IF c.seq >= s[i].seq THEN c ELSE s[i]
  <1>1. b \in Buckets /\ c.id \in Peers
    BY DEF Buckets, Held
  <1>2. s \in Seq(Held)
    BY <1>1 DEF DirType
  <1>3. i = 0 \/ (i \in DOMAIN s /\ s[i].id = c.id)
    BY <1>2, Positions
  <1>0. insert(d, c) = IF i # 0 THEN with_bucket(d, b, Append(RemoveAt(s, i), next))
                       ELSE IF Len(s) < K THEN with_bucket(d, b, Append(s, c))
                       ELSE [d EXCEPT !.pending[Head(s).id] = {c}]
    BY DEF insert, with_bucket
  <1>k. K \in Nat \ {0}
    BY DirectoryAssumption
  <1> HIDE DEF b, s, i
  <1>4. CASE i # 0
    <2> DEFINE r == Append(RemoveAt(s, i), next)
    <2>1. i \in DOMAIN s /\ s[i] \in Held /\ s[i].id = c.id
      BY <1>2, <1>3, <1>4
    <2>2. next \in Held /\ next.id = c.id
      BY <2>1
    <2> HIDE DEF next
    <2>3. /\ RemoveAt(s, i) \in Seq(Held) /\ Len(RemoveAt(s, i)) = Len(s) - 1
          /\ names(s) \subseteq names(RemoveAt(s, i)) \cup {c.id}
      BY <1>2, <2>1, Removed
    <2>4. r \in Seq(Held) /\ Len(r) = Len(s)
          /\ names(r) = names(RemoveAt(s, i)) \cup {c.id}
      <3>1. /\ r \in Seq(Held) /\ Len(r) = Len(RemoveAt(s, i)) + 1
            /\ names(r) = names(RemoveAt(s, i)) \cup {next.id}
        BY <2>2, <2>3, Appended
      <3>2. Len(s) \in Nat
        BY <1>2
      <3> QED BY <2>2, <2>3, <3>1, <3>2
    <2> HIDE DEF r
    <2>5. Spares(d, b, r, {})
      BY <2>3, <2>4 DEF s, Spares
    <2>6. insert(d, c) = with_bucket(d, b, r)
      BY <1>0, <1>4 DEF r
    <2>7. /\ insert(d, c) \in DirType /\ insert(d, c).routing[b] = r
          /\ \A x \in Buckets \ {b} : insert(d, c).routing[x] = d.routing[x]
          /\ insert(d, c).providers = d.providers /\ insert(d, c).lookups = d.lookups
          /\ insert(d, c).outstanding = d.outstanding
          /\ insert(d, c).failures = d.failures
          /\ insert(d, c).deferrals = d.deferrals
          /\ insert(d, c).key_wants = d.key_wants
          /\ routed(d) \subseteq routed(insert(d, c)) \cup {}
      BY <1>1, <2>4, <2>5, <2>6, BucketChanged
    <2>8. Fits(d) => Fits(insert(d, c))
      BY <1>1, <2>4, <2>7 DEF Fits, s
    <2> QED BY <2>7, <2>8 DEF Keeps
  <1>5. CASE i = 0 /\ Len(s) < K
    <2> DEFINE r == Append(s, c)
    <2>1. r \in Seq(Held) /\ Len(r) = Len(s) + 1 /\ names(r) = names(s) \cup {c.id}
      BY <1>2, Appended
    <2> HIDE DEF r
    <2>2. Spares(d, b, r, {})
      BY <2>1 DEF s, Spares
    <2>3. insert(d, c) = with_bucket(d, b, r)
      BY <1>0, <1>5 DEF r
    <2>4. /\ insert(d, c) \in DirType /\ insert(d, c).routing[b] = r
          /\ \A x \in Buckets \ {b} : insert(d, c).routing[x] = d.routing[x]
          /\ insert(d, c).providers = d.providers /\ insert(d, c).lookups = d.lookups
          /\ insert(d, c).outstanding = d.outstanding
          /\ insert(d, c).failures = d.failures
          /\ insert(d, c).deferrals = d.deferrals
          /\ insert(d, c).key_wants = d.key_wants
          /\ routed(d) \subseteq routed(insert(d, c)) \cup {}
      BY <1>1, <2>1, <2>2, <2>3, BucketChanged
    <2>5. Len(r) <= K
      <3>1. Len(s) \in Nat
        BY <1>2
      <3> QED BY <1>5, <1>k, <2>1, <3>1
    <2>6. Fits(d) => Fits(insert(d, c))
      BY <1>1, <2>4, <2>5 DEF Fits
    <2> QED BY <2>4, <2>6 DEF Keeps
  <1>6. CASE i = 0 /\ ~(Len(s) < K)
    <2> DEFINE h == Head(s).id
               e == [d EXCEPT !.pending[h] = {c}]
    <2>1. h \in Ids
      <3>1. s # <<>> /\ Head(s) \in Held
        BY <1>2, <1>6, <1>k
      <3> QED BY <3>1 DEF Held, Ids
    <2>2. insert(d, c) = e
      BY <1>0, <1>6
    <2> HIDE DEF h
    <2>3. /\ e \in DirType /\ e.routing = d.routing
          /\ e.providers = d.providers /\ e.lookups = d.lookups
          /\ e.outstanding = d.outstanding /\ e.failures = d.failures
          /\ e.deferrals = d.deferrals /\ e.key_wants = d.key_wants
      BY <2>1 DEF DirType
    <2> HIDE DEF e
    <2>4. routed(e) = routed(d)
      BY <2>3 DEF routed, contacts
    <2> QED BY <2>2, <2>3, <2>4 DEF Keeps, Fits
  <1> QED BY <1>4, <1>5, <1>6

\* Seeing a contact, also the node itself.
LEMMA SawKeeps ==
    ASSUME NEW d \in DirType, NEW c \in Contacts
    PROVE  Keeps(d, saw(d, c)) /\ saw(d, c).failures[c.id] = 0
  <1> DEFINE e == [d EXCEPT !.failures[c.id] = 0]
  <1>0. c.id \in Ids /\ c.seq \in Nat
    BY DEF Contacts
  <1>1. MaxFailures \in Nat \ {0}
    BY DirectoryAssumption
  <1>3. d.failures \in [Ids -> 0 .. MaxFailures - 1]
    BY DEF DirType
  <1>2. /\ e \in DirType /\ e.routing = d.routing
        /\ e.providers = d.providers /\ e.lookups = d.lookups
        /\ e.outstanding = d.outstanding
        /\ e.deferrals = d.deferrals /\ e.key_wants = d.key_wants
        /\ e.failures = [d.failures EXCEPT ![c.id] = 0]
    <2> DEFINE f == [d.failures EXCEPT ![c.id] = 0]
    <2>1. f \in [Ids -> 0 .. MaxFailures - 1]
      BY <1>0, <1>1, <1>3
    <2>2. e = [d EXCEPT !.failures = f]
      OBVIOUS
    <2> HIDE DEF f, e
    <2>3. /\ e \in DirType /\ e.routing = d.routing
          /\ e.providers = d.providers /\ e.lookups = d.lookups
          /\ e.outstanding = d.outstanding /\ e.failures = f
          /\ e.deferrals = d.deferrals /\ e.key_wants = d.key_wants
      BY <2>1, <2>2 DEF DirType
    <2> QED BY <2>3 DEF f
  <1>4. saw(d, c) = IF c.id = Self THEN e ELSE insert(e, c)
    BY DEF saw
  <1> HIDE DEF e
  <1>5. routed(e) = routed(d)
    BY <1>2 DEF routed, contacts
  <1>6. /\ \A p \in Ids : e.failures[p] = d.failures[p] \/ e.failures[p] = 0
        /\ e.failures[c.id] = 0
    BY <1>0, <1>2, <1>3
  <1>7. Keeps(d, e)
    BY <1>2, <1>5, <1>6 DEF Keeps, Fits
  <1>8. CASE c.id = Self
    BY <1>4, <1>6, <1>7, <1>8
  <1>9. CASE c.id # Self
    <2>1. c \in Held
      BY <1>0, <1>9 DEF Contacts, Held, Ids
    <2>2. Keeps(e, insert(e, c))
      BY <1>2, <2>1, InsertKeeps
    <2>3. Keeps(d, insert(e, c))
      BY <1>7, <2>2, KeepsOn
    <2>4. insert(e, c).failures[c.id] = 0
      BY <1>0, <1>6, <2>2 DEF Keeps
    <2> QED BY <1>4, <1>9, <2>3, <2>4
  <1> QED BY <1>8, <1>9

\* Contacts with different ids are ordered by them.
LEMMA ByIdOrders ==
    ASSUME NEW C \in SUBSET Contacts, \A x, y \in C : x.id = y.id => x = y
    PROVE  Orders(ById, C)
  <1>1. \A x \in C : x.id \in Nat
    BY DirectoryAssumption DEF Contacts
  <1>2. \A x, y \in C : <<x, y>> \in ById <=> x.id < y.id
    BY DEF ById, Contacts
  <1> QED BY <1>1, <1>2 DEF Orders

\* Contacts that come together.
LEMMA SeenKeeps ==
    ASSUME NEW d \in DirType, NEW C \in SUBSET Contacts, IsFiniteSet(C),
           \A x, y \in C : x.id = y.id => x = y
    PROVE  Keeps(d, seen(d, C))
  <1> DEFINE s == inOrder(C, ById)
             n == Cardinality(C)
  <1>1. n \in Nat /\ s \in [1 .. n -> C]
    BY ByIdOrders, ListedOnce
  <1>2. seen(d, C) = sightings(d, s)
    BY DEF seen, sightings
  <1> HIDE DEF s, n
  <1>p. PICK h : Trace(h, d, n, s)
    <2>1. n \in Nat /\ DOMAIN s = 1 .. n
      BY <1>1
    <2> QED BY <2>1, FoldTrace
  <1>3. /\ h[0] = d
        /\ \A k \in 1 .. n : h[k] = saw(h[k - 1], s[k])
        /\ sightings(d, s) = h[n]
    BY <1>p DEF Trace
  <1> DEFINE T == {k \in Nat : k <= n => Keeps(d, h[k])}
  <1>4. 0 \in T
    BY <1>3, KeepsItself
  <1>5. ASSUME NEW k \in T PROVE k + 1 \in T
    <2> SUFFICES ASSUME k + 1 <= n PROVE Keeps(d, h[k + 1])
      OBVIOUS
    <2>1. k \in Nat /\ k + 1 \in 1 .. n /\ (k + 1) - 1 = k /\ Keeps(d, h[k])
      BY <1>1
    <2>2. h[k + 1] = saw(h[k], s[k + 1]) /\ s[k + 1] \in Contacts
      BY <1>1, <1>3, <2>1
    <2>3. h[k] \in DirType
      BY <2>1 DEF Keeps
    <2>4. Keeps(h[k], h[k + 1])
      BY <2>2, <2>3, SawKeeps
    <2> QED BY <2>1, <2>4, KeepsOn
  <1>6. T = Nat
    <2>1. T \subseteq Nat
      OBVIOUS
    <2> HIDE DEF T
    <2> QED BY <1>4, <1>5, <2>1, EveryNatural
  <1>7. n \in T
    BY <1>1, <1>6
  <1> QED BY <1>2, <1>3, <1>7
-----------------------------------------------------------------------------
(* Answers, failed dials, and what the lookups wait for.                    *)

\* No lookup that is off waits for anybody; what a lookup waits for is owed to it
\* and is of this set; and it waits for Alpha contacts at most.
Clean(d, live) ==
    /\ \A k \in Keys : ~d.lookups[k].on => d.lookups[k].in_flight = {}
    /\ \A k \in Keys : \A p \in d.lookups[k].in_flight :
            k \in d.outstanding[p] /\ p \in live
    /\ \A k \in Keys : Cardinality(d.lookups[k].in_flight) <= Alpha

LEMMA CleanSame ==
    ASSUME NEW d, NEW e, NEW live, NEW more, Clean(d, live), live \subseteq more,
           e.lookups = d.lookups, e.outstanding = d.outstanding
    PROVE  Clean(e, more)
  BY DEF Clean

LEMMA LookupShape ==
    ASSUME NEW d \in DirType, NEW k \in Keys
    PROVE  /\ d.lookups[k] \in LookupType
           /\ d.lookups[k].on \in BOOLEAN
           /\ d.lookups[k].in_flight \in SUBSET Ids
           /\ IsFiniteSet(d.lookups[k].in_flight)
           /\ Cardinality(d.lookups[k].in_flight) \in Nat
  <1>1. d.lookups[k] \in LookupType
    BY DEF DirType
  <1>2. d.lookups[k].on \in BOOLEAN /\ d.lookups[k].in_flight \in SUBSET Ids
    BY <1>1 DEF LookupType
  <1>3. IsFiniteSet(d.lookups[k].in_flight)
    BY <1>2, FS_Subset, DirectoryAssumption
  <1> QED BY <1>1, <1>2, <1>3, FS_CardinalityType

\* Fewer contacts in flight, of lookups that stay on.
LEMMA CleanLess ==
    ASSUME NEW d \in DirType, NEW e, NEW live, NEW less, Clean(d, live),
           \A k \in Keys :
              /\ e.lookups[k].in_flight \subseteq d.lookups[k].in_flight
              /\ e.lookups[k].on \/ e.lookups[k].in_flight = {}
                    \/ ~d.lookups[k].on
              /\ \A p \in e.lookups[k].in_flight :
                    k \in e.outstanding[p] /\ p \in less
    PROVE  Clean(e, less)
  <1>0. Alpha \in Nat
    BY DirectoryAssumption
  <1>1. ASSUME NEW k \in Keys
        PROVE  Cardinality(e.lookups[k].in_flight) <= Alpha
    <2>1. /\ IsFiniteSet(d.lookups[k].in_flight)
          /\ Cardinality(d.lookups[k].in_flight) \in Nat
      BY LookupShape
    <2>2. Cardinality(d.lookups[k].in_flight) <= Alpha
      BY DEF Clean
    <2>3. /\ IsFiniteSet(e.lookups[k].in_flight)
          /\ Cardinality(e.lookups[k].in_flight) <= Cardinality(d.lookups[k].in_flight)
      BY <2>1, FS_Subset
    <2>4. Cardinality(e.lookups[k].in_flight) \in Nat
      BY <2>3, FS_CardinalityType
    <2> QED BY <1>0, <2>1, <2>2, <2>3, <2>4
  <1>2. \A k \in Keys : ~e.lookups[k].on => e.lookups[k].in_flight = {}
    BY DEF Clean
  <1> QED BY <1>1, <1>2 DEF Clean

\* One lookup after the peer's turn.
LEMMA Settles ==
    ASSUME NEW l \in LookupType, NEW k \in Keys, NEW p \in Peers, NEW answered
    PROVE  /\ settle(l, k, p, answered) \in LookupType
           /\ settle(l, k, p, answered).on = l.on
           /\ l.on => settle(l, k, p, answered).in_flight = l.in_flight \ {p}
           /\ ~l.on => settle(l, k, p, answered) = l
  <1>1. Closer[p] \in SUBSET Ids /\ Relays[p][k] \in SUBSET Peers /\ p \in Ids
    BY DirectoryAssumption DEF Ids
  <1> DEFINE C == Closer[p]
             H == Relays[p][k]
  <1>2. settle(l, k, p, answered) =
            IF ~l.on THEN l ELSE IF k \in answered THEN on_response(l, p, C, H)
            ELSE on_timeout(l, p)
    BY DEF settle
  <1> HIDE DEF C, H
  <1>3. /\ on_timeout(l, p) \in LookupType /\ on_timeout(l, p).on = l.on
        /\ on_timeout(l, p).in_flight = l.in_flight \ {p}
    BY <1>1 DEF on_timeout, LookupType
  <1> DEFINE t == on_timeout(l, p)
  <1>4. on_response(l, p, C, H) =
            [t EXCEPT !.shortlist = t.shortlist \cup C, !.holders = t.holders \cup H]
    BY DEF on_response
  <1>5. C \in SUBSET Ids /\ H \in SUBSET Peers
    BY <1>1 DEF C, H
  <1> HIDE DEF t
  <1>6. t \in LookupType
    BY <1>3 DEF t
  <1>7. /\ on_response(l, p, C, H) \in LookupType
        /\ on_response(l, p, C, H).on = t.on
        /\ on_response(l, p, C, H).in_flight = t.in_flight
    BY <1>4, <1>5, <1>6 DEF LookupType
  <1> QED BY <1>2, <1>3, <1>7 DEF t

\* A peer's turn is over: nobody waits for it any more.
settling(d, p, answered, f) ==
    [d EXCEPT !.failures[p] = f, !.outstanding[p] = {},
              !.lookups = settled(d, p, answered)]

LEMMA Settling ==
    ASSUME NEW d \in DirType, NEW live, Clean(d, live), NEW p \in Peers, NEW answered,
           NEW f \in 0 .. MaxFailures - 1
    PROVE  LET e == settling(d, p, answered, f) IN
           /\ e \in DirType
           /\ e.routing = d.routing /\ e.providers = d.providers
           /\ e.pending = d.pending
           /\ e.failures = [d.failures EXCEPT ![p] = f]
           /\ Clean(e, live \ {p})
  <1> DEFINE L == settled(d, p, answered)
             O == [d.outstanding EXCEPT ![p] = {}]
             F == [d.failures EXCEPT ![p] = f]
             e == settling(d, p, answered, f)
  <1>0. p \in Ids /\ d.outstanding \in [Ids -> SUBSET Keys]
        /\ d.failures \in [Ids -> 0 .. MaxFailures - 1]
    BY DEF DirType, Ids
  <1>1. O \in [Ids -> SUBSET Keys] /\ O[p] = {}
        /\ \A q \in Ids : q # p => O[q] = d.outstanding[q]
    BY <1>0
  <1>2. F \in [Ids -> 0 .. MaxFailures - 1]
    BY <1>0
  <1>3. ASSUME NEW k \in Keys
        PROVE  /\ L[k] \in LookupType /\ L[k].on = d.lookups[k].on
               /\ L[k].in_flight \subseteq d.lookups[k].in_flight \ {p}
    <2>1. d.lookups[k] \in LookupType
      BY LookupShape
    <2>2. L[k] = IF k \in d.outstanding[p] THEN settle(d.lookups[k], k, p, answered)
                 ELSE d.lookups[k]
      BY DEF settled
    <2>3. /\ ~d.lookups[k].on => d.lookups[k].in_flight = {}
          /\ k \notin d.outstanding[p] => p \notin d.lookups[k].in_flight
      BY DEF Clean
    <2> HIDE DEF L
    <2>4. CASE k \in d.outstanding[p]
      BY <2>1, <2>2, <2>3, <2>4, Settles
    <2>5. CASE k \notin d.outstanding[p]
      BY <2>1, <2>2, <2>3, <2>5
    <2> QED BY <2>4, <2>5
  <1>4. L \in [Keys -> LookupType]
    <2>1. L = [k \in Keys |-> L[k]]
      BY DEF settled
    <2> HIDE DEF L
    <2> QED BY <1>3, <2>1
  <1>5. e = [d EXCEPT !.failures = F, !.outstanding = O, !.lookups = L]
    BY DEF settling
  <1> HIDE DEF L, O, F, e
  <1>6. /\ e \in DirType /\ e.routing = d.routing /\ e.providers = d.providers
        /\ e.pending = d.pending /\ e.failures = F /\ e.outstanding = O
        /\ e.lookups = L
    BY <1>1, <1>2, <1>4, <1>5 DEF DirType
  <1>7. Clean(e, live \ {p})
    <2> SUFFICES ASSUME NEW k \in Keys
                 PROVE  /\ L[k].in_flight \subseteq d.lookups[k].in_flight
                        /\ L[k].on \/ L[k].in_flight = {} \/ ~d.lookups[k].on
                        /\ \A q \in L[k].in_flight :
                                k \in O[q] /\ q \in live \ {p}
      BY <1>6, CleanLess
    <2>1. \A q \in d.lookups[k].in_flight :
                q \in Ids /\ k \in d.outstanding[q] /\ q \in live
      BY LookupShape DEF Clean
    <2> QED BY <1>1, <1>3, <2>1
  <1> QED BY <1>6, <1>7 DEF e, F
\* Only the key requests change.
wanting(d, S) == [d EXCEPT !.key_wants = S]

LEMMA Wanting ==
    ASSUME NEW d \in DirType, NEW S \in SUBSET Ids
    PROVE  /\ wanting(d, S) \in DirType
           /\ wanting(d, S).routing = d.routing
           /\ wanting(d, S).providers = d.providers
           /\ wanting(d, S).lookups = d.lookups
           /\ wanting(d, S).outstanding = d.outstanding
           /\ wanting(d, S).failures = d.failures
           /\ wanting(d, S).key_wants = S
           /\ routed(wanting(d, S)) = routed(d)
  <1>1. /\ wanting(d, S) \in DirType
        /\ wanting(d, S).routing = d.routing
        /\ wanting(d, S).providers = d.providers
        /\ wanting(d, S).lookups = d.lookups
        /\ wanting(d, S).outstanding = d.outstanding
        /\ wanting(d, S).failures = d.failures
        /\ wanting(d, S).key_wants = S
    BY DEF wanting, DirType
  <1>2. routed(wanting(d, S)) = routed(d)
    BY <1>1 DEF routed, contacts
  <1> QED BY <1>1, <1>2

\* What a step does to the table when nobody is given up: everybody stays, no
\* count of failures grows, and the providers are as they were.
Stays(d, e) ==
    /\ e \in DirType
    /\ e.providers = d.providers
    /\ routed(d) \subseteq routed(e)
    /\ \A p \in Ids : e.failures[p] = d.failures[p] \/ e.failures[p] = 0
    /\ Fits(d) => Fits(e)

LEMMA StaysOn ==
    ASSUME NEW d, NEW e, NEW f, Stays(d, e), Stays(e, f)
    PROVE  Stays(d, f)
  BY DEF Stays

LEMMA KeepsStays ==
    ASSUME NEW d, NEW e, Keeps(d, e)
    PROVE  Stays(d, e) /\ e.lookups = d.lookups /\ e.outstanding = d.outstanding
  BY DEF Keeps, Stays

\* The same table, and the same counts or none.
LEMMA StaysSame ==
    ASSUME NEW d, NEW e \in DirType, e.routing = d.routing, e.providers = d.providers,
           \A p \in Ids : e.failures[p] = d.failures[p] \/ e.failures[p] = 0
    PROVE  Stays(d, e)
  <1>1. routed(e) = routed(d)
    BY DEF routed, contacts
  <1> QED BY <1>1 DEF Stays, Fits

LEMMA Hears ==
    ASSUME NEW d \in DirType, NEW S \in SUBSET Ids
    PROVE  /\ Stays(d, hear(d, S))
           /\ hear(d, S).lookups = d.lookups /\ hear(d, S).outstanding = d.outstanding
  <1> DEFINE N == S \ routed(d)
             C == {[id |-> p, seq |-> 0] : p \in N}
             e == seen(d, C)
             W == e.key_wants \cup (S \ routed(e))
  <1>1. C \in SUBSET Contacts /\ \A x, y \in C : x.id = y.id => x = y
    BY DEF Contacts
  <1>2. IsFiniteSet(C)
    <2> DEFINE f == [p \in N |-> [id |-> p, seq |-> 0]]
    <2>1. f \in Surjection(N, C)
      BY DEF Surjection
    <2>2. IsFiniteSet(N)
      BY FS_Subset, DirectoryAssumption
    <2> QED BY <2>1, <2>2, FS_Surjection
  <1> HIDE DEF C
  <1>3. Keeps(d, e)
    BY <1>1, <1>2, SeenKeeps
  <1>4. hear(d, S) = wanting(e, W)
    BY DEF hear, wanting, C
  <1> HIDE DEF e
  <1>5. e \in DirType /\ W \in SUBSET Ids
    <2>1. e \in DirType
      BY <1>3 DEF Keeps
    <2>2. e.key_wants \in SUBSET Ids
      BY <2>1 DEF DirType
    <2> QED BY <2>1, <2>2
  <1> HIDE DEF W
  <1>6. /\ wanting(e, W) \in DirType /\ wanting(e, W).routing = e.routing
        /\ wanting(e, W).providers = e.providers
        /\ wanting(e, W).lookups = e.lookups
        /\ wanting(e, W).outstanding = e.outstanding
        /\ wanting(e, W).failures = e.failures
    BY <1>5, Wanting
  <1>7. Stays(e, wanting(e, W))
    BY <1>6, StaysSame
  <1>8. Stays(d, e) /\ e.lookups = d.lookups /\ e.outstanding = d.outstanding
    BY <1>3, KeepsStays
  <1>9. Stays(d, wanting(e, W))
    BY <1>7, <1>8, StaysOn
  <1> QED BY <1>4, <1>6, <1>8, <1>9

LEMMA OnProviders ==
    ASSUME NEW d \in DirType, NEW live, Clean(d, live), NEW p \in Peers, NEW asked
    PROVE  /\ Stays(d, on_providers(d, p, asked))
           /\ on_providers(d, p, asked).failures[p] = 0
           /\ Clean(on_providers(d, p, asked), live \ {p})
  <1> DEFINE named == IF d.outstanding[p] \cap asked = {} THEN {} ELSE Closer[p]
             e == settling(d, p, asked, 0)
  <1>1. named \in SUBSET Ids
    BY DirectoryAssumption
  <1>2. on_providers(d, p, asked) = hear(e, named)
    BY DEF on_providers, settling
  <1>3. 0 \in 0 .. MaxFailures - 1
    BY DirectoryAssumption
  <1> HIDE DEF named, e
  <1>4. /\ e \in DirType /\ e.routing = d.routing /\ e.providers = d.providers
        /\ e.failures = [d.failures EXCEPT ![p] = 0] /\ Clean(e, live \ {p})
    BY <1>3, Settling DEF e
  <1>5. d.failures \in [Ids -> 0 .. MaxFailures - 1] /\ p \in Ids
    BY DEF DirType, Ids
  <1>6. /\ \A q \in Ids : e.failures[q] = d.failures[q] \/ e.failures[q] = 0
        /\ e.failures[p] = 0
    BY <1>4, <1>5
  <1>7. Stays(d, e)
    BY <1>4, <1>6, StaysSame
  <1>8. /\ Stays(e, hear(e, named))
        /\ hear(e, named).lookups = e.lookups
        /\ hear(e, named).outstanding = e.outstanding
    BY <1>1, <1>4, Hears
  <1>9. Stays(d, hear(e, named))
    BY <1>7, <1>8, StaysOn
  <1>10. Clean(hear(e, named), live \ {p})
    BY <1>4, <1>8, CleanSame
  <1>11. hear(e, named).failures[p] = 0
    BY <1>5, <1>6, <1>8 DEF Stays
  <1> QED BY <1>2, <1>9, <1>10, <1>11

\* One contact is taken out of its bucket, and perhaps another put in.
LEMMA Forgets ==
    ASSUME NEW d \in DirType, NEW p \in Peers
    PROVE  LET e == forget(d, p) IN
           /\ e \in DirType /\ e.providers = d.providers /\ e.lookups = d.lookups
           /\ e.outstanding = d.outstanding /\ e.failures = d.failures
           /\ routed(d) \subseteq routed(e) \cup {p}
           /\ Fits(d) => Fits(e)
  <1> DEFINE b == BucketOf[p]
             s == d.routing[b]
             i == position(s, p)
             r == withoutFirst(s, p)
             e == forget(d, p)
  <1>1. b \in Buckets /\ s \in Seq(Held)
    BY DEF Buckets, DirType
  <1>2. i = 0 \/ (i \in DOMAIN s /\ s[i].id = p)
    BY <1>1, Positions
  <1>3. r = IF i = 0 THEN s ELSE RemoveAt(s, i)
    BY DEF withoutFirst
  <1>4. e = with_bucket(d, b, r)
    BY DEF forget, with_bucket
  <1> HIDE DEF b, i, r, e
  <1>5. r \in Seq(Held) /\ Len(r) <= Len(s) /\ names(s) \subseteq names(r) \cup {p}
    <2>1. CASE i = 0
      BY <1>1, <1>3, <2>1
    <2>2. CASE i # 0
      <3>1. /\ RemoveAt(s, i) \in Seq(Held) /\ Len(RemoveAt(s, i)) = Len(s) - 1
            /\ names(s) \subseteq names(RemoveAt(s, i)) \cup {s[i].id}
        BY <1>1, <1>2, <2>2, Removed
      <3>2. Len(s) \in Nat /\ r = RemoveAt(s, i)
        BY <1>1, <1>3, <2>2
      <3> QED BY <1>2, <2>2, <3>1, <3>2
    <2> QED BY <2>1, <2>2
  <1>6. /\ e \in DirType /\ e.routing[b] = r
        /\ \A x \in Buckets \ {b} : e.routing[x] = d.routing[x]
        /\ e.providers = d.providers /\ e.lookups = d.lookups
        /\ e.outstanding = d.outstanding /\ e.failures = d.failures
        /\ routed(d) \subseteq routed(e) \cup {p}
    <2>1. Spares(d, b, r, {p})
      BY <1>5 DEF Spares
    <2> QED BY <1>1, <1>4, <1>5, <2>1, BucketChanged
  <1>7. Fits(d) => Fits(e)
    <2>1. K \in Nat /\ Len(r) \in Nat /\ Len(s) \in Nat
      BY <1>1, <1>5, DirectoryAssumption
    <2> HIDE DEF s
    <2> SUFFICES ASSUME Fits(d), NEW x \in Buckets PROVE Len(e.routing[x]) <= K
      BY DEF Fits
    <2>2. CASE x = b
      <3>1. Len(s) <= K
        BY <1>1 DEF Fits, s
      <3> QED BY <1>5, <1>6, <2>1, <2>2, <3>1
    <2>3. CASE x # b
      BY <1>6, <2>3 DEF Fits
    <2> QED BY <2>2, <2>3
  <1> QED BY <1>6, <1>7 DEF e

LEMMA Replaces ==
    ASSUME NEW d \in DirType, NEW p \in Peers, NEW c \in Held
    PROVE  LET e == replace(d, p, c) IN
           /\ e \in DirType /\ e.providers = d.providers /\ e.lookups = d.lookups
           /\ e.outstanding = d.outstanding /\ e.failures = d.failures
           /\ routed(d) \subseteq routed(e) \cup {p}
           /\ Fits(d) => Fits(e)
  <1> DEFINE b == BucketOf[p]
             s == d.routing[b]
             i == position(s, p)
             r == Append(RemoveAt(s, i), c)
             e == replace(d, p, c)
  <1>1. b \in Buckets /\ s \in Seq(Held)
    BY DEF Buckets, DirType
  <1>2. i = 0 \/ (i \in DOMAIN s /\ s[i].id = p)
    BY <1>1, Positions
  <1>3. e = IF i = 0 THEN d ELSE with_bucket(d, b, r)
    BY DEF replace, withoutFirst, with_bucket
  <1> HIDE DEF b, i, e
  <1>4. CASE i = 0
    BY <1>3, <1>4 DEF e
  <1>5. CASE i # 0
    <2>1. /\ RemoveAt(s, i) \in Seq(Held) /\ Len(RemoveAt(s, i)) = Len(s) - 1
          /\ names(s) \subseteq names(RemoveAt(s, i)) \cup {s[i].id}
      BY <1>1, <1>2, <1>5, Removed
    <2>2. /\ r \in Seq(Held) /\ Len(r) = Len(RemoveAt(s, i)) + 1
          /\ names(r) = names(RemoveAt(s, i)) \cup {c.id}
      BY <2>1, Appended
    <2>3. Len(s) \in Nat
      BY <1>1
    <2> HIDE DEF r
    <2>4. Len(r) = Len(s) /\ names(s) \subseteq names(r) \cup {p}
      BY <1>2, <1>5, <2>1, <2>2, <2>3
    <2>5. /\ e \in DirType /\ e.routing[b] = r
          /\ \A x \in Buckets \ {b} : e.routing[x] = d.routing[x]
          /\ e.providers = d.providers /\ e.lookups = d.lookups
          /\ e.outstanding = d.outstanding /\ e.failures = d.failures
          /\ routed(d) \subseteq routed(e) \cup {p}
      <3>1. Spares(d, b, r, {p})
        BY <2>4 DEF Spares
      <3>2. e = with_bucket(d, b, r) /\ r \in Seq(Held)
        BY <1>3, <1>5, <2>2
      <3> QED BY <1>1, <3>1, <3>2, BucketChanged
    <2>6. Fits(d) => Fits(e)
      BY <1>1, <2>4, <2>5 DEF Fits
    <2> QED BY <2>5, <2>6 DEF e
  <1> QED BY <1>4, <1>5

\* A failed dial: the peer may go, after as many failures as it takes.
LEMMA OnUnreachable ==
    ASSUME NEW d \in DirType, NEW live, Clean(d, live), NEW p \in Peers
    PROVE  LET e == on_unreachable(d, p) IN
           /\ e \in DirType /\ e.providers = d.providers
           /\ Clean(e, live \ {p})
           /\ e.failures = [d.failures EXCEPT ![p] = (d.failures[p] + 1) % MaxFailures]
           /\ d.failures[p] + 1 < MaxFailures => routed(d) \subseteq routed(e)
           /\ routed(d) \subseteq routed(e) \cup {p}
           /\ Fits(d) => Fits(e)
  <1> DEFINE n == (d.failures[p] + 1) % MaxFailures
             e == settling(d, p, {}, n)
             f == [e EXCEPT !.pending[p] = {}]
             c == CHOOSE c \in d.pending[p] : TRUE
             r == on_unreachable(d, p)
  <1>0. MaxFailures \in Nat \ {0} /\ p \in Ids /\ d.failures[p] \in 0 .. MaxFailures - 1
        /\ d.pending[p] \in SUBSET Held
    BY DirectoryAssumption DEF DirType, Ids
  <1>1. n \in 0 .. MaxFailures - 1
    BY <1>0
  <1>2. r = IF d.failures[p] + 1 < MaxFailures THEN e
            ELSE IF d.pending[p] = {} THEN forget(e, p) ELSE replace(f, p, c)
    BY DEF on_unreachable, settling
  <1>3. d.pending[p] # {} => c \in Held
    BY <1>0
  <1> HIDE DEF n, e, c, r
  <1>4. /\ e \in DirType /\ e.routing = d.routing /\ e.providers = d.providers
        /\ e.failures = [d.failures EXCEPT ![p] = n] /\ Clean(e, live \ {p})
    BY <1>1, Settling DEF e
  <1>5. /\ f \in DirType /\ f.routing = e.routing /\ f.providers = e.providers
        /\ f.failures = e.failures /\ f.lookups = e.lookups
        /\ f.outstanding = e.outstanding
    BY <1>0, <1>4 DEF DirType
  <1> HIDE DEF f
  <1>6. routed(e) = routed(d) /\ routed(f) = routed(d)
        /\ (Fits(d) => Fits(e)) /\ (Fits(d) => Fits(f))
    BY <1>4, <1>5 DEF routed, contacts, Fits
  <1>7. CASE d.failures[p] + 1 < MaxFailures
    BY <1>2, <1>4, <1>6, <1>7 DEF r, n
  <1>8. CASE ~(d.failures[p] + 1 < MaxFailures) /\ d.pending[p] = {}
    <2>1. r = forget(e, p)
      BY <1>2, <1>8
    <2>2. /\ r \in DirType /\ r.providers = e.providers /\ r.lookups = e.lookups
          /\ r.outstanding = e.outstanding /\ r.failures = e.failures
          /\ routed(e) \subseteq routed(r) \cup {p}
          /\ Fits(e) => Fits(r)
      BY <1>4, <2>1, Forgets
    <2>3. Clean(r, live \ {p})
      BY <1>4, <2>2, CleanSame
    <2> QED BY <1>4, <1>6, <1>8, <2>2, <2>3 DEF r, n
  <1>9. CASE ~(d.failures[p] + 1 < MaxFailures) /\ d.pending[p] # {}
    <2>1. r = replace(f, p, c) /\ c \in Held
      BY <1>2, <1>3, <1>9
    <2>2. /\ r \in DirType /\ r.providers = f.providers /\ r.lookups = f.lookups
          /\ r.outstanding = f.outstanding /\ r.failures = f.failures
          /\ routed(f) \subseteq routed(r) \cup {p}
          /\ Fits(f) => Fits(r)
      BY <1>5, <2>1, Replaces
    <2>3. Clean(r, live \ {p})
      BY <1>4, <1>5, <2>2, CleanSame
    <2> QED BY <1>4, <1>5, <1>6, <1>9, <2>2, <2>3 DEF r, n
  <1> QED BY <1>7, <1>8, <1>9
-----------------------------------------------------------------------------
(* The lookups' turns.                                                      *)

\* There are no more than n nearest ones.
LEMMA NearestFew ==
    ASSUME NEW S \in SUBSET Ids, NEW k \in Keys, NEW n \in Int
    PROVE  /\ nearest(S, k, n) \subseteq S
           /\ IsFiniteSet(nearest(S, k, n))
           /\ Cardinality(nearest(S, k, n)) \in Nat
           /\ n <= 0 => nearest(S, k, n) = {}
           /\ n >= 0 => Cardinality(nearest(S, k, n)) <= n
  <1> DEFINE N == nearest(S, k, n)
             D == Distance[k]
             below(p) == {q \in S : D[q] < D[p]}
             rank == [p \in N |-> Cardinality(below(p))]
  <1>1. IsFiniteSet(S)
    BY FS_Subset, DirectoryAssumption
  <1>2. N \subseteq S /\ \A p \in N : Cardinality(below(p)) < n
    BY DEF nearest
  <1>3. IsFiniteSet(N) /\ Cardinality(N) \in Nat
    BY <1>1, <1>2, FS_Subset, FS_CardinalityType
  <1>d. D \in [Ids -> Nat] /\ \A p, q \in Ids : p # q => D[p] # D[q]
    BY DirectoryAssumption
  <1>4. ASSUME NEW p \in N
        PROVE  IsFiniteSet(below(p)) /\ Cardinality(below(p)) \in Nat
    <2>1. below(p) \in SUBSET S
      OBVIOUS
    <2> QED BY <1>1, <2>1, FS_Subset, FS_CardinalityType
  <1>5. ASSUME NEW p \in N, NEW q \in N, D[p] < D[q]
        PROVE  rank[p] # rank[q]
    <2>0. p \in S /\ q \in S /\ p \in Ids /\ q \in Ids /\ D[p] \in Nat /\ D[q] \in Nat
      BY <1>2, <1>d
    <2>1. p \in below(q) /\ p \notin below(p)
      BY <1>5, <2>0
    <2>2. below(p) \in SUBSET below(q)
      <3> SUFFICES ASSUME NEW x \in S, D[x] < D[p] PROVE D[x] < D[q]
        OBVIOUS
      <3>1. D[x] \in Nat
        BY <1>d
      <3> QED BY <1>5, <2>0, <3>1
    <2>3. Cardinality(below(q)) = Cardinality(below(p)) => below(q) = below(p)
      BY <1>4, <2>2, FS_Subset
    <2> QED BY <2>1, <2>3
  <1>6. \A p, q \in N : rank[p] = rank[q] => p = q
    <2> SUFFICES ASSUME NEW p \in N, NEW q \in N, rank[p] = rank[q] PROVE p = q
      OBVIOUS
    <2>1. p \in Ids /\ q \in Ids /\ D[p] \in Nat /\ D[q] \in Nat
      BY <1>2, <1>d
    <2>2. ~(D[p] < D[q]) /\ ~(D[q] < D[p])
      BY <1>5
    <2> QED BY <1>d, <2>1, <2>2
  <1>7. n <= 0 => N = {}
    <2> SUFFICES ASSUME n <= 0, NEW p \in N PROVE FALSE
      OBVIOUS
    <2> DEFINE x == Cardinality(below(p))
    <2>1. x \in Nat /\ x < n
      BY <1>2, <1>4
    <2> HIDE DEF x
    <2> QED BY <2>1
  <1>8. ASSUME n >= 0 PROVE Cardinality(N) <= n
    <2>1. rank \in [N -> 0 .. n - 1]
      BY <1>2, <1>4
    <2>2. rank \in Injection(N, 0 .. n - 1)
      <3>1. \A p, q \in N : rank[p] = rank[q] => p = q
        BY <1>6
      <3> HIDE DEF rank
      <3> QED BY <2>1, <3>1 DEF Injection, IsInjective
    <2>3. IsFiniteSet(0 .. n - 1) /\ Cardinality(0 .. n - 1) = n
      BY <1>8, FS_Interval
    <2> HIDE DEF rank, N
    <2> QED BY <2>2, <2>3, FS_Injection
  <1> QED BY <1>2, <1>3, <1>7, <1>8

LEMMA NextQueries ==
    ASSUME NEW l \in LookupType, NEW k \in Keys, IsFiniteSet(l.in_flight),
           Cardinality(l.in_flight) <= Alpha
    PROVE  /\ next_queries(l, k) \in SUBSET Ids
           /\ IsFiniteSet(next_queries(l, k))
           /\ Cardinality(l.in_flight) + Cardinality(next_queries(l, k)) <= Alpha
  <1> DEFINE S == nearest(l.shortlist, k, K) \ (l.queried \cup l.in_flight)
             n == Alpha - Cardinality(l.in_flight)
  <1>1. Alpha \in Nat /\ K \in Nat /\ Cardinality(l.in_flight) \in Nat
    BY FS_CardinalityType, DirectoryAssumption
  <1>2. l.shortlist \in SUBSET Ids
    BY DEF LookupType
  <1>3. S \in SUBSET Ids
    BY <1>1, <1>2, NearestFew
  <1>4. n \in Int /\ n >= 0
    BY <1>1
  <1>5. next_queries(l, k) = nearest(S, k, n)
    BY DEF next_queries
  <1> HIDE DEF S
  <1>6. /\ nearest(S, k, n) \subseteq S /\ IsFiniteSet(nearest(S, k, n))
        /\ Cardinality(nearest(S, k, n)) \in Nat
        /\ Cardinality(nearest(S, k, n)) <= n
    BY <1>3, <1>4, NearestFew
  <1> QED BY <1>1, <1>3, <1>5, <1>6

\* A new lookup waits for nobody yet.
LEMMA Sought ==
    ASSUME NEW d \in DirType, NEW live, Clean(d, live), NEW S
    PROVE  /\ Stays(d, sought(d, S)) /\ Clean(sought(d, S), live)
           /\ sought(d, S).failures = d.failures
  <1> DEFINE L == [k \in Keys |-> IF k \in S THEN seek(d, k) ELSE d.lookups[k]]
             e == sought(d, S)
  <1>1. ASSUME NEW k \in Keys
        PROVE  /\ L[k] \in LookupType
               /\ L[k].in_flight \subseteq d.lookups[k].in_flight
               /\ L[k].on \/ L[k].in_flight = {} \/ ~d.lookups[k].on
    <2>1. d.lookups[k] \in LookupType
      BY LookupShape
    <2>2. closest(d, k) \in SUBSET Ids
      <3>1. routed(d) \subseteq Peers
        BY RoutedNames DEF DirType
      <3>2. routed(d) \in SUBSET Ids /\ K \in Int
        BY <3>1, DirectoryAssumption DEF Ids
      <3> QED BY <3>2, NearestFew DEF closest
    <2>3. seek(d, k) = d.lookups[k]
          \/ seek(d, k) = [on |-> TRUE, shortlist |-> closest(d, k), queried |-> {},
                           in_flight |-> {}, holders |-> {}]
      BY DEF seek, NoLookup
    <2>4. seek(d, k) \in LookupType
          /\ (seek(d, k) = d.lookups[k]
              \/ (seek(d, k).in_flight = {}))
      <3> DEFINE v == [on |-> TRUE, shortlist |-> closest(d, k), queried |-> {},
                       in_flight |-> {}, holders |-> {}]
      <3>1. v \in LookupType /\ v.in_flight = {}
        BY <2>2 DEF LookupType
      <3> HIDE DEF v
      <3> QED BY <2>1, <2>3, <3>1 DEF v
    <2> QED BY <2>1, <2>4
  <1>2. L \in [Keys -> LookupType]
    BY <1>1
  <1>3. e = [d EXCEPT !.lookups = L]
    BY DEF sought
  <1> HIDE DEF L, e
  <1>4. /\ e \in DirType /\ e.routing = d.routing /\ e.providers = d.providers
        /\ e.failures = d.failures /\ e.outstanding = d.outstanding /\ e.lookups = L
    BY <1>2, <1>3 DEF DirType
  <1>5. Clean(e, live)
    <2> SUFFICES ASSUME NEW k \in Keys
                 PROVE  /\ L[k].in_flight \subseteq d.lookups[k].in_flight
                        /\ L[k].on \/ L[k].in_flight = {} \/ ~d.lookups[k].on
                        /\ \A q \in L[k].in_flight :
                                k \in d.outstanding[q] /\ q \in live
      BY <1>4, CleanLess
    <2>1. \A q \in d.lookups[k].in_flight : k \in d.outstanding[q] /\ q \in live
      BY DEF Clean
    <2> QED BY <1>1, <2>1
  <1>6. Stays(d, e)
    BY <1>4, StaysSame
  <1> QED BY <1>4, <1>5, <1>6 DEF e

\* Whoever a lookup newly waits for is among the contacts to dial.
LEMMA Advances ==
    ASSUME book \in SUBSET Peers, NEW d \in DirType, NEW live, Clean(d, live)
    PROVE  LET q == queries(d)
               e == advanced(d, q)
               hops == {p \in book : \E k \in Keys : p \in q[k]}
           IN  Stays(d, e) /\ Clean(e, live \cup hops) /\ e.failures = d.failures
  <1> DEFINE q == queries(d)
             by(p) == {k \in Keys : p \in q[k]}
             late(k) == given_up(d, q, k)
             wanted == UNION {q[k] \ given_up(d, q, k) : k \in Keys}
             hops == {p \in book : \E k \in Keys : p \in q[k]}
             L == [k \in Keys |-> advance(d.lookups[k], q[k] \cap book, late(k))]
             O == [p \in Ids |-> IF p \in book THEN d.outstanding[p] \cup by(p)
                                 ELSE d.outstanding[p]]
             F == [p \in Ids |-> IF p \in book THEN d.deferrals[p]
                      ELSE Min({d.deferrals[p] + Cardinality(by(p)), MaxDeferrals + 1})]
             W == d.key_wants \cup (wanted \ (book \cup {Self}))
             e == advanced(d, q)
  <1>0. Alpha \in Nat /\ MaxDeferrals \in Nat /\ IsFiniteSet(Keys)
    BY DirectoryAssumption
  <1>q. ASSUME NEW k \in Keys
        PROVE  /\ q[k] \in SUBSET Ids /\ IsFiniteSet(q[k])
               /\ Cardinality(d.lookups[k].in_flight) + Cardinality(q[k]) <= Alpha
               /\ ~d.lookups[k].on => q[k] = {}
    <2>1. /\ d.lookups[k] \in LookupType /\ IsFiniteSet(d.lookups[k].in_flight)
          /\ Cardinality(d.lookups[k].in_flight) \in Nat
          /\ Cardinality(d.lookups[k].in_flight) <= Alpha
      BY LookupShape DEF Clean
    <2>2. q[k] = IF d.lookups[k].on THEN next_queries(d.lookups[k], k) ELSE {}
      BY DEF queries
    <2> HIDE DEF q
    <2>3. CASE d.lookups[k].on
      BY <2>1, <2>2, <2>3, NextQueries
    <2>4. CASE ~d.lookups[k].on
      <3>1. IsFiniteSet({}) /\ Cardinality({}) = 0
        BY FS_EmptySet
      <3> QED BY <1>0, <2>1, <2>2, <2>4, <3>1
    <2> QED BY <2>3, <2>4
  <1>e. e = [d EXCEPT !.lookups = L, !.outstanding = O, !.deferrals = F, !.key_wants = W]
    BY DEF advanced
  <1> HIDE DEF q
  <1>1. ASSUME NEW k \in Keys
        PROVE  /\ L[k] \in LookupType /\ L[k].on = d.lookups[k].on
               /\ L[k].in_flight = d.lookups[k].in_flight \cup (q[k] \cap book)
    <2>1. d.lookups[k] \in LookupType
      BY LookupShape
    <2>2. q[k] \cap book \in SUBSET Ids /\ late(k) \in SUBSET Ids
      BY <1>q DEF given_up
    <2>3. L[k] = advance(d.lookups[k], q[k] \cap book, late(k))
      OBVIOUS
    <2> HIDE DEF L, late
    <2> QED BY <2>1, <2>2, <2>3 DEF advance, LookupType
  <1>2. L \in [Keys -> LookupType]
    <2>1. L = [k \in Keys |-> L[k]]
      OBVIOUS
    <2> HIDE DEF L
    <2> QED BY <1>1, <2>1
  <1>3. O \in [Ids -> SUBSET Keys]
    BY DEF DirType
  <1>4. F \in [Ids -> 0 .. MaxDeferrals + 1]
    <2> SUFFICES ASSUME NEW p \in Ids PROVE F[p] \in 0 .. MaxDeferrals + 1
      OBVIOUS
    <2>1. d.deferrals[p] \in 0 .. MaxDeferrals + 1
      BY DEF DirType
    <2>2. Cardinality(by(p)) \in Nat
      BY <1>0, FS_Subset, FS_CardinalityType
    <2> DEFINE x == d.deferrals[p] + Cardinality(by(p))
    <2>3. x \in Nat
      BY <1>0, <2>1, <2>2
    <2>4. F[p] = IF p \in book THEN d.deferrals[p] ELSE Min({x, MaxDeferrals + 1})
      OBVIOUS
    <2> HIDE DEF x, F
    <2>5. Min({x, MaxDeferrals + 1}) \in {x, MaxDeferrals + 1}
          /\ Min({x, MaxDeferrals + 1}) <= MaxDeferrals + 1
      <3>1. \E y \in {x, MaxDeferrals + 1} : \A z \in {x, MaxDeferrals + 1} : y <= z
        BY <1>0, <2>3
      <3> QED BY <3>1 DEF Min
    <2> QED BY <1>0, <2>1, <2>3, <2>4, <2>5
  <1>5. W \in SUBSET Ids
    <2>1. wanted \subseteq Ids
      BY <1>q
    <2>2. d.key_wants \in SUBSET Ids
      BY DEF DirType
    <2> QED BY <2>1, <2>2
  <1> HIDE DEF L, F, W, e
  <1>6. /\ e \in DirType /\ e.routing = d.routing /\ e.providers = d.providers
        /\ e.failures = d.failures /\ e.outstanding = O /\ e.lookups = L
    <2> HIDE DEF O
    <2> QED BY <1>2, <1>3, <1>4, <1>5, <1>e DEF DirType
  <1>7. Stays(d, e)
    BY <1>6, StaysSame
  <1>8. ASSUME NEW k \in Keys
        PROVE  /\ ~L[k].on => L[k].in_flight = {}
               /\ \A p \in L[k].in_flight : k \in O[p] /\ p \in live \cup hops
               /\ Cardinality(L[k].in_flight) <= Alpha
    <2>1. ~L[k].on => L[k].in_flight = {}
      BY <1>1, <1>q DEF Clean
    <2>2. ASSUME NEW p \in L[k].in_flight PROVE k \in O[p] /\ p \in live \cup hops
      <3>1. CASE p \in d.lookups[k].in_flight
        <4>1. p \in Ids /\ k \in d.outstanding[p] /\ p \in live
          BY <3>1, LookupShape DEF Clean
        <4> QED BY <4>1
      <3>2. CASE p \in q[k] \cap book
        <4>1. p \in Ids /\ p \in hops /\ k \in by(p)
          BY <1>q, <3>2
        <4> QED BY <3>2, <4>1
      <3> QED BY <1>1, <3>1, <3>2
    <2>3. Cardinality(L[k].in_flight) <= Alpha
      <3> DEFINE A == d.lookups[k].in_flight
                 B == q[k] \cap book
      <3>1. IsFiniteSet(A) /\ Cardinality(A) \in Nat
        BY LookupShape
      <3>2. IsFiniteSet(q[k]) /\ Cardinality(q[k]) \in Nat
            /\ Cardinality(A) + Cardinality(q[k]) <= Alpha
        BY <1>q, FS_CardinalityType
      <3>3. IsFiniteSet(B) /\ Cardinality(B) <= Cardinality(q[k])
            /\ Cardinality(B) \in Nat
        BY <3>2, FS_Subset, FS_CardinalityType
      <3>4. L[k].in_flight = A \cup B
        BY <1>1
      <3> HIDE DEF A, B
      <3>5. Cardinality(A \cup B) = Cardinality(A) + Cardinality(B) - Cardinality(A \cap B)
        BY <3>1, <3>3, FS_Union
      <3>6. Cardinality(A \cap B) \in Nat
        BY <3>1, FS_Subset, FS_CardinalityType
      <3> QED BY <1>0, <3>1, <3>2, <3>3, <3>4, <3>5, <3>6
    <2> QED BY <2>1, <2>2, <2>3
  <1> HIDE DEF O, hops
  <1>9. Clean(e, live \cup hops)
    BY <1>6, <1>8 DEF Clean
  <1> QED BY <1>6, <1>7, <1>9 DEF e, q, hops

LEMMA NextHops ==
    ASSUME book \in SUBSET Peers, NEW d \in DirType, NEW live, Clean(d, live), NEW limit
    PROVE  LET r == next_hops(d, limit)
           IN  /\ Stays(d, r.d) /\ r.d.failures = d.failures
               /\ Clean(r.d, live \cup r.chosen \cup r.cut)
               /\ r.chosen \subseteq book /\ r.cut \subseteq book
  <1> DEFINE q == queries(d)
             e == advanced(d, q)
             hops == {p \in book : \E k \in Keys : p \in q[k]}
             ch == {p \in hops :
                     Cardinality({o \in hops : <<o, p>> \in ahead(e, q)}) < limit}
             r == next_hops(d, limit)
  <1>1. r = [d |-> e, chosen |-> ch, cut |-> hops \ ch]
    BY DEF next_hops
  <1>2. ch \subseteq hops /\ hops \subseteq book
    OBVIOUS
  <1>3. Stays(d, e) /\ Clean(e, live \cup hops) /\ e.failures = d.failures
    BY Advances
  <1> HIDE DEF r, e, ch, hops
  <1>4. r.d = e /\ r.chosen = ch /\ r.cut = hops \ ch
    BY <1>1
  <1>5. live \cup hops \subseteq live \cup r.chosen \cup r.cut
    BY <1>4
  <1>6. Clean(r.d, live \cup r.chosen \cup r.cut)
    BY <1>3, <1>4, <1>5, CleanSame
  <1> QED BY <1>2, <1>3, <1>4, <1>6 DEF r
-----------------------------------------------------------------------------
(* The invariant, and the steps.                                            *)

Types ==
    /\ dir \in DirType /\ Fits(dir)
    /\ book \in SUBSET Peers /\ plan \in SUBSET Peers /\ missing \in SUBSET Keys
    /\ hints \in [Keys -> SUBSET Peers]
    /\ phase \in {"seed", "plan", "dial"}
    /\ silent \in [Ids -> 0 .. MaxFailures]

\* The counts of failures do not exceed the failures since a peer last answered.
Counted == \A p \in Ids : dir.failures[p] <= silent[p]

DirectoryInv ==
    /\ Types /\ Counted /\ FirstHandOnly
    /\ Clean(dir, plan \cup lost)
    /\ phase # "dial" => plan = {}

\* Whoever leaves the table in this step was silent for long enough.
Kept == \A p \in routed(dir) \ routed(dir') : silent'[p] >= MaxFailures

LEMMA InitHolds == Init => DirectoryInv
  <1> SUFFICES ASSUME Init PROVE DirectoryInv
    OBVIOUS
  <1>0. MaxFailures \in Nat \ {0} /\ MaxDeferrals \in Nat /\ K \in Nat /\ Alpha \in Nat
        /\ Bootstrap \subseteq Peers
    BY DirectoryAssumption
  <1> DEFINE R == [b \in Buckets |-> <<>>]
             V == [k \in Keys |-> {}]
             L == [k \in Keys |-> NoLookup]
             Z == [p \in Ids |-> 0]
             E == [p \in Ids |-> {}]
  <1>1. dir = [routing |-> R, providers |-> V, lookups |-> L, outstanding |-> E,
               failures |-> Z, pending |-> E, deferrals |-> Z, key_wants |-> {}]
    BY DEF Init
  <1>2. NoLookup \in LookupType /\ NoLookup.in_flight = {} /\ ~NoLookup.on
    BY DEF NoLookup, LookupType
  <1>3. /\ R \in [Buckets -> Seq(Held)] /\ \A b \in Buckets : R[b] = <<>>
        /\ V \in [Keys -> SUBSET Peers] /\ \A k \in Keys : V[k] = {}
        /\ L \in [Keys -> LookupType] /\ \A k \in Keys : L[k] = NoLookup
        /\ Z \in [Ids -> 0 .. MaxFailures - 1] /\ Z \in [Ids -> 0 .. MaxDeferrals + 1]
        /\ Z \in [Ids -> 0 .. MaxFailures] /\ \A p \in Ids : Z[p] = 0
        /\ E \in [Ids -> SUBSET Held] /\ E \in [Ids -> SUBSET Keys]
    BY <1>0, <1>2
  <1>4. silent = Z /\ hints = V
    BY DEF Init
  <1> HIDE DEF R, V, L, Z, E
  <1>5. /\ dir \in DirType /\ dir.routing = R /\ dir.providers = V /\ dir.lookups = L
        /\ dir.failures = Z
    BY <1>1, <1>3 DEF DirType
  <1>6. Fits(dir)
    BY <1>0, <1>3, <1>5 DEF Fits
  <1>7. Types
    BY <1>0, <1>3, <1>4, <1>5, <1>6 DEF Types, Init
  <1>8. Counted
    BY <1>3, <1>4, <1>5 DEF Counted
  <1>9. FirstHandOnly
    BY <1>3, <1>5 DEF FirstHandOnly
  <1>10. Clean(dir, plan \cup lost)
    <2>1. Cardinality({}) = 0
      BY FS_EmptySet
    <2>2. \A k \in Keys : dir.lookups[k].in_flight = {}
      BY <1>2, <1>3, <1>5
    <2>3. \A k \in Keys : Cardinality(dir.lookups[k].in_flight) <= Alpha
      BY <1>0, <2>1, <2>2
    <2> QED BY <2>2, <2>3 DEF Clean
  <1> QED BY <1>7, <1>8, <1>9, <1>10 DEF DirectoryInv, Init

\* A step after which the table has lost nobody.
LEMMA StaysCounted ==
    ASSUME DirectoryInv, Stays(dir, dir'),
           \A p \in Ids : dir'.failures[p] = 0 \/ silent'[p] = silent[p],
           silent' \in [Ids -> 0 .. MaxFailures]
    PROVE  Counted' /\ Kept
  <1>1. \A p \in Ids : dir'.failures[p] = dir.failures[p] \/ dir'.failures[p] = 0
    BY DEF Stays
  <1>2. \A p \in Ids : dir.failures[p] <= silent[p]
    BY DEF DirectoryInv, Counted
  <1>3. \A p \in Ids : silent'[p] \in 0 .. MaxFailures
    OBVIOUS
  <1>4. Counted'
    BY <1>1, <1>2, <1>3 DEF Counted
  <1>5. Kept
    BY DEF Kept, Stays
  <1> QED BY <1>4, <1>5

LEMMA SeedHolds ==
    ASSUME DirectoryInv, SeedFromLog
    PROVE  DirectoryInv' /\ Kept
  <1>1. PICK got \in SUBSET keyless :
            /\ book' = book \cup got
            /\ dir' = [seeded(dir) EXCEPT !.key_wants = @ \ got]
    BY DEF SeedFromLog
  <1>2. Types /\ dir \in DirType /\ book \in SUBSET Peers
    BY DEF DirectoryInv, Types
  <1>3. keyless \subseteq Peers /\ LogPeers \in SUBSET Contacts /\ IsFiniteSet(LogPeers)
        /\ \A x, y \in LogPeers : x.id = y.id => x = y
    BY DirectoryAssumption DEF keyless, Contacts, Ids
  <1> DEFINE e == seen(dir, LogPeers)
             W == (e.key_wants \cup keyless) \ got
  <1>4. Keeps(dir, e)
    BY <1>2, <1>3, SeenKeeps
  <1>5. dir' = wanting(e, W)
    BY <1>1 DEF seeded, wanting
  <1> HIDE DEF e
  <1>6. e \in DirType /\ W \in SUBSET Ids
    <2>1. e \in DirType /\ e.key_wants \in SUBSET Ids
      BY <1>4 DEF Keeps, DirType
    <2> QED BY <1>3, <2>1 DEF Ids
  <1> HIDE DEF W
  <1>7. /\ dir' \in DirType /\ dir'.routing = e.routing
        /\ dir'.providers = e.providers /\ dir'.lookups = e.lookups
        /\ dir'.outstanding = e.outstanding /\ dir'.failures = e.failures
    BY <1>5, <1>6, Wanting
  <1>8. Stays(dir, e) /\ e.lookups = dir.lookups /\ e.outstanding = dir.outstanding
    BY <1>4, KeepsStays
  <1>9. Stays(dir, dir')
    <2>1. Stays(e, dir')
      BY <1>7, StaysSame
    <2> QED BY <1>8, <2>1, StaysOn
  <1>10. /\ phase = "seed" /\ phase' = "plan" /\ hints' = hints /\ missing' = missing
         /\ plan' = plan /\ lost' = lost /\ silent' = silent
    BY DEF SeedFromLog
  <1>11. Clean(dir, plan \cup lost) /\ plan = {}
    BY <1>10 DEF DirectoryInv
  <1>12. Clean(dir', plan' \cup lost')
    BY <1>7, <1>8, <1>10, <1>11, CleanSame
  <1>13. Types'
    BY <1>1, <1>2, <1>3, <1>9, <1>10 DEF Types, Stays
  <1>14. FirstHandOnly'
    BY <1>9, <1>10 DEF DirectoryInv, FirstHandOnly, Stays
  <1>15. silent' \in [Ids -> 0 .. MaxFailures]
    BY <1>2, <1>10 DEF Types
  <1>16. Counted' /\ Kept
    BY <1>9, <1>10, <1>15, StaysCounted
  <1> QED BY <1>10, <1>11, <1>12, <1>13, <1>14, <1>16 DEF DirectoryInv

\* What is added to a choice of peers to dial.
LEMMA Fills ==
    ASSUME book \in SUBSET Peers, NEW chosen \in SUBSET Peers, NEW s \in fill(chosen)
    PROVE  s \in SUBSET Peers /\ chosen \subseteq s
  <1> DEFINE free == book \ chosen
             n == Min({Max({0, Fanout - Cardinality(chosen)}), Cardinality(free)})
  <1>1. PICK S \in kSubset(n, free) : s = chosen \cup S
    BY DEF fill
  <1>2. S \in SUBSET free
    <2> HIDE DEF n, free
    <2> QED BY DEF kSubset
  <1> QED BY <1>1, <1>2

LEMMA PlanHolds ==
    ASSUME DirectoryInv, PeersFor
    PROVE  DirectoryInv' /\ Kept
  <1>1. /\ dir \in DirType /\ book \in SUBSET Peers /\ Fits(dir) /\ missing \in SUBSET Keys
        /\ hints \in [Keys -> SUBSET Peers] /\ silent \in [Ids -> 0 .. MaxFailures]
    BY DEF DirectoryInv, Types
  <1>2. /\ phase = "plan" /\ phase' = "dial" /\ book' = book /\ missing' = missing
        /\ silent' = silent
    BY DEF PeersFor
  <1>3. Clean(dir, plan \cup lost) /\ plan = {}
    BY <1>2 DEF DirectoryInv
  <1>4. Clean(dir, lost)
    <2>1. plan \cup lost = lost
      BY <1>3
    <2> QED BY <1>3, <2>1
  <1>5. /\ Stays(dir, dir') /\ Clean(dir', plan' \cup lost') /\ plan' \in SUBSET Peers
        /\ hints' \in [Keys -> SUBSET Peers]
    <2>1. CASE missing = {} /\ plan' \in fill({}) /\ UNCHANGED <<dir, hints, lost>>
      <3>1. plan' \in SUBSET Peers
        BY <1>1, <2>1, Fills
      <3>2. Stays(dir, dir')
        BY <1>1, <2>1, StaysSame
      <3>3. Clean(dir', plan' \cup lost')
        BY <1>4, <2>1, CleanSame
      <3> QED BY <1>1, <2>1, <3>1, <3>2, <3>3
    <2>2. CASE missing # {}
      <3>0. hints' = [k \in Keys |-> IF k \in unheld THEN {} ELSE hints[k]]
            /\ \/ \E hops \in {next_hops(sought(dir, unheld),
                                         Fanout - Cardinality(known_holders))} :
                        /\ dir' = hops.d
                        /\ lost' = (lost \cup hops.cut) \ hops.chosen
                        /\ plan' \in fill(known_holders \cup hops.chosen)
               \/ /\ plan' \in kSubset(Fanout, known_holders)
                  /\ UNCHANGED <<dir, lost>>
        BY <2>2 DEF PeersFor
      <3>1. hints' \in [Keys -> SUBSET Peers]
        BY <1>1, <3>0
      <3>2. known_holders \in SUBSET Peers
        BY <1>1 DEF known_holders
      <3>3. CASE \E hops \in {next_hops(sought(dir, unheld),
                                         Fanout - Cardinality(known_holders))} :
                        /\ dir' = hops.d
                        /\ lost' = (lost \cup hops.cut) \ hops.chosen
                        /\ plan' \in fill(known_holders \cup hops.chosen)
        <4> DEFINE e == sought(dir, unheld)
                   r == next_hops(e, Fanout - Cardinality(known_holders))
        <4>1. /\ dir' = r.d /\ lost' = (lost \cup r.cut) \ r.chosen
              /\ plan' \in fill(known_holders \cup r.chosen)
          BY <3>3
        <4> HIDE DEF e, r
        <4>2. Stays(dir, e) /\ Clean(e, lost)
          BY <1>1, <1>4, Sought DEF e
        <4>3. e \in DirType
          BY <4>2 DEF Stays
        <4>4. /\ Stays(e, r.d) /\ Clean(r.d, lost \cup r.chosen \cup r.cut)
              /\ r.chosen \subseteq book
          BY <1>1, <4>2, <4>3, NextHops DEF r
        <4>5. Stays(dir, dir')
          BY <4>1, <4>2, <4>4, StaysOn
        <4>6. plan' \in SUBSET Peers /\ r.chosen \subseteq plan'
          <5> DEFINE C == known_holders \cup r.chosen
          <5>1. C \in SUBSET Peers /\ plan' \in fill(C)
            BY <1>1, <3>2, <4>1, <4>4
          <5> HIDE DEF C
          <5>2. plan' \in SUBSET Peers /\ C \subseteq plan'
            BY <1>1, <5>1, Fills
          <5> QED BY <5>2 DEF C
        <4>7. lost \cup r.chosen \cup r.cut \subseteq plan' \cup lost'
          BY <4>1, <4>6
        <4>8. Clean(dir', plan' \cup lost')
          BY <4>1, <4>4, <4>7, CleanSame
        <4> QED BY <3>1, <4>5, <4>6, <4>8
      <3>4. CASE plan' \in kSubset(Fanout, known_holders) /\ UNCHANGED <<dir, lost>>
        <4>1. plan' \in SUBSET Peers
          BY <3>2, <3>4 DEF kSubset
        <4>2. Stays(dir, dir')
          BY <1>1, <3>4, StaysSame
        <4>3. Clean(dir', plan' \cup lost')
          BY <1>4, <3>4, CleanSame
        <4> QED BY <3>1, <4>1, <4>2, <4>3
      <3> QED BY <3>0, <3>3, <3>4
    <2> QED BY <2>1, <2>2 DEF PeersFor
  <1>6. Types'
    BY <1>1, <1>2, <1>5 DEF Types, Stays
  <1>7. FirstHandOnly'
    BY <1>5 DEF DirectoryInv, FirstHandOnly, Stays
  <1>8. silent' \in [Ids -> 0 .. MaxFailures]
    BY <1>1, <1>2
  <1>9. Counted' /\ Kept
    BY <1>2, <1>5, <1>8, StaysCounted
  <1> QED BY <1>2, <1>5, <1>6, <1>7, <1>9 DEF DirectoryInv
LEMMA TakesFinished ==
    ASSUME NEW d \in DirType, NEW live, Clean(d, live)
    PROVE  /\ Stays(d, take_finished(d)) /\ Clean(take_finished(d), live)
           /\ take_finished(d).failures = d.failures
  <1> DEFINE L == [k \in Keys |-> IF k \in finished(d) THEN NoLookup ELSE d.lookups[k]]
             e == take_finished(d)
  <1>1. NoLookup \in LookupType /\ NoLookup.in_flight = {}
    BY DEF NoLookup, LookupType
  <1>2. d.lookups \in [Keys -> LookupType]
    BY DEF DirType
  <1>3. L \in [Keys -> LookupType] /\ \A k \in Keys : L[k] = NoLookup \/ L[k] = d.lookups[k]
    BY <1>1, <1>2
  <1>4. e = [d EXCEPT !.lookups = L]
    BY DEF take_finished
  <1> HIDE DEF L, e
  <1>5. /\ e \in DirType /\ e.lookups = L /\ e.routing = d.routing
        /\ e.providers = d.providers /\ e.failures = d.failures
        /\ e.outstanding = d.outstanding
    BY <1>3, <1>4 DEF DirType
  <1>6. Stays(d, e)
    BY <1>5, StaysSame
  <1>7. ASSUME NEW k \in Keys
        PROVE  /\ e.lookups[k].in_flight \subseteq d.lookups[k].in_flight
               /\ e.lookups[k].on \/ e.lookups[k].in_flight = {} \/ ~d.lookups[k].on
               /\ \A p \in e.lookups[k].in_flight :
                     k \in e.outstanding[p] /\ p \in live
    <2>1. \A p \in d.lookups[k].in_flight : k \in d.outstanding[p] /\ p \in live
      BY DEF Clean
    <2>2. d.lookups[k].on \in BOOLEAN
      BY LookupShape
    <2>3. CASE L[k] = NoLookup
      BY <1>1, <1>5, <2>3
    <2>4. CASE L[k] = d.lookups[k]
      BY <1>5, <2>1, <2>2, <2>4
    <2> QED BY <1>3, <2>3, <2>4
  <1>8. Clean(e, live)
    BY <1>7, CleanLess
  <1> QED BY <1>5, <1>6, <1>8 DEF e

LEMMA RecordTells ==
    ASSUME NEW d \in DirType, NEW p \in Peers, NEW told
    PROVE  LET e == record_tell(d, p, told) IN
           /\ e \in DirType /\ e.routing = d.routing
           /\ e.lookups = d.lookups /\ e.outstanding = d.outstanding
           /\ e.failures = [d.failures EXCEPT ![p] = 0]
           /\ \A k \in Keys : \A q \in e.providers[k] :
                q \in d.providers[k] \/ (q = p /\ k \in told)
  <1> DEFINE V == [k \in Keys |->
                    IF k \in told THEN d.providers[k] \cup {p} ELSE d.providers[k]]
             F == [d.failures EXCEPT ![p] = 0]
             e == record_tell(d, p, told)
  <1>0. MaxFailures \in Nat \ {0}
    BY DirectoryAssumption
  <1>1. d.providers \in [Keys -> SUBSET Peers]
        /\ d.failures \in [Ids -> 0 .. MaxFailures - 1] /\ p \in Ids
    BY DEF DirType, Ids
  <1>2. V \in [Keys -> SUBSET Peers]
    BY <1>1
  <1>3. F \in [Ids -> 0 .. MaxFailures - 1]
    BY <1>0, <1>1
  <1>4. e = [d EXCEPT !.failures = F, !.providers = V]
    BY DEF record_tell
  <1>5. \A k \in Keys : \A q \in V[k] : q \in d.providers[k] \/ (q = p /\ k \in told)
    OBVIOUS
  <1> HIDE DEF V, F, e
  <1>6. /\ e \in DirType /\ e.routing = d.routing
        /\ e.lookups = d.lookups /\ e.outstanding = d.outstanding
        /\ e.failures = F /\ e.providers = V
    BY <1>2, <1>3, <1>4 DEF DirType
  <1> QED BY <1>5, <1>6 DEF e, F

\* A session leaves nobody waiting for its peer, and loses no contact.
LEMMA SessionHolds ==
    ASSUME DirectoryInv, NEW p \in Peers, Session(p), phase' = phase,
           plan' = plan \/ (plan' = plan \ {p} /\ phase = "dial")
    PROVE  DirectoryInv' /\ Kept
  <1>1. /\ dir \in DirType /\ book \in SUBSET Peers /\ Fits(dir) /\ missing \in SUBSET Keys
        /\ hints \in [Keys -> SUBSET Peers] /\ silent \in [Ids -> 0 .. MaxFailures]
        /\ plan \in SUBSET Peers /\ phase \in {"seed", "plan", "dial"}
        /\ Clean(dir, plan \cup lost)
    BY DEF DirectoryInv, Types
  <1>2. p \in Ids /\ MaxFailures \in Nat
    BY DirectoryAssumption DEF Ids
  <1> DEFINE noted == IF p \in book THEN saw(dir, [id |-> p, seq |-> 0]) ELSE dir
             got == key_wants(noted) \cap Serves[p]
             W == noted.key_wants \ got
             a == ask_of(noted, p)
             x == wanting(noted, W)
             answered == on_providers(x, p, a)
             taken == take_finished(answered)
             told == missing \cap Holds[p]
             rest == (plan \cup lost) \ {p}
  <1>3. /\ dir' = IF p \in book THEN record_tell(taken, p, told) ELSE taken
        /\ book' = book \cup (got \cap routed(taken))
        /\ hints' = [k \in Keys |->
                IF k \in finished(answered) /\ answered.lookups[k].holders # {}
                THEN answered.lookups[k].holders ELSE hints[k]]
        /\ \E fetched \in SUBSET told : missing' = missing \ fetched
        /\ lost' = lost \ {p}
        /\ silent' = [silent EXCEPT ![p] = 0]
    <2> DEFINE outcome(g, r, z) ==
            /\ dir' = IF p \in book THEN record_tell(z, p, told) ELSE z
            /\ book' = book \cup (g \cap routed(z))
            /\ hints' = [k \in Keys |->
                    IF k \in finished(r) /\ r.lookups[k].holders # {}
                    THEN r.lookups[k].holders ELSE hints[k]]
            /\ \E fetched \in SUBSET told : missing' = missing \ fetched
            /\ lost' = lost \ {p}
            /\ silent' = [silent EXCEPT ![p] = 0]
    <2>1. \E n \in {IF p \in book THEN saw(dir, [id |-> p, seq |-> 0]) ELSE dir} :
          \E g \in {key_wants(n) \cap Serves[p]} :
          \E r \in {on_providers([n EXCEPT !.key_wants = @ \ g], p, ask_of(n, p))} :
          \E z \in {take_finished(r)} : outcome(g, r, z)
      BY Zenon DEF Session
    <2> HIDE DEF outcome
    <2>2. \E g \in {got} :
          \E r \in {on_providers([noted EXCEPT !.key_wants = @ \ g], p, ask_of(noted, p))} :
          \E z \in {take_finished(r)} : outcome(g, r, z)
      BY <2>1, Zenon
    <2>3. \E r \in {on_providers([noted EXCEPT !.key_wants = @ \ got], p, ask_of(noted, p))} :
          \E z \in {take_finished(r)} : outcome(got, r, z)
      BY <2>2, Zenon
    <2>4. [noted EXCEPT !.key_wants = @ \ got] = x
      BY DEF wanting
    <2> HIDE DEF x, noted, got
    <2>5. \E z \in {take_finished(answered)} : outcome(got, answered, z)
      BY <2>3, <2>4, Zenon
    <2>6. outcome(got, answered, taken)
      BY <2>5, Zenon
    <2> HIDE DEF answered, taken, told
    <2> QED BY <2>6 DEF outcome
  <1>4. Stays(dir, noted) /\ Clean(noted, plan \cup lost)
    <2>1. CASE p \in book
      <3>1. [id |-> p, seq |-> 0] \in Contacts
        BY <1>2 DEF Contacts
      <3>2. Keeps(dir, noted)
        BY <1>1, <2>1, <3>1, SawKeeps
      <3> HIDE DEF noted
      <3>3. Stays(dir, noted) /\ noted.lookups = dir.lookups
            /\ noted.outstanding = dir.outstanding
        BY <3>2, KeepsStays
      <3> QED BY <1>1, <3>3, CleanSame
    <2>2. CASE p \notin book
      BY <1>1, <2>2, StaysSame
    <2> QED BY <2>1, <2>2
  <1> HIDE DEF noted
  <1>5. noted \in DirType /\ noted.key_wants \in SUBSET Ids
    BY <1>4 DEF Stays, DirType
  <1>6. W \in SUBSET Ids
    BY <1>5
  <1> HIDE DEF W, a, got
  <1>7. /\ x \in DirType /\ x.routing = noted.routing /\ x.providers = noted.providers
        /\ x.lookups = noted.lookups /\ x.outstanding = noted.outstanding
        /\ x.failures = noted.failures
    BY <1>5, <1>6, Wanting
  <1> HIDE DEF x
  <1>8. Stays(dir, x) /\ Clean(x, plan \cup lost)
    <2>1. Stays(noted, x)
      BY <1>7, StaysSame
    <2>2. Clean(x, plan \cup lost)
      BY <1>4, <1>7, CleanSame
    <2> QED BY <1>4, <2>1, <2>2, StaysOn
  <1>9. Stays(x, answered) /\ answered.failures[p] = 0 /\ Clean(answered, rest)
    BY <1>7, <1>8, OnProviders
  <1> HIDE DEF answered
  <1>10. answered \in DirType
    BY <1>9 DEF Stays
  <1>11. Stays(answered, taken) /\ Clean(taken, rest) /\ taken.failures = answered.failures
    BY <1>9, <1>10, TakesFinished
  <1> HIDE DEF taken
  <1>12. Stays(dir, taken)
    BY <1>8, <1>9, <1>11, StaysOn
  <1>13. taken \in DirType
    BY <1>12 DEF Stays
  <1>14. /\ dir' \in DirType /\ dir'.routing = taken.routing
         /\ dir'.lookups = taken.lookups /\ dir'.outstanding = taken.outstanding
         /\ dir'.failures[p] = 0
         /\ \A q \in Ids : dir'.failures[q] = taken.failures[q] \/ dir'.failures[q] = 0
         /\ \A k \in Keys : \A q \in dir'.providers[k] :
                q \in taken.providers[k] \/ (q = p /\ k \in told)
    <2>1. CASE p \in book
      <3> DEFINE e == record_tell(taken, p, told)
      <3>1. /\ e \in DirType /\ e.routing = taken.routing
            /\ e.lookups = taken.lookups /\ e.outstanding = taken.outstanding
            /\ e.failures = [taken.failures EXCEPT ![p] = 0]
            /\ \A k \in Keys : \A q \in e.providers[k] :
                 q \in taken.providers[k] \/ (q = p /\ k \in told)
        BY <1>13, RecordTells
      <3>2. dir' = e
        BY <1>3, <2>1
      <3>3. taken.failures \in [Ids -> 0 .. MaxFailures - 1]
        BY <1>13 DEF DirType
      <3> HIDE DEF e, told
      <3> QED BY <1>2, <3>1, <3>2, <3>3
    <2>2. CASE p \notin book
      BY <1>3, <1>9, <1>11, <1>13, <2>2
    <2> QED BY <2>1, <2>2
  <1>15. routed(dir') = routed(taken)
    BY <1>14 DEF routed, contacts
  <1>16. Fits(dir')
    <2>1. Fits(taken)
      BY <1>1, <1>12 DEF Stays
    <2> QED BY <1>14, <2>1 DEF Fits
  <1>17. Clean(dir', plan' \cup lost')
    <2>1. rest \subseteq plan' \cup lost'
      BY <1>3
    <2> QED BY <1>11, <1>14, <2>1, CleanSame
  <1>18. routed(taken) \subseteq Peers
    <2>1. taken.routing \in [Buckets -> Seq(Held)]
      BY <1>13 DEF DirType
    <2> QED BY <2>1, RoutedNames
  <1>19. hints' \in [Keys -> SUBSET Peers]
    <2>1. \A k \in Keys : answered.lookups[k].holders \in SUBSET Peers
      BY <1>10 DEF DirType, LookupType
    <2> QED BY <1>1, <1>3, <2>1
  <1>20. silent' \in [Ids -> 0 .. MaxFailures] /\ silent'[p] = 0
         /\ \A q \in Ids \ {p} : silent'[q] = silent[q]
    BY <1>1, <1>2, <1>3
  <1>21. Types'
    <2>1. missing' \in SUBSET Keys /\ plan' \in SUBSET Peers
      BY <1>1, <1>3
    <2>2. book' \in SUBSET Peers
      BY <1>1, <1>3, <1>18
    <2> QED BY <1>1, <1>14, <1>16, <1>19, <1>20, <2>1, <2>2 DEF Types
  <1>22. FirstHandOnly'
    <2>1. \A k \in Keys : \A q \in dir.providers[k] : k \in Holds[q]
      BY DEF DirectoryInv, FirstHandOnly
    <2>2. taken.providers = dir.providers
      BY <1>12 DEF Stays
    <2> QED BY <1>14, <2>1, <2>2 DEF FirstHandOnly
  <1>23. Counted'
    <2>1. \A q \in Ids : dir.failures[q] <= silent[q]
      BY DEF DirectoryInv, Counted
    <2>2. \A q \in Ids : taken.failures[q] = dir.failures[q] \/ taken.failures[q] = 0
      BY <1>12 DEF Stays
    <2>3. \A q \in Ids : silent'[q] \in Nat
      BY <1>2, <1>20
    <2> QED BY <1>14, <1>20, <2>1, <2>2, <2>3 DEF Counted
  <1>24. Kept
    BY <1>12, <1>15 DEF Kept, Stays
  <1>25. phase' # "dial" => plan' = {}
    BY DEF DirectoryInv
  <1> QED BY <1>17, <1>21, <1>22, <1>23, <1>24, <1>25 DEF DirectoryInv
LEMMA DialFailHolds ==
    ASSUME DirectoryInv, NEW p \in Peers, DialFail(p)
    PROVE  DirectoryInv' /\ Kept
  <1>1. /\ dir \in DirType /\ book \in SUBSET Peers /\ Fits(dir) /\ missing \in SUBSET Keys
        /\ hints \in [Keys -> SUBSET Peers] /\ silent \in [Ids -> 0 .. MaxFailures]
        /\ plan \in SUBSET Peers /\ phase \in {"seed", "plan", "dial"}
        /\ Clean(dir, plan \cup lost)
    BY DEF DirectoryInv, Types
  <1>2. p \in Ids /\ MaxFailures \in Nat \ {0}
    BY DirectoryAssumption DEF Ids
  <1>3. /\ dir' = on_unreachable(dir, p)
        /\ silent' = [silent EXCEPT ![p] = Min({silent[p] + 1, MaxFailures})]
        /\ plan' = plan \ {p} /\ lost' = lost \ {p}
        /\ book' = book /\ hints' = hints /\ missing' = missing /\ phase' = phase
        /\ phase = "dial"
    BY DEF DialFail
  <1>4. /\ dir' \in DirType /\ dir'.providers = dir.providers
        /\ Clean(dir', (plan \cup lost) \ {p})
        /\ dir'.failures = [dir.failures EXCEPT ![p] = (dir.failures[p] + 1) % MaxFailures]
        /\ dir.failures[p] + 1 < MaxFailures => routed(dir) \subseteq routed(dir')
        /\ routed(dir) \subseteq routed(dir') \cup {p}
        /\ Fits(dir')
    BY <1>1, <1>3, OnUnreachable
  <1> DEFINE s == silent[p]
             f == dir.failures[p]
             m == Min({s + 1, MaxFailures})
  <1>5. s \in 0 .. MaxFailures /\ f \in 0 .. MaxFailures - 1 /\ f <= s
    BY <1>1, <1>2 DEF DirectoryInv, Counted, DirType
  <1>6. silent' = [silent EXCEPT ![p] = m]
    BY <1>3
  <1>7. dir'.failures = [dir.failures EXCEPT ![p] = (f + 1) % MaxFailures]
    BY <1>4
  <1>8. dir.failures \in [Ids -> 0 .. MaxFailures - 1]
        /\ \A q \in Ids : dir.failures[q] <= silent[q]
    BY <1>1 DEF DirectoryInv, Counted, DirType
  <1>9. f + 1 < MaxFailures => routed(dir) \subseteq routed(dir')
    BY <1>4
  <1> HIDE DEF s, f
  <1>10. m = IF s + 1 <= MaxFailures THEN s + 1 ELSE MaxFailures
    <2>1. \E y \in {s + 1, MaxFailures} : \A z \in {s + 1, MaxFailures} : y <= z
      BY <1>2, <1>5
    <2>2. m \in {s + 1, MaxFailures} /\ m <= s + 1 /\ m <= MaxFailures
      BY <2>1 DEF Min
    <2> HIDE DEF m
    <2> QED BY <1>2, <1>5, <2>2
  <1> HIDE DEF m
  <1>11. m \in 0 .. MaxFailures /\ (f + 1) % MaxFailures <= m
         /\ (f + 1 >= MaxFailures => m >= MaxFailures)
    <2>1. CASE f + 1 < MaxFailures
      <3>1. (f + 1) % MaxFailures = f + 1
        BY <1>2, <1>5, <2>1
      <3> QED BY <1>2, <1>5, <1>10, <2>1, <3>1
    <2>2. CASE f + 1 = MaxFailures
      <3>1. (f + 1) % MaxFailures = 0
        BY <1>2, <1>5, <2>2
      <3> QED BY <1>2, <1>5, <1>10, <2>2, <3>1
    <2> QED BY <1>2, <1>5, <2>1, <2>2
  <1>12. silent' \in [Ids -> 0 .. MaxFailures] /\ silent'[p] = m
         /\ \A q \in Ids \ {p} : silent'[q] = silent[q]
    BY <1>1, <1>2, <1>6, <1>11
  <1>13. Counted'
    <2>1. dir'.failures[p] = (f + 1) % MaxFailures
          /\ \A q \in Ids \ {p} : dir'.failures[q] = dir.failures[q]
      BY <1>2, <1>7, <1>8
    <2> QED BY <1>8, <1>11, <1>12, <2>1 DEF Counted
  <1>14. Kept
    <2>1. CASE f + 1 < MaxFailures
      BY <1>9, <2>1 DEF Kept
    <2>2. CASE ~(f + 1 < MaxFailures)
      <3>1. m >= MaxFailures
        BY <1>2, <1>5, <1>11, <2>2
      <3> QED BY <1>4, <1>12, <3>1 DEF Kept
    <2> QED BY <2>1, <2>2
  <1>15. Types'
    BY <1>1, <1>3, <1>4, <1>12 DEF Types
  <1>16. FirstHandOnly'
    BY <1>4 DEF DirectoryInv, FirstHandOnly
  <1>17. Clean(dir', plan' \cup lost')
    <2>1. (plan \cup lost) \ {p} \subseteq plan' \cup lost'
      BY <1>3
    <2> QED BY <1>4, <2>1, CleanSame
  <1> QED BY <1>3, <1>13, <1>14, <1>15, <1>16, <1>17 DEF DirectoryInv

LEMMA SleepHolds ==
    ASSUME DirectoryInv, Sleep
    PROVE  DirectoryInv' /\ Kept
  <1>1. /\ dir' = dir /\ book' = book /\ hints' = hints /\ missing' = missing
        /\ plan' = plan /\ lost' = lost /\ silent' = silent /\ phase' = "seed" /\ plan = {}
    BY DEF Sleep
  <1>2. Types' /\ Counted' /\ FirstHandOnly' /\ Kept
    BY <1>1 DEF DirectoryInv, Types, Counted, FirstHandOnly, Kept
  <1>3. Clean(dir', plan' \cup lost')
    BY <1>1 DEF DirectoryInv
  <1> QED BY <1>1, <1>2, <1>3 DEF DirectoryInv

LEMMA LapseHolds ==
    ASSUME DirectoryInv, NEW k \in Keys, NEW p \in Peers, Lapse(k, p)
    PROVE  DirectoryInv' /\ Kept
  <1>1. /\ book' = book /\ hints' = hints /\ missing' = missing /\ phase' = phase
        /\ plan' = plan /\ lost' = lost /\ silent' = silent
    BY DEF Lapse
  <1>2. Types /\ dir \in DirType /\ Fits(dir) /\ Counted /\ FirstHandOnly
        /\ Clean(dir, plan \cup lost)
    BY DEF DirectoryInv, Types
  <1> DEFINE V == [dir.providers EXCEPT ![k] = dir.providers[k] \ {p}]
  <1>3. dir' = [dir EXCEPT !.providers = V]
    BY DEF Lapse
  <1>4. V \in [Keys -> SUBSET Peers] /\ \A j \in Keys : V[j] \subseteq dir.providers[j]
    <2>1. dir.providers \in [Keys -> SUBSET Peers]
      BY <1>2 DEF DirType
    <2> QED BY <2>1
  <1> HIDE DEF V
  <1>5. /\ dir' \in DirType /\ dir'.routing = dir.routing /\ dir'.lookups = dir.lookups
        /\ dir'.outstanding = dir.outstanding /\ dir'.failures = dir.failures
        /\ dir'.providers = V
    BY <1>2, <1>3, <1>4 DEF DirType
  <1>6. Fits(dir')
    BY <1>2, <1>5 DEF Fits
  <1>7. Types'
    BY <1>1, <1>2, <1>5, <1>6 DEF Types
  <1>8. Counted'
    BY <1>1, <1>2, <1>5 DEF Counted
  <1>9. FirstHandOnly'
    BY <1>2, <1>4, <1>5 DEF FirstHandOnly
  <1>10. Clean(dir', plan' \cup lost')
    BY <1>1, <1>2, <1>5, CleanSame
  <1>11. Kept
    <2>1. routed(dir') = routed(dir)
      BY <1>5 DEF routed, contacts
    <2> QED BY <2>1 DEF Kept
  <1>12. phase' # "dial" => plan' = {}
    BY <1>1 DEF DirectoryInv
  <1> QED BY <1>7, <1>8, <1>9, <1>10, <1>11, <1>12 DEF DirectoryInv

\* Every step, and no step at all.
LEMMA StepHolds ==
    ASSUME DirectoryInv, [Next]_vars
    PROVE  DirectoryInv' /\ Kept
  <1>1. CASE SeedFromLog
    BY <1>1, SeedHolds
  <1>2. CASE PeersFor
    BY <1>2, PlanHolds
  <1>3. CASE Sleep
    BY <1>3, SleepHolds
  <1>4. ASSUME NEW p \in Peers, DialOk(p) PROVE DirectoryInv' /\ Kept
    <2>1. Session(p) /\ phase' = phase /\ plan' = plan \ {p} /\ phase = "dial"
      BY <1>4 DEF DialOk
    <2> QED BY <2>1, SessionHolds
  <1>r. ASSUME NEW p \in Peers, DialRound(p) PROVE DirectoryInv' /\ Kept
    <2>1. Session(p) /\ phase' = phase /\ plan' = plan
      BY <1>r DEF DialRound
    <2> QED BY <2>1, SessionHolds
  <1>5. ASSUME NEW p \in Peers, DialFail(p) PROVE DirectoryInv' /\ Kept
    BY <1>5, DialFailHolds
  <1>6. ASSUME NEW p \in Callers, Inbound(p) PROVE DirectoryInv' /\ Kept
    <2>1. Session(p) /\ phase' = phase /\ plan' = plan
      BY <1>6 DEF Inbound
    <2>2. p \in Peers
      BY DirectoryAssumption
    <2> QED BY <2>1, <2>2, SessionHolds
  <1>7. ASSUME NEW k \in Keys, NEW p \in Peers, Lapse(k, p) PROVE DirectoryInv' /\ Kept
    BY <1>7, LapseHolds
  <1>8. CASE UNCHANGED vars
    <2>1. /\ dir' = dir /\ book' = book /\ hints' = hints /\ missing' = missing
          /\ phase' = phase /\ plan' = plan /\ lost' = lost /\ silent' = silent
      BY <1>8 DEF vars
    <2>2. Types' /\ Counted' /\ FirstHandOnly' /\ Kept
      BY <2>1 DEF DirectoryInv, Types, Counted, FirstHandOnly, Kept
    <2>3. Clean(dir', plan' \cup lost')
      BY <2>1 DEF DirectoryInv
    <2> QED BY <2>1, <2>2, <2>3 DEF DirectoryInv
  <1> QED BY <1>1, <1>2, <1>3, <1>4, <1>5, <1>6, <1>7, <1>8, <1>r DEF Next, Tick

LEMMA InvMeans ==
    ASSUME DirectoryInv PROVE TypeOK /\ InFlightIsOwed
  <1>1. /\ dir \in DirType /\ Fits(dir) /\ Clean(dir, plan \cup lost)
        /\ book \in SUBSET Peers /\ plan \in SUBSET Peers /\ missing \in SUBSET Keys
        /\ phase \in {"seed", "plan", "dial"}
    BY DEF DirectoryInv, Types
  <1>2. InFlightIsOwed
    BY <1>1 DEF InFlightIsOwed, Clean
  <1>3. /\ dir.routing \in [Buckets -> Seq(Held)] /\ dir.providers \in [Keys -> SUBSET Peers]
        /\ dir.lookups \in [Keys -> LookupType] /\ dir.outstanding \in [Ids -> SUBSET Keys]
        /\ dir.failures \in [Ids -> 0 .. MaxFailures - 1]
        /\ dir.deferrals \in [Ids -> 0 .. MaxDeferrals + 1] /\ dir.key_wants \in SUBSET Ids
    BY <1>1 DEF DirType
  <1>4. \A b \in DOMAIN dir.routing :
            /\ Len(dir.routing[b]) <= K
            /\ \A c \in ToSet(dir.routing[b]) : c.id \in Peers /\ c.seq \in Nat
    <2> TAKE b \in DOMAIN dir.routing
    <2>1. b \in Buckets /\ dir.routing[b] \in Seq(Held)
      BY <1>3
    <2>2. \A i \in DOMAIN dir.routing[b] : dir.routing[b][i] \in Held
      BY <2>1
    <2>3. \A c \in ToSet(dir.routing[b]) : c \in Held
      BY <2>2 DEF ToSet
    <2> QED BY <1>1, <2>1, <2>3 DEF Fits, Held
  <1>5. \A k \in Keys : /\ dir.providers[k] \subseteq Peers
                        /\ dir.lookups[k].shortlist \subseteq Ids
                        /\ dir.lookups[k].holders \subseteq Peers
                        /\ Cardinality(dir.lookups[k].in_flight) <= Alpha
    BY <1>1, <1>3 DEF LookupType, Clean
  <1>6. TypeOK
    BY <1>1, <1>3, <1>4, <1>5 DEF TypeOK
  <1> QED BY <1>2, <1>6

\* The invariant holds in every state: the shapes, the counts of failures, and
\* what the lookups wait for (p2p/dht.rs next_hops, on_providers, on_unreachable).
THEOREM DirectoryInvHolds == Spec => []DirectoryInv
  <1>1. DirectoryInv /\ [Next]_vars => DirectoryInv'
    BY StepHolds
  <1> QED BY InitHolds, <1>1, PTL DEF Spec

\* The state keeps its shapes; no bucket outgrows K and no lookup asks more than
\* Alpha contacts at once (dht.rs insert, next_queries).
THEOREM TypesHold == Spec => []TypeOK
  <1>1. DirectoryInv => TypeOK
    BY InvMeans
  <1> QED BY <1>1, DirectoryInvHolds, PTL

\* For every peer and key, however dials fail and sessions interleave with the
\* tick: whom a lookup waits for is to be dialled, or was cut off by next_hops at
\* its limit, and the outcome will reach that very lookup (p2p/dht.rs next_hops,
\* on_providers, on_unreachable).
THEOREM InFlightHolds == Spec => []InFlightIsOwed
  <1>1. DirectoryInv => InFlightIsOwed
    BY InvMeans
  <1> QED BY <1>1, DirectoryInvHolds, PTL

\* Whatever is relayed about a holder, the provider records are the providers' own
\* (p2p/dht.rs on_providers, record_tell).
THEOREM FirstHandHolds == Spec => []FirstHandOnly
  <1>1. DirectoryInv => FirstHandOnly
    BY DEF DirectoryInv
  <1> QED BY <1>1, DirectoryInvHolds, PTL

\* No flood of contacts, named or seen, takes the place of one that still answers:
\* a contact leaves the table only after MaxFailures failed dials in a row
\* (dht.rs insert, replace, forget; p2p/dht.rs saw, on_unreachable).
THEOREM LivingPeersHold == Spec => LivingPeersKeepTheirPlace
  <1>1. DirectoryInv /\ [Next]_vars =>
            [\A p \in routed(dir) \ routed(dir') : silent'[p] >= MaxFailures]_vars
    BY StepHolds DEF Kept
  <1> QED BY <1>1, DirectoryInvHolds, PTL DEF Spec, LivingPeersKeepTheirPlace
=============================================================================
