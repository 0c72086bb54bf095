----------------------------- MODULE SwarmProofs -----------------------------
(***************************************************************************)
(* Proofs about Swarm.                                                     *)
(***************************************************************************)
EXTENDS Swarm, FiniteSetTheorems, SequenceTheorems, TLAPS

\* A non-empty set of naturals has a least element.
LEMMA LeastNatural ==
    ASSUME NEW T, T \subseteq Nat, T # {}
    PROVE  \E x \in T : \A y \in T : x <= y
  <1>1. PICK x \in T : \A y \in T : <<y, x>> \notin OpToRel(<, Nat)
    BY WFMin, NatLessThanWellFounded
  <1>2. \A y \in T : ~(y < x)
    BY <1>1 DEF OpToRel
  <1> QED BY <1>2

\* Induction on a set of naturals.
LEMMA EveryNatural ==
    ASSUME NEW T, T \subseteq Nat, 0 \in T, \A n \in T : n + 1 \in T
    PROVE  T = Nat
  <1> SUFFICES ASSUME Nat \ T # {} PROVE FALSE
    OBVIOUS
  <1>1. PICK x \in Nat \ T : \A y \in Nat \ T : x <= y
    BY LeastNatural
  <1>2. x # 0 /\ x - 1 \in Nat
    BY <1>1
  <1>3. x - 1 \in T
    BY <1>1, <1>2
  <1> QED BY <1>1, <1>2, <1>3

\* A strict total order on a set.
Orders(R, S) ==
    /\ \A x \in S : <<x, x>> \notin R
    /\ \A x, y, z \in S : <<x, y>> \in R /\ <<y, z>> \in R => <<x, z>> \in R
    /\ \A x, y \in S : x = y \/ <<x, y>> \in R \/ <<y, x>> \in R

\* Every place in the order is taken, once: inOrder lists all members.
LEMMA ListedOnce ==
    ASSUME NEW S, IsFiniteSet(S), NEW R, Orders(R, S)
    PROVE  /\ Cardinality(S) \in Nat
           /\ inOrder(S, R) \in [1 .. Cardinality(S) -> S]
           /\ \A j, k \in 1 .. Cardinality(S) :
                inOrder(S, R)[j] = inOrder(S, R)[k] => j = k
           /\ \A x \in S : \E k \in 1 .. Cardinality(S) : inOrder(S, R)[k] = x
  <1> DEFINE n == Cardinality(S)
             below(x) == {y \in S : <<y, x>> \in R}
             rank == [x \in S |-> Cardinality(below(x))]
             g == inOrder(S, R)
  <1>1. n \in Nat
    BY FS_CardinalityType
  <1>2. ASSUME NEW x \in S
        PROVE  IsFiniteSet(below(x)) /\ rank[x] \in 0 .. n - 1
    <2>1. below(x) \subseteq S /\ x \notin below(x)
      BY DEF Orders
    <2>2. IsFiniteSet(below(x)) /\ Cardinality(below(x)) <= n
          /\ (Cardinality(below(x)) = n => below(x) = S)
      BY <2>1, FS_Subset
    <2>3. Cardinality(below(x)) \in Nat
      BY <2>2, FS_CardinalityType
    <2> QED BY <1>1, <2>1, <2>2, <2>3
  <1>3. ASSUME NEW x \in S, NEW y \in S, <<x, y>> \in R
        PROVE  rank[x] # rank[y]
    <2>1. below(x) \subseteq below(y) /\ x \in below(y) /\ x \notin below(x)
      BY <1>3 DEF Orders
    <2>2. Cardinality(below(x)) = Cardinality(below(y)) => below(x) = below(y)
      BY <1>2, <2>1, FS_Subset
    <2> QED BY <2>1, <2>2
  <1>4. rank \in Injection(S, 0 .. n - 1)
    <2>1. \A x, y \in S : x # y => rank[x] # rank[y]
      BY <1>3 DEF Orders
    <2> QED BY <1>2, <2>1 DEF Injection, IsInjective
  <1>5. IsFiniteSet(0 .. n - 1) /\ Cardinality(0 .. n - 1) = n
    BY <1>1, FS_Interval
  <1>6. rank \in Surjection(S, 0 .. n - 1)
    BY <1>4, <1>5, FS_Injection
  <1>r. \A x \in S : rank[x] \in 0 .. n - 1
    BY <1>2
  <1>c. \A x \in S : rank[x] = Cardinality(below(x))
    OBVIOUS
  <1>p. \A k \in 0 .. n - 1 : \E x \in S : rank[x] = k
    BY <1>6 DEF Surjection
  <1>q. \A x, y \in S : rank[x] = rank[y] => x = y
    BY <1>3 DEF Orders
  <1> HIDE DEF rank, g, n
  <1>7. ASSUME NEW k \in 1 .. n PROVE g[k] \in S /\ rank[g[k]] = k - 1
    <2>1. PICK x \in S : rank[x] = k - 1
      BY <1>1, <1>p
    <2>2. \E y \in S : Cardinality({z \in S : <<z, y>> \in R}) = k - 1
      BY <2>1, <1>c
    <2>3. g[k] = CHOOSE y \in S : Cardinality({z \in S : <<z, y>> \in R}) = k - 1
      BY DEF inOrder, g, n
    <2>4. g[k] \in S /\ Cardinality({z \in S : <<z, g[k]>> \in R}) = k - 1
      BY <2>2, <2>3
    <2> QED BY <1>c, <2>4
  <1>8. g \in [1 .. n -> S]
    BY <1>7 DEF inOrder, g, n
  <1>9. \A j, k \in 1 .. n : g[j] = g[k] => j = k
    BY <1>1, <1>7
  <1>10. ASSUME NEW x \in S PROVE \E k \in 1 .. n : g[k] = x
    <2>1. rank[x] + 1 \in 1 .. n
      BY <1>1, <1>r
    <2>2. rank[g[rank[x] + 1]] = rank[x] /\ g[rank[x] + 1] \in S
      <3> DEFINE k == rank[x] + 1
      <3>1. k \in 1 .. n /\ rank[x] = k - 1
        BY <1>1, <1>r, <2>1
      <3> HIDE DEF k
      <3>2. g[k] \in S /\ rank[g[k]] = k - 1
        BY <1>7, <3>1
      <3> QED BY <3>1, <3>2 DEF k
    <2>3. g[rank[x] + 1] = x
      BY <1>q, <2>2
    <2> QED BY <2>1, <2>3
  <1> QED BY <1>1, <1>8, <1>9, <1>10 DEF g, n
-----------------------------------------------------------------------------
(* What schedule computes: a fold over the peers, in the order of their ids. *)

\* The fold's values, by the set of turns taken.
Rows(g, start, s) ==
    [T \in SUBSET DOMAIN s |->
        IF T = {} THEN start ELSE visit(g[T \ {Max(T)}], s[Max(T)])]

turns(start, s) == FoldLeft(visit, start, s)

LEMMA FoldUnfold ==
    ASSUME NEW start, NEW s
    PROVE  turns(start, s) = (CHOOSE g : g = Rows(g, start, s))[DOMAIN s]
  BY DEF turns, FoldLeft, MapThenFoldSet, Rows

LEMMA MaxOfNaturals ==
    ASSUME NEW n \in Nat, NEW T \in SUBSET (1 .. n), n \in T
    PROVE  Max(T) = n
  <1>1. \A y \in T : n >= y
    OBVIOUS
  <1>2. Max(T) \in T /\ \A y \in T : Max(T) >= y
    BY <1>1 DEF Max
  <1>3. ASSUME NEW m \in T, \A y \in T : m >= y PROVE m = n
    <2>1. m \in 1 .. n /\ m >= n
      BY <1>3
    <2> QED BY <2>1
  <1> QED BY <1>2, <1>3

\* Such values exist, for as many turns as there are.
LEMMA RowsExist ==
    ASSUME NEW start, NEW n \in Nat, NEW s, DOMAIN s = 1 .. n
    PROVE  \E g : g = Rows(g, start, s)
  <1> DEFINE good == {k \in Nat : \E g : g = [T \in SUBSET (1 .. k) |->
                        IF T = {} THEN start
                        ELSE visit(g[T \ {Max(T)}], s[Max(T)])]}
  <1>1. 0 \in good
    <2> DEFINE g == [T \in SUBSET (1 .. 0) |-> start]
    <2>1. \A T \in SUBSET (1 .. 0) : T = {}
      OBVIOUS
    <2>2. g = [T \in SUBSET (1 .. 0) |->
                  IF T = {} THEN start ELSE visit(g[T \ {Max(T)}], s[Max(T)])]
      BY <2>1
    <2> HIDE DEF g
    <2> QED BY <2>2
  <1>2. ASSUME NEW k \in good PROVE k + 1 \in good
    <2>0. k \in Nat
      OBVIOUS
    <2>1. PICK g : g = [T \in SUBSET (1 .. k) |->
                  IF T = {} THEN start ELSE visit(g[T \ {Max(T)}], s[Max(T)])]
      OBVIOUS
    <2> DEFINE h == [T \in SUBSET (1 .. k + 1) |->
                        IF T \subseteq 1 .. k THEN g[T]
                        ELSE visit(g[T \ {k + 1}], s[k + 1])]
    <2>2. ASSUME NEW T \in SUBSET (1 .. k + 1)
          PROVE  h[T] = IF T = {} THEN start
                        ELSE visit(h[T \ {Max(T)}], s[Max(T)])
      <3>1. CASE T \subseteq 1 .. k
        <4>1. T \ {Max(T)} \subseteq 1 .. k /\ T \ {Max(T)} \in SUBSET (1 .. k + 1)
          BY <3>1
        <4>2. h[T] = g[T] /\ h[T \ {Max(T)}] = g[T \ {Max(T)}]
          BY <3>1, <4>1
        <4>3. g[T] = IF T = {} THEN start
                     ELSE visit(g[T \ {Max(T)}], s[Max(T)])
          BY <2>1, <3>1
        <4> HIDE DEF h
        <4> QED BY <4>2, <4>3
      <3>2. CASE ~(T \subseteq 1 .. k)
        <4>1. k + 1 \in T /\ k + 1 \in Nat
          BY <2>0, <3>2
        <4>2. Max(T) = k + 1
          BY <4>1, MaxOfNaturals
        <4>3. T \ {k + 1} \subseteq 1 .. k /\ T \ {k + 1} \in SUBSET (1 .. k + 1)
          BY <2>0
        <4>4. h[T] = visit(g[T \ {k + 1}], s[k + 1])
          BY <3>2
        <4>5. h[T \ {k + 1}] = g[T \ {k + 1}]
          BY <4>3
        <4> HIDE DEF h
        <4> QED BY <4>1, <4>2, <4>4, <4>5
      <3> QED BY <3>1, <3>2
    <2>3. h = [T \in SUBSET (1 .. k + 1) |->
                  IF T = {} THEN start ELSE visit(h[T \ {Max(T)}], s[Max(T)])]
      <3> DEFINE r == [T \in SUBSET (1 .. k + 1) |->
                  IF T = {} THEN start ELSE visit(h[T \ {Max(T)}], s[Max(T)])]
      <3>1. \A T \in SUBSET (1 .. k + 1) : h[T] = r[T]
        <4> HIDE DEF h
        <4> QED BY <2>2
      <3>2. h = [T \in SUBSET (1 .. k + 1) |-> h[T]]
        OBVIOUS
      <3>3. r = [T \in SUBSET (1 .. k + 1) |-> r[T]]
        OBVIOUS
      <3> HIDE DEF h, r
      <3>4. h = r
        BY <3>1, <3>2, <3>3
      <3> QED BY <3>4 DEF r
    <2> HIDE DEF h
    <2>4. \E g1 : g1 = [T \in SUBSET (1 .. k + 1) |->
                  IF T = {} THEN start ELSE visit(g1[T \ {Max(T)}], s[Max(T)])]
      BY <2>3
    <2>5. k + 1 \in Nat
      BY <2>0
    <2> QED BY <2>4, <2>5
  <1>3. good = Nat
    <2> HIDE DEF good
    <2>1. good \subseteq Nat
      BY DEF good
    <2> QED BY <1>1, <1>2, <2>1, EveryNatural
  <1>4. n \in good
    BY <1>3
  <1> QED BY <1>4 DEF Rows

\* The fold is the end of a sequence of accumulators, one turn each.
LEMMA FoldTrace ==
    ASSUME NEW start, NEW n \in Nat, NEW s, DOMAIN s = 1 .. n
    PROVE  \E h : /\ h[0] = start
                  /\ \A k \in 1 .. n : h[k] = visit(h[k - 1], s[k])
                  /\ turns(start, s) = h[n]
  <1> DEFINE g == CHOOSE g : g = Rows(g, start, s)
             h == [k \in 0 .. n |-> g[1 .. k]]
  <1>1. g = Rows(g, start, s)
    BY RowsExist
  <1>2. turns(start, s) = g[1 .. n]
    BY FoldUnfold
  <1> HIDE DEF g
  <1>3. h[0] = start
    <2>1. 1 .. 0 = {} /\ 0 \in 0 .. n
      OBVIOUS
    <2>2. g[{}] = start
      BY <1>1 DEF Rows
    <2> QED BY <2>1, <2>2
  <1>4. ASSUME NEW k \in 1 .. n PROVE h[k] = visit(h[k - 1], s[k])
    <2>0. k \in Nat /\ k \in 1 .. k
      OBVIOUS
    <2>1. 1 .. k \in SUBSET (1 .. n) /\ 1 .. k # {}
      BY <2>0
    <2>2. Max(1 .. k) = k
      BY <2>0, MaxOfNaturals
    <2>3. (1 .. k) \ {k} = 1 .. k - 1 /\ k - 1 \in 0 .. n /\ k \in 0 .. n
      OBVIOUS
    <2>4. g[1 .. k] = visit(g[(1 .. k) \ {Max(1 .. k)}], s[Max(1 .. k)])
      BY <1>1, <2>1 DEF Rows
    <2>5. h[k] = g[1 .. k] /\ h[k - 1] = g[1 .. k - 1]
      BY <2>3
    <2> HIDE DEF h
    <2> QED BY <2>2, <2>3, <2>4, <2>5
  <1>5. h[n] = g[1 .. n]
    OBVIOUS
  <1> HIDE DEF h
  <1> QED BY <1>2, <1>3, <1>4, <1>5
-----------------------------------------------------------------------------
(* The leech's swarm, and what one turn of schedule does to it.             *)

PeerState == [have : SUBSET Pieces, chokes_us : BOOLEAN,
              we_interested : BOOLEAN, in_flight : SUBSET Pieces]
Tables == UNION {[D -> PeerState] : D \in SUBSET Peers}

SwarmType ==
    [manifest : {"none", "true", "forged"},
     pieces : [Pieces -> {"none", "good", "junk"}], peers : Tables,
     availability : [Pieces -> Nat], complete : BOOLEAN]

LEMMA TableShape ==
    ASSUME NEW sw \in SwarmType
    PROVE  /\ DOMAIN sw.peers \in SUBSET Peers
           /\ sw.peers \in [DOMAIN sw.peers -> PeerState]
           /\ IsFiniteSet(DOMAIN sw.peers)
  <1>1. sw.peers \in Tables
    BY DEF SwarmType
  <1>2. PICK D \in SUBSET Peers : sw.peers \in [D -> PeerState]
    BY <1>1 DEF Tables
  <1>3. DOMAIN sw.peers = D
    BY <1>2
  <1> QED BY <1>2, <1>3, SwarmAssumption, FS_Subset

LEMMA PeerShape ==
    ASSUME NEW sw \in SwarmType, NEW p \in DOMAIN sw.peers
    PROVE  /\ p \in Peers /\ sw.peers[p] \in PeerState
           /\ sw.peers[p].have \in SUBSET Pieces
           /\ sw.peers[p].in_flight \in SUBSET Pieces
           /\ sw.peers[p].chokes_us \in BOOLEAN
           /\ sw.peers[p].we_interested \in BOOLEAN
           /\ IsFiniteSet(sw.peers[p].in_flight)
           /\ Cardinality(sw.peers[p].in_flight) \in Nat
  <1>1. p \in Peers /\ sw.peers[p] \in PeerState
    BY TableShape
  <1>2. sw.peers[p].have \in SUBSET Pieces /\ sw.peers[p].in_flight \in SUBSET Pieces
        /\ sw.peers[p].chokes_us \in BOOLEAN /\ sw.peers[p].we_interested \in BOOLEAN
    BY <1>1 DEF PeerState
  <1> QED BY <1>1, <1>2, SwarmAssumption, FS_Subset, FS_CardinalityType

LEMMA ByIdOrders ==
    ASSUME NEW S \in SUBSET Peers
    PROVE  Orders(ById, S)
  BY SwarmAssumption DEF Orders, ById

LEMMA RarerOrders ==
    ASSUME NEW sw \in SwarmType, NEW S \in SUBSET Pieces
    PROVE  Orders(rarer(sw), S)
  <1>1. \A i \in Pieces : i \in Nat /\ sw.availability[i] \in Nat
    BY SwarmAssumption DEF SwarmType
  <1>2. \A i, j \in S : <<i, j>> \in rarer(sw) <=>
            \/ sw.availability[i] < sw.availability[j]
            \/ sw.availability[i] = sw.availability[j] /\ i < j
    BY DEF rarer
  <1> QED BY <1>1, <1>2 DEF Orders

\* What a peer may be asked for.
wanted(sw, p, booked) ==
    ((missing(sw) \cap sw.peers[p].have) \ booked) \ sw.peers[p].in_flight

LEMMA LimitsType ==
    ASSUME world \in WorldType
    PROVE  /\ limits.max_in_flight \in Nat \ {0}
           /\ limits.unchoke_slots \in Nat \ {0}
           /\ limits.max_peers \in Nat \ {0}
           /\ limits.endgame_at \in Nat
  BY DEF WorldType, limits

\* The requests to a peer: pieces that are wanted, each once, and some as long as
\* there are any and room for them.
LEMMA AsksWanted ==
    ASSUME world \in WorldType, NEW sw \in SwarmType, NEW p \in DOMAIN sw.peers,
           NEW booked
    PROVE  /\ asks(sw, p, booked) \in Seq(Pieces)
           /\ Range(asks(sw, p, booked)) \subseteq wanted(sw, p, booked)
           /\ \A j, k \in DOMAIN asks(sw, p, booked) :
                asks(sw, p, booked)[j] = asks(sw, p, booked)[k] => j = k
           /\ sw.peers[p].chokes_us => asks(sw, p, booked) = <<>>
           /\ (/\ ~sw.peers[p].chokes_us /\ wanted(sw, p, booked) # {}
               /\ Cardinality(sw.peers[p].in_flight) < limits.max_in_flight)
                 => asks(sw, p, booked) # <<>>
  <1> DEFINE S == wanted(sw, p, booked)
             ranked == inOrder(S, rarer(sw))
             n == Cardinality(S)
             room == limits.max_in_flight - Cardinality(sw.peers[p].in_flight)
             m == Min({room, Len(ranked)})
  <1>1. S \in SUBSET Pieces /\ IsFiniteSet(S)
    BY SwarmAssumption, FS_Subset DEF wanted, missing
  <1>2. /\ n \in Nat /\ ranked \in [1 .. n -> S]
        /\ \A j, k \in 1 .. n : ranked[j] = ranked[k] => j = k
    BY <1>1, ListedOnce, RarerOrders
  <1>3. asks(sw, p, booked) =
            IF sw.peers[p].chokes_us THEN <<>> ELSE SubSeq(ranked, 1, m)
    BY DEF asks, wanted
  <1>4. room \in Int
    BY PeerShape, LimitsType
  <1> HIDE DEF ranked, n, room, S
  <1>5. ranked \in Seq(S) /\ Len(ranked) = n
    BY <1>2
  <1>6. m \in Int /\ m <= n /\ m <= room /\ (m = n \/ m = room)
    <2>1. \E x \in {room, n} : \A y \in {room, n} : x =< y
      BY <1>2, <1>4
    <2>2. m \in {room, n} /\ \A y \in {room, n} : m =< y
      BY <1>5, <2>1 DEF Min
    <2> QED BY <1>2, <1>4, <2>2
  <1> HIDE DEF m
  <1>7. /\ SubSeq(ranked, 1, m) \in [1 .. (IF m >= 1 THEN m ELSE 0) -> S]
        /\ \A k \in 1 .. (IF m >= 1 THEN m ELSE 0) :
                SubSeq(ranked, 1, m)[k] = ranked[k]
    <2>1. SubSeq(ranked, 1, m) = [k \in 1 .. m |-> ranked[k]]
      <3>1. SubSeq(ranked, 1, m) = [k \in 1 .. (1 + m) - 1 |-> ranked[(1 + k) - 1]]
        BY <1>6 DEF SubSeq
      <3> QED BY <1>6, <3>1
    <2>2. 1 .. m = 1 .. (IF m >= 1 THEN m ELSE 0)
      BY <1>6
    <2>3. \A k \in 1 .. m : k \in 1 .. n
      BY <1>2, <1>6
    <2> QED BY <1>2, <2>1, <2>2, <2>3
  <1> DEFINE size == IF m >= 1 THEN m ELSE 0
             q == SubSeq(ranked, 1, m)
  <1>8. size \in Nat /\ size <= n
    BY <1>2, <1>6
  <1>9. q \in [1 .. size -> S] /\ \A k \in 1 .. size : q[k] = ranked[k]
    BY <1>7
  <1> HIDE DEF size, q
  <1>10. q \in Seq(S) /\ q \in Seq(Pieces) /\ DOMAIN q = 1 .. size
    BY <1>1, <1>8, <1>9
  <1>11. Range(q) \subseteq S
    BY <1>9 DEF Range
  <1>12. \A j, k \in DOMAIN q : q[j] = q[k] => j = k
    BY <1>2, <1>8, <1>9, <1>10
  <1>13. ASSUME S # {}, Cardinality(sw.peers[p].in_flight) < limits.max_in_flight
         PROVE  q # <<>>
    <2>1. n # 0
      BY <1>1, <1>13, FS_EmptySet DEF n
    <2>2. room >= 1
      BY <1>13, PeerShape, LimitsType DEF room
    <2>3. size >= 1
      BY <1>2, <1>4, <1>6, <2>1, <2>2 DEF size
    <2> QED BY <1>8, <1>10, <2>3
  <1>14. <<>> \in Seq(Pieces) /\ Range(<<>>) = {} /\ DOMAIN <<>> = {}
    BY DEF Range
  <1>15. CASE sw.peers[p].chokes_us
    BY <1>3, <1>14, <1>15
  <1>16. CASE ~sw.peers[p].chokes_us
    <2>1. asks(sw, p, booked) = q
      BY <1>3, <1>16 DEF q
    <2> QED BY <1>10, <1>11, <1>12, <1>13, <1>16, <2>1 DEF S
  <1> QED BY <1>15, <1>16

\* What a leech says to a peer.
Asks == {Request(i) : i \in Pieces} \cup {Interested(b) : b \in BOOLEAN}

wants(sw, p) == missing(sw) \cap sw.peers[p].have # {}

\* What a peer is told when it is asked for the pieces of q.
note(sw, p, q) ==
    (IF wants(sw, p) = sw.peers[p].we_interested THEN <<>>
     ELSE <<Interested(wants(sw, p))>>) \o [k \in DOMAIN q |-> Request(q[k])]

\* After the turns of the peers D, which were asked for pk.
Turned(sw, acc, D, pk) ==
    /\ acc.sw \in SwarmType /\ acc.drop = "no"
    /\ acc.sw.manifest = sw.manifest /\ acc.sw.pieces = sw.pieces
    /\ acc.sw.availability = sw.availability /\ acc.sw.complete = sw.complete
    /\ DOMAIN acc.sw.peers = DOMAIN sw.peers
    /\ \A p \in DOMAIN sw.peers :
            /\ acc.sw.peers[p].have = sw.peers[p].have
            /\ acc.sw.peers[p].chokes_us = sw.peers[p].chokes_us
    /\ \A p \in DOMAIN sw.peers \ D : acc.sw.peers[p] = sw.peers[p]
    /\ \A p \in D :
            /\ acc.sw.peers[p].we_interested = wants(sw, p)
            /\ acc.sw.peers[p].in_flight = sw.peers[p].in_flight \cup Range(pk[p])
    /\ acc.out \in [Peers -> Seq(Asks)]
    /\ \A p \in Peers \ D : acc.out[p] = <<>>
    /\ \A p \in D : acc.out[p] = note(sw, p, pk[p])
    /\ acc.booked = booked_with(sw) \cup UNION {Range(pk[p]) : p \in D}
    /\ \A p \in D :
            /\ pk[p] \in Seq(Pieces)
            /\ Range(pk[p]) \subseteq wanted(sw, p, booked_with(sw))
            /\ \A j, k \in DOMAIN pk[p] : pk[p][j] = pk[p][k] => j = k
            /\ sw.peers[p].chokes_us => pk[p] = <<>>
            /\ (/\ ~sw.peers[p].chokes_us /\ pk[p] = <<>>
                /\ Cardinality(sw.peers[p].in_flight) < limits.max_in_flight) =>
                    wanted(sw, p, booked_with(sw)) \subseteq
                        UNION {Range(pk[q]) : q \in D}
    /\ \A p, q \in D : p # q => Range(pk[p]) \cap Range(pk[q]) = {}

LEMMA NoteType ==
    ASSUME NEW sw \in SwarmType, NEW p \in DOMAIN sw.peers, NEW q \in Seq(Pieces)
    PROVE  note(sw, p, q) \in Seq(Asks)
  <1> DEFINE h == IF wants(sw, p) = sw.peers[p].we_interested THEN <<>>
                  ELSE <<Interested(wants(sw, p))>>
             t == [k \in DOMAIN q |-> Request(q[k])]
  <1>1. wants(sw, p) \in BOOLEAN
    BY DEF wants
  <1>2. Interested(wants(sw, p)) \in Asks
    BY <1>1 DEF Asks
  <1>3. h \in Seq(Asks)
    BY <1>2
  <1>4. t \in Seq(Asks)
    <2>1. DOMAIN q = 1 .. Len(q) /\ Len(q) \in Nat /\ \A k \in 1 .. Len(q) : q[k] \in Pieces
      OBVIOUS
    <2>2. \A k \in 1 .. Len(q) : Request(q[k]) \in Asks
      BY <2>1 DEF Asks
    <2> QED BY <2>1, <2>2
  <1> HIDE DEF h, t
  <1>5. h \o t \in Seq(Asks)
    BY <1>3, <1>4
  <1> QED BY <1>5 DEF note, h, t

\* A turn.
LEMMA VisitTurns ==
    ASSUME world \in WorldType, NEW sw \in SwarmType, NEW acc,
           NEW D \in SUBSET DOMAIN sw.peers, NEW pk, Turned(sw, acc, D, pk),
           NEW p \in DOMAIN sw.peers, p \notin D
    PROVE  \E nk : Turned(sw, visit(acc, p), D \cup {p}, nk)
  <1> DEFINE st == acc.sw.peers[p]
             picks == asks(acc.sw, p, acc.booked)
             nk == [q \in D \cup {p} |-> IF q = p THEN picks ELSE pk[q]]
             r == visit(acc, p)
             E == D \cup {p}
  <1>1. /\ acc.sw \in SwarmType /\ p \in DOMAIN acc.sw.peers /\ p \in Peers
        /\ st = sw.peers[p] /\ st \in PeerState
        /\ missing(acc.sw) = missing(sw)
    BY TableShape, PeerShape DEF Turned, missing
  <1>2. wanted(acc.sw, p, acc.booked) = wanted(sw, p, acc.booked)
    BY <1>1 DEF wanted
  <1>3. /\ picks \in Seq(Pieces)
        /\ Range(picks) \subseteq wanted(sw, p, acc.booked)
        /\ \A j, k \in DOMAIN picks : picks[j] = picks[k] => j = k
        /\ sw.peers[p].chokes_us => picks = <<>>
        /\ (/\ ~sw.peers[p].chokes_us /\ wanted(sw, p, acc.booked) # {}
            /\ Cardinality(sw.peers[p].in_flight) < limits.max_in_flight)
              => picks # <<>>
    BY <1>1, <1>2, AsksWanted
  <1>4. (missing(acc.sw) \cap st.have # {}) = wants(sw, p)
    BY <1>1 DEF wants
  <1>5. /\ r.sw = [acc.sw EXCEPT !.peers[p].we_interested = wants(sw, p),
                                 !.peers[p].in_flight = @ \cup Range(picks)]
        /\ r.booked = acc.booked \cup Range(picks)
        /\ r.out = [acc.out EXCEPT ![p] = note(sw, p, picks)]
        /\ r.drop = "no"
    BY <1>1, <1>4 DEF visit, note
  <1>6. /\ Range(picks) \subseteq Pieces
        /\ wants(sw, p) \in BOOLEAN
    <2>1. Range(picks) \subseteq Pieces
      BY <1>3 DEF Range
    <2> QED BY <2>1 DEF wants
  <1> HIDE DEF picks, r
  <1> DEFINE np == [acc.sw.peers EXCEPT ![p] =
                        [st EXCEPT !.we_interested = wants(sw, p),
                                   !.in_flight = st.in_flight \cup Range(picks)]]
  <1>7. np \in Tables
    <2>1. /\ acc.sw.peers \in [DOMAIN acc.sw.peers -> PeerState]
          /\ DOMAIN acc.sw.peers \in SUBSET Peers
      BY <1>1, TableShape
    <2>2. [st EXCEPT !.we_interested = wants(sw, p),
                     !.in_flight = st.in_flight \cup Range(picks)] \in PeerState
      BY <1>1, <1>6 DEF PeerState
    <2>3. np \in [DOMAIN acc.sw.peers -> PeerState]
      BY <2>1, <2>2
    <2> QED BY <2>1, <2>3 DEF Tables
  <1>8. /\ r.sw \in SwarmType
        /\ r.sw.peers = np
        /\ r.sw.manifest = acc.sw.manifest /\ r.sw.pieces = acc.sw.pieces
        /\ r.sw.availability = acc.sw.availability /\ r.sw.complete = acc.sw.complete
    <2>1. r.sw = [acc.sw EXCEPT !.peers = np]
      BY <1>1, <1>5 DEF SwarmType
    <2> HIDE DEF np
    <2> QED BY <1>1, <1>7, <2>1 DEF SwarmType
  <1>9. /\ DOMAIN r.sw.peers = DOMAIN sw.peers
        /\ \A q \in DOMAIN sw.peers : q # p => r.sw.peers[q] = acc.sw.peers[q]
        /\ r.sw.peers[p].have = sw.peers[p].have
        /\ r.sw.peers[p].chokes_us = sw.peers[p].chokes_us
        /\ r.sw.peers[p].we_interested = wants(sw, p)
        /\ r.sw.peers[p].in_flight = sw.peers[p].in_flight \cup Range(picks)
    BY <1>1, <1>8 DEF Turned, PeerState
  <1> HIDE DEF np
  <1>10. /\ \A q \in D : nk[q] = pk[q]
         /\ nk[p] = picks
    OBVIOUS
  <1> HIDE DEF nk
  <1>11. UNION {Range(nk[q]) : q \in E} =
            (UNION {Range(pk[q]) : q \in D}) \cup Range(picks)
    BY <1>10
  <1>12. note(sw, p, picks) \in Seq(Asks)
    BY <1>3, NoteType
  <1>13. /\ r.out \in [Peers -> Seq(Asks)]
         /\ \A q \in Peers \ E : r.out[q] = <<>>
         /\ \A q \in E : r.out[q] = note(sw, q, nk[q])
    <2>1. E \subseteq Peers
      BY TableShape
    <2> QED BY <1>1, <1>5, <1>10, <1>12, <2>1 DEF Turned
  <1>14. r.booked = booked_with(sw) \cup UNION {Range(nk[q]) : q \in E}
    BY <1>5, <1>11 DEF Turned
  <1>15. wanted(sw, p, acc.booked) =
            wanted(sw, p, booked_with(sw)) \ UNION {Range(pk[q]) : q \in D}
    BY DEF Turned, wanted
  <1>16. ASSUME NEW q \in E
         PROVE  /\ nk[q] \in Seq(Pieces)
                /\ Range(nk[q]) \subseteq wanted(sw, q, booked_with(sw))
                /\ \A j, k \in DOMAIN nk[q] : nk[q][j] = nk[q][k] => j = k
                /\ sw.peers[q].chokes_us => nk[q] = <<>>
    <2>1. CASE q = p
      BY <1>3, <1>10, <1>15, <2>1
    <2>2. CASE q \in D
      BY <1>10, <2>2 DEF Turned
    <2> QED BY <2>1, <2>2
  <1>17. ASSUME NEW q \in E, ~sw.peers[q].chokes_us, nk[q] = <<>>,
                Cardinality(sw.peers[q].in_flight) < limits.max_in_flight
         PROVE  wanted(sw, q, booked_with(sw)) \subseteq UNION {Range(nk[x]) : x \in E}
    <2>1. CASE q = p
      <3>1. wanted(sw, p, acc.booked) = {}
        BY <1>3, <1>10, <1>17, <2>1
      <3> QED BY <1>11, <1>15, <2>1, <3>1
    <2>2. CASE q \in D
      <3>1. pk[q] = <<>>
        BY <1>10, <1>17, <2>2
      <3>2. wanted(sw, q, booked_with(sw)) \subseteq UNION {Range(pk[x]) : x \in D}
        BY <1>17, <2>2, <3>1 DEF Turned
      <3> QED BY <1>11, <3>2
    <2> QED BY <2>1, <2>2
  <1>18. ASSUME NEW x \in E, NEW y \in E, x # y
         PROVE  Range(nk[x]) \cap Range(nk[y]) = {}
    <2>1. \A z \in D : Range(picks) \cap Range(pk[z]) = {}
      BY <1>3, <1>15
    <2>2. CASE x \in D /\ y \in D
      BY <1>10, <1>18, <2>2 DEF Turned
    <2>3. CASE x = p
      BY <1>10, <1>18, <2>1, <2>3
    <2>4. CASE y = p
      BY <1>10, <1>18, <2>1, <2>4
    <2> QED BY <2>2, <2>3, <2>4
  <1>19. /\ \A q \in DOMAIN sw.peers :
              /\ r.sw.peers[q].have = sw.peers[q].have
              /\ r.sw.peers[q].chokes_us = sw.peers[q].chokes_us
         /\ \A q \in DOMAIN sw.peers \ E : r.sw.peers[q] = sw.peers[q]
         /\ \A q \in E :
              /\ r.sw.peers[q].we_interested = wants(sw, q)
              /\ r.sw.peers[q].in_flight = sw.peers[q].in_flight \cup Range(nk[q])
    BY <1>9, <1>10 DEF Turned
  <1>20. /\ r.drop = "no" /\ r.sw.manifest = sw.manifest /\ r.sw.pieces = sw.pieces
         /\ r.sw.availability = sw.availability /\ r.sw.complete = sw.complete
    BY <1>5, <1>8 DEF Turned
  <1> HIDE DEF E
  <1>21. Turned(sw, r, E, nk)
    BY <1>8, <1>9, <1>13, <1>14, <1>16, <1>17, <1>18, <1>19, <1>20 DEF Turned
  <1> QED BY <1>21 DEF E, r
\* schedule leaves the swarm as it is, or gives every peer its turn.
LEMMA Schedules ==
    ASSUME world \in WorldType, NEW sw \in SwarmType
    PROVE  \/ /\ sw.manifest = "none" \/ sw.complete
              /\ schedule(sw).sw = sw /\ schedule(sw).out = idle
              /\ schedule(sw).drop = "no"
           \/ /\ sw.manifest # "none" /\ ~sw.complete
              /\ \E pk : Turned(sw, schedule(sw), DOMAIN sw.peers, pk)
  <1> DEFINE start == [sw |-> sw, booked |-> booked_with(sw), out |-> idle, drop |-> "no"]
             D == DOMAIN sw.peers
             s == inOrder(D, ById)
             n == Cardinality(D)
  <1>1. CASE sw.manifest = "none" \/ sw.complete
    BY <1>1 DEF schedule
  <1>2. CASE ~(sw.manifest = "none" \/ sw.complete)
    <2>1. schedule(sw) = turns(start, s)
      BY <1>2 DEF schedule, turns
    <2>2. D \in SUBSET Peers /\ IsFiniteSet(D)
      BY TableShape
    <2>3. /\ n \in Nat /\ s \in [1 .. n -> D]
          /\ \A j, k \in 1 .. n : s[j] = s[k] => j = k
          /\ \A x \in D : \E k \in 1 .. n : s[k] = x
      BY <2>2, ByIdOrders, ListedOnce
    <2> HIDE DEF s, n, start
    <2>4. PICK h : /\ h[0] = start
                   /\ \A k \in 1 .. n : h[k] = visit(h[k - 1], s[k])
                   /\ turns(start, s) = h[n]
      <3>1. n \in Nat /\ DOMAIN s = 1 .. n
        BY <2>3
      <3> QED BY <3>1, FoldTrace
    <2> DEFINE seen(k) == {s[j] : j \in 1 .. k}
               good == {k \in Nat : k <= n => \E pk : Turned(sw, h[k], seen(k), pk)}
    <2>5. 0 \in good
      <3>1. Turned(sw, start, {}, [q \in {} |-> <<>>])
        <4>1. idle \in [Peers -> Seq(Asks)] /\ \A p \in Peers : idle[p] = <<>>
          BY DEF idle
        <4>2. UNION {Range([q \in {} |-> <<>>][p]) : p \in {}} = {}
          OBVIOUS
        <4> QED BY <4>1, <4>2 DEF Turned, start
      <3>2. seen(0) = {}
        OBVIOUS
      <3> QED BY <2>4, <3>1, <3>2
    <2>6. ASSUME NEW k \in good PROVE k + 1 \in good
      <3> SUFFICES ASSUME k + 1 <= n
                   PROVE  \E pk : Turned(sw, h[k + 1], seen(k + 1), pk)
        OBVIOUS
      <3>0. k \in Nat /\ k + 1 \in 1 .. n /\ k <= n /\ (k + 1) - 1 = k
        BY <2>3
      <3>1. PICK pk : Turned(sw, h[k], seen(k), pk)
        BY <3>0
      <3>2. h[k + 1] = visit(h[k], s[k + 1])
        BY <2>4, <3>0
      <3>3. s[k + 1] \in D /\ seen(k) \in SUBSET D /\ s[k + 1] \notin seen(k)
        BY <2>3, <3>0
      <3>4. seen(k + 1) = seen(k) \cup {s[k + 1]}
        BY <3>0
      <3> HIDE DEF seen, D
      <3>5. \E nk : Turned(sw, visit(h[k], s[k + 1]), seen(k) \cup {s[k + 1]}, nk)
        BY <3>1, <3>3, VisitTurns DEF D
      <3> QED BY <3>2, <3>4, <3>5
    <2>7. good = Nat
      <3> HIDE DEF good
      <3>1. good \subseteq Nat
        BY DEF good
      <3> QED BY <2>5, <2>6, <3>1, EveryNatural
    <2>8. seen(n) = D
      <3> HIDE DEF D
      <3> QED BY <2>3
    <2>9. \E pk : Turned(sw, h[n], seen(n), pk)
      <3>1. n \in good
        <4> HIDE DEF good
        <4> QED BY <2>3, <2>7
      <3>2. n <= n
        BY <2>3
      <3> QED BY <3>1, <3>2
    <2> QED BY <1>2, <2>1, <2>4, <2>8, <2>9
  <1> QED BY <1>1, <1>2
-----------------------------------------------------------------------------
(* What a leech knows, and what a message changes.                          *)

Holders(sw, i) == {p \in DOMAIN sw.peers : i \in sw.peers[p].have}

Counted(sw) ==
    \A i \in Pieces : sw.availability[i] = Cardinality(Holders(sw, i))

\* A leech asks for what it misses and the peer has, of a peer that lets it; and
\* it was interested because the peer had something.
Booked(sw) ==
    \A p \in DOMAIN sw.peers :
        /\ sw.peers[p].in_flight \subseteq missing(sw) \cap sw.peers[p].have
        /\ sw.peers[p].chokes_us => sw.peers[p].in_flight = {}
        /\ sw.peers[p].we_interested => sw.peers[p].have # {}

\* Before the endgame no piece is asked of two peers.
Apart(sw) ==
    Cardinality(missing(sw)) > limits.endgame_at =>
        \A p, q \in DOMAIN sw.peers :
            p # q => sw.peers[p].in_flight \cap sw.peers[q].in_flight = {}

\* An answer of the state machine that changes only what it asks of the peers.
Kept(sw, r) ==
    /\ r.sw \in SwarmType /\ DOMAIN r.sw.peers = DOMAIN sw.peers
    /\ r.sw.manifest = sw.manifest /\ r.sw.pieces = sw.pieces
    /\ r.sw.availability = sw.availability /\ r.sw.complete = sw.complete
    /\ \A p \in DOMAIN sw.peers :
            /\ r.sw.peers[p].have = sw.peers[p].have
            /\ r.sw.peers[p].chokes_us = sw.peers[p].chokes_us
    /\ r.out \in [Peers -> Seq(Asks)]
    /\ \A p \in Peers \ DOMAIN sw.peers : r.out[p] = <<>>
    /\ \A p \in DOMAIN sw.peers :
            /\ sw.peers[p].in_flight \subseteq r.sw.peers[p].in_flight
            /\ \A i \in Pieces : Request(i) \in Range(r.out[p]) <=>
                    i \in r.sw.peers[p].in_flight \ sw.peers[p].in_flight
            /\ \A j, k \in DOMAIN r.out[p] : r.out[p][j] = r.out[p][k] => j = k
            /\ r.sw.peers[p].we_interested # sw.peers[p].we_interested =>
                    Interested(r.sw.peers[p].we_interested) \in Range(r.out[p])
    /\ Apart(sw) => Apart(r.sw)
    /\ Booked(sw) =>
        /\ Booked(r.sw)
        /\ \A p \in DOMAIN sw.peers : Interested(FALSE) \in Range(r.out[p]) =>
                sw.peers[p].have # {} /\ ~wants(sw, p)

LEMMA AsksDiffer ==
    /\ \A i, b : Request(i) # Interested(b)
    /\ \A i, j : Request(i) = Request(j) => i = j
    /\ \A b, d : Interested(b) = Interested(d) => b = d
  <1>1. \A i, b : Request(i).type = "request" /\ Interested(b).type = "interested"
    BY DEF Request, Interested
  <1>2. \A i : Request(i).index = i
    BY DEF Request
  <1>3. \A b : Interested(b).yes = b
    BY DEF Interested
  <1>4. "request" # "interested"
    OBVIOUS
  <1> HIDE DEF Request, Interested
  <1>5. \A i, b : Request(i) # Interested(b)
    BY <1>1, <1>4, Zenon
  <1>6. \A i, j : Request(i) = Request(j) => i = j
    BY <1>2
  <1>7. \A b, d : Interested(b) = Interested(d) => b = d
    BY <1>3
  <1> QED BY <1>5, <1>6, <1>7

\* What is in a note.
LEMMA Noted ==
    ASSUME NEW sw \in SwarmType, NEW p \in DOMAIN sw.peers, NEW q \in Seq(Pieces),
           \A j, k \in DOMAIN q : q[j] = q[k] => j = k
    PROVE  /\ \A i \in Range(q) : Request(i) \in Range(note(sw, p, q))
           /\ wants(sw, p) # sw.peers[p].we_interested =>
                Interested(wants(sw, p)) \in Range(note(sw, p, q))
           /\ \A j, k \in DOMAIN note(sw, p, q) :
                note(sw, p, q)[j] = note(sw, p, q)[k] => j = k
           /\ \A m \in Range(note(sw, p, q)) :
                \/ \E i \in Range(q) : m = Request(i)
                \/ m = Interested(wants(sw, p)) /\ wants(sw, p) # sw.peers[p].we_interested
  <1> DEFINE h == IF wants(sw, p) = sw.peers[p].we_interested THEN <<>>
                  ELSE <<Interested(wants(sw, p))>>
             t == [k \in DOMAIN q |-> Request(q[k])]
             n == h \o t
  <1>1. Len(q) \in Nat /\ DOMAIN q = 1 .. Len(q)
    OBVIOUS
  <1>2. t \in Seq(Range(t)) /\ Len(t) = Len(q) /\ DOMAIN t = 1 .. Len(q)
        /\ \A k \in 1 .. Len(q) : t[k] = Request(q[k])
    BY <1>1 DEF Range
  <1>3. h \in Seq({Interested(wants(sw, p))}) /\ Len(h) \in Nat /\ Len(h) <= 1
        /\ (wants(sw, p) # sw.peers[p].we_interested => Len(h) = 1)
        /\ \A k \in 1 .. Len(h) : /\ h[k] = Interested(wants(sw, p))
                                  /\ wants(sw, p) # sw.peers[p].we_interested
    <2>1. CASE wants(sw, p) = sw.peers[p].we_interested
      <3>1. h = <<>>
        BY <2>1
      <3> HIDE DEF h
      <3> QED BY <2>1, <3>1
    <2>2. CASE wants(sw, p) # sw.peers[p].we_interested
      <3>1. h = <<Interested(wants(sw, p))>>
        BY <2>2
      <3> HIDE DEF h
      <3> QED BY <2>2, <3>1
    <2> QED BY <2>1, <2>2
  <1>4. note(sw, p, q) = n
    BY DEF note
  <1> HIDE DEF h, t
  <1>5. /\ DOMAIN n = 1 .. Len(h) + Len(q)
        /\ \A k \in 1 .. Len(h) : n[k] = h[k]
        /\ \A k \in 1 .. Len(q) : n[Len(h) + k] = t[k]
    <2> DEFINE S == Range(t) \cup {Interested(wants(sw, p))}
    <2>1. h \in Seq(S) /\ t \in Seq(S)
      BY <1>2, <1>3
    <2> HIDE DEF S
    <2>2. /\ DOMAIN n = 1 .. Len(h) + Len(t)
          /\ \A k \in 1 .. Len(h) + Len(t) :
                n[k] = IF k <= Len(h) THEN h[k] ELSE t[k - Len(h)]
      BY <2>1
    <2>3. Len(h) \in Nat /\ Len(t) \in Nat /\ Len(t) = Len(q)
      BY <1>1, <1>2, <1>3
    <2> HIDE DEF n
    <2>4. \A k \in 1 .. Len(h) : k \in 1 .. Len(h) + Len(t) /\ k <= Len(h)
      BY <2>3
    <2>5. \A k \in 1 .. Len(t) : /\ Len(h) + k \in 1 .. Len(h) + Len(t)
                                  /\ ~(Len(h) + k <= Len(h))
                                  /\ (Len(h) + k) - Len(h) = k
      BY <2>3
    <2> QED BY <2>2, <2>3, <2>4, <2>5
  <1> HIDE DEF n
  <1>6. ASSUME NEW i \in Range(q) PROVE Request(i) \in Range(n)
    <2>1. PICK k \in 1 .. Len(q) : q[k] = i
      BY <1>1 DEF Range
    <2>2. n[Len(h) + k] = Request(i) /\ Len(h) + k \in DOMAIN n
      BY <1>1, <1>2, <1>3, <1>5, <2>1
    <2> QED BY <2>2 DEF Range
  <1>7. ASSUME NEW m \in Range(n)
        PROVE  \/ \E i \in Range(q) : m = Request(i)
               \/ m = Interested(wants(sw, p)) /\ wants(sw, p) # sw.peers[p].we_interested
    <2>1. PICK k \in DOMAIN n : m = n[k]
      BY DEF Range
    <2>2. CASE k \in 1 .. Len(h)
      BY <1>3, <1>5, <2>1, <2>2
    <2>3. CASE k \notin 1 .. Len(h)
      <3>1. k - Len(h) \in 1 .. Len(q) /\ Len(h) + (k - Len(h)) = k
        BY <1>1, <1>3, <1>5, <2>1, <2>3
      <3>2. m = Request(q[k - Len(h)])
        BY <1>2, <1>5, <2>1, <3>1
      <3> QED BY <1>1, <3>1, <3>2 DEF Range
    <2> QED BY <2>2, <2>3
  <1>8. ASSUME wants(sw, p) # sw.peers[p].we_interested
        PROVE  Interested(wants(sw, p)) \in Range(n)
    <2>0. Len(h) = 1
      BY <1>3, <1>8
    <2>1. 1 \in 1 .. Len(h) /\ 1 \in DOMAIN n
      BY <1>1, <1>5, <2>0
    <2>2. n[1] = Interested(wants(sw, p))
      BY <1>3, <1>5, <2>1
    <2> QED BY <2>1, <2>2 DEF Range
  <1>9. ASSUME NEW j \in DOMAIN n, NEW k \in DOMAIN n, n[j] = n[k]
        PROVE  j = k
    <2>1. \A x \in DOMAIN n :
            \/ x = 1 /\ Len(h) = 1 /\ n[x] = Interested(wants(sw, p))
            \/ x - Len(h) \in DOMAIN q /\ n[x] = Request(q[x - Len(h)])
      <3> SUFFICES ASSUME NEW x \in DOMAIN n
                   PROVE  \/ x = 1 /\ Len(h) = 1 /\ n[x] = Interested(wants(sw, p))
                          \/ x - Len(h) \in DOMAIN q /\ n[x] = Request(q[x - Len(h)])
        OBVIOUS
      <3>1. CASE x \in 1 .. Len(h)
        BY <1>3, <1>5, <3>1
      <3>2. CASE x \notin 1 .. Len(h)
        <4>1. x - Len(h) \in 1 .. Len(q) /\ Len(h) + (x - Len(h)) = x
          BY <1>1, <1>3, <1>5, <3>2
        <4> QED BY <1>1, <1>2, <1>5, <4>1
      <3> QED BY <3>1, <3>2
    <2>2. j \in Int /\ k \in Int /\ Len(h) \in Int
      BY <1>1, <1>3, <1>5
    <2>3. CASE j - Len(h) \in DOMAIN q /\ n[j] = Request(q[j - Len(h)])
      <3>1. k - Len(h) \in DOMAIN q /\ n[k] = Request(q[k - Len(h)])
        BY <1>9, <2>1, <2>3, AsksDiffer
      <3>2. q[j - Len(h)] = q[k - Len(h)]
        BY <1>9, <2>3, <3>1, AsksDiffer
      <3>3. j - Len(h) = k - Len(h)
        BY <2>3, <3>1, <3>2
      <3> QED BY <2>2, <3>3
    <2>4. CASE j = 1 /\ Len(h) = 1 /\ n[j] = Interested(wants(sw, p))
      BY <1>9, <2>1, <2>4, AsksDiffer
    <2> QED BY <2>1, <2>3, <2>4
  <1> QED BY <1>4, <1>6, <1>7, <1>8, <1>9

LEMMA KeptAlone ==
    ASSUME NEW sw \in SwarmType, NEW r, r.sw = sw, r.out = idle
    PROVE  Kept(sw, r)
  <1>1. /\ idle \in [Peers -> Seq(Asks)] /\ DOMAIN sw.peers \subseteq Peers
        /\ \A p \in Peers : idle[p] = <<>> /\ Range(idle[p]) = {} /\ DOMAIN idle[p] = {}
    BY TableShape DEF idle, Range
  <1>2. /\ \A p \in DOMAIN sw.peers :
            /\ sw.peers[p].in_flight \subseteq r.sw.peers[p].in_flight
            /\ \A i \in Pieces : Request(i) \in Range(r.out[p]) <=>
                    i \in r.sw.peers[p].in_flight \ sw.peers[p].in_flight
            /\ \A j, k \in DOMAIN r.out[p] : r.out[p][j] = r.out[p][k] => j = k
            /\ r.sw.peers[p].we_interested # sw.peers[p].we_interested =>
                    Interested(r.sw.peers[p].we_interested) \in Range(r.out[p])
    BY <1>1
  <1>3. Booked(sw) =>
        /\ Booked(r.sw)
        /\ \A p \in DOMAIN sw.peers : Interested(FALSE) \in Range(r.out[p]) =>
                sw.peers[p].have # {} /\ ~wants(sw, p)
    BY <1>1
  <1> QED BY <1>1, <1>2, <1>3 DEF Kept

LEMMA KeptBySchedule ==
    ASSUME world \in WorldType, NEW sw \in SwarmType
    PROVE  Kept(sw, schedule(sw)) /\ schedule(sw).drop = "no"
  <1> DEFINE r == schedule(sw)
             D == DOMAIN sw.peers
  <1>i. idle \in [Peers -> Seq(Asks)] /\ (\A p \in Peers : idle[p] = <<>>)
        /\ Range(<<>>) = {}
    BY DEF idle, Range
  <1>d. D \subseteq Peers
    BY TableShape
  <1>1. CASE r.sw = sw /\ r.out = idle /\ r.drop = "no"
    BY <1>1, KeptAlone
  <1>2. CASE \E pk : Turned(sw, r, D, pk)
    <2>1. PICK pk : Turned(sw, r, D, pk)
      BY <1>2
    <2>2. /\ r.sw \in SwarmType /\ DOMAIN r.sw.peers = D /\ r.drop = "no"
          /\ r.sw.manifest = sw.manifest /\ r.sw.pieces = sw.pieces
          /\ r.sw.availability = sw.availability /\ r.sw.complete = sw.complete
          /\ r.out \in [Peers -> Seq(Asks)]
          /\ \A p \in Peers \ D : r.out[p] = <<>>
      BY <2>1 DEF Turned
    <2>3. ASSUME NEW p \in D
          PROVE  /\ r.sw.peers[p].have = sw.peers[p].have
                 /\ r.sw.peers[p].chokes_us = sw.peers[p].chokes_us
                 /\ r.sw.peers[p].we_interested = wants(sw, p)
                 /\ r.sw.peers[p].in_flight = sw.peers[p].in_flight \cup Range(pk[p])
                 /\ r.out[p] = note(sw, p, pk[p])
                 /\ pk[p] \in Seq(Pieces)
                 /\ \A j, k \in DOMAIN pk[p] : pk[p][j] = pk[p][k] => j = k
                 /\ Range(pk[p]) \subseteq missing(sw) \cap sw.peers[p].have
                 /\ Range(pk[p]) \cap sw.peers[p].in_flight = {}
                 /\ Range(pk[p]) \cap booked_with(sw) = {}
                 /\ sw.peers[p].chokes_us => Range(pk[p]) = {}
      BY <2>1, <1>i DEF Turned, wanted
    <2>4. missing(r.sw) = missing(sw)
      BY <2>2 DEF missing
    <2> HIDE DEF r, D
    <2>n. ASSUME NEW p \in D
          PROVE  /\ \A i \in Range(pk[p]) : Request(i) \in Range(r.out[p])
                 /\ wants(sw, p) # sw.peers[p].we_interested =>
                        Interested(wants(sw, p)) \in Range(r.out[p])
                 /\ \A j, k \in DOMAIN r.out[p] : r.out[p][j] = r.out[p][k] => j = k
                 /\ \A m \in Range(r.out[p]) :
                        \/ \E i \in Range(pk[p]) : m = Request(i)
                        \/ /\ m = Interested(wants(sw, p))
                           /\ wants(sw, p) # sw.peers[p].we_interested
      <3>1. p \in DOMAIN sw.peers /\ r.out[p] = note(sw, p, pk[p])
            /\ pk[p] \in Seq(Pieces)
            /\ \A j, k \in DOMAIN pk[p] : pk[p][j] = pk[p][k] => j = k
        BY <2>3 DEF D
      <3>2. /\ \A i \in Range(pk[p]) : Request(i) \in Range(note(sw, p, pk[p]))
            /\ wants(sw, p) # sw.peers[p].we_interested =>
                        Interested(wants(sw, p)) \in Range(note(sw, p, pk[p]))
            /\ \A j, k \in DOMAIN note(sw, p, pk[p]) :
                    note(sw, p, pk[p])[j] = note(sw, p, pk[p])[k] => j = k
            /\ \A m \in Range(note(sw, p, pk[p])) :
                        \/ \E i \in Range(pk[p]) : m = Request(i)
                        \/ /\ m = Interested(wants(sw, p))
                           /\ wants(sw, p) # sw.peers[p].we_interested
        BY <3>1, Noted, Zenon
      <3> QED BY <3>1, <3>2, Zenon
    <2>5. ASSUME NEW p \in D
          PROVE  /\ sw.peers[p].in_flight \subseteq r.sw.peers[p].in_flight
                 /\ \A i \in Pieces : Request(i) \in Range(r.out[p]) <=>
                        i \in r.sw.peers[p].in_flight \ sw.peers[p].in_flight
                 /\ r.sw.peers[p].we_interested # sw.peers[p].we_interested =>
                        Interested(r.sw.peers[p].we_interested) \in Range(r.out[p])
      <3>1. r.sw.peers[p].in_flight = sw.peers[p].in_flight \cup Range(pk[p])
            /\ Range(pk[p]) \cap sw.peers[p].in_flight = {}
        BY <2>3
      <3>2. ASSUME NEW i \in Pieces, Request(i) \in Range(r.out[p])
            PROVE  i \in Range(pk[p])
        BY <2>n, <3>2, AsksDiffer
      <3> QED BY <2>3, <2>n, <3>1, <3>2
    <2>8. ASSUME Apart(sw) PROVE Apart(r.sw)
      <3> SUFFICES ASSUME Cardinality(missing(sw)) > limits.endgame_at,
                          NEW p \in D, NEW q \in D, p # q
                   PROVE  r.sw.peers[p].in_flight \cap r.sw.peers[q].in_flight = {}
        BY <2>2, <2>4 DEF Apart
      <3>0. limits.endgame_at \in Nat /\ Cardinality(missing(sw)) \in Nat
        <4>1. IsFiniteSet(missing(sw))
          BY SwarmAssumption, FS_Subset DEF missing
        <4> QED BY <4>1, LimitsType, FS_CardinalityType
      <3>1. sw.peers[p].in_flight \cap sw.peers[q].in_flight = {}
        BY <2>8 DEF Apart, D
      <3>2. booked_with(sw) = UNION {sw.peers[x].in_flight : x \in D}
        BY <3>0 DEF booked_with, D
      <3>3. \A x, y \in D : Range(pk[x]) \cap sw.peers[y].in_flight = {}
        BY <2>3, <3>2
      <3>4. Range(pk[p]) \cap Range(pk[q]) = {}
        BY <2>1 DEF Turned
      <3> QED BY <2>3, <3>1, <3>3, <3>4
    <2>6. ASSUME Booked(sw) PROVE Booked(r.sw)
      <3> SUFFICES ASSUME NEW p \in D
                   PROVE  /\ r.sw.peers[p].in_flight \subseteq
                                missing(r.sw) \cap r.sw.peers[p].have
                          /\ r.sw.peers[p].chokes_us => r.sw.peers[p].in_flight = {}
                          /\ r.sw.peers[p].we_interested => r.sw.peers[p].have # {}
        BY <2>2 DEF Booked
      <3>1. /\ sw.peers[p].in_flight \subseteq missing(sw) \cap sw.peers[p].have
            /\ sw.peers[p].chokes_us => sw.peers[p].in_flight = {}
        BY <2>6 DEF Booked, D
      <3> QED BY <2>3, <2>4, <3>1 DEF wants
    <2>7. ASSUME Booked(sw), NEW p \in D, Interested(FALSE) \in Range(r.out[p])
          PROVE  sw.peers[p].have # {} /\ ~wants(sw, p)
      <3>1. \/ \E i \in Range(pk[p]) : Interested(FALSE) = Request(i)
            \/ /\ Interested(FALSE) = Interested(wants(sw, p))
               /\ wants(sw, p) # sw.peers[p].we_interested
        BY <2>7, <2>n
      <3>2. wants(sw, p) = FALSE /\ wants(sw, p) # sw.peers[p].we_interested
        BY <3>1, AsksDiffer
      <3>3. sw.peers[p].we_interested
        BY <3>2, PeerShape DEF D
      <3> QED BY <2>7, <3>2, <3>3 DEF Booked, D
    <2> QED BY <2>2, <2>3, <2>n, <2>5, <2>6, <2>7, <2>8 DEF Kept, r, D
  <1> QED BY <1>1, <1>2, Schedules

LEMMA KeptBySaying ==
    ASSUME NEW sw \in SwarmType, NEW v
    PROVE  Kept(sw, says(sw, v)) /\ says(sw, v).drop = v
  <1>1. says(sw, v).sw = sw /\ says(sw, v).out = idle /\ says(sw, v).drop = v
    BY DEF says
  <1> QED BY <1>1, KeptAlone
-----------------------------------------------------------------------------
(* A leech hears a message.                                                 *)

\* What a peer says to a leech.
Answers ==
    [type : {"manifest"}, of : Manifests \ {"absent"}]
        \cup [type : {"bitfield"}, field : SUBSET Pieces]
        \cup [type : {"have"}, index : Pieces]
        \cup [type : {"choke"}, yes : BOOLEAN]
        \cup [type : {"piece"}, index : Pieces, bytes : {"good", "junk"}]

\* The last piece completes a leech.
Finished(sw) == sw.complete <=> missing(sw) = {}

\* Everything a leech's swarm keeps to.
Sound(sw) == sw \in SwarmType /\ Counted(sw) /\ Booked(sw) /\ Apart(sw) /\ Finished(sw)

\* The swarm that took in a message, before it asks for anything.
Heard(sw, p, m, s) ==
    /\ Sound(s) /\ DOMAIN s.peers = DOMAIN sw.peers
    /\ missing(s) \subseteq missing(sw)
    /\ \A q \in DOMAIN sw.peers :
        /\ s.peers[q].have =
             IF q # p THEN sw.peers[q].have
             ELSE IF m.type = "bitfield" THEN m.field
             ELSE IF m.type = "have" THEN sw.peers[q].have \cup {m.index}
             ELSE sw.peers[q].have
        /\ s.peers[q].chokes_us =
             IF q = p /\ m.type = "choke" THEN m.yes ELSE sw.peers[q].chokes_us
        /\ s.peers[q].we_interested = sw.peers[q].we_interested
        /\ s.peers[q].in_flight \subseteq sw.peers[q].in_flight
        /\ \A i \in sw.peers[q].in_flight \ s.peers[q].in_flight :
             \/ m.type = "piece" /\ i = m.index /\ (q = p \/ i \notin missing(s))
             \/ m.type = "choke" /\ m.yes /\ q = p
    /\ m.type = "piece" => m.index \notin s.peers[p].in_flight
    /\ \A i \in Pieces :
        \/ s.pieces[i] = sw.pieces[i]
        \/ /\ m.type = "piece" /\ i = m.index /\ s.pieces[i] = m.bytes
           /\ verify_piece(sw, m.bytes)
    /\ \/ s.manifest = sw.manifest
       \/ m.type = "manifest" /\ m.of # "other" /\ s.manifest = m.of
    /\ (m.type = "manifest" /\ m.of # "other") => s.manifest # "none"

\* When a peer is dropped for a message.
Dropped(sw, p, m, r) ==
    \/ m.type = "manifest" /\ m.of = "other"
    \/ m.type = "piece" /\ m.index \notin sw.peers[p].in_flight
    \/ m.type = "piece" /\ ~verify_piece(sw, m.bytes)

LEMMA HoldersWithout ==
    ASSUME NEW sw \in SwarmType, NEW p \in DOMAIN sw.peers, NEW i
    PROVE  /\ IsFiniteSet(Holders(sw, i)) /\ IsFiniteSet(Holders(sw, i) \ {p})
           /\ Cardinality(Holders(sw, i)) \in Nat
           /\ Cardinality(Holders(sw, i) \ {p}) \in Nat
           /\ Cardinality(Holders(sw, i)) = Cardinality(Holders(sw, i) \ {p})
                    + (IF i \in sw.peers[p].have THEN 1 ELSE 0)
  <1>1. IsFiniteSet(Holders(sw, i))
    BY TableShape, FS_Subset DEF Holders
  <1>2. IsFiniteSet(Holders(sw, i) \ {p})
    BY <1>1, FS_Subset
  <1>3. Cardinality(Holders(sw, i)) \in Nat /\ Cardinality(Holders(sw, i) \ {p}) \in Nat
    BY <1>1, <1>2, FS_CardinalityType
  <1>4. Cardinality(Holders(sw, i) \ {p}) =
            IF p \in Holders(sw, i) THEN Cardinality(Holders(sw, i)) - 1
            ELSE Cardinality(Holders(sw, i))
    BY <1>1, FS_RemoveElement
  <1>5. p \in Holders(sw, i) <=> i \in sw.peers[p].have
    BY DEF Holders
  <1> QED BY <1>1, <1>2, <1>3, <1>4, <1>5

LEMMA MaxWithZero ==
    ASSUME NEW x \in Int
    PROVE  Max({0, x}) = IF x >= 0 THEN x ELSE 0
  <1>1. \E y \in {0, x} : \A z \in {0, x} : y >= z
    OBVIOUS
  <1>2. Max({0, x}) \in {0, x} /\ \A z \in {0, x} : Max({0, x}) >= z
    BY <1>1 DEF Max
  <1> QED BY <1>2

\* One peer's pieces change from `old' to `new', and the index with them.
LEMMA Recounted ==
    ASSUME NEW sw \in SwarmType, Counted(sw), NEW p \in DOMAIN sw.peers,
           NEW s \in SwarmType, DOMAIN s.peers = DOMAIN sw.peers,
           \A q \in DOMAIN sw.peers : q # p => s.peers[q].have = sw.peers[q].have,
           \A i \in Pieces : s.availability[i] = sw.availability[i]
                + (IF i \in s.peers[p].have THEN 1 ELSE 0)
                - (IF i \in sw.peers[p].have THEN 1 ELSE 0)
    PROVE  Counted(s)
  <1> SUFFICES ASSUME NEW i \in Pieces
               PROVE  s.availability[i] = Cardinality(Holders(s, i))
    BY DEF Counted
  <1>1. Holders(s, i) \ {p} = Holders(sw, i) \ {p}
    BY DEF Holders
  <1>2. sw.availability[i] = Cardinality(Holders(sw, i))
    BY DEF Counted
  <1>3. Cardinality(Holders(sw, i)) = Cardinality(Holders(sw, i) \ {p})
                    + (IF i \in sw.peers[p].have THEN 1 ELSE 0)
        /\ Cardinality(Holders(sw, i) \ {p}) \in Nat
    BY HoldersWithout
  <1>4. Cardinality(Holders(s, i)) = Cardinality(Holders(s, i) \ {p})
                    + (IF i \in s.peers[p].have THEN 1 ELSE 0)
    BY HoldersWithout
  <1>5. Cardinality(Holders(s, i)) = Cardinality(Holders(sw, i) \ {p})
                    + (IF i \in s.peers[p].have THEN 1 ELSE 0)
    BY <1>1, <1>4
  <1> DEFINE rest == Cardinality(Holders(sw, i) \ {p})
             was == IF i \in sw.peers[p].have THEN 1 ELSE 0
             is == IF i \in s.peers[p].have THEN 1 ELSE 0
  <1>6. /\ rest \in Nat /\ was \in Nat /\ is \in Nat
        /\ Cardinality(Holders(s, i)) = rest + is
        /\ sw.availability[i] = rest + was
        /\ s.availability[i] = sw.availability[i] + is - was
    BY <1>2, <1>3, <1>5
  <1> HIDE DEF rest, was, is
  <1> QED BY <1>6

LEMMA SamePeersCounted ==
    ASSUME NEW sw, Counted(sw), NEW s, DOMAIN s.peers = DOMAIN sw.peers,
           \A q \in DOMAIN sw.peers : s.peers[q].have = sw.peers[q].have,
           s.availability = sw.availability
    PROVE  Counted(s)
  <1>1. \A i : Holders(s, i) = Holders(sw, i)
    BY DEF Holders
  <1> QED BY <1>1 DEF Counted

\* A peer's entry is replaced.
entered(sw, p, st, av) ==
    [sw EXCEPT !.peers = [sw.peers EXCEPT ![p] = st], !.availability = av]

LEMMA Entered ==
    ASSUME NEW sw \in SwarmType, NEW p \in DOMAIN sw.peers, NEW st \in PeerState,
           NEW av \in [Pieces -> Nat], NEW s, s = entered(sw, p, st, av)
    PROVE  /\ s \in SwarmType /\ DOMAIN s.peers = DOMAIN sw.peers
           /\ s.peers[p] = st
           /\ \A q \in DOMAIN sw.peers : q # p => s.peers[q] = sw.peers[q]
           /\ s.availability = av /\ s.manifest = sw.manifest /\ s.pieces = sw.pieces
           /\ s.complete = sw.complete /\ missing(s) = missing(sw)
  <1>1. /\ sw.peers \in [DOMAIN sw.peers -> PeerState]
        /\ DOMAIN sw.peers \in SUBSET Peers
    BY TableShape
  <1> DEFINE np == [sw.peers EXCEPT ![p] = st]
  <1>2. np \in [DOMAIN sw.peers -> PeerState]
    BY <1>1
  <1>3. np \in Tables
    BY <1>1, <1>2 DEF Tables
  <1>4. np[p] = st /\ \A q \in DOMAIN sw.peers : q # p => np[q] = sw.peers[q]
    BY <1>1
  <1>5. DOMAIN np = DOMAIN sw.peers
    BY <1>1
  <1> HIDE DEF np
  <1>6. s = [sw EXCEPT !.peers = np, !.availability = av]
    BY DEF np, entered
  <1>7. s \in SwarmType /\ s.peers = np /\ s.availability = av
        /\ s.manifest = sw.manifest /\ s.pieces = sw.pieces /\ s.complete = sw.complete
    BY <1>3, <1>6 DEF SwarmType
  <1> QED BY <1>4, <1>5, <1>7 DEF missing
LEMMA ApartShrinks ==
    ASSUME world \in WorldType, NEW sw \in SwarmType, Apart(sw), NEW s,
           DOMAIN s.peers = DOMAIN sw.peers, missing(s) \subseteq missing(sw),
           \A q \in DOMAIN sw.peers : s.peers[q].in_flight \subseteq sw.peers[q].in_flight
    PROVE  Apart(s)
  <1>1. IsFiniteSet(missing(sw))
    BY SwarmAssumption, FS_Subset DEF missing
  <1>2. /\ Cardinality(missing(s)) <= Cardinality(missing(sw))
        /\ Cardinality(missing(s)) \in Nat /\ Cardinality(missing(sw)) \in Nat
    BY <1>1, FS_Subset, FS_CardinalityType
  <1>3. limits.endgame_at \in Nat
    BY LimitsType
  <1> SUFFICES ASSUME Cardinality(missing(s)) > limits.endgame_at
               PROVE  \A p, q \in DOMAIN s.peers :
                        p # q => s.peers[p].in_flight \cap s.peers[q].in_flight = {}
    BY DEF Apart
  <1>4. Cardinality(missing(sw)) > limits.endgame_at
    BY <1>2, <1>3
  <1> QED BY <1>4 DEF Apart

\* A swarm that took nothing in is as it was.
LEMMA HeardNothing ==
    ASSUME NEW sw, Sound(sw), NEW p \in DOMAIN sw.peers, NEW m,
           \/ m.type = "manifest" /\ (m.of = "other" \/ sw.manifest # "none")
           \/ m.type = "piece" /\ m.index \notin sw.peers[p].in_flight
    PROVE  Heard(sw, p, m, sw)
  BY DEF Heard

LEMMA HeardManifest ==
    ASSUME world \in WorldType, NEW sw, Sound(sw), NEW p \in DOMAIN sw.peers,
           NEW m \in Answers, m.type = "manifest"
    PROVE  \E s : /\ Heard(sw, p, m, s) /\ Kept(s, on_message(sw, p, m))
                  /\ (on_message(sw, p, m).drop # "no" =>
                        Dropped(sw, p, m, on_message(sw, p, m)))
  <1> DEFINE r == on_message(sw, p, m)
             s == [sw EXCEPT !.manifest = m.of]
  <1>1. r = on_manifest(sw, m.of) /\ m.of \in {"true", "forged", "other"}
        /\ sw \in SwarmType
    BY DEF on_message, Answers, Manifests, Sound
  <1>2. CASE m.of = "other"
    <2>1. r = says(sw, "WrongManifest")
      BY <1>1, <1>2 DEF on_manifest
    <2> HIDE DEF r
    <2>2. Heard(sw, p, m, sw) /\ Kept(sw, r)
      BY <1>1, <1>2, <2>1, HeardNothing, KeptBySaying
    <2> QED BY <1>2, <2>2 DEF Dropped, r
  <1>3. CASE m.of # "other" /\ sw.manifest # "none"
    <2>1. r = says(sw, "no")
      BY <1>1, <1>3 DEF on_manifest
    <2> HIDE DEF r
    <2>2. Heard(sw, p, m, sw) /\ Kept(sw, r) /\ r.drop = "no"
      BY <1>1, <1>3, <2>1, HeardNothing, KeptBySaying
    <2> QED BY <2>2 DEF r
  <1>4. CASE m.of # "other" /\ sw.manifest = "none"
    <2>1. r = schedule(s)
      BY <1>1, <1>4 DEF on_manifest
    <2>2. /\ s \in SwarmType /\ s.manifest = m.of /\ s.pieces = sw.pieces
          /\ s.peers = sw.peers /\ s.availability = sw.availability
          /\ s.complete = sw.complete
      BY <1>1, <1>4 DEF SwarmType
    <2> HIDE DEF s, r
    <2>3. missing(s) = missing(sw)
      BY <2>2 DEF missing
    <2>4. Sound(s)
      <3>1. Counted(s)
        BY <2>2, SamePeersCounted DEF Sound
      <3> QED BY <2>2, <2>3, <3>1 DEF Sound, Booked, Apart, Finished
    <2>5. Heard(sw, p, m, s)
      BY <1>1, <1>4, <2>2, <2>3, <2>4 DEF Heard
    <2>6. Kept(s, r) /\ r.drop = "no"
      BY <2>1, <2>2, KeptBySchedule
    <2> QED BY <2>5, <2>6 DEF r
  <1> QED BY <1>2, <1>3, <1>4

LEMMA HeardBitfield ==
    ASSUME world \in WorldType, NEW sw, Sound(sw), NEW p \in DOMAIN sw.peers,
           NEW m \in Answers, m.type = "bitfield", sw.peers[p].have = {}
    PROVE  \E s : /\ Heard(sw, p, m, s) /\ Kept(s, on_message(sw, p, m))
                  /\ on_message(sw, p, m).drop = "no"
  <1> DEFINE r == on_message(sw, p, m)
             old == sw.peers[p].have
             st == [sw.peers[p] EXCEPT !.have = m.field]
             av == counted(counted(sw.availability, old, -1), m.field, 1)
             s == [sw EXCEPT !.peers = [sw.peers EXCEPT ![p] = st],
                             !.availability = av]
  <1>0. sw \in SwarmType /\ m.field \in SUBSET Pieces
    BY DEF Answers, Sound
  <1>1. sw.peers[p] \in PeerState /\ sw.availability \in [Pieces -> Nat]
    BY <1>0, PeerShape DEF SwarmType
  <1>2. r = schedule(s)
    <2>1. r = schedule([sw EXCEPT !.peers[p].have = m.field, !.availability = av])
      BY DEF on_message, on_bitfield
    <2>2. [sw EXCEPT !.peers[p].have = m.field, !.availability = av] = s
      BY <1>0, <1>1 DEF SwarmType
    <2> QED BY <2>1, <2>2
  <1>3. /\ st \in PeerState /\ st.have = m.field /\ st.chokes_us = sw.peers[p].chokes_us
        /\ st.we_interested = sw.peers[p].we_interested
        /\ st.in_flight = sw.peers[p].in_flight
    BY <1>0, <1>1 DEF PeerState
  <1>4. \A i \in Pieces : av[i] = sw.availability[i] + (IF i \in m.field THEN 1 ELSE 0)
    <2> SUFFICES ASSUME NEW i \in Pieces
                 PROVE  av[i] = sw.availability[i] + (IF i \in m.field THEN 1 ELSE 0)
      OBVIOUS
    <2>1. counted(sw.availability, old, -1)[i] = sw.availability[i]
      BY DEF counted
    <2>2. av[i] = IF i \in m.field THEN Max({0, sw.availability[i] + 1})
                  ELSE sw.availability[i]
      BY <2>1 DEF counted
    <2>3. sw.availability[i] \in Nat
      BY <1>1
    <2>4. Max({0, sw.availability[i] + 1}) = sw.availability[i] + 1
      BY <2>3, MaxWithZero
    <2> QED BY <2>2, <2>3, <2>4
  <1>5. av \in [Pieces -> Nat]
    <2>1. DOMAIN av = Pieces /\ av = [i \in Pieces |-> av[i]]
      BY DEF counted
    <2> HIDE DEF av
    <2>2. \A i \in Pieces : av[i] \in Nat
      BY <1>1, <1>4
    <2> QED BY <2>1, <2>2
  <1> HIDE DEF av, st, r
  <1>e. s = entered(sw, p, st, av)
    BY DEF entered
  <1> HIDE DEF s
  <1>6. /\ s \in SwarmType /\ DOMAIN s.peers = DOMAIN sw.peers
        /\ s.peers[p] = st
        /\ \A q \in DOMAIN sw.peers : q # p => s.peers[q] = sw.peers[q]
        /\ s.availability = av /\ s.manifest = sw.manifest /\ s.pieces = sw.pieces
        /\ s.complete = sw.complete /\ missing(s) = missing(sw)
    BY <1>0, <1>3, <1>5, <1>e, Entered
  <1>7. sw.peers[p].in_flight = {} /\ ~sw.peers[p].we_interested
    BY DEF Sound, Booked
  <1>8. Sound(s)
    <2>1. Counted(s)
      <3>1. \A i \in Pieces : s.availability[i] = sw.availability[i]
                + (IF i \in s.peers[p].have THEN 1 ELSE 0)
                - (IF i \in sw.peers[p].have THEN 1 ELSE 0)
        BY <1>1, <1>3, <1>4, <1>6
      <3>2. \A q \in DOMAIN sw.peers : q # p => s.peers[q].have = sw.peers[q].have
        BY <1>6
      <3>3. Counted(sw)
        BY DEF Sound
      <3> QED BY <1>0, <1>6, <3>1, <3>2, <3>3, Recounted
    <2>2. Booked(s)
      BY <1>3, <1>6, <1>7 DEF Sound, Booked
    <2>3. Apart(s)
      <3>1. \A q \in DOMAIN sw.peers : s.peers[q].in_flight \subseteq sw.peers[q].in_flight
        BY <1>3, <1>6
      <3> QED BY <1>0, <1>6, <3>1, ApartShrinks DEF Sound
    <2>4. Finished(s)
      BY <1>6 DEF Sound, Finished
    <2> QED BY <1>6, <2>1, <2>2, <2>3, <2>4 DEF Sound
  <1>9. Heard(sw, p, m, s)
    BY <1>3, <1>6, <1>8 DEF Heard
  <1>10. Kept(s, r) /\ r.drop = "no"
    BY <1>2, <1>6, KeptBySchedule
  <1> QED BY <1>9, <1>10 DEF r
LEMMA HeardHave ==
    ASSUME world \in WorldType, NEW sw, Sound(sw), NEW p \in DOMAIN sw.peers,
           NEW m \in Answers, m.type = "have"
    PROVE  \E s : /\ Heard(sw, p, m, s) /\ Kept(s, on_message(sw, p, m))
                  /\ on_message(sw, p, m).drop = "no"
  <1> DEFINE r == on_message(sw, p, m)
             i0 == m.index
             st == [sw.peers[p] EXCEPT !.have = sw.peers[p].have \cup {i0}]
             av == counted(sw.availability, {i0} \ sw.peers[p].have, 1)
             s == [sw EXCEPT !.peers = [sw.peers EXCEPT ![p] = st],
                             !.availability = av]
  <1>0. sw \in SwarmType /\ i0 \in Pieces
    BY DEF Answers, Sound
  <1>1. sw.peers[p] \in PeerState /\ sw.availability \in [Pieces -> Nat]
    BY <1>0, PeerShape DEF SwarmType
  <1>2. r = schedule(s)
    <2>1. r = schedule([sw EXCEPT !.peers[p].have = @ \cup {i0}, !.availability = av])
      BY DEF on_message, on_have
    <2>2. [sw EXCEPT !.peers[p].have = @ \cup {i0}, !.availability = av] = s
      BY <1>0, <1>1 DEF SwarmType
    <2> QED BY <2>1, <2>2
  <1>3. /\ st \in PeerState /\ st.have = sw.peers[p].have \cup {i0}
        /\ st.chokes_us = sw.peers[p].chokes_us
        /\ st.we_interested = sw.peers[p].we_interested
        /\ st.in_flight = sw.peers[p].in_flight
    BY <1>0, <1>1 DEF PeerState
  <1>4. \A i \in Pieces : av[i] = sw.availability[i]
            + (IF i \in {i0} \ sw.peers[p].have THEN 1 ELSE 0)
    <2> SUFFICES ASSUME NEW i \in Pieces
                 PROVE  av[i] = sw.availability[i]
                            + (IF i \in {i0} \ sw.peers[p].have THEN 1 ELSE 0)
      OBVIOUS
    <2>2. av[i] = IF i \in {i0} \ sw.peers[p].have THEN Max({0, sw.availability[i] + 1})
                  ELSE sw.availability[i]
      BY DEF counted
    <2>3. sw.availability[i] \in Nat
      BY <1>1
    <2>4. Max({0, sw.availability[i] + 1}) = sw.availability[i] + 1
      BY <2>3, MaxWithZero
    <2> HIDE DEF av
    <2> QED BY <2>2, <2>3, <2>4
  <1>5. av \in [Pieces -> Nat]
    <2>1. DOMAIN av = Pieces /\ av = [i \in Pieces |-> av[i]]
      BY DEF counted
    <2> HIDE DEF av
    <2>2. \A i \in Pieces : av[i] \in Nat
      BY <1>1, <1>4
    <2> QED BY <2>1, <2>2
  <1> HIDE DEF av, st, r
  <1>e. s = entered(sw, p, st, av)
    BY DEF entered
  <1> HIDE DEF s
  <1>6. /\ s \in SwarmType /\ DOMAIN s.peers = DOMAIN sw.peers
        /\ s.peers[p] = st
        /\ \A q \in DOMAIN sw.peers : q # p => s.peers[q] = sw.peers[q]
        /\ s.availability = av /\ s.manifest = sw.manifest /\ s.pieces = sw.pieces
        /\ s.complete = sw.complete /\ missing(s) = missing(sw)
    BY <1>0, <1>3, <1>5, <1>e, Entered
  <1>8. Sound(s)
    <2>1. Counted(s)
      <3>1. \A i \in Pieces : s.availability[i] = sw.availability[i]
                + (IF i \in s.peers[p].have THEN 1 ELSE 0)
                - (IF i \in sw.peers[p].have THEN 1 ELSE 0)
        BY <1>1, <1>3, <1>4, <1>6
      <3>2. \A q \in DOMAIN sw.peers : q # p => s.peers[q].have = sw.peers[q].have
        BY <1>6
      <3>3. Counted(sw)
        BY DEF Sound
      <3> QED BY <1>0, <1>6, <3>1, <3>2, <3>3, Recounted
    <2>2. Booked(s)
      BY <1>3, <1>6 DEF Sound, Booked
    <2>3. Apart(s)
      <3>1. \A q \in DOMAIN sw.peers : s.peers[q].in_flight \subseteq sw.peers[q].in_flight
        BY <1>3, <1>6
      <3> QED BY <1>0, <1>6, <3>1, ApartShrinks DEF Sound
    <2>4. Finished(s)
      BY <1>6 DEF Sound, Finished
    <2> QED BY <1>6, <2>1, <2>2, <2>3, <2>4 DEF Sound
  <1>9. Heard(sw, p, m, s)
    BY <1>3, <1>6, <1>8 DEF Heard
  <1>10. Kept(s, r) /\ r.drop = "no"
    BY <1>2, <1>6, KeptBySchedule
  <1> QED BY <1>9, <1>10 DEF r

LEMMA HeardChoke ==
    ASSUME world \in WorldType, NEW sw, Sound(sw), NEW p \in DOMAIN sw.peers,
           NEW m \in Answers, m.type = "choke"
    PROVE  \E s : /\ Heard(sw, p, m, s) /\ Kept(s, on_message(sw, p, m))
                  /\ on_message(sw, p, m).drop = "no"
  <1> DEFINE r == on_message(sw, p, m)
             st == [sw.peers[p] EXCEPT !.chokes_us = m.yes,
                        !.in_flight = IF m.yes THEN {} ELSE sw.peers[p].in_flight]
             av == sw.availability
             s == [sw EXCEPT !.peers = [sw.peers EXCEPT ![p] = st],
                             !.availability = av]
  <1>0. sw \in SwarmType /\ m.yes \in BOOLEAN
    BY DEF Answers, Sound
  <1>1. sw.peers[p] \in PeerState /\ sw.availability \in [Pieces -> Nat]
    BY <1>0, PeerShape DEF SwarmType
  <1>2. r = schedule(s)
    <2>1. r = schedule([sw EXCEPT !.peers[p].chokes_us = m.yes,
                          !.peers[p].in_flight = IF m.yes THEN {} ELSE @])
      BY DEF on_message, on_choke
    <2>2. [sw EXCEPT !.peers[p].chokes_us = m.yes,
                     !.peers[p].in_flight = IF m.yes THEN {} ELSE @] = s
      BY <1>0, <1>1 DEF SwarmType, PeerState
    <2> QED BY <2>1, <2>2
  <1>3. /\ st \in PeerState /\ st.have = sw.peers[p].have /\ st.chokes_us = m.yes
        /\ st.we_interested = sw.peers[p].we_interested
        /\ st.in_flight = IF m.yes THEN {} ELSE sw.peers[p].in_flight
    BY <1>0, <1>1 DEF PeerState
  <1> HIDE DEF st, r
  <1>e. s = entered(sw, p, st, av)
    BY DEF entered
  <1> HIDE DEF s
  <1>6. /\ s \in SwarmType /\ DOMAIN s.peers = DOMAIN sw.peers
        /\ s.peers[p] = st
        /\ \A q \in DOMAIN sw.peers : q # p => s.peers[q] = sw.peers[q]
        /\ s.availability = av /\ s.manifest = sw.manifest /\ s.pieces = sw.pieces
        /\ s.complete = sw.complete /\ missing(s) = missing(sw)
    BY <1>0, <1>1, <1>3, <1>e, Entered
  <1>7. \A q \in DOMAIN sw.peers : s.peers[q].in_flight \subseteq sw.peers[q].in_flight
    BY <1>3, <1>6
  <1>8. Sound(s)
    <2>1. Counted(s)
      BY <1>3, <1>6, SamePeersCounted DEF Sound
    <2>2. Booked(s)
      BY <1>3, <1>6 DEF Sound, Booked
    <2>3. Apart(s)
      BY <1>0, <1>6, <1>7, ApartShrinks DEF Sound
    <2>4. Finished(s)
      BY <1>6 DEF Sound, Finished
    <2> QED BY <1>6, <2>1, <2>2, <2>3, <2>4 DEF Sound
  <1>9. Heard(sw, p, m, s)
    BY <1>0, <1>3, <1>6, <1>7, <1>8 DEF Heard
  <1>10. Kept(s, r) /\ r.drop = "no"
    BY <1>2, <1>6, KeptBySchedule
  <1> QED BY <1>9, <1>10 DEF r
\* The swarm without one request, and with a piece in place of all requests for it.
spared(sw, p, i) == [sw EXCEPT !.peers[p] = released(@, i)]
holding(sw, i, bytes) ==
    [sw EXCEPT !.pieces[i] = bytes,
               !.peers = [q \in DOMAIN @ |-> released(@[q], i)]]
completed(sw) == [sw EXCEPT !.complete = TRUE]

LEMMA HeardBadPiece ==
    ASSUME world \in WorldType, NEW sw, Sound(sw), NEW p \in DOMAIN sw.peers,
           NEW m \in Answers, m.type = "piece", NEW s,
           s = spared(sw, p, m.index)
    PROVE  Heard(sw, p, m, s)
  <1> DEFINE st == released(sw.peers[p], m.index)
             av == sw.availability
  <1>0. sw \in SwarmType
    BY DEF Sound
  <1>1. sw.peers[p] \in PeerState /\ sw.availability \in [Pieces -> Nat]
    BY <1>0, PeerShape DEF SwarmType
  <1>3. /\ st \in PeerState /\ st.have = sw.peers[p].have
        /\ st.chokes_us = sw.peers[p].chokes_us
        /\ st.we_interested = sw.peers[p].we_interested
        /\ st.in_flight = sw.peers[p].in_flight \ {m.index}
    BY <1>0, <1>1 DEF PeerState, released
  <1> HIDE DEF st
  <1>e. s = entered(sw, p, st, av)
    BY <1>0, <1>1 DEF entered, SwarmType, spared, st
  <1> HIDE DEF st
  <1>6. /\ s \in SwarmType /\ DOMAIN s.peers = DOMAIN sw.peers
        /\ s.peers[p] = st
        /\ \A q \in DOMAIN sw.peers : q # p => s.peers[q] = sw.peers[q]
        /\ s.availability = av /\ s.manifest = sw.manifest /\ s.pieces = sw.pieces
        /\ s.complete = sw.complete /\ missing(s) = missing(sw)
    BY <1>0, <1>1, <1>3, <1>e, Entered
  <1>7. \A q \in DOMAIN sw.peers : s.peers[q].in_flight \subseteq sw.peers[q].in_flight
    BY <1>3, <1>6
  <1>8. Sound(s)
    <2>1. Counted(s)
      BY <1>3, <1>6, SamePeersCounted DEF Sound
    <2>2. Booked(s)
      BY <1>3, <1>6 DEF Sound, Booked
    <2>3. Apart(s)
      BY <1>0, <1>6, <1>7, ApartShrinks DEF Sound
    <2>4. Finished(s)
      BY <1>6 DEF Sound, Finished
    <2> QED BY <1>6, <2>1, <2>2, <2>3, <2>4 DEF Sound
  <1> QED BY <1>3, <1>6, <1>7, <1>8 DEF Heard

LEMMA HeardGoodPiece ==
    ASSUME world \in WorldType, NEW sw, Sound(sw), NEW p \in DOMAIN sw.peers,
           NEW m \in Answers, m.type = "piece", m.index \in sw.peers[p].in_flight,
           verify_piece(sw, m.bytes), NEW got, NEW s,
           got = holding(sw, m.index, m.bytes),
           s = IF missing(got) = {} THEN completed(got) ELSE got
    PROVE  Heard(sw, p, m, s)
  <1> DEFINE np == [q \in DOMAIN sw.peers |-> released(sw.peers[q], m.index)]
             nx == [sw.pieces EXCEPT ![m.index] = m.bytes]
  <1>0. sw \in SwarmType /\ m.index \in Pieces /\ m.bytes \in {"good", "junk"}
    BY DEF Answers, Sound
  <1>1. \A q \in DOMAIN sw.peers : sw.peers[q] \in PeerState
    BY <1>0, PeerShape
  <1>2. \A q \in DOMAIN sw.peers :
            /\ np[q] \in PeerState /\ np[q].have = sw.peers[q].have
            /\ np[q].chokes_us = sw.peers[q].chokes_us
            /\ np[q].we_interested = sw.peers[q].we_interested
            /\ np[q].in_flight = sw.peers[q].in_flight \ {m.index}
    BY <1>1 DEF PeerState, released
  <1>3. np \in Tables /\ DOMAIN np = DOMAIN sw.peers
    <2>1. DOMAIN sw.peers \in SUBSET Peers
      BY <1>0, TableShape
    <2>2. np \in [DOMAIN sw.peers -> PeerState]
      BY <1>2
    <2> QED BY <2>1, <2>2 DEF Tables
  <1>4. nx \in [Pieces -> {"none", "good", "junk"}] /\ nx[m.index] = m.bytes
        /\ \A i \in Pieces : i # m.index => nx[i] = sw.pieces[i]
    BY <1>0 DEF SwarmType
  <1>5. got = [sw EXCEPT !.pieces = nx, !.peers = np]
    BY DEF holding
  <1> HIDE DEF np, nx
  <1>6. /\ got \in SwarmType /\ got.pieces = nx /\ got.peers = np
        /\ got.manifest = sw.manifest /\ got.availability = sw.availability
        /\ got.complete = sw.complete
    BY <1>0, <1>3, <1>4, <1>5 DEF SwarmType
  <1>7. missing(got) = missing(sw) \ {m.index} /\ m.index \in missing(sw)
    <2>1. m.index \in missing(sw)
      BY DEF Sound, Booked
    <2> QED BY <1>0, <1>4, <1>6, <2>1 DEF missing
  <1>8. /\ s \in SwarmType /\ s.pieces = nx /\ s.peers = np
        /\ s.manifest = sw.manifest /\ s.availability = sw.availability
        /\ s.complete = (missing(got) = {})
    <2>1. ~sw.complete /\ sw.complete \in BOOLEAN
      BY <1>0, <1>7 DEF Sound, Finished, SwarmType
    <2>2. CASE missing(got) = {}
      <3>1. s = [got EXCEPT !.complete = TRUE]
        BY <2>2 DEF completed
      <3> QED BY <1>6, <2>2, <3>1 DEF SwarmType
    <2>3. CASE missing(got) # {}
      BY <1>6, <2>1, <2>3
    <2> QED BY <2>2, <2>3
  <1>9. missing(s) = missing(got)
    BY <1>6, <1>8 DEF missing
  <1>10. \A q \in DOMAIN sw.peers : s.peers[q].in_flight \subseteq sw.peers[q].in_flight
    BY <1>2, <1>8
  <1>11. Sound(s)
    <2>1. Counted(s)
      BY <1>2, <1>3, <1>8, SamePeersCounted DEF Sound
    <2>2. Booked(s)
      BY <1>2, <1>3, <1>7, <1>8, <1>9 DEF Sound, Booked
    <2>3. Apart(s)
      BY <1>0, <1>3, <1>7, <1>8, <1>9, <1>10, ApartShrinks DEF Sound
    <2>4. Finished(s)
      BY <1>8, <1>9 DEF Finished
    <2> QED BY <1>8, <2>1, <2>2, <2>3, <2>4 DEF Sound
  <1>12. \A i \in Pieces :
            \/ s.pieces[i] = sw.pieces[i]
            \/ /\ m.type = "piece" /\ i = m.index /\ s.pieces[i] = m.bytes
               /\ verify_piece(sw, m.bytes)
    BY <1>4, <1>8
  <1>13. \A q \in DOMAIN sw.peers :
            /\ s.peers[q].have = sw.peers[q].have
            /\ s.peers[q].chokes_us = sw.peers[q].chokes_us
            /\ s.peers[q].we_interested = sw.peers[q].we_interested
            /\ s.peers[q].in_flight \subseteq sw.peers[q].in_flight
            /\ \A i \in sw.peers[q].in_flight \ s.peers[q].in_flight :
                  m.type = "piece" /\ i = m.index /\ i \notin missing(s)
    BY <1>2, <1>7, <1>8, <1>9
  <1>14. m.index \notin s.peers[p].in_flight
    BY <1>2, <1>8
  <1>15. DOMAIN s.peers = DOMAIN sw.peers /\ missing(s) \subseteq missing(sw)
         /\ s.manifest = sw.manifest
    BY <1>3, <1>7, <1>8, <1>9
  <1> QED BY <1>11, <1>12, <1>13, <1>14, <1>15 DEF Heard

LEMMA HeardPiece ==
    ASSUME world \in WorldType, NEW sw, Sound(sw), NEW p \in DOMAIN sw.peers,
           NEW m \in Answers, m.type = "piece"
    PROVE  \E s : /\ Heard(sw, p, m, s) /\ Kept(s, on_message(sw, p, m))
                  /\ (on_message(sw, p, m).drop # "no" =>
                        Dropped(sw, p, m, on_message(sw, p, m)))
  <1> DEFINE r == on_message(sw, p, m)
             heard == spared(sw, p, m.index)
             got == holding(sw, m.index, m.bytes)
             done == completed(got)
  <1>1. r = IF m.index \notin sw.peers[p].in_flight THEN says(sw, "UnsolicitedPiece")
            ELSE IF sw.pieces[m.index] # "none" THEN schedule(heard)
            ELSE IF ~verify_piece(sw, m.bytes) THEN says(heard, "BadPiece")
            ELSE IF missing(got) = {} THEN says(done, "no")
            ELSE schedule(got)
    BY DEF on_message, on_piece, spared, holding, completed
  <1>h. heard = spared(sw, p, m.index) /\ got = holding(sw, m.index, m.bytes)
        /\ done = completed(got)
    OBVIOUS
  <1> HIDE DEF r, heard, got, done
  <1>2. CASE m.index \notin sw.peers[p].in_flight
    <2>1. r = says(sw, "UnsolicitedPiece")
      BY <1>1, <1>2
    <2>2. Heard(sw, p, m, sw) /\ Kept(sw, r)
      BY <1>2, <2>1, HeardNothing, KeptBySaying DEF Sound
    <2> QED BY <1>2, <2>2 DEF Dropped, r
  <1>3. CASE m.index \in sw.peers[p].in_flight /\ ~verify_piece(sw, m.bytes)
    <2>1. Heard(sw, p, m, heard)
      BY <1>h, HeardBadPiece
    <2>2. heard \in SwarmType
      BY <2>1 DEF Heard, Sound
    <2>3. Kept(heard, r)
      BY <1>1, <1>3, <2>2, KeptBySaying, KeptBySchedule
    <2> QED BY <1>3, <2>1, <2>3 DEF Dropped, r
  <1>4. CASE m.index \in sw.peers[p].in_flight /\ verify_piece(sw, m.bytes)
    <2>0. sw.pieces[m.index] = "none"
      BY <1>4 DEF Sound, Booked, missing
    <2>1. CASE missing(got) = {}
      <3>1. r = says(done, "no")
        BY <1>1, <1>4, <2>0, <2>1
      <3>2. Heard(sw, p, m, done)
        BY <1>4, <1>h, <2>1, HeardGoodPiece
      <3>3. Kept(done, r) /\ r.drop = "no"
        BY <3>1, <3>2, KeptBySaying DEF Heard, Sound
      <3> QED BY <3>2, <3>3 DEF r
    <2>2. CASE missing(got) # {}
      <3>1. r = schedule(got)
        BY <1>1, <1>4, <2>0, <2>2
      <3>2. Heard(sw, p, m, got)
        BY <1>4, <1>h, <2>2, HeardGoodPiece
      <3>3. Kept(got, r) /\ r.drop = "no"
        BY <3>1, <3>2, KeptBySchedule DEF Heard, Sound
      <3> QED BY <3>2, <3>3 DEF r
    <2> QED BY <2>1, <2>2
  <1> QED BY <1>2, <1>3, <1>4

\* Whatever a leech hears, it takes it in and then asks for pieces.
LEMMA Handled ==
    ASSUME world \in WorldType, NEW sw, Sound(sw), NEW p \in DOMAIN sw.peers,
           NEW m \in Answers, m.type = "bitfield" => sw.peers[p].have = {}
    PROVE  \E s : /\ Heard(sw, p, m, s) /\ Kept(s, on_message(sw, p, m))
                  /\ (on_message(sw, p, m).drop # "no" =>
                        Dropped(sw, p, m, on_message(sw, p, m)))
  <1>1. m.type \in {"manifest", "bitfield", "have", "choke", "piece"}
    BY DEF Answers
  <1> QED BY <1>1, HeardManifest, HeardBitfield, HeardHave, HeardChoke, HeardPiece
-----------------------------------------------------------------------------
(* The peer's state machine.                                                *)

SeedType ==
    [peers : SUBSET Leeches, older : SUBSET (Leeches \X Leeches),
     interested : SUBSET Leeches, unchoked : SUBSET Leeches, round : Nat]

\* A peer's table of connections, oldest first.
Tidy(sd) ==
    /\ sd \in SeedType
    /\ sd.interested \subseteq sd.peers /\ sd.unchoked \subseteq sd.peers
    /\ sd.older \subseteq sd.peers \X sd.peers /\ Orders(sd.older, sd.peers)

LEMMA MinOfTwo ==
    ASSUME NEW x \in Int, NEW y \in Int
    PROVE  Min({x, y}) \in Int /\ Min({x, y}) = IF x <= y THEN x ELSE y
  <1>1. \E z \in {x, y} : \A w \in {x, y} : z =< w
    OBVIOUS
  <1>2. Min({x, y}) \in {x, y} /\ \A w \in {x, y} : Min({x, y}) =< w
    BY <1>1 DEF Min
  <1> QED BY <1>2

\* Only who is interested is let in, and everybody where there are slots enough.
LEMMA Chosen ==
    ASSUME world \in WorldType, NEW sd, Tidy(sd)
    PROVE  /\ rechoke(sd) \subseteq sd.interested
           /\ Cardinality(sd.interested) <= limits.unchoke_slots =>
                rechoke(sd) = sd.interested
  <1> DEFINE S == sd.interested
             n == Cardinality(S)
             ranked == inOrder(S, sd.older)
             slots == limits.unchoke_slots
             kept == Min({slots - 1, Len(ranked)})
             hopefuls == SubSeq(ranked, kept + 1, Len(ranked))
             first == SubSeq(ranked, 1, kept)
             turn == (sd.round % Len(hopefuls)) + 1
  <1>1. IsFiniteSet(S) /\ sd.round \in Nat
    BY SwarmAssumption, FS_Subset DEF Tidy, SeedType
  <1>2. Orders(sd.older, S)
    BY DEF Tidy, Orders
  <1>3. /\ n \in Nat /\ ranked \in [1 .. n -> S]
        /\ \A x \in S : \E k \in 1 .. n : ranked[k] = x
    BY <1>1, <1>2, ListedOnce
  <1>4. slots \in Nat \ {0}
    BY LimitsType
  <1>5. rechoke(sd) = Range(first) \cup (IF hopefuls = <<>> THEN {} ELSE {hopefuls[turn]})
    BY DEF rechoke
  <1> HIDE DEF S, n, ranked, slots
  <1>6. ranked \in Seq(S) /\ Len(ranked) = n
    BY <1>3
  <1>7. kept \in Nat /\ kept = IF slots - 1 <= n THEN slots - 1 ELSE n
    BY <1>3, <1>4, <1>6, MinOfTwo
  <1> HIDE DEF kept
  <1>8. kept \in 0 .. n
    BY <1>3, <1>4, <1>7
  <1>9. first = [k \in 1 .. kept |-> ranked[k]]
    <2>1. first = [k \in 1 .. (1 + kept) - 1 |-> ranked[(1 + k) - 1]]
      BY <1>7 DEF SubSeq
    <2> QED BY <1>7, <2>1
  <1>10. hopefuls = [k \in 1 .. n - kept |-> ranked[kept + k]]
    <2>1. hopefuls = [k \in 1 .. (1 + n) - (kept + 1) |-> ranked[(k + (kept + 1)) - 1]]
      BY <1>3, <1>6, <1>7 DEF SubSeq
    <2>2. (1 + n) - (kept + 1) = n - kept
      BY <1>3, <1>7
    <2>3. \A k \in 1 .. n - kept : (k + (kept + 1)) - 1 = kept + k
      BY <1>3, <1>7
    <2> QED BY <2>1, <2>2, <2>3
  <1> HIDE DEF first, hopefuls
  <1>11. n - kept \in Nat /\ hopefuls \in Seq(S) /\ Len(hopefuls) = n - kept
    <2>1. n - kept \in Nat
      BY <1>3, <1>8
    <2>2. \A k \in 1 .. n - kept : ranked[kept + k] \in S
      BY <1>3, <1>8
    <2> QED BY <1>10, <2>1, <2>2
  <1>12. Range(first) = {ranked[k] : k \in 1 .. kept}
    BY <1>9 DEF Range
  <1>13. CASE hopefuls = <<>>
    <2>1. n = kept
      BY <1>3, <1>8, <1>11, <1>13
    <2> QED BY <1>3, <1>5, <1>12, <1>13, <2>1 DEF S
  <1>14. CASE hopefuls # <<>>
    <2>1. n - kept >= 1
      BY <1>11, <1>14
    <2>2. turn \in 1 .. n - kept
      <3>1. sd.round % (n - kept) \in 0 .. (n - kept) - 1
        BY <1>1, <1>11, <2>1
      <3> QED BY <1>11, <2>1, <3>1
    <2>3. hopefuls[turn] = ranked[kept + turn] /\ kept + turn \in 1 .. n
      BY <1>3, <1>8, <1>10, <2>2
    <2> HIDE DEF turn
    <2>4. rechoke(sd) \subseteq S
      BY <1>3, <1>5, <1>8, <1>12, <1>14, <2>3
    <2>5. ASSUME n <= slots PROVE S \subseteq rechoke(sd)
      <3>1. kept = n - 1 /\ turn = 1
        BY <1>3, <1>4, <1>7, <2>1, <2>2, <2>5
      <3>2. kept + turn = n
        BY <1>3, <3>1
      <3>3. rechoke(sd) = {ranked[k] : k \in 1 .. kept} \cup {ranked[n]}
        BY <1>5, <1>12, <1>14, <2>3, <3>2
      <3>4. \A k \in 1 .. n : k \in 1 .. kept \/ k = n
        BY <1>3, <3>1
      <3> QED BY <1>3, <3>3, <3>4
    <2> QED BY <2>4, <2>5 DEF S, n, slots
  <1> QED BY <1>13, <1>14

LEMMA Joins ==
    ASSUME NEW sd, Tidy(sd), NEW l \in Leeches, l \notin sd.peers
    PROVE  /\ Tidy(joined(sd, l)) /\ joined(sd, l).peers = sd.peers \cup {l}
           /\ joined(sd, l).interested = sd.interested
           /\ joined(sd, l).unchoked = sd.unchoked
  <1> DEFINE r == joined(sd, l)
             P == sd.peers
             R == sd.older
  <1>1. /\ r \in SeedType /\ r.peers = P \cup {l} /\ r.older = R \cup (P \X {l})
        /\ r.interested = sd.interested /\ r.unchoked = sd.unchoked
    BY DEF joined, Tidy, SeedType
  <1>2. Orders(R, P) /\ P \subseteq Leeches /\ R \subseteq P \X P
    BY DEF Tidy, SeedType
  <1>3. \A x, y \in P \cup {l} : <<x, y>> \in R \cup (P \X {l}) <=>
            \/ <<x, y>> \in R /\ x \in P /\ y \in P
            \/ x \in P /\ y = l
    BY <1>2
  <1>4. Orders(R \cup (P \X {l}), P \cup {l})
    <2> HIDE DEF P, R
    <2>0. l \notin P
      BY DEF P
    <2>1. \A x \in P \cup {l} : <<x, x>> \notin R \cup (P \X {l})
      BY <1>2, <1>3, <2>0 DEF Orders
    <2>2. \A x, y \in P \cup {l} :
            x = y \/ <<x, y>> \in R \cup (P \X {l}) \/ <<y, x>> \in R \cup (P \X {l})
      BY <1>2, <1>3 DEF Orders
    <2>3. ASSUME NEW x \in P \cup {l}, NEW y \in P \cup {l}, NEW z \in P \cup {l},
                 <<x, y>> \in R \cup (P \X {l}), <<y, z>> \in R \cup (P \X {l})
          PROVE  <<x, z>> \in R \cup (P \X {l})
      BY <1>2, <1>3, <2>0, <2>3 DEF Orders
    <2> QED BY <2>1, <2>2, <2>3 DEF Orders
  <1>5. R \cup (P \X {l}) \subseteq (P \cup {l}) \X (P \cup {l})
    BY <1>2
  <1>6. sd.interested \subseteq P \cup {l} /\ sd.unchoked \subseteq P \cup {l}
    BY DEF Tidy
  <1> HIDE DEF r, P, R
  <1>7. Tidy(r)
    BY <1>1, <1>4, <1>5, <1>6 DEF Tidy
  <1> QED BY <1>1, <1>7 DEF r, P

LEMMA Leaves ==
    ASSUME NEW sd, Tidy(sd), NEW l \in Leeches
    PROVE  /\ Tidy(without(sd, l)) /\ without(sd, l).peers = sd.peers \ {l}
           /\ without(sd, l).interested = sd.interested \ {l}
           /\ without(sd, l).unchoked = sd.unchoked \ {l}
  <1> DEFINE r == without(sd, l)
             R == {e \in sd.older : e[1] # l /\ e[2] # l}
  <1>1. /\ r \in SeedType /\ r.peers = sd.peers \ {l} /\ r.older = R
        /\ r.interested = sd.interested \ {l} /\ r.unchoked = sd.unchoked \ {l}
    BY DEF without, Tidy, SeedType
  <1>2. R \subseteq (sd.peers \ {l}) \X (sd.peers \ {l})
    BY DEF Tidy
  <1>3. \A x, y \in sd.peers \ {l} : <<x, y>> \in R <=> <<x, y>> \in sd.older
    OBVIOUS
  <1> HIDE DEF r, R
  <1>4. Orders(R, sd.peers \ {l})
    BY <1>3 DEF Tidy, Orders
  <1>5. Tidy(r)
    BY <1>1, <1>2, <1>4 DEF Tidy
  <1> QED BY <1>1, <1>5 DEF r

LEMMA Ticks ==
    ASSUME world \in WorldType, NEW sd, Tidy(sd), NEW p \in Peers
    PROVE  /\ Tidy(tick(sd, p).sd)
           /\ tick(sd, p).sd.peers = sd.peers
           /\ tick(sd, p).sd.interested = sd.interested
           /\ tick(sd, p).sd.unchoked \subseteq sd.interested
           /\ Cardinality(sd.interested) <= limits.unchoke_slots =>
                tick(sd, p).sd.unchoked = sd.interested
           /\ tick(sd, p).out =
                {[to |-> l, msg |-> Choke(l \notin tick(sd, p).sd.unchoked)] :
                    l \in {l \in sd.peers :
                        (l \in tick(sd, p).sd.unchoked) # (l \in sd.unchoked)}}
  <1> DEFINE turned == [sd EXCEPT !.round = (@ + 1) % Period(p)]
             chosen == rechoke(turned)
             r == tick(sd, p)
  <1>1. sd.round \in Nat
    BY DEF Tidy, SeedType
  <1>2. Period(p) \in Nat \ {0}
    BY SwarmAssumption DEF Period
  <1>3. (sd.round + 1) % Period(p) \in Nat
    BY <1>1, <1>2
  <1>4. /\ turned \in SeedType /\ turned.peers = sd.peers /\ turned.older = sd.older
        /\ turned.interested = sd.interested /\ turned.unchoked = sd.unchoked
    BY <1>3 DEF Tidy, SeedType
  <1>r. /\ r.sd = [turned EXCEPT !.unchoked = chosen]
        /\ r.out = {[to |-> l, msg |-> Choke(l \notin chosen)] :
                        l \in {l \in sd.peers : (l \in chosen) # (l \in sd.unchoked)}}
    BY DEF tick
  <1> HIDE DEF turned
  <1>5. Tidy(turned)
    BY <1>4 DEF Tidy
  <1>6. /\ chosen \subseteq sd.interested
        /\ Cardinality(sd.interested) <= limits.unchoke_slots => chosen = sd.interested
    BY <1>4, <1>5, Chosen
  <1> HIDE DEF chosen, r
  <1>7. /\ r.sd \in SeedType /\ r.sd.peers = sd.peers /\ r.sd.older = sd.older
        /\ r.sd.interested = sd.interested /\ r.sd.unchoked = chosen
    <2>1. chosen \in SUBSET Leeches
      BY <1>6 DEF Tidy, SeedType
    <2> QED BY <1>4, <1>r, <2>1 DEF SeedType
  <1>8. Tidy(r.sd)
    BY <1>6, <1>7 DEF Tidy
  <1> QED BY <1>6, <1>7, <1>8, <1>r DEF r
-----------------------------------------------------------------------------
(* The first invariant: the two ends of a connection fit together.          *)

Types ==
    /\ world \in WorldType
    /\ swarm \in [Leeches -> SwarmType]
    /\ seed \in [Peers -> SeedType]
    /\ near \in [Links -> {"none", "dial", "up", "closing", "gone"}]
    /\ far \in [Links -> {"none", "up", "mute", "gone"}]
    /\ toLeech \in [Links -> Seq(Answers)]
    /\ toSeed \in [Links -> Seq(Asks)]
    /\ todo \in [Threads -> SUBSET [to : Leeches, msg : Answers]]
    /\ planned \in [LeechThreads -> [Peers -> Seq(Asks)]]
    /\ result \in [Leeches -> {"none", "running", "ok", "failed"}]
    /\ faults \in Nat

\* A leech's table has the peers whose connection thread runs.
Tabled ==
    \A l \in Leeches, p \in Peers :
        p \in DOMAIN swarm[l].peers <=> near[<<l, p>>] \in {"up", "closing"}

Leeching == \A l \in Leeches : Sound(swarm[l])

\* A peer is dialled once, and the ends of a connection come up together.
Dialling ==
    \A l \in Leeches, p \in Peers :
        /\ near[<<l, p>>] # "none" <=> <<l, p>> \in world.links
        /\ near[<<l, p>>] \in {"none", "dial"} => far[<<l, p>>] = "none"
        /\ near[<<l, p>>] \in {"up", "closing"} => far[<<l, p>>] # "none"

\* Before that nothing is said on it.
Quiet(l, p) ==
    /\ toLeech[<<l, p>>] = <<>> /\ toSeed[<<l, p>>] = <<>>
    /\ \A x \in Peers \cup {0} : planned[<<l, x>>][p] = <<>>
    /\ \A k \in Leeches, x \in {"read", "tick"} :
            \A a \in todo[<<<<k, p>>, x>>] : a.to # l
    /\ todo[<<<<l, p>>, "read">>] = {} /\ todo[<<<<l, p>>, "tick">>] = {}

Unused ==
    \A l \in Leeches, p \in Peers : far[<<l, p>>] = "none" => Quiet(l, p)

\* A peer's table has the leeches that it admitted.
Admitted ==
    \A p \in Peers :
        /\ Tidy(seed[p])
        /\ \A l \in Leeches : l \in seed[p].peers <=> far[<<l, p>>] = "up"

\* A reader sends pieces to its own leech, a ticker a choke to any.
Sends(w, l, p, reading, ticking) ==
    /\ \A a \in reading :
            /\ a.to = l /\ a.msg.type = "piece" /\ a.msg.index \in w.holds[p]
            /\ a.msg.bytes = w.serves[p]
    /\ \A a \in ticking : a.msg.type = "choke"
    /\ \A a, b \in reading : a = b
    /\ \A a, b \in ticking : a.to = b.to => a = b

Sending ==
    \A l \in Leeches, p \in Peers :
        Sends(world, l, p, todo[<<<<l, p>>, "read">>], todo[<<<<l, p>>, "tick">>])

\* A peer's announcements are true, and its bitfield comes first and once.
Tells(w, p, sw, q) ==
    /\ p \in DOMAIN sw.peers => sw.peers[p].have \subseteq w.holds[p]
    /\ \A k \in DOMAIN q :
        /\ q[k].type = "bitfield" =>
            /\ q[k].field \subseteq w.holds[p]
            /\ \A j \in 1 .. k - 1 : q[j].type = "manifest"
            /\ p \in DOMAIN sw.peers => sw.peers[p].have = {}
        /\ q[k].type = "have" => q[k].index \in w.holds[p] \cap w.gains[p]
        /\ q[k].type = "manifest" => q[k].of = w.manifest[p]
        /\ q[k].type = "piece" => q[k].bytes = w.serves[p]

Announced ==
    \A l \in Leeches, p \in Peers : Tells(world, p, swarm[l], toLeech[<<l, p>>])

Base ==
    /\ Types /\ Tabled /\ Leeching /\ Dialling /\ Unused
    /\ Admitted /\ Sending /\ Announced

LEMMA LinkTypes ==
    ASSUME NEW l \in Leeches, NEW p \in Peers
    PROVE  /\ <<l, p>> \in Links
           /\ <<<<l, p>>, "read">> \in Threads /\ <<<<l, p>>, "tick">> \in Threads
           /\ <<l, p>> \in LeechThreads /\ <<l, 0>> \in LeechThreads
  BY DEF Links, Threads, LeechThreads

LEMMA BaseInit == Init => Base
  <1> SUFFICES ASSUME Init PROVE Base
    OBVIOUS
  <1>w. world \in WorldType
    BY SwarmAssumption DEF Init
  <1>1. Sound(Leech) /\ DOMAIN Leech.peers = {}
    <2>1. Leech \in SwarmType /\ DOMAIN Leech.peers = {}
          /\ Leech.complete = FALSE /\ \A i \in Pieces : Leech.availability[i] = 0
      <3>1. [p \in {} |-> NewPeer] \in [{} -> PeerState]
        OBVIOUS
      <3>2. [p \in {} |-> NewPeer] \in Tables
        BY <3>1 DEF Tables
      <3> QED BY <3>2 DEF Leech, SwarmType
    <2>2. Counted(Leech)
      <3>1. \A i \in Pieces : Holders(Leech, i) = {}
        BY <2>1 DEF Holders
      <3> QED BY <2>1, <3>1, FS_EmptySet DEF Counted
    <2>3. Booked(Leech) /\ Apart(Leech)
      BY <2>1 DEF Booked, Apart
    <2>4. missing(Leech) = Pieces
      BY DEF missing, Leech
    <2>5. Finished(Leech)
      BY <2>1, <2>4, SwarmAssumption DEF Finished
    <2> QED BY <2>1, <2>2, <2>3, <2>5 DEF Sound
  <1>2. Tidy(Seed) /\ Seed.peers = {}
    BY DEF Tidy, Seed, SeedType, Orders
  <1>3. Types
    <2>1. swarm \in [Leeches -> SwarmType] /\ seed \in [Peers -> SeedType]
      BY <1>1, <1>2 DEF Init, Sound, Tidy
    <2>2. /\ near \in [Links -> {"none", "dial", "up", "closing", "gone"}]
          /\ far \in [Links -> {"none", "up", "mute", "gone"}]
          /\ result \in [Leeches -> {"none", "running", "ok", "failed"}]
          /\ faults \in Nat
      BY DEF Init
    <2>3. /\ toLeech \in [Links -> Seq(Answers)] /\ toSeed \in [Links -> Seq(Asks)]
          /\ todo \in [Threads -> SUBSET [to : Leeches, msg : Answers]]
      BY DEF Init
    <2>4. idle \in [Peers -> Seq(Asks)]
      BY DEF idle
    <2>5. planned \in [LeechThreads -> [Peers -> Seq(Asks)]]
      BY <2>4 DEF Init
    <2> QED BY <1>w, <2>1, <2>2, <2>3, <2>5 DEF Types
  <1>4. Tabled
    BY <1>1, LinkTypes DEF Init, Tabled
  <1>5. Leeching
    BY <1>1 DEF Init, Leeching
  <1>6. Dialling
    BY LinkTypes DEF Init, Dialling
  <1>u. Unused
    <2> SUFFICES ASSUME NEW l \in Leeches, NEW p \in Peers PROVE Quiet(l, p)
      BY DEF Unused
    <2>1. \A x \in Peers \cup {0} : <<l, x>> \in LeechThreads
      BY DEF LeechThreads
    <2>2. \A x \in Peers \cup {0} : planned[<<l, x>>][p] = <<>>
      BY <2>1 DEF Init, idle
    <2>3. \A k \in Leeches, x \in {"read", "tick"} : todo[<<<<k, p>>, x>>] = {}
      BY LinkTypes DEF Init
    <2>4. toLeech[<<l, p>>] = <<>> /\ toSeed[<<l, p>>] = <<>>
      BY LinkTypes DEF Init
    <2> QED BY <2>2, <2>3, <2>4 DEF Quiet
  <1>7. Admitted
    BY <1>2, LinkTypes DEF Init, Admitted
  <1>8. Sending
    BY LinkTypes DEF Init, Sending, Sends
  <1>9. Announced
    <2>1. \A l \in Leeches, p \in Peers :
            DOMAIN toLeech[<<l, p>>] = {} /\ p \notin DOMAIN swarm[l].peers
      <3>1. \A l \in Leeches, p \in Peers : toLeech[<<l, p>>] = <<>>
        BY LinkTypes DEF Init
      <3>2. \A l \in Leeches : DOMAIN swarm[l].peers = {}
        BY <1>1 DEF Init
      <3>3. DOMAIN <<>> = {}
        OBVIOUS
      <3> QED BY <3>1, <3>2, <3>3, Zenon
    <2> QED BY <2>1 DEF Announced, Tells
  <1> QED BY <1>3, <1>4, <1>5, <1>6, <1>u, <1>7, <1>8, <1>9 DEF Base
LEMMA BaseParts ==
    ASSUME Base
    PROVE  /\ Types /\ Tabled /\ Leeching /\ Dialling /\ Unused
           /\ Admitted /\ Sending /\ Announced
  BY DEF Base

\* What a step that does not touch the variables of a part leaves alone.
LEMMA Frame ==
    /\ Leeching /\ UNCHANGED <<world, swarm>> => Leeching'
    /\ Tabled /\ UNCHANGED <<swarm, near>> => Tabled'
    /\ Dialling /\ UNCHANGED <<world, near, far>> => Dialling'
    /\ Unused /\ UNCHANGED <<far, toLeech, toSeed, planned, todo>> => Unused'
    /\ Admitted /\ UNCHANGED <<seed, far>> => Admitted'
    /\ Sending /\ UNCHANGED <<world, todo>> => Sending'
    /\ Announced /\ UNCHANGED <<world, swarm, toLeech>> => Announced'
  <1>1. Leeching /\ UNCHANGED <<world, swarm>> => Leeching'
    BY DEF Leeching, Sound, Apart, limits
  <1>2. Tabled /\ UNCHANGED <<swarm, near>> => Tabled'
    BY DEF Tabled
  <1>3. Dialling /\ UNCHANGED <<world, near, far>> => Dialling'
    BY DEF Dialling
  <1>4. Unused /\ UNCHANGED <<far, toLeech, toSeed, planned, todo>> => Unused'
    <2>1. ASSUME UNCHANGED <<toLeech, toSeed, planned, todo>>,
                 NEW l \in Leeches, NEW p \in Peers, Quiet(l, p)
          PROVE  Quiet(l, p)'
      BY <2>1 DEF Quiet
    <2> QED BY <2>1 DEF Unused
  <1>5. Admitted /\ UNCHANGED <<seed, far>> => Admitted'
    BY DEF Admitted
  <1>6. Sending /\ UNCHANGED <<world, todo>> => Sending'
    BY DEF Sending
  <1>7. Announced /\ UNCHANGED <<world, swarm, toLeech>> => Announced'
    BY DEF Announced
  <1> QED BY <1>1, <1>2, <1>3, <1>4, <1>5, <1>6, <1>7

\* A dial that fails.
LEMMA BaseDialFails ==
    ASSUME Base, NEW l \in Leeches, NEW p \in Peers, DialFails(<<l, p>>)
    PROVE  Base'
  <1>0. /\ Types /\ Tabled /\ Leeching /\ Dialling /\ Unused
        /\ Admitted /\ Sending /\ Announced
    BY BaseParts
  <1>1. /\ near[<<l, p>>] = "dial" /\ near' = [near EXCEPT ![<<l, p>>] = "gone"]
        /\ faults' = faults + 1
        /\ UNCHANGED <<world, swarm, seed, far, toLeech, toSeed, todo, planned, result>>
    BY DEF DialFails
  <1>2. Types'
    <2>1. faults' \in Nat
      BY <1>0, <1>1 DEF Types
    <2>2. near' \in [Links -> {"none", "dial", "up", "closing", "gone"}]
      BY <1>0, <1>1 DEF Types
    <2> QED BY <1>0, <1>1, <2>1, <2>2 DEF Types
  <1>n. near \in [Links -> {"none", "dial", "up", "closing", "gone"}]
    BY <1>0 DEF Types
  <1>3. Tabled'
    BY <1>0, <1>1, <1>n, LinkTypes DEF Tabled
  <1>4. Dialling'
    BY <1>0, <1>1, <1>n, LinkTypes DEF Dialling
  <1>5. Leeching' /\ Unused' /\ Admitted' /\ Sending' /\ Announced'
    BY <1>0, <1>1, Frame
  <1> QED BY <1>2, <1>3, <1>4, <1>5 DEF Base

LEMMA BaseFetchEnds ==
    ASSUME Base, NEW l \in Leeches, FetchFails(l) \/ Deadline(l)
    PROVE  Base'
  <1>0. /\ Types /\ Tabled /\ Leeching /\ Dialling /\ Unused
        /\ Admitted /\ Sending /\ Announced
    BY BaseParts
  <1>1. /\ result' = [result EXCEPT ![l] = "failed"] /\ faults' \in Nat
        /\ UNCHANGED <<world, swarm, seed, near, far, toLeech, toSeed, todo, planned>>
    BY <1>0 DEF FetchFails, Deadline, conn, Types
  <1>2. Types'
    BY <1>0, <1>1 DEF Types
  <1>3. /\ Tabled' /\ Leeching' /\ Dialling' /\ Unused' /\ Admitted'
        /\ Sending' /\ Announced'
    BY <1>0, <1>1, Frame
  <1> QED BY <1>2, <1>3 DEF Base

LEMMA BaseHangUp ==
    ASSUME Base, NEW l \in Leeches, NEW p \in Peers, HangUp(<<l, p>>)
    PROVE  Base'
  <1>0. /\ Types /\ Tabled /\ Leeching /\ Dialling /\ Unused
        /\ Admitted /\ Sending /\ Announced
    BY BaseParts
  <1>1. /\ far[<<l, p>>] = "mute" /\ far' = [far EXCEPT ![<<l, p>>] = "gone"]
        /\ UNCHANGED <<world, swarm, seed, near, toLeech, toSeed, todo, planned,
                       result, faults>>
    BY DEF HangUp
  <1>2. Types'
    BY <1>0, <1>1 DEF Types
  <1>n. far \in [Links -> {"none", "up", "mute", "gone"}]
    BY <1>0 DEF Types
  <1>3. Dialling'
    BY <1>0, <1>1, <1>n, LinkTypes DEF Dialling
  <1>4. Unused'
    <2>1. \A k \in Leeches, q \in Peers : far'[<<k, q>>] = "none" => far[<<k, q>>] = "none"
      BY <1>1, <1>n, LinkTypes
    <2>2. \A k \in Leeches, q \in Peers : Quiet(k, q) => Quiet(k, q)'
      BY <1>1 DEF Quiet
    <2> QED BY <1>0, <2>1, <2>2 DEF Unused
  <1>5. Admitted'
    BY <1>0, <1>1, <1>n, LinkTypes DEF Admitted
  <1>6. Tabled' /\ Leeching' /\ Sending' /\ Announced'
    BY <1>0, <1>1, Frame
  <1> QED BY <1>2, <1>3, <1>4, <1>5, <1>6 DEF Base

\* A connection ends at the peer, or at both ends.
LEMMA BaseEnds ==
    ASSUME Base, NEW l \in Leeches, NEW p \in Peers,
           far[<<l, p>>] \in {"up", "mute"},
           far' = [far EXCEPT ![<<l, p>>] = "gone"],
           seed' = [seed EXCEPT ![p] = without(@, l)],
           \/ near' = near
           \/ near[<<l, p>>] = "up" /\ near' = [near EXCEPT ![<<l, p>>] = "closing"],
           toSeed' = toSeed \/ toSeed' = [toSeed EXCEPT ![<<l, p>>] = <<>>],
           faults' \in Nat,
           UNCHANGED <<world, swarm, toLeech, todo, planned, result>>
    PROVE  Base'
  <1>0. /\ Types /\ Tabled /\ Leeching /\ Dialling /\ Unused
        /\ Admitted /\ Sending /\ Announced
    BY BaseParts
  <1>t. /\ far \in [Links -> {"none", "up", "mute", "gone"}]
        /\ near \in [Links -> {"none", "dial", "up", "closing", "gone"}]
        /\ toSeed \in [Links -> Seq(Asks)] /\ seed \in [Peers -> SeedType]
    BY <1>0 DEF Types
  <1>1. Tidy(without(seed[p], l)) /\ without(seed[p], l).peers = seed[p].peers \ {l}
    BY <1>0, Leaves DEF Admitted
  <1>2. Types'
    <2>1. seed' \in [Peers -> SeedType]
      BY <1>t, <1>1 DEF Tidy
    <2>2. toSeed' \in [Links -> Seq(Asks)]
      <3>1. <<>> \in Seq(Asks)
        OBVIOUS
      <3> QED BY <1>t, <3>1
    <2>3. near' \in [Links -> {"none", "dial", "up", "closing", "gone"}]
          /\ far' \in [Links -> {"none", "up", "mute", "gone"}]
      BY <1>t
    <2> QED BY <1>0, <2>1, <2>2, <2>3 DEF Types
  <1>3. Tabled'
    BY <1>0, <1>t, LinkTypes DEF Tabled
  <1>4. Dialling'
    BY <1>0, <1>t, LinkTypes DEF Dialling
  <1>5. Unused'
    <2>1. \A k \in Leeches, q \in Peers : far'[<<k, q>>] = "none" =>
            far[<<k, q>>] = "none" /\ toSeed'[<<k, q>>] = toSeed[<<k, q>>]
      BY <1>t, LinkTypes
    <2>2. \A k \in Leeches, q \in Peers :
            Quiet(k, q) /\ toSeed'[<<k, q>>] = toSeed[<<k, q>>] => Quiet(k, q)'
      BY DEF Quiet
    <2> QED BY <1>0, <2>1, <2>2 DEF Unused
  <1>6. Admitted'
    <2> SUFFICES ASSUME NEW q \in Peers
                 PROVE  /\ Tidy(seed'[q])
                        /\ \A k \in Leeches : k \in seed'[q].peers <=> far'[<<k, q>>] = "up"
      BY DEF Admitted
    <2>1. CASE q = p
      BY <1>0, <1>t, <1>1, <2>1, LinkTypes DEF Admitted
    <2>2. CASE q # p
      BY <1>0, <1>t, <2>2, LinkTypes DEF Admitted
    <2> QED BY <2>1, <2>2
  <1>7. Leeching' /\ Sending' /\ Announced'
    BY <1>0, Frame
  <1> QED BY <1>2, <1>3, <1>4, <1>5, <1>6, <1>7 DEF Base

LEMMA BaseBreaks ==
    ASSUME Base, NEW l \in Leeches, NEW p \in Peers,
           Break(<<l, p>>) \/ SeedSeesEnd(<<l, p>>) \/ Timeout(l, p)
    PROVE  Base'
  <1>1. CASE Break(<<l, p>>)
    <2>1. /\ far[<<l, p>>] \in {"up", "mute"} /\ far' = [far EXCEPT ![<<l, p>>] = "gone"]
          /\ seed' = [seed EXCEPT ![p] = without(@, l)] /\ near' = near
          /\ toSeed' = [toSeed EXCEPT ![<<l, p>>] = <<>>] /\ faults' \in Nat
          /\ UNCHANGED <<world, swarm, toLeech, todo, planned, result>>
      BY <1>1 DEF Break, Base, Types
    <2> QED BY <2>1, BaseEnds
  <1>2. CASE SeedSeesEnd(<<l, p>>)
    <2>1. /\ far[<<l, p>>] \in {"up", "mute"} /\ far' = [far EXCEPT ![<<l, p>>] = "gone"]
          /\ seed' = [seed EXCEPT ![p] = without(@, l)] /\ near' = near
          /\ toSeed' = [toSeed EXCEPT ![<<l, p>>] = <<>>] /\ faults' \in Nat
          /\ UNCHANGED <<world, swarm, toLeech, todo, planned, result>>
      BY <1>2 DEF SeedSeesEnd, Base, Types
    <2> QED BY <2>1, BaseEnds
  <1>3. CASE Timeout(l, p)
    <2>1. /\ far[<<l, p>>] \in {"up", "mute"} /\ near[<<l, p>>] = "up"
      BY <1>3 DEF Timeout, Silent
    <2>2. /\ far' = [far EXCEPT ![<<l, p>>] = "gone"]
          /\ near' = [near EXCEPT ![<<l, p>>] = "closing"]
          /\ seed' = [seed EXCEPT ![p] = without(@, l)]
          /\ toSeed' = toSeed /\ faults' \in Nat
          /\ UNCHANGED <<world, swarm, toLeech, todo, planned, result>>
      BY <1>3 DEF Timeout, Base, Types
    <2> QED BY <2>1, <2>2, BaseEnds
  <1> QED BY <1>1, <1>2, <1>3
LEMMA HeadTail ==
    ASSUME NEW S, NEW q \in Seq(S), q # <<>>
    PROVE  /\ Head(q) \in S /\ Head(q) = q[1] /\ 1 \in DOMAIN q
           /\ Tail(q) \in Seq(S) /\ Len(q) \in Nat \ {0} /\ DOMAIN q = 1 .. Len(q)
           /\ DOMAIN Tail(q) = 1 .. Len(q) - 1
           /\ \A k \in DOMAIN Tail(q) : k + 1 \in DOMAIN q /\ Tail(q)[k] = q[k + 1]
  OBVIOUS

\* What a peer's reader does.
LEMMA BaseSeedReads ==
    ASSUME Base, NEW l \in Leeches, NEW p \in Peers, SeedReads(l, p)
    PROVE  Base'
  <1> DEFINE c == <<l, p>>
             m == Head(toSeed[c])
  <1>0. /\ Types /\ Tabled /\ Leeching /\ Dialling /\ Unused
        /\ Admitted /\ Sending /\ Announced
    BY BaseParts
  <1>t. /\ toSeed \in [Links -> Seq(Asks)] /\ seed \in [Peers -> SeedType]
        /\ todo \in [Threads -> SUBSET [to : Leeches, msg : Answers]]
        /\ world \in WorldType
    BY <1>0 DEF Types
  <1>1. /\ far[c] = "up" /\ toSeed[c] # <<>> /\ todo[<<c, "read">>] = {}
        /\ toSeed' = [toSeed EXCEPT ![c] = Tail(@)]
        /\ \/ /\ m.type = "interested"
              /\ seed' = [seed EXCEPT ![p].interested =
                                IF m.yes THEN @ \cup {l} ELSE @ \ {l}]
              /\ UNCHANGED todo
           \/ /\ m.type = "request"
              /\ todo' = [todo EXCEPT ![<<c, "read">>] = on_request(p, l, m.index)]
              /\ UNCHANGED seed
        /\ UNCHANGED <<world, swarm, near, far, toLeech, planned, result, faults>>
    BY DEF SeedReads, conn
  <1>2. m \in Asks /\ Tail(toSeed[c]) \in Seq(Asks)
    BY <1>t, <1>1, LinkTypes, HeadTail
  <1>3. toSeed' \in [Links -> Seq(Asks)]
    BY <1>t, <1>1, <1>2
  <1>4. ASSUME m.type = "request"
        PROVE  /\ on_request(p, l, m.index) \in SUBSET [to : Leeches, msg : Answers]
               /\ \A a \in on_request(p, l, m.index) :
                    /\ a.to = l /\ a.msg.type = "piece" /\ a.msg.index \in world.holds[p]
                    /\ a.msg.bytes = world.serves[p]
               /\ \A a, b \in on_request(p, l, m.index) : a = b
    <2>1. m.index \in Pieces
      BY <1>2, <1>4 DEF Asks, Request, Interested
    <2>2. world.serves[p] \in {"good", "junk"}
      BY <1>t DEF WorldType
    <2>3. [type |-> "piece", index |-> m.index, bytes |-> world.serves[p]] \in Answers
      BY <2>1, <2>2 DEF Answers
    <2> QED BY <2>3 DEF on_request
  <1>5. /\ todo' \in [Threads -> SUBSET [to : Leeches, msg : Answers]]
        /\ \A t \in Threads : t # <<c, "read">> => todo'[t] = todo[t]
        /\ todo'[<<c, "read">>] = {} \/
             (m.type = "request" /\ todo'[<<c, "read">>] = on_request(p, l, m.index))
    BY <1>t, <1>1, <1>4, LinkTypes
  <1>6. /\ Tidy(seed'[p]) /\ seed'[p].peers = seed[p].peers
        /\ \A q \in Peers : q # p => seed'[q] = seed[q]
        /\ seed' \in [Peers -> SeedType]
    <2>1. Tidy(seed[p]) /\ l \in seed[p].peers
      BY <1>0, <1>1 DEF Admitted
    <2>2. CASE m.type = "interested"
      <3> DEFINE I == IF m.yes THEN seed[p].interested \cup {l} ELSE seed[p].interested \ {l}
      <3>1. seed' = [seed EXCEPT ![p] = [seed[p] EXCEPT !.interested = I]]
        BY <1>1, <2>2
      <3>2. I \subseteq seed[p].peers
        BY <2>1 DEF Tidy
      <3> HIDE DEF I
      <3> DEFINE sd == [seed[p] EXCEPT !.interested = I]
      <3>3. /\ sd \in SeedType /\ sd.peers = seed[p].peers /\ sd.older = seed[p].older
            /\ sd.unchoked = seed[p].unchoked /\ sd.interested = I
        BY <2>1, <3>2 DEF Tidy, SeedType
      <3>4. Tidy(sd)
        <4> HIDE DEF sd
        <4> QED BY <2>1, <3>2, <3>3 DEF Tidy
      <3> HIDE DEF sd
      <3>5. seed' = [seed EXCEPT ![p] = sd]
        BY <3>1 DEF sd
      <3> QED BY <1>t, <3>3, <3>4, <3>5
    <2>3. CASE m.type = "request"
      <3>1. seed' = seed
        BY <1>1, <2>3
      <3> QED BY <1>t, <2>1, <3>1
    <2> QED BY <1>1, <2>2, <2>3
  <1> HIDE DEF m
  <1>7. Types'
    BY <1>0, <1>1, <1>3, <1>5, <1>6 DEF Types
  <1>8. Unused'
    <2> SUFFICES ASSUME NEW k \in Leeches, NEW q \in Peers, far'[<<k, q>>] = "none"
                 PROVE  Quiet(k, q)'
      BY DEF Unused
    <2>1. Quiet(k, q) /\ <<k, q>> # c
      BY <1>0, <1>1 DEF Unused
    <2>2. toSeed'[<<k, q>>] = toSeed[<<k, q>>]
      BY <1>t, <1>1, <2>1, LinkTypes
    <2>3. ASSUME NEW j \in Leeches, NEW x \in {"read", "tick"},
                 NEW a \in todo'[<<<<j, q>>, x>>]
          PROVE  a.to # k
      <3>1. CASE <<<<j, q>>, x>> = <<c, "read">>
        BY <1>4, <1>5, <2>1, <2>3, <3>1
      <3>2. CASE <<<<j, q>>, x>> # <<c, "read">>
        BY <1>5, <2>1, <2>3, <3>2, LinkTypes DEF Quiet
      <3> QED BY <3>1, <3>2
    <2>4. todo'[<<<<k, q>>, "read">>] = {} /\ todo'[<<<<k, q>>, "tick">>] = {}
      BY <1>5, <2>1, LinkTypes DEF Quiet
    <2> QED BY <1>1, <2>1, <2>2, <2>3, <2>4 DEF Quiet
  <1>9. Admitted'
    BY <1>0, <1>1, <1>6 DEF Admitted
  <1>10. Sending'
    <2> SUFFICES ASSUME NEW k \in Leeches, NEW q \in Peers
                 PROVE  Sends(world, k, q, todo'[<<<<k, q>>, "read">>],
                              todo'[<<<<k, q>>, "tick">>])
      BY <1>1 DEF Sending
    <2>1. todo'[<<<<k, q>>, "tick">>] = todo[<<<<k, q>>, "tick">>]
      BY <1>5, LinkTypes
    <2>2. CASE <<k, q>> = c
      BY <1>0, <1>4, <1>5, <2>1, <2>2 DEF Sending, Sends
    <2>3. CASE <<k, q>> # c
      <3>1. todo'[<<<<k, q>>, "read">>] = todo[<<<<k, q>>, "read">>]
        BY <1>5, <2>3, LinkTypes
      <3> QED BY <1>0, <2>1, <3>1 DEF Sending
    <2> QED BY <2>2, <2>3
  <1>11. Tabled' /\ Leeching' /\ Dialling' /\ Announced'
    BY <1>0, <1>1, Frame
  <1> QED BY <1>7, <1>8, <1>9, <1>10, <1>11 DEF Base

\* What a peer's ticker does.
LEMMA BaseSeedTick ==
    ASSUME Base, NEW l \in Leeches, NEW p \in Peers, SeedTick(l, p)
    PROVE  Base'
  <1> DEFINE c == <<l, p>>
             r == tick(seed[p], p)
  <1>0. /\ Types /\ Tabled /\ Leeching /\ Dialling /\ Unused
        /\ Admitted /\ Sending /\ Announced
    BY BaseParts
  <1>t. /\ seed \in [Peers -> SeedType] /\ world \in WorldType
        /\ todo \in [Threads -> SUBSET [to : Leeches, msg : Answers]]
    BY <1>0 DEF Types
  <1>1. /\ far[c] = "up" /\ todo[<<c, "tick">>] = {}
        /\ seed' = [seed EXCEPT ![p] = r.sd]
        /\ todo' = [todo EXCEPT ![<<c, "tick">>] = r.out]
        /\ UNCHANGED <<world, swarm, near, far, toLeech, toSeed, planned, result, faults>>
    BY DEF SeedTick, conn
  <1>2. /\ Tidy(r.sd) /\ r.sd.peers = seed[p].peers
        /\ r.out = {[to |-> k, msg |-> Choke(k \notin r.sd.unchoked)] :
                    k \in {k \in seed[p].peers :
                        (k \in r.sd.unchoked) # (k \in seed[p].unchoked)}}
    BY <1>0, <1>t, Ticks DEF Admitted
  <1>3. seed[p].peers \subseteq Leeches
    BY <1>t DEF SeedType
  <1> HIDE DEF r
  <1>4. /\ r.out \in SUBSET [to : Leeches, msg : Answers]
        /\ \A a \in r.out : a.to \in seed[p].peers /\ a.msg.type = "choke"
        /\ \A a, b \in r.out : a.to = b.to => a = b
    <2>1. \A a \in r.out : \E k \in seed[p].peers :
            a = [to |-> k, msg |-> Choke(k \notin r.sd.unchoked)]
      BY <1>2
    <2>2. \A k : Choke(k \notin r.sd.unchoked) \in Answers
                 /\ Choke(k \notin r.sd.unchoked).type = "choke"
      BY DEF Choke, Answers
    <2> QED BY <1>3, <2>1, <2>2
  <1>5. /\ todo' \in [Threads -> SUBSET [to : Leeches, msg : Answers]]
        /\ \A t \in Threads : t # <<c, "tick">> => todo'[t] = todo[t]
        /\ todo'[<<c, "tick">>] = r.out
    BY <1>t, <1>1, <1>4, LinkTypes
  <1>6. Types'
    <2>1. seed' \in [Peers -> SeedType]
      BY <1>t, <1>1, <1>2 DEF Tidy
    <2> QED BY <1>0, <1>1, <1>5, <2>1 DEF Types
  <1>7. Unused'
    <2> SUFFICES ASSUME NEW k \in Leeches, NEW q \in Peers, far'[<<k, q>>] = "none"
                 PROVE  Quiet(k, q)'
      BY DEF Unused
    <2>1. Quiet(k, q) /\ <<k, q>> # c /\ k \notin seed[q].peers
      BY <1>0, <1>1 DEF Unused, Admitted
    <2>3. ASSUME NEW j \in Leeches, NEW x \in {"read", "tick"},
                 NEW a \in todo'[<<<<j, q>>, x>>]
          PROVE  a.to # k
      <3>1. CASE <<<<j, q>>, x>> = <<c, "tick">>
        BY <1>4, <1>5, <2>1, <2>3, <3>1
      <3>2. CASE <<<<j, q>>, x>> # <<c, "tick">>
        BY <1>5, <2>1, <2>3, <3>2, LinkTypes DEF Quiet
      <3> QED BY <3>1, <3>2
    <2>4. todo'[<<<<k, q>>, "read">>] = {} /\ todo'[<<<<k, q>>, "tick">>] = {}
      BY <1>5, <2>1, LinkTypes DEF Quiet
    <2> QED BY <1>1, <2>1, <2>3, <2>4 DEF Quiet
  <1>8. Admitted'
    BY <1>0, <1>1, <1>2, <1>t DEF Admitted
  <1>9. Sending'
    <2> SUFFICES ASSUME NEW k \in Leeches, NEW q \in Peers
                 PROVE  Sends(world, k, q, todo'[<<<<k, q>>, "read">>],
                              todo'[<<<<k, q>>, "tick">>])
      BY <1>1 DEF Sending
    <2>1. todo'[<<<<k, q>>, "read">>] = todo[<<<<k, q>>, "read">>]
      BY <1>5, LinkTypes
    <2>2. CASE <<k, q>> = c
      BY <1>0, <1>4, <1>5, <2>1, <2>2 DEF Sending, Sends
    <2>3. CASE <<k, q>> # c
      <3>1. todo'[<<<<k, q>>, "tick">>] = todo[<<<<k, q>>, "tick">>]
        BY <1>5, <2>3, LinkTypes
      <3> QED BY <1>0, <2>1, <3>1 DEF Sending
    <2> QED BY <2>2, <2>3
  <1>10. Tabled' /\ Leeching' /\ Dialling' /\ Announced'
    BY <1>0, <1>1, Frame
  <1> QED BY <1>6, <1>7, <1>8, <1>9, <1>10 DEF Base
\* What a leech's thread sends.
LEMMA BaseLeechDispatch ==
    ASSUME Base, NEW l \in Leeches, NEW x \in Peers \cup {0}, LeechDispatch(<<l, x>>)
    PROVE  Base'
  <1>0. /\ Types /\ Tabled /\ Leeching /\ Dialling /\ Unused
        /\ Admitted /\ Sending /\ Announced
    BY BaseParts
  <1>t. /\ toSeed \in [Links -> Seq(Asks)]
        /\ planned \in [LeechThreads -> [Peers -> Seq(Asks)]]
    BY <1>0 DEF Types
  <1>x. <<l, x>> \in LeechThreads
    BY DEF LeechThreads
  <1>1. /\ planned' = [planned EXCEPT ![<<l, x>>] = idle]
        /\ toSeed' = [c \in Links |->
                IF c[1] = l /\ near[c] = "up" /\ far[c] = "up"
                THEN toSeed[c] \o planned[<<l, x>>][c[2]] ELSE toSeed[c]]
        /\ UNCHANGED <<world, swarm, seed, near, far, toLeech, todo, result, faults>>
    BY DEF LeechDispatch, conn
  <1>2. idle \in [Peers -> Seq(Asks)] /\ \A p \in Peers : idle[p] = <<>>
    BY DEF idle
  <1>3. planned' \in [LeechThreads -> [Peers -> Seq(Asks)]]
    BY <1>t, <1>1, <1>2
  <1>4. toSeed' \in [Links -> Seq(Asks)]
    <2>1. \A c \in Links : c[2] \in Peers
      BY DEF Links
    <2>2. \A c \in Links : toSeed[c] \in Seq(Asks) /\ planned[<<l, x>>][c[2]] \in Seq(Asks)
      BY <1>t, <1>x, <2>1
    <2>3. \A c \in Links : toSeed[c] \o planned[<<l, x>>][c[2]] \in Seq(Asks)
      BY <2>2, ConcatProperties
    <2> QED BY <1>1, <2>2, <2>3
  <1>5. Types'
    BY <1>0, <1>1, <1>3, <1>4 DEF Types
  <1>6. Unused'
    <2> SUFFICES ASSUME NEW k \in Leeches, NEW q \in Peers, far'[<<k, q>>] = "none"
                 PROVE  Quiet(k, q)'
      BY DEF Unused
    <2>1. Quiet(k, q) /\ far[<<k, q>>] = "none"
      BY <1>0, <1>1 DEF Unused
    <2>2. toSeed'[<<k, q>>] = toSeed[<<k, q>>]
      BY <1>1, <2>1, LinkTypes
    <2>3. \A y \in Peers \cup {0} : planned'[<<k, y>>][q] = <<>>
      <3>1. \A y \in Peers \cup {0} : <<k, y>> \in LeechThreads
        BY DEF LeechThreads
      <3> QED BY <1>t, <1>1, <1>2, <2>1, <3>1 DEF Quiet
    <2> QED BY <1>1, <2>1, <2>2, <2>3 DEF Quiet
  <1>7. Tabled' /\ Leeching' /\ Dialling' /\ Admitted' /\ Sending' /\ Announced'
    BY <1>0, <1>1, Frame
  <1> QED BY <1>5, <1>6, <1>7 DEF Base

\* A message that is no bitfield may be added to what a peer told.
LEMMA TellsMore ==
    ASSUME NEW w, NEW p, NEW sw, NEW q \in Seq(Answers), NEW m \in Answers,
           Tells(w, p, sw, q), m.type # "bitfield", m.type # "manifest",
           m.type = "have" => m.index \in w.holds[p] \cap w.gains[p],
           m.type = "piece" => m.bytes = w.serves[p]
    PROVE  Tells(w, p, sw, Append(q, m)) /\ Append(q, m) \in Seq(Answers)
  <1> DEFINE r == Append(q, m)
  <1>1. /\ r \in Seq(Answers) /\ DOMAIN r = 1 .. Len(q) + 1 /\ DOMAIN q = 1 .. Len(q)
        /\ Len(q) \in Nat /\ r[Len(q) + 1] = m /\ \A k \in 1 .. Len(q) : r[k] = q[k]
    BY AppendProperties
  <1> HIDE DEF r
  <1>2. \A k \in DOMAIN r : k \in DOMAIN q \/ k = Len(q) + 1
    BY <1>1
  <1>3. ASSUME NEW k \in DOMAIN r
        PROVE  /\ r[k].type = "bitfield" =>
                    /\ r[k].field \subseteq w.holds[p]
                    /\ \A j \in 1 .. k - 1 : r[j].type = "manifest"
                    /\ p \in DOMAIN sw.peers => sw.peers[p].have = {}
               /\ r[k].type = "have" => r[k].index \in w.holds[p] \cap w.gains[p]
               /\ r[k].type = "manifest" => r[k].of = w.manifest[p]
               /\ r[k].type = "piece" => r[k].bytes = w.serves[p]
    <2>1. CASE k = Len(q) + 1
      BY <1>1, <2>1
    <2>2. CASE k \in DOMAIN q
      <3>1. r[k] = q[k] /\ \A j \in 1 .. k - 1 : r[j] = q[j]
        BY <1>1, <2>2
      <3> QED BY <2>2, <3>1 DEF Tells
    <2> QED BY <1>2, <2>1, <2>2
  <1>4. p \in DOMAIN sw.peers => sw.peers[p].have \subseteq w.holds[p]
    BY DEF Tells
  <1>5. Tells(w, p, sw, r)
    BY <1>3, <1>4 DEF Tells
  <1> QED BY <1>1, <1>5 DEF r

\* What a peer's thread sends.
LEMMA BaseDispatch ==
    ASSUME Base, NEW l \in Leeches, NEW p \in Peers, NEW x \in {"read", "tick"},
           Dispatch(<<<<l, p>>, x>>)
    PROVE  Base'
  <1> DEFINE t == <<<<l, p>>, x>>
             sent(k) == (CHOOSE a \in todo[t] : a.to = k).msg
  <1>0. /\ Types /\ Tabled /\ Leeching /\ Dialling /\ Unused
        /\ Admitted /\ Sending /\ Announced
    BY BaseParts
  <1>t. /\ toLeech \in [Links -> Seq(Answers)]
        /\ todo \in [Threads -> SUBSET [to : Leeches, msg : Answers]]
    BY <1>0 DEF Types
  <1>x. t \in Threads
    BY LinkTypes
  <1>1. /\ todo' = [todo EXCEPT ![t] = {}]
        /\ toLeech' = [c \in Links |->
                IF c[2] = p /\ far[c] = "up" /\ near[c] = "up"
                   /\ \E a \in todo[t] : a.to = c[1]
                THEN Append(toLeech[c], sent(c[1])) ELSE toLeech[c]]
        /\ UNCHANGED <<world, swarm, seed, near, far, toSeed, planned, result, faults>>
    BY DEF Dispatch, conn
  <1>2. ASSUME NEW k, \E a \in todo[t] : a.to = k
        PROVE  /\ sent(k) \in Answers /\ sent(k).type \in {"piece", "choke"}
               /\ sent(k).type = "piece" => sent(k).bytes = world.serves[p]
    <2>1. PICK a \in todo[t] : a.to = k /\ sent(k) = a.msg
      BY <1>2
    <2>2. a.msg \in Answers
      BY <1>t, <1>x
    <2>3. Sends(world, l, p, todo[<<<<l, p>>, "read">>], todo[<<<<l, p>>, "tick">>])
      BY <1>0 DEF Sending
    <2>4. a.msg.type \in {"piece", "choke"} /\ (a.msg.type = "piece" => a.msg.bytes = world.serves[p])
      BY <2>3 DEF Sends
    <2> HIDE DEF sent
    <2> QED BY <2>1, <2>2, <2>4
  <1> HIDE DEF sent
  <1>3. ASSUME NEW k \in Leeches, NEW q \in Peers
        PROVE  /\ Tells(world, q, swarm[k], toLeech'[<<k, q>>])
               /\ toLeech'[<<k, q>>] \in Seq(Answers)
               /\ far[<<k, q>>] = "none" => toLeech'[<<k, q>>] = toLeech[<<k, q>>]
    <2>1. <<k, q>> \in Links /\ toLeech[<<k, q>>] \in Seq(Answers)
      BY <1>t, LinkTypes
    <2>2. Tells(world, q, swarm[k], toLeech[<<k, q>>])
      BY <1>0 DEF Announced
    <2>3. CASE toLeech'[<<k, q>>] = toLeech[<<k, q>>]
      BY <2>1, <2>2, <2>3
    <2>4. CASE /\ q = p /\ far[<<k, q>>] = "up" /\ \E a \in todo[t] : a.to = k
               /\ toLeech'[<<k, q>>] = Append(toLeech[<<k, q>>], sent(k))
      <3>1. /\ sent(k) \in Answers /\ sent(k).type \in {"piece", "choke"}
            /\ sent(k).type = "piece" => sent(k).bytes = world.serves[q]
        BY <1>2, <2>4
      <3> QED BY <2>1, <2>2, <2>4, <3>1, TellsMore
    <2> QED BY <1>1, <2>1, <2>3, <2>4
  <1>4. todo' \in [Threads -> SUBSET [to : Leeches, msg : Answers]]
        /\ \A u \in Threads : todo'[u] = {} \/ todo'[u] = todo[u]
    BY <1>t, <1>1
  <1>5. Types'
    <2>1. \A c \in Links : toLeech'[c] \in Seq(Answers)
      BY <1>3 DEF Links
    <2>2. toLeech' \in [Links -> Seq(Answers)]
      BY <1>1, <2>1
    <2> QED BY <1>0, <1>1, <1>4, <2>2 DEF Types
  <1>6. Unused'
    <2> SUFFICES ASSUME NEW k \in Leeches, NEW q \in Peers, far'[<<k, q>>] = "none"
                 PROVE  Quiet(k, q)'
      BY DEF Unused
    <2>1. Quiet(k, q) /\ toLeech'[<<k, q>>] = toLeech[<<k, q>>]
      BY <1>0, <1>1, <1>3 DEF Unused
    <2>2. \A j \in Leeches, y \in {"read", "tick"} :
             todo'[<<<<j, q>>, y>>] = {} \/ todo'[<<<<j, q>>, y>>] = todo[<<<<j, q>>, y>>]
      BY <1>4, LinkTypes
    <2>3. /\ \A j \in Leeches, y \in {"read", "tick"} :
                \A a \in todo'[<<<<j, q>>, y>>] : a.to # k
          /\ todo'[<<<<k, q>>, "read">>] = {} /\ todo'[<<<<k, q>>, "tick">>] = {}
      BY <2>1, <2>2 DEF Quiet
    <2>4. UNCHANGED <<toSeed, planned>>
      BY <1>1
    <2> QED BY <2>1, <2>3, <2>4 DEF Quiet
  <1>7. Sending'
    <2> SUFFICES ASSUME NEW k \in Leeches, NEW q \in Peers
                 PROVE  Sends(world, k, q, todo'[<<<<k, q>>, "read">>],
                              todo'[<<<<k, q>>, "tick">>])
      BY <1>1 DEF Sending
    <2>1. /\ todo'[<<<<k, q>>, "read">>] \subseteq todo[<<<<k, q>>, "read">>]
          /\ todo'[<<<<k, q>>, "tick">>] \subseteq todo[<<<<k, q>>, "tick">>]
      BY <1>4, LinkTypes
    <2>2. Sends(world, k, q, todo[<<<<k, q>>, "read">>], todo[<<<<k, q>>, "tick">>])
      BY <1>0 DEF Sending
    <2> QED BY <2>1, <2>2 DEF Sends
  <1>8. Announced'
    BY <1>1, <1>3 DEF Announced
  <1>9. Tabled' /\ Leeching' /\ Dialling' /\ Admitted'
    BY <1>0, <1>1, Frame
  <1> QED BY <1>5, <1>6, <1>7, <1>8, <1>9 DEF Base
\* A peer gets a piece and announces it.
LEMMA BasePeerGains ==
    ASSUME Base, NEW p \in Peers, NEW i \in Pieces, PeerGains(p, i)
    PROVE  Base'
  <1> DEFINE m == [type |-> "have", index |-> i]
  <1>0. /\ Types /\ Tabled /\ Leeching /\ Dialling /\ Unused
        /\ Admitted /\ Sending /\ Announced
    BY BaseParts
  <1>t. toLeech \in [Links -> Seq(Answers)] /\ world \in WorldType
    BY <1>0 DEF Types
  <1>1. /\ i \in world.gains[p]
        /\ world' = [world EXCEPT !.holds[p] = @ \cup {i}]
        /\ toLeech' = [c \in Links |->
                IF c[2] = p /\ far[c] = "up" /\ near[c] = "up"
                THEN Append(toLeech[c], m) ELSE toLeech[c]]
        /\ UNCHANGED <<swarm, seed, near, far, toSeed, todo, planned, result, faults>>
    BY DEF PeerGains, conn
  <1>2. /\ world' \in WorldType /\ world'.links = world.links
        /\ world'.limits = world.limits /\ world'.gains = world.gains
        /\ world'.manifest = world.manifest /\ world'.serves = world.serves
        /\ \A q \in Peers : world.holds[q] \subseteq world'.holds[q]
        /\ i \in world'.holds[p]
    <2> DEFINE H == [world.holds EXCEPT ![p] = @ \cup {i}]
    <2>1. world.holds \in [Peers -> SUBSET Pieces]
      BY <1>t DEF WorldType
    <2>2. /\ H \in [Peers -> SUBSET Pieces] /\ i \in H[p]
          /\ \A q \in Peers : world.holds[q] \subseteq H[q]
      BY <2>1
    <2>3. world' = [world EXCEPT !.holds = H]
      BY <1>1
    <2> HIDE DEF H
    <2> QED BY <1>t, <2>2, <2>3 DEF WorldType
  <1>3. m \in Answers /\ m.type = "have" /\ m.index = i
    BY DEF Answers
  <1> HIDE DEF m
  <1>4. ASSUME NEW k \in Leeches, NEW q \in Peers
        PROVE  /\ Tells(world', q, swarm[k], toLeech'[<<k, q>>])
               /\ toLeech'[<<k, q>>] \in Seq(Answers)
               /\ far[<<k, q>>] = "none" => toLeech'[<<k, q>>] = toLeech[<<k, q>>]
    <2>1. <<k, q>> \in Links /\ toLeech[<<k, q>>] \in Seq(Answers)
      BY <1>t, LinkTypes
    <2>2. Tells(world', q, swarm[k], toLeech[<<k, q>>])
      BY <1>0, <1>2 DEF Announced, Tells
    <2>3. CASE toLeech'[<<k, q>>] = toLeech[<<k, q>>]
      BY <2>1, <2>2, <2>3
    <2>4. CASE /\ q = p /\ far[<<k, q>>] = "up"
               /\ toLeech'[<<k, q>>] = Append(toLeech[<<k, q>>], m)
      <3>1. m.index \in world'.holds[q] \cap world'.gains[q]
        BY <1>1, <1>2, <1>3, <2>4
      <3> QED BY <1>3, <2>1, <2>2, <2>4, <3>1, TellsMore
    <2> QED BY <1>1, <2>1, <2>3, <2>4
  <1>5. Types'
    <2>1. \A c \in Links : toLeech'[c] \in Seq(Answers)
      BY <1>4 DEF Links
    <2>2. toLeech' \in [Links -> Seq(Answers)]
      BY <1>1, <2>1
    <2> QED BY <1>0, <1>1, <1>2, <2>2 DEF Types
  <1>6. Unused'
    <2>1. \A k \in Leeches, q \in Peers :
            Quiet(k, q) /\ toLeech'[<<k, q>>] = toLeech[<<k, q>>] => Quiet(k, q)'
      BY <1>1 DEF Quiet
    <2> QED BY <1>0, <1>1, <1>4, <2>1 DEF Unused
  <1>7. Sending'
    <2> SUFFICES ASSUME NEW k \in Leeches, NEW q \in Peers
                 PROVE  Sends(world', k, q, todo[<<<<k, q>>, "read">>],
                              todo[<<<<k, q>>, "tick">>])
      BY <1>1 DEF Sending
    <2>1. Sends(world, k, q, todo[<<<<k, q>>, "read">>], todo[<<<<k, q>>, "tick">>])
      BY <1>0 DEF Sending
    <2> QED BY <1>2, <2>1 DEF Sends
  <1>8. Announced'
    BY <1>1, <1>4 DEF Announced
  <1>9. Leeching'
    <2>1. limits' = limits
      BY <1>2 DEF limits
    <2> QED BY <1>0, <1>1, <2>1 DEF Leeching, Sound, Apart
  <1>10. Dialling'
    BY <1>0, <1>1, <1>2 DEF Dialling
  <1>11. Tabled' /\ Admitted'
    BY <1>0, <1>1, Frame
  <1> QED BY <1>5, <1>6, <1>7, <1>8, <1>9, <1>10, <1>11 DEF Base

LEMMA TellsNothing ==
    ASSUME NEW w, NEW p, NEW sw, NEW q, Tells(w, p, sw, q)
    PROVE  Tells(w, p, sw, <<>>)
  <1>1. DOMAIN <<>> = {}
    OBVIOUS
  <1> QED BY <1>1 DEF Tells

LEMMA Cleared ==
    ASSUME NEW S, NEW q \in [Links -> Seq(S)], NEW c \in Links, NEW r,
           r = [q EXCEPT ![c] = <<>>]
    PROVE  /\ r \in [Links -> Seq(S)] /\ r[c] = <<>>
           /\ \A d \in Links : r[d] = q[d] \/ r[d] = <<>>
           /\ \A d \in Links : d # c => r[d] = q[d]
  <1>1. <<>> \in Seq(S)
    OBVIOUS
  <1> QED BY <1>1

\* A leech that sees the end of a connection.
LEMMA BaseLeechSeesEnd ==
    ASSUME Base, NEW l \in Leeches, NEW p \in Peers, LeechSeesEnd(<<l, p>>)
    PROVE  Base'
  <1> DEFINE c == <<l, p>>
  <1>0. /\ Types /\ Tabled /\ Leeching /\ Dialling /\ Unused
        /\ Admitted /\ Sending /\ Announced
    BY BaseParts
  <1>t. /\ toLeech \in [Links -> Seq(Answers)]
        /\ near \in [Links -> {"none", "dial", "up", "closing", "gone"}]
    BY <1>0 DEF Types
  <1>1. /\ near[c] = "up" /\ near' = [near EXCEPT ![c] = "closing"]
        /\ toLeech' = [toLeech EXCEPT ![c] = <<>>]
        /\ UNCHANGED <<world, swarm, seed, far, toSeed, todo, planned, result, faults>>
    BY DEF LeechSeesEnd
  <1>2. toLeech' \in [Links -> Seq(Answers)]
        /\ \A k \in Leeches, q \in Peers :
             toLeech'[<<k, q>>] = toLeech[<<k, q>>] \/ toLeech'[<<k, q>>] = <<>>
    BY <1>t, <1>1, LinkTypes, Cleared
  <1>3. Types'
    BY <1>0, <1>1, <1>t, <1>2 DEF Types
  <1>4. Tabled'
    BY <1>0, <1>t, <1>1, LinkTypes DEF Tabled
  <1>5. Dialling'
    BY <1>0, <1>t, <1>1, LinkTypes DEF Dialling
  <1>6. Unused'
    <2>1. \A k \in Leeches, q \in Peers : Quiet(k, q) => Quiet(k, q)'
      BY <1>1, <1>2 DEF Quiet
    <2> QED BY <1>0, <1>1, <2>1 DEF Unused
  <1>7. Announced'
    <2>2. \A k \in Leeches, q \in Peers :
            Tells(world, q, swarm[k], toLeech[<<k, q>>]) =>
                Tells(world, q, swarm[k], toLeech'[<<k, q>>])
      BY <1>2, TellsNothing
    <2> QED BY <1>0, <1>1, <2>2 DEF Announced
  <1>8. Leeching' /\ Admitted' /\ Sending'
    BY <1>0, <1>1, Frame
  <1> QED BY <1>3, <1>4, <1>5, <1>6, <1>7, <1>8 DEF Base

\* A leech's table without a peer.
LEMMA Removes ==
    ASSUME world \in WorldType, NEW sw, Sound(sw), NEW p \in DOMAIN sw.peers
    PROVE  /\ Sound(remove_peer(sw, p))
           /\ DOMAIN remove_peer(sw, p).peers = DOMAIN sw.peers \ {p}
           /\ \A q \in DOMAIN sw.peers \ {p} : remove_peer(sw, p).peers[q] = sw.peers[q]
           /\ remove_peer(sw, p).pieces = sw.pieces
           /\ remove_peer(sw, p).manifest = sw.manifest
           /\ remove_peer(sw, p).complete = sw.complete
           /\ missing(remove_peer(sw, p)) = missing(sw)
  <1> DEFINE T == [q \in DOMAIN sw.peers \ {p} |-> sw.peers[q]]
             av == counted(sw.availability, sw.peers[p].have, -1)
             s == remove_peer(sw, p)
  <1>0. sw \in SwarmType
    BY DEF Sound
  <1>1. T \in Tables
    <2>1. DOMAIN sw.peers \ {p} \in SUBSET Peers /\ T \in [DOMAIN sw.peers \ {p} -> PeerState]
      BY <1>0, TableShape
    <2> HIDE DEF T
    <2> QED BY <2>1 DEF Tables
  <1>2. DOMAIN T = DOMAIN sw.peers \ {p} /\ \A q \in DOMAIN T : T[q] = sw.peers[q]
    OBVIOUS
  <1>3. \A i \in Pieces : /\ av[i] = Cardinality(Holders(sw, i) \ {p})
                          /\ Cardinality(Holders(sw, i) \ {p}) \in Nat
    <2> SUFFICES ASSUME NEW i \in Pieces
                 PROVE  /\ av[i] = Cardinality(Holders(sw, i) \ {p})
                        /\ Cardinality(Holders(sw, i) \ {p}) \in Nat
      OBVIOUS
    <2>1. sw.availability[i] = Cardinality(Holders(sw, i))
      BY DEF Sound, Counted
    <2>2. /\ Cardinality(Holders(sw, i)) = Cardinality(Holders(sw, i) \ {p})
                    + (IF i \in sw.peers[p].have THEN 1 ELSE 0)
          /\ Cardinality(Holders(sw, i) \ {p}) \in Nat
      BY <1>0, HoldersWithout
    <2>3. av[i] = IF i \in sw.peers[p].have THEN Max({0, sw.availability[i] + (-1)})
                  ELSE sw.availability[i]
      BY DEF counted
    <2> DEFINE n == Cardinality(Holders(sw, i) \ {p})
    <2>4. CASE i \in sw.peers[p].have
      <3>1. sw.availability[i] = n + 1 /\ n \in Nat
        BY <2>1, <2>2, <2>4
      <3> HIDE DEF n
      <3>2. sw.availability[i] + (-1) = n
        BY <3>1
      <3>3. av[i] = Max({0, n})
        BY <2>3, <2>4, <3>2
      <3>4. av[i] = n
        BY <3>1, <3>3, MaxWithZero
      <3> QED BY <3>1, <3>4 DEF n
    <2>5. CASE i \notin sw.peers[p].have
      BY <2>1, <2>2, <2>3, <2>5
    <2> QED BY <2>4, <2>5
  <1>4. av \in [Pieces -> Nat]
    BY <1>3 DEF counted
  <1>5. s = [sw EXCEPT !.peers = T, !.availability = av]
    BY DEF remove_peer
  <1> HIDE DEF T, av, s
  <1>6. /\ s \in SwarmType /\ s.peers = T /\ s.availability = av
        /\ s.pieces = sw.pieces /\ s.manifest = sw.manifest /\ s.complete = sw.complete
    BY <1>0, <1>1, <1>4, <1>5 DEF SwarmType
  <1>7. missing(s) = missing(sw)
    BY <1>6 DEF missing
  <1>8. Counted(s)
    <2>1. \A i : Holders(s, i) = Holders(sw, i) \ {p}
      BY <1>2, <1>6 DEF Holders
    <2> QED BY <1>3, <1>6, <2>1 DEF Counted
  <1>9. Booked(s)
    BY <1>2, <1>6, <1>7 DEF Sound, Booked
  <1>10. Apart(s)
    BY <1>2, <1>6, <1>7 DEF Sound, Apart
  <1>11. Finished(s)
    BY <1>6, <1>7 DEF Sound, Finished
  <1>12. Sound(s)
    BY <1>6, <1>8, <1>9, <1>10, <1>11 DEF Sound
  <1> QED BY <1>2, <1>6, <1>7, <1>12 DEF s
LEMMA BaseRemovePeer ==
    ASSUME Base, NEW l \in Leeches, NEW p \in Peers, RemovePeer(l, p)
    PROVE  Base'
  <1> DEFINE c == <<l, p>>
             s == remove_peer(swarm[l], p)
  <1>0. /\ Types /\ Tabled /\ Leeching /\ Dialling /\ Unused
        /\ Admitted /\ Sending /\ Announced
    BY BaseParts
  <1>t. /\ toLeech \in [Links -> Seq(Answers)] /\ world \in WorldType
        /\ near \in [Links -> {"none", "dial", "up", "closing", "gone"}]
        /\ swarm \in [Leeches -> SwarmType]
    BY <1>0 DEF Types
  <1>1. /\ near[c] = "closing" /\ near' = [near EXCEPT ![c] = "gone"]
        /\ swarm' = [swarm EXCEPT ![l] = s]
        /\ toLeech' = [toLeech EXCEPT ![c] = <<>>]
        /\ UNCHANGED <<world, seed, far, toSeed, todo, planned, result, faults>>
    BY DEF RemovePeer
  <1>2. toLeech' \in [Links -> Seq(Answers)]
        /\ \A k \in Leeches, q \in Peers :
             toLeech'[<<k, q>>] = toLeech[<<k, q>>] \/ toLeech'[<<k, q>>] = <<>>
    BY <1>t, <1>1, LinkTypes, Cleared
  <1>3. p \in DOMAIN swarm[l].peers /\ Sound(swarm[l])
    BY <1>0, <1>1 DEF Tabled, Leeching
  <1>4. /\ Sound(s) /\ DOMAIN s.peers = DOMAIN swarm[l].peers \ {p}
        /\ \A q \in DOMAIN swarm[l].peers \ {p} : s.peers[q] = swarm[l].peers[q]
    BY <1>t, <1>3, Removes
  <1> HIDE DEF s
  <1>5. swarm'[l] = s /\ \A k \in Leeches : k # l => swarm'[k] = swarm[k]
    BY <1>t, <1>1
  <1>6. Types'
    <2>1. swarm' \in [Leeches -> SwarmType]
      BY <1>t, <1>1, <1>4 DEF Sound
    <2> QED BY <1>0, <1>1, <1>t, <1>2, <2>1 DEF Types
  <1>7. Tabled'
    <2> SUFFICES ASSUME NEW k \in Leeches, NEW q \in Peers
                 PROVE  q \in DOMAIN swarm'[k].peers <=> near'[<<k, q>>] \in {"up", "closing"}
      BY DEF Tabled
    <2>1. q \in DOMAIN swarm[k].peers <=> near[<<k, q>>] \in {"up", "closing"}
      BY <1>0 DEF Tabled
    <2>2. near'[<<k, q>>] = IF <<k, q>> = c THEN "gone" ELSE near[<<k, q>>]
      BY <1>t, <1>1, LinkTypes
    <2>3. CASE k = l
      BY <1>4, <1>5, <2>1, <2>2, <2>3
    <2>4. CASE k # l
      BY <1>5, <2>1, <2>2, <2>4
    <2> QED BY <2>3, <2>4
  <1>8. Leeching'
    <2>1. limits' = limits
      BY <1>1 DEF limits
    <2> QED BY <1>0, <1>4, <1>5, <2>1 DEF Leeching, Sound, Apart
  <1>9. Dialling'
    BY <1>0, <1>t, <1>1, LinkTypes DEF Dialling
  <1>10. Unused'
    <2>1. \A k \in Leeches, q \in Peers : Quiet(k, q) => Quiet(k, q)'
      BY <1>1, <1>2 DEF Quiet
    <2> QED BY <1>0, <1>1, <2>1 DEF Unused
  <1>11. Announced'
    <2> SUFFICES ASSUME NEW k \in Leeches, NEW q \in Peers
                 PROVE  Tells(world, q, swarm'[k], toLeech'[<<k, q>>])
      BY <1>1 DEF Announced
    <2>1. Tells(world, q, swarm[k], toLeech[<<k, q>>])
      BY <1>0 DEF Announced
    <2>2. Tells(world, q, swarm'[k], toLeech[<<k, q>>])
      <3>1. CASE k = l
        BY <1>4, <1>5, <2>1, <3>1 DEF Tells
      <3>2. CASE k # l
        BY <1>5, <2>1, <3>2
      <3> QED BY <3>1, <3>2
    <2> QED BY <1>2, <2>2, TellsNothing
  <1>12. Admitted' /\ Sending'
    BY <1>0, <1>1, Frame
  <1> QED BY <1>6, <1>7, <1>8, <1>9, <1>10, <1>11, <1>12 DEF Base

\* A table with a new peer.
LEMMA Meets ==
    ASSUME world \in WorldType, NEW sw, Sound(sw), NEW p \in Peers,
           p \notin DOMAIN sw.peers
    PROVE  /\ Sound(met(sw, p))
           /\ DOMAIN met(sw, p).peers = DOMAIN sw.peers \cup {p}
           /\ \A q \in DOMAIN sw.peers : met(sw, p).peers[q] = sw.peers[q]
           /\ met(sw, p).peers[p] = NewPeer
           /\ met(sw, p).pieces = sw.pieces /\ met(sw, p).manifest = sw.manifest
           /\ met(sw, p).complete = sw.complete
           /\ missing(met(sw, p)) = missing(sw)
  <1> DEFINE T == [q \in DOMAIN sw.peers \cup {p} |-> IF q = p THEN NewPeer ELSE sw.peers[q]]
             s == met(sw, p)
  <1>0. sw \in SwarmType
    BY DEF Sound
  <1>n. /\ NewPeer \in PeerState /\ NewPeer.have = {} /\ NewPeer.in_flight = {}
        /\ NewPeer.chokes_us = TRUE /\ NewPeer.we_interested = FALSE
    BY DEF NewPeer, PeerState
  <1>1. /\ DOMAIN T = DOMAIN sw.peers \cup {p}
        /\ \A q \in DOMAIN sw.peers : T[q] = sw.peers[q]
        /\ T[p] = NewPeer
    OBVIOUS
  <1>2. T \in [DOMAIN sw.peers \cup {p} -> PeerState] /\ DOMAIN sw.peers \cup {p} \in SUBSET Peers
    <2>1. \A q \in DOMAIN sw.peers \cup {p} : T[q] \in PeerState
      BY <1>0, <1>n, <1>1, TableShape
    <2>2. T = [q \in DOMAIN T |-> T[q]]
      OBVIOUS
    <2> HIDE DEF T
    <2>3. DOMAIN sw.peers \cup {p} \in SUBSET Peers
      BY <1>0, TableShape
    <2> QED BY <1>1, <2>1, <2>2, <2>3
  <1>3. s = [sw EXCEPT !.peers = T]
    BY DEF met
  <1> HIDE DEF T, s
  <1>4. T \in Tables
    BY <1>2 DEF Tables
  <1>6. /\ s \in SwarmType /\ s.peers = T /\ s.availability = sw.availability
        /\ s.pieces = sw.pieces /\ s.manifest = sw.manifest /\ s.complete = sw.complete
    BY <1>0, <1>3, <1>4 DEF SwarmType
  <1>7. missing(s) = missing(sw)
    BY <1>6 DEF missing
  <1>8. Counted(s)
    <2>1. \A i : Holders(s, i) = Holders(sw, i)
      BY <1>1, <1>6, <1>n DEF Holders
    <2> QED BY <1>6, <2>1 DEF Sound, Counted
  <1>9. Booked(s)
    BY <1>n, <1>1, <1>6, <1>7 DEF Sound, Booked
  <1>10. Apart(s)
    BY <1>n, <1>1, <1>6, <1>7 DEF Sound, Apart
  <1>11. Finished(s)
    BY <1>6, <1>7 DEF Sound, Finished
  <1>12. Sound(s)
    BY <1>6, <1>8, <1>9, <1>10, <1>11 DEF Sound
  <1> QED BY <1>1, <1>6, <1>7, <1>12 DEF s
LEMMA BaseConnect ==
    ASSUME Base, NEW l \in Leeches, NEW p \in Peers, Connect(l, p)
    PROVE  Base'
  <1> DEFINE c == <<l, p>>
             admits == /\ world.manifest[p] # "absent"
                       /\ Cardinality(seed[p].peers) < limits.max_peers
             s == met(swarm[l], p)
             sd == IF admits THEN joined(seed[p], l) ELSE seed[p]
             q0 == IF admits THEN add_peer(p) ELSE <<>>
             f == IF admits THEN "up" ELSE "mute"
  <1>0. /\ Types /\ Tabled /\ Leeching /\ Dialling /\ Unused
        /\ Admitted /\ Sending /\ Announced
    BY BaseParts
  <1>t. /\ toLeech \in [Links -> Seq(Answers)] /\ world \in WorldType
        /\ near \in [Links -> {"none", "dial", "up", "closing", "gone"}]
        /\ far \in [Links -> {"none", "up", "mute", "gone"}]
        /\ swarm \in [Leeches -> SwarmType] /\ seed \in [Peers -> SeedType]
    BY <1>0 DEF Types
  <1>1. /\ near[c] = "dial" /\ near' = [near EXCEPT ![c] = "up"]
        /\ far' = [far EXCEPT ![c] = f]
        /\ swarm' = [swarm EXCEPT ![l] = s]
        /\ seed' = [seed EXCEPT ![p] = sd]
        /\ toLeech' = [toLeech EXCEPT ![c] = q0]
        /\ UNCHANGED <<world, toSeed, todo, planned, result, faults>>
    BY DEF Connect
  <1>2. p \notin DOMAIN swarm[l].peers /\ Sound(swarm[l])
    BY <1>0, <1>1 DEF Tabled, Leeching
  <1>3. far[c] = "none" /\ Tidy(seed[p]) /\ l \notin seed[p].peers
    BY <1>0, <1>1 DEF Dialling, Admitted
  <1>4. /\ Sound(s) /\ DOMAIN s.peers = DOMAIN swarm[l].peers \cup {p}
        /\ \A q \in DOMAIN swarm[l].peers : s.peers[q] = swarm[l].peers[q]
        /\ s.peers[p] = NewPeer
    BY <1>t, <1>2, Meets
  <1>5. Tidy(sd) /\ \A k \in Leeches : k \in sd.peers <=> k \in seed[p].peers \/ (k = l /\ f = "up")
    BY <1>3, Joins
  <1>6. q0 \in Seq(Answers) /\ Tells(world, p, s, q0)
    <2>1. NewPeer.have = {}
      BY DEF NewPeer
    <2>2. CASE ~admits
      <3>1. q0 = <<>> /\ DOMAIN <<>> = {} /\ <<>> \in Seq(Answers)
        BY <2>2
      <3> QED BY <1>4, <2>1, <3>1 DEF Tells
    <2>3. CASE admits
      <3> DEFINE m1 == [type |-> "manifest", of |-> world.manifest[p]]
                 m2 == [type |-> "bitfield", field |-> world.holds[p]]
      <3>1. world.manifest[p] \in Manifests \ {"absent"} /\ world.holds[p] \in SUBSET Pieces
        BY <1>t, <2>3 DEF WorldType
      <3>2. m1 \in Answers /\ m2 \in Answers
        BY <3>1 DEF Answers
      <3>3. /\ m1.type = "manifest" /\ m1.of = world.manifest[p]
            /\ m2.type = "bitfield" /\ m2.field = world.holds[p]
        OBVIOUS
      <3>4. q0 = <<m1, m2>>
        BY <2>3 DEF add_peer
      <3> HIDE DEF m1, m2, q0
      <3>5. q0 \in Seq(Answers) /\ DOMAIN q0 = 1 .. 2 /\ q0[1] = m1 /\ q0[2] = m2
        BY <3>2, <3>4
      <3>6. ASSUME NEW k \in DOMAIN q0
            PROVE  /\ q0[k].type = "bitfield" =>
                        /\ q0[k].field \subseteq world.holds[p]
                        /\ \A j \in 1 .. k - 1 : q0[j].type = "manifest"
                   /\ q0[k].type # "have" /\ q0[k].type # "piece"
                   /\ q0[k].type = "manifest" => q0[k].of = world.manifest[p]
        <4>1. CASE k = 1
          BY <3>3, <3>5, <4>1
        <4>2. CASE k = 2
          <5>1. \A j \in 1 .. 2 - 1 : j = 1
            OBVIOUS
          <5> QED BY <3>3, <3>5, <4>2, <5>1
        <4> QED BY <3>5, <4>1, <4>2
      <3> QED BY <1>4, <2>1, <3>5, <3>6 DEF Tells
    <2> QED BY <2>2, <2>3
  <1>7. f \in {"up", "mute"}
    OBVIOUS
  <1> HIDE DEF s, sd, q0, f
  <1>8. /\ swarm'[l] = s /\ \A k \in Leeches : k # l => swarm'[k] = swarm[k]
        /\ seed'[p] = sd /\ \A q \in Peers : q # p => seed'[q] = seed[q]
    BY <1>t, <1>1
  <1>9. \A k \in Leeches, q \in Peers :
            /\ near'[<<k, q>>] = (IF <<k, q>> = c THEN "up" ELSE near[<<k, q>>])
            /\ far'[<<k, q>>] = (IF <<k, q>> = c THEN f ELSE far[<<k, q>>])
            /\ toLeech'[<<k, q>>] = (IF <<k, q>> = c THEN q0 ELSE toLeech[<<k, q>>])
    BY <1>t, <1>1, LinkTypes
  <1>10. Types'
    <2>1. swarm' \in [Leeches -> SwarmType] /\ seed' \in [Peers -> SeedType]
      BY <1>t, <1>1, <1>4, <1>5 DEF Sound, Tidy
    <2>2. toLeech' \in [Links -> Seq(Answers)]
      BY <1>t, <1>1, <1>6
    <2>3. /\ near' \in [Links -> {"none", "dial", "up", "closing", "gone"}]
          /\ far' \in [Links -> {"none", "up", "mute", "gone"}]
      BY <1>t, <1>1, <1>7
    <2> QED BY <1>0, <1>1, <2>1, <2>2, <2>3 DEF Types
  <1>11. Tabled'
    <2> SUFFICES ASSUME NEW k \in Leeches, NEW q \in Peers
                 PROVE  q \in DOMAIN swarm'[k].peers <=> near'[<<k, q>>] \in {"up", "closing"}
      BY DEF Tabled
    <2>1. q \in DOMAIN swarm[k].peers <=> near[<<k, q>>] \in {"up", "closing"}
      BY <1>0 DEF Tabled
    <2>3. CASE k = l
      BY <1>4, <1>8, <1>9, <2>1, <2>3
    <2>4. CASE k # l
      BY <1>8, <1>9, <2>1, <2>4
    <2> QED BY <2>3, <2>4
  <1>12. Leeching'
    <2>1. limits' = limits
      BY <1>1 DEF limits
    <2> QED BY <1>0, <1>4, <1>8, <2>1 DEF Leeching, Sound, Apart
  <1>13. Dialling'
    <2> SUFFICES ASSUME NEW k \in Leeches, NEW q \in Peers
                 PROVE  /\ near'[<<k, q>>] # "none" <=> <<k, q>> \in world.links
                        /\ near'[<<k, q>>] \in {"none", "dial"} => far'[<<k, q>>] = "none"
                        /\ near'[<<k, q>>] \in {"up", "closing"} => far'[<<k, q>>] # "none"
      BY <1>1 DEF Dialling
    <2>1. /\ near[<<k, q>>] # "none" <=> <<k, q>> \in world.links
          /\ near[<<k, q>>] \in {"none", "dial"} => far[<<k, q>>] = "none"
          /\ near[<<k, q>>] \in {"up", "closing"} => far[<<k, q>>] # "none"
      BY <1>0 DEF Dialling
    <2> QED BY <1>1, <1>7, <1>9, <2>1
  <1>14. Unused'
    <2>1. \A k \in Leeches, q \in Peers : far'[<<k, q>>] = "none" =>
            far[<<k, q>>] = "none" /\ toLeech'[<<k, q>>] = toLeech[<<k, q>>]
      BY <1>7, <1>9
    <2>2. \A k \in Leeches, q \in Peers :
            Quiet(k, q) /\ toLeech'[<<k, q>>] = toLeech[<<k, q>>] => Quiet(k, q)'
      BY <1>1 DEF Quiet
    <2> QED BY <1>0, <2>1, <2>2 DEF Unused
  <1>15. Admitted'
    <2> SUFFICES ASSUME NEW q \in Peers
                 PROVE  /\ Tidy(seed'[q])
                        /\ \A k \in Leeches : k \in seed'[q].peers <=> far'[<<k, q>>] = "up"
      BY DEF Admitted
    <2>0. /\ Tidy(seed[q])
          /\ \A k \in Leeches : k \in seed[q].peers <=> far[<<k, q>>] = "up"
      BY <1>0 DEF Admitted
    <2>1. CASE q = p
      BY <1>3, <1>5, <1>8, <1>9, <2>0, <2>1
    <2>2. CASE q # p
      BY <1>8, <1>9, <2>0, <2>2
    <2> QED BY <2>1, <2>2
  <1>16. Announced'
    <2> SUFFICES ASSUME NEW k \in Leeches, NEW q \in Peers
                 PROVE  Tells(world, q, swarm'[k], toLeech'[<<k, q>>])
      BY <1>1 DEF Announced
    <2>1. Tells(world, q, swarm[k], toLeech[<<k, q>>])
      BY <1>0 DEF Announced
    <2>2. CASE <<k, q>> = c
      BY <1>6, <1>8, <1>9, <2>2
    <2>3. CASE k # l
      BY <1>8, <1>9, <2>1, <2>3
    <2>4. CASE k = l /\ q # p
      <3>1. toLeech'[<<k, q>>] = toLeech[<<k, q>>] /\ swarm'[k] = s
        BY <1>8, <1>9, <2>4
      <3>2. /\ q \in DOMAIN s.peers <=> q \in DOMAIN swarm[k].peers
            /\ q \in DOMAIN swarm[k].peers => s.peers[q] = swarm[k].peers[q]
        BY <1>4, <2>4
      <3> QED BY <2>1, <3>1, <3>2 DEF Tells
    <2> QED BY <2>2, <2>3, <2>4
  <1>17. Sending'
    BY <1>0, <1>1, Frame
  <1> QED BY <1>10, <1>11, <1>12, <1>13, <1>14, <1>15, <1>16, <1>17 DEF Base

\* What is only asked for keeps a swarm sound.
LEMMA KeptSound ==
    ASSUME NEW sw, Sound(sw), NEW r, Kept(sw, r)
    PROVE  Sound(r.sw)
  <1>1. Counted(r.sw)
    BY SamePeersCounted DEF Kept, Sound
  <1>2. Booked(r.sw) /\ Apart(r.sw) /\ r.sw \in SwarmType
    BY DEF Kept, Sound
  <1>3. missing(r.sw) = missing(sw) /\ r.sw.complete = sw.complete
    BY DEF Kept, missing
  <1> QED BY <1>1, <1>2, <1>3 DEF Sound, Finished

\* A step that computes a leech's new swarm and what its thread will send.
LEMMA BasePlans ==
    ASSUME Base, NEW l \in Leeches, NEW x \in Peers \cup {0}, NEW r, NEW s,
           planned[<<l, x>>] = idle, Sound(s), Kept(s, r),
           DOMAIN s.peers = DOMAIN swarm[l].peers,
           swarm' = [swarm EXCEPT ![l] = r.sw],
           planned' = [planned EXCEPT ![<<l, x>>] = r.out],
           near' \in [Links -> {"none", "dial", "up", "closing", "gone"}],
           \A k \in Leeches, q \in Peers :
              \/ near'[<<k, q>>] = near[<<k, q>>]
              \/ near[<<k, q>>] = "up" /\ near'[<<k, q>>] = "closing",
           toLeech' \in [Links -> Seq(Answers)],
           \A k \in Leeches, q \in Peers : toLeech[<<k, q>>] = <<>> => toLeech'[<<k, q>>] = <<>>,
           \A q \in Peers : Tells(world, q, s, toLeech'[<<l, q>>]),
           \A k \in Leeches, q \in Peers : k # l => toLeech'[<<k, q>>] = toLeech[<<k, q>>],
           result' \in [Leeches -> {"none", "running", "ok", "failed"}],
           UNCHANGED <<world, seed, far, toSeed, todo, faults>>
    PROVE  Base'
  <1>0. /\ Types /\ Tabled /\ Leeching /\ Dialling /\ Unused
        /\ Admitted /\ Sending /\ Announced
    BY BaseParts
  <1>t. /\ swarm \in [Leeches -> SwarmType]
        /\ planned \in [LeechThreads -> [Peers -> Seq(Asks)]]
    BY <1>0 DEF Types
  <1>x. \A k \in Leeches, y \in Peers \cup {0} : <<k, y>> \in LeechThreads
    BY DEF LeechThreads
  <1>1. /\ Sound(r.sw) /\ DOMAIN r.sw.peers = DOMAIN swarm[l].peers
        /\ \A q \in DOMAIN swarm[l].peers : r.sw.peers[q].have = s.peers[q].have
        /\ r.out \in [Peers -> Seq(Asks)]
        /\ \A q \in Peers \ DOMAIN swarm[l].peers : r.out[q] = <<>>
    BY KeptSound DEF Kept
  <1>2. swarm'[l] = r.sw /\ \A k \in Leeches : k # l => swarm'[k] = swarm[k]
    BY <1>t
  <1>3. \A k \in Leeches, y \in Peers \cup {0} : planned'[<<k, y>>] =
            IF k = l /\ y = x THEN r.out ELSE planned[<<k, y>>]
    BY <1>t, <1>x
  <1>4. Types'
    <2>1. swarm' \in [Leeches -> SwarmType]
      BY <1>t, <1>1 DEF Sound
    <2>2. planned' \in [LeechThreads -> [Peers -> Seq(Asks)]]
      BY <1>t, <1>1
    <2> QED BY <1>0, <2>1, <2>2 DEF Types
  <1>5. Tabled'
    <2> SUFFICES ASSUME NEW k \in Leeches, NEW q \in Peers
                 PROVE  q \in DOMAIN swarm'[k].peers <=> near'[<<k, q>>] \in {"up", "closing"}
      BY DEF Tabled
    <2>1. q \in DOMAIN swarm[k].peers <=> near[<<k, q>>] \in {"up", "closing"}
      BY <1>0 DEF Tabled
    <2>2. DOMAIN swarm'[k].peers = DOMAIN swarm[k].peers
      BY <1>1, <1>2
    <2>3. \/ near'[<<k, q>>] = near[<<k, q>>]
          \/ near[<<k, q>>] = "up" /\ near'[<<k, q>>] = "closing"
      OBVIOUS
    <2> QED BY <2>1, <2>2, <2>3
  <1>6. Leeching'
    <2>1. limits' = limits
      BY DEF limits
    <2> QED BY <1>0, <1>1, <1>2, <2>1 DEF Leeching, Sound, Apart
  <1>7. Dialling'
    <2> SUFFICES ASSUME NEW k \in Leeches, NEW q \in Peers
                 PROVE  /\ near'[<<k, q>>] # "none" <=> <<k, q>> \in world.links
                        /\ near'[<<k, q>>] \in {"none", "dial"} => far[<<k, q>>] = "none"
                        /\ near'[<<k, q>>] \in {"up", "closing"} => far[<<k, q>>] # "none"
      BY DEF Dialling
    <2>1. /\ near[<<k, q>>] # "none" <=> <<k, q>> \in world.links
          /\ near[<<k, q>>] \in {"none", "dial"} => far[<<k, q>>] = "none"
          /\ near[<<k, q>>] \in {"up", "closing"} => far[<<k, q>>] # "none"
      BY <1>0 DEF Dialling
    <2>2. \/ near'[<<k, q>>] = near[<<k, q>>]
          \/ near[<<k, q>>] = "up" /\ near'[<<k, q>>] = "closing"
      OBVIOUS
    <2> QED BY <2>1, <2>2
  <1>8. Unused'
    <2> SUFFICES ASSUME NEW k \in Leeches, NEW q \in Peers, far'[<<k, q>>] = "none"
                 PROVE  Quiet(k, q)'
      BY DEF Unused
    <2>1. Quiet(k, q) /\ far[<<k, q>>] = "none"
      BY <1>0 DEF Unused
    <2>2. near[<<k, q>>] \notin {"up", "closing"}
      BY <1>0, <2>1 DEF Dialling
    <2>3. q \notin DOMAIN swarm[k].peers
      BY <1>0, <2>2 DEF Tabled
    <2>4. \A y \in Peers \cup {0} : planned'[<<k, y>>][q] = <<>>
      BY <1>1, <1>3, <2>1, <2>3 DEF Quiet
    <2>5. toLeech'[<<k, q>>] = <<>>
      BY <2>1 DEF Quiet
    <2>6. UNCHANGED <<toSeed, todo>>
      OBVIOUS
    <2> QED BY <2>1, <2>4, <2>5, <2>6 DEF Quiet
  <1>9. Announced'
    <2> SUFFICES ASSUME NEW k \in Leeches, NEW q \in Peers
                 PROVE  Tells(world, q, swarm'[k], toLeech'[<<k, q>>])
      BY DEF Announced
    <2>1. CASE k = l
      <3>1. Tells(world, q, s, toLeech'[<<k, q>>])
        BY <2>1
      <3>2. /\ swarm'[k] = r.sw /\ DOMAIN r.sw.peers = DOMAIN s.peers
            /\ \A y \in DOMAIN s.peers : r.sw.peers[y].have = s.peers[y].have
        BY <1>1, <1>2, <2>1
      <3> DEFINE q1 == toLeech'[<<k, q>>]
      <3>3. Tells(world, q, s, q1)
        BY <3>1
      <3> HIDE DEF q1
      <3>4. Tells(world, q, r.sw, q1)
        BY <3>2, <3>3 DEF Tells
      <3> QED BY <3>2, <3>4 DEF q1
    <2>2. CASE k # l
      BY <1>0, <1>2, <2>2 DEF Announced
    <2> QED BY <2>1, <2>2
  <1>10. Admitted' /\ Sending'
    BY <1>0, Frame
  <1> QED BY <1>4, <1>5, <1>6, <1>7, <1>8, <1>9, <1>10 DEF Base
LEMMA BaseFetchTurn ==
    ASSUME Base, NEW l \in Leeches, FetchTurn(l)
    PROVE  Base'
  <1>0. /\ Types /\ Tabled /\ Leeching /\ Dialling /\ Unused
        /\ Admitted /\ Sending /\ Announced
    BY BaseParts
  <1>t. /\ toLeech \in [Links -> Seq(Answers)] /\ world \in WorldType
        /\ near \in [Links -> {"none", "dial", "up", "closing", "gone"}]
        /\ result \in [Leeches -> {"none", "running", "ok", "failed"}]
        /\ swarm \in [Leeches -> SwarmType]
    BY <1>0 DEF Types
  <1>1. CASE result' = [result EXCEPT ![l] = "ok"]
             /\ UNCHANGED <<world, swarm, seed, near, far, toLeech, toSeed, todo,
                            planned, faults>>
    <2>1. Types'
      BY <1>0, <1>1 DEF Types
    <2>2. /\ Tabled' /\ Leeching' /\ Dialling' /\ Unused' /\ Admitted'
          /\ Sending' /\ Announced'
      BY <1>0, <1>1, Frame
    <2> QED BY <2>1, <2>2 DEF Base
  <1>2. CASE /\ planned[<<l, 0>>] = idle
             /\ swarm' = [swarm EXCEPT ![l] = schedule(swarm[l]).sw]
             /\ planned' = [planned EXCEPT ![<<l, 0>>] = schedule(swarm[l]).out]
             /\ UNCHANGED <<world, seed, near, far, toLeech, toSeed, todo, result, faults>>
    <2> DEFINE r == schedule(swarm[l])
    <2>1. Sound(swarm[l]) /\ Kept(swarm[l], r)
      BY <1>0, <1>t, KeptBySchedule DEF Leeching
    <2>2. \A q \in Peers : Tells(world, q, swarm[l], toLeech'[<<l, q>>])
      BY <1>0, <1>2 DEF Announced
    <2>3. /\ swarm' = [swarm EXCEPT ![l] = r.sw] /\ planned' = [planned EXCEPT ![<<l, 0>>] = r.out]
          /\ toLeech' \in [Links -> Seq(Answers)]
          /\ near' \in [Links -> {"none", "dial", "up", "closing", "gone"}]
          /\ result' \in [Leeches -> {"none", "running", "ok", "failed"}]
      BY <1>t, <1>2
    <2> HIDE DEF r
    <2>4. /\ UNCHANGED <<world, seed, near, far, toLeech, toSeed, todo, faults>>
          /\ planned[<<l, 0>>] = idle
      BY <1>2
    <2> QED BY <2>1, <2>2, <2>3, <2>4, BasePlans
  <1> QED BY <1>1, <1>2 DEF FetchTurn, conn

\* What a peer told, without the message that was read.
LEMMA TellsRest ==
    ASSUME NEW w, NEW p, NEW sw, NEW q \in Seq(Answers), q # <<>>, Tells(w, p, sw, q),
           NEW s, DOMAIN s.peers = DOMAIN sw.peers, p \in DOMAIN sw.peers,
           s.peers[p].have =
             IF q[1].type = "bitfield" THEN q[1].field
             ELSE IF q[1].type = "have" THEN sw.peers[p].have \cup {q[1].index}
             ELSE sw.peers[p].have
    PROVE  /\ Tells(w, p, s, Tail(q))
           /\ q[1].type = "bitfield" => sw.peers[p].have = {}
  <1> DEFINE r == Tail(q)
  <1>1. /\ 1 \in DOMAIN q /\ Len(q) \in Nat \ {0} /\ DOMAIN q = 1 .. Len(q)
        /\ DOMAIN r = 1 .. Len(q) - 1
        /\ \A k \in DOMAIN r : k + 1 \in DOMAIN q /\ r[k] = q[k + 1]
    BY HeadTail
  <1> HIDE DEF r
  <1>2. s.peers[p].have \subseteq w.holds[p]
    BY <1>1 DEF Tells
  <1>3. ASSUME NEW k \in DOMAIN r, r[k].type = "bitfield"
        PROVE  /\ q[1].type = "manifest" /\ sw.peers[p].have = {}
               /\ \A j \in 1 .. k - 1 : r[j].type = "manifest"
               /\ r[k].field \subseteq w.holds[p]
    <2>1. k + 1 \in DOMAIN q /\ q[k + 1].type = "bitfield" /\ q[k + 1] = r[k]
      BY <1>1, <1>3
    <2>2. /\ \A j \in 1 .. k : q[j].type = "manifest"
          /\ sw.peers[p].have = {} /\ q[k + 1].field \subseteq w.holds[p]
      <3>1. (k + 1) - 1 = k
        BY <1>1
      <3> QED BY <2>1, <3>1 DEF Tells
    <2>3. \A j \in 1 .. k - 1 : j \in DOMAIN r /\ j + 1 \in 1 .. k
      BY <1>1
    <2>4. 1 \in 1 .. k
      BY <1>1
    <2> QED BY <1>1, <2>1, <2>2, <2>3, <2>4
  <1>4. \A k \in DOMAIN r :
            /\ r[k].type = "have" => r[k].index \in w.holds[p] \cap w.gains[p]
            /\ r[k].type = "manifest" => r[k].of = w.manifest[p]
            /\ r[k].type = "piece" => r[k].bytes = w.serves[p]
    BY <1>1 DEF Tells
  <1>5. Tells(w, p, s, r)
    BY <1>2, <1>3, <1>4 DEF Tells
  <1>6. q[1].type = "bitfield" => sw.peers[p].have = {}
    BY <1>1 DEF Tells
  <1> QED BY <1>5, <1>6 DEF r

\* What a leech's reader sees and does.
LEMMA ReadsOne ==
    ASSUME Base, NEW l \in Leeches, NEW p \in Peers, LeechReads(l, p)
    PROVE  /\ toLeech[<<l, p>>] \in Seq(Answers) /\ toLeech[<<l, p>>] # <<>>
           /\ Head(toLeech[<<l, p>>]) \in Answers
           /\ Head(toLeech[<<l, p>>]) = toLeech[<<l, p>>][1]
           /\ p \in DOMAIN swarm[l].peers /\ Sound(swarm[l])
           /\ Head(toLeech[<<l, p>>]).type = "bitfield" => swarm[l].peers[p].have = {}
           /\ \E s : /\ Heard(swarm[l], p, Head(toLeech[<<l, p>>]), s)
                     /\ Kept(s, on_message(swarm[l], p, Head(toLeech[<<l, p>>])))
                     /\ (on_message(swarm[l], p, Head(toLeech[<<l, p>>])).drop # "no" =>
                            Dropped(swarm[l], p, Head(toLeech[<<l, p>>]),
                                    on_message(swarm[l], p, Head(toLeech[<<l, p>>]))))
  <1>0. /\ Types /\ Tabled /\ Leeching /\ Announced
    BY BaseParts
  <1>1. near[<<l, p>>] = "up" /\ toLeech[<<l, p>>] # <<>>
    BY DEF LeechReads
  <1>2. toLeech[<<l, p>>] \in Seq(Answers) /\ world \in WorldType
    BY <1>0, LinkTypes DEF Types
  <1>3. p \in DOMAIN swarm[l].peers /\ Sound(swarm[l])
    BY <1>0, <1>1 DEF Tabled, Leeching
  <1>4. /\ Head(toLeech[<<l, p>>]) \in Answers /\ 1 \in DOMAIN toLeech[<<l, p>>]
        /\ Head(toLeech[<<l, p>>]) = toLeech[<<l, p>>][1]
    BY <1>1, <1>2, HeadTail
  <1>5. Head(toLeech[<<l, p>>]).type = "bitfield" => swarm[l].peers[p].have = {}
    BY <1>0, <1>3, <1>4 DEF Announced, Tells
  <1> QED BY <1>1, <1>2, <1>3, <1>4, <1>5, Handled

LEMMA BaseLeechReads ==
    ASSUME Base, NEW l \in Leeches, NEW p \in Peers, LeechReads(l, p)
    PROVE  Base'
  <1> DEFINE c == <<l, p>>
             m == Head(toLeech[c])
             r == on_message(swarm[l], p, m)
  <1>0. /\ Types /\ Tabled /\ Leeching /\ Dialling /\ Unused
        /\ Admitted /\ Sending /\ Announced
    BY BaseParts
  <1>t. /\ toLeech \in [Links -> Seq(Answers)] /\ world \in WorldType
        /\ near \in [Links -> {"none", "dial", "up", "closing", "gone"}]
        /\ result \in [Leeches -> {"none", "running", "ok", "failed"}]
    BY <1>0 DEF Types
  <1>1. /\ near[c] = "up" /\ toLeech[c] # <<>> /\ planned[c] = idle
        /\ swarm' = [swarm EXCEPT ![l] = r.sw]
        /\ near' = [near EXCEPT ![c] = IF r.drop = "no" THEN @ ELSE "closing"]
        /\ planned' = [planned EXCEPT ![c] = r.out]
        /\ toLeech' = [toLeech EXCEPT ![c] = Tail(@)]
        /\ UNCHANGED <<world, seed, far, toSeed, todo, result, faults>>
    BY DEF LeechReads
  <1>2. /\ toLeech[c] \in Seq(Answers) /\ toLeech[c] # <<>> /\ m = toLeech[c][1]
        /\ p \in DOMAIN swarm[l].peers
    BY ReadsOne
  <1>3. PICK s : Heard(swarm[l], p, m, s) /\ Kept(s, r)
    BY ReadsOne
  <1> HIDE DEF m, r
  <1>4. /\ Sound(s) /\ DOMAIN s.peers = DOMAIN swarm[l].peers
        /\ \A q \in DOMAIN swarm[l].peers : q # p => s.peers[q].have = swarm[l].peers[q].have
        /\ s.peers[p].have =
             IF m.type = "bitfield" THEN m.field
             ELSE IF m.type = "have" THEN swarm[l].peers[p].have \cup {m.index}
             ELSE swarm[l].peers[p].have
    BY <1>2, <1>3 DEF Heard
  <1>5. Tail(toLeech[c]) \in Seq(Answers)
    BY <1>2, HeadTail
  <1>6. /\ toLeech' \in [Links -> Seq(Answers)] /\ toLeech'[c] = Tail(toLeech[c])
        /\ \A k \in Leeches, q \in Peers : <<k, q>> # c => toLeech'[<<k, q>>] = toLeech[<<k, q>>]
    BY <1>t, <1>1, <1>5, LinkTypes
  <1>7. \A q \in Peers : Tells(world, q, s, toLeech'[<<l, q>>])
    <2> SUFFICES ASSUME NEW q \in Peers PROVE Tells(world, q, s, toLeech'[<<l, q>>])
      OBVIOUS
    <2>1. Tells(world, q, swarm[l], toLeech[<<l, q>>])
      BY <1>0 DEF Announced
    <2>2. CASE q = p
      <3>1. Tells(world, p, s, Tail(toLeech[c]))
        BY <1>2, <1>4, <2>1, <2>2, TellsRest
      <3> QED BY <1>6, <2>2, <3>1
    <2>3. CASE q # p
      <3>1. toLeech'[<<l, q>>] = toLeech[<<l, q>>]
        BY <1>6, <2>3
      <3> QED BY <1>4, <2>1, <2>3, <3>1 DEF Tells
    <2> QED BY <2>2, <2>3
  <1>8. /\ near' \in [Links -> {"none", "dial", "up", "closing", "gone"}]
        /\ \A k \in Leeches, q \in Peers :
              \/ near'[<<k, q>>] = near[<<k, q>>]
              \/ near[<<k, q>>] = "up" /\ near'[<<k, q>>] = "closing"
    BY <1>t, <1>1, LinkTypes
  <1>9. \A k \in Leeches, q \in Peers : toLeech[<<k, q>>] = <<>> => toLeech'[<<k, q>>] = <<>>
    BY <1>2, <1>6
  <1>10. \A k \in Leeches, q \in Peers : k # l => toLeech'[<<k, q>>] = toLeech[<<k, q>>]
    BY <1>6
  <1>11. /\ swarm' = [swarm EXCEPT ![l] = r.sw] /\ planned' = [planned EXCEPT ![<<l, p>>] = r.out]
         /\ planned[<<l, p>>] = idle
         /\ result' \in [Leeches -> {"none", "running", "ok", "failed"}]
         /\ UNCHANGED <<world, seed, far, toSeed, todo, faults>>
    BY <1>t, <1>1
  <1>12. toLeech' \in [Links -> Seq(Answers)]
    BY <1>6
  <1> QED BY <1>3, <1>4, <1>7, <1>8, <1>9, <1>10, <1>11, <1>12, BasePlans

LEMMA BaseStep ==
    ASSUME Base, [Next]_vars
    PROVE  Base'
  <1>1. CASE \E c \in Links : Step(c[1], c[2])
    <2>1. PICK l \in Leeches, p \in Peers : Step(l, p)
      BY <1>1 DEF Links
    <2> QED BY <2>1, BaseConnect, BaseLeechReads, BaseSeedReads, BaseSeedTick, BaseHangUp,
               BaseBreaks, BaseLeechSeesEnd, BaseRemovePeer DEF Step
  <1>2. CASE \E t \in Threads : Dispatch(t)
    <2>1. PICK l \in Leeches, p \in Peers, x \in {"read", "tick"} : Dispatch(<<<<l, p>>, x>>)
      BY <1>2 DEF Threads, Links
    <2> QED BY <2>1, BaseDispatch
  <1>3. CASE \E t \in LeechThreads : LeechDispatch(t)
    <2>1. PICK l \in Leeches, x \in Peers \cup {0} : LeechDispatch(<<l, x>>)
      BY <1>3 DEF LeechThreads
    <2> QED BY <2>1, BaseLeechDispatch
  <1>4. CASE \E l \in Leeches : FetchTurn(l) \/ FetchFails(l)
    BY <1>4, BaseFetchTurn, BaseFetchEnds
  <1>5. CASE \E c \in Links : DialFails(c) \/ Break(c)
    <2>1. PICK l \in Leeches, p \in Peers : DialFails(<<l, p>>) \/ Break(<<l, p>>)
      BY <1>5 DEF Links
    <2> QED BY <2>1, BaseDialFails, BaseBreaks
  <1>6. CASE \E l \in Leeches : Deadline(l)
    BY <1>6, BaseFetchEnds
  <1>7. CASE \E p \in Peers, i \in Pieces : PeerGains(p, i)
    BY <1>7, BasePeerGains
  <1>8. CASE UNCHANGED vars
    <2>1. Types'
      BY <1>8, BaseParts DEF vars, Types
    <2>2. /\ Tabled' /\ Leeching' /\ Dialling' /\ Unused' /\ Admitted'
          /\ Sending' /\ Announced'
      BY <1>8, BaseParts, Frame DEF vars
    <2> QED BY <2>1, <2>2 DEF Base
  <1> QED BY <1>1, <1>2, <1>3, <1>4, <1>5, <1>6, <1>7, <1>8 DEF Next, Rest

\* Whatever messages, threads and breaks come in whatever order, the tables of
\* both ends of every connection of swarm/mod.rs and tcp.rs fit together.
THEOREM BaseHolds == Spec => []Base
  <1>1. Base /\ [Next]_vars => Base'
    BY BaseStep
  <1> QED BY <1>1, BaseInit, PTL DEF Spec

\* The index that rarest picks by, kept by increments in on_bitfield, on_have and
\* remove_peer, is always the number of connected peers that hold the piece.
THEOREM AvailabilityHolds == Spec => []AvailabilityIsCounted
  <1>1. Base => AvailabilityIsCounted
    BY DEF Base, Leeching, Sound, Counted, Holders, AvailabilityIsCounted
  <1> QED BY <1>1, BaseHolds, PTL
-----------------------------------------------------------------------------
(* The second invariant: what is reserved with a peer is owed.              *)

\* A connection that works.
Live(l, p) == near[<<l, p>>] = "up" /\ far[<<l, p>>] = "up"

\* What threads of a peer are about to send to a leech, and of a leech to a peer.
Sent(l, p, m) ==
    \E k \in Leeches, x \in {"read", "tick"} :
        \E a \in todo[<<<<k, p>>, x>>] : a.to = l /\ a.msg = m
Planned(l, p, m) == \E x \in Peers \cup {0} : m \in Range(planned[<<l, x>>][p])

\* A leech wants no more of a peer that gains nothing.
Done(l, p) ==
    /\ \A m \in Range(toLeech[<<l, p>>]) : m.type # "bitfield"
    /\ missing(swarm[l]) \cap swarm[l].peers[p].have = {}

\* A peer that gains nothing, with a slot for everyone.
Roomy(p) == world.gains[p] = {} /\ Cardinality(Sharers(p)) <= limits.unchoke_slots

\* It lets in whoever is interested, and the leech knows or is being told.
Greets(l, p) ==
    /\ Interested(FALSE) \notin Range(toSeed[<<l, p>>])
    /\ ~Planned(l, p, Interested(FALSE))
    /\ swarm[l].peers[p].we_interested =>
            \/ l \in seed[p].interested \/ Interested(TRUE) \in Range(toSeed[<<l, p>>])
            \/ Planned(l, p, Interested(TRUE))
    /\ Choke(TRUE) \notin Range(toLeech[<<l, p>>]) /\ ~Sent(l, p, Choke(TRUE))
    /\ l \in seed[p].unchoked => l \in seed[p].interested
    /\ l \in seed[p].unchoked <=>
            \/ ~swarm[l].peers[p].chokes_us \/ Choke(FALSE) \in Range(toLeech[<<l, p>>])
            \/ Sent(l, p, Choke(FALSE))

\* The last choke in a queue is a choke, or there is none.
Final(q) ==
    \E k \in DOMAIN q : /\ q[k] = Choke(TRUE)
                        /\ \A j \in DOMAIN q : j > k => q[j].type # "choke"
Still(q) == \A j \in DOMAIN q : q[j].type # "choke"

\* The connection's own ticker is about to choke the leech.
Choking(l, p) ==
    \E a \in todo[<<<<l, p>>, "tick">>] : a.to = l /\ a.msg = Choke(TRUE)

\* The last word to an only leech is what its peer thinks of it.
LastWord(l, p) ==
    l \notin seed[p].unchoked =>
        \/ Choking(l, p)
        \/ todo[<<<<l, p>>, "tick">>] = {} /\ Final(toLeech[<<l, p>>])
        \/ /\ todo[<<<<l, p>>, "tick">>] = {} /\ Still(toLeech[<<l, p>>])
           /\ swarm[l].peers[p].chokes_us

\* Somebody is about to send the piece, or to release the leech from waiting.
Owes(l, p, i) ==
    \/ Planned(l, p, Request(i))
    \/ Request(i) \in Range(toSeed[<<l, p>>])
    \/ \E m \in Range(toLeech[<<l, p>>]) : m.type = "piece" /\ m.index = i
    \/ \E a \in todo[<<<<l, p>>, "read">>] : a.msg.index = i
    \/ Choke(TRUE) \in Range(toLeech[<<l, p>>])
    \/ Choking(l, p)

Hosted(l, p) ==
    Live(l, p) =>
        /\ Roomy(p) => Done(l, p) \/ Greets(l, p)
        /\ Sharers(p) = {l} => LastWord(l, p)
        /\ Roomy(p) \/ Sharers(p) = {l} =>
                \A i \in swarm[l].peers[p].in_flight : Owes(l, p, i)

\* A connection that the peer lets lie says nothing.
Unheard(l, p) ==
    far[<<l, p>>] = "mute" /\ near[<<l, p>>] \in {"up", "closing"} =>
        /\ toLeech[<<l, p>>] = <<>> /\ swarm[l].peers[p].have = {}
        /\ swarm[l].peers[p].chokes_us

Hosting == \A l \in Leeches, p \in Peers : Hosted(l, p) /\ Unheard(l, p)

\* What a step leaves alone of a connection that works after it.
Same(l, p) ==
    Live(l, p)' =>
        /\ Live(l, p)
        /\ toLeech'[<<l, p>>] = toLeech[<<l, p>>] /\ toSeed'[<<l, p>>] = toSeed[<<l, p>>]
        /\ \A x \in Peers \cup {0} : planned'[<<l, x>>][p] = planned[<<l, x>>][p]
        /\ swarm'[l].peers[p] = swarm[l].peers[p]
        /\ missing(swarm'[l]) = missing(swarm[l])
        /\ swarm'[l].manifest = swarm[l].manifest
        /\ (l \in seed'[p].unchoked) = (l \in seed[p].unchoked)
        /\ (l \in seed'[p].interested) = (l \in seed[p].interested)
        /\ todo'[<<<<l, p>>, "read">>] = todo[<<<<l, p>>, "read">>]
        /\ todo'[<<<<l, p>>, "tick">>] = todo[<<<<l, p>>, "tick">>]
        /\ \A k \in Leeches, x \in {"read", "tick"} : \A a : a.to = l =>
                (a \in todo'[<<<<k, p>>, x>>] <=> a \in todo[<<<<k, p>>, x>>])

LEMMA HostedFrame ==
    ASSUME NEW l \in Leeches, NEW p \in Peers, Hosted(l, p), Same(l, p),
           Roomy(p)' = Roomy(p), Sharers(p)' = Sharers(p)
    PROVE  Hosted(l, p)'
  <1> SUFFICES ASSUME Live(l, p)'
               PROVE  /\ Roomy(p)' => Done(l, p)' \/ Greets(l, p)'
                      /\ Sharers(p)' = {l} => LastWord(l, p)'
                      /\ Roomy(p)' \/ Sharers(p)' = {l} =>
                            \A i \in swarm'[l].peers[p].in_flight : Owes(l, p, i)'
    BY DEF Hosted
  <1>1. /\ Live(l, p)
        /\ toLeech'[<<l, p>>] = toLeech[<<l, p>>] /\ toSeed'[<<l, p>>] = toSeed[<<l, p>>]
        /\ \A x \in Peers \cup {0} : planned'[<<l, x>>][p] = planned[<<l, x>>][p]
        /\ swarm'[l].peers[p] = swarm[l].peers[p]
        /\ missing(swarm'[l]) = missing(swarm[l])
        /\ (l \in seed'[p].unchoked) = (l \in seed[p].unchoked)
        /\ (l \in seed'[p].interested) = (l \in seed[p].interested)
        /\ todo'[<<<<l, p>>, "read">>] = todo[<<<<l, p>>, "read">>]
        /\ todo'[<<<<l, p>>, "tick">>] = todo[<<<<l, p>>, "tick">>]
    BY DEF Same
  <1>2. \A m : Sent(l, p, m)' <=> Sent(l, p, m)
    <2>1. \A k \in Leeches, x \in {"read", "tick"} : \A a : a.to = l =>
                (a \in todo'[<<<<k, p>>, x>>] <=> a \in todo[<<<<k, p>>, x>>])
      BY DEF Same
    <2> QED BY <2>1 DEF Sent
  <1>3. \A m : Planned(l, p, m)' <=> Planned(l, p, m)
    BY <1>1 DEF Planned
  <1>4. Done(l, p) => Done(l, p)'
    BY <1>1 DEF Done
  <1>5. Greets(l, p) => Greets(l, p)'
    BY <1>1, <1>2, <1>3 DEF Greets
  <1>6. LastWord(l, p) => LastWord(l, p)'
    BY <1>1 DEF LastWord, Choking
  <1>7. \A i : Owes(l, p, i) => Owes(l, p, i)'
    BY <1>1, <1>3 DEF Owes, Choking
  <1> QED BY <1>1, <1>4, <1>5, <1>6, <1>7 DEF Hosted

\* The messages in a queue, when one is added, when one is read, when several are.
LEMMA Ranges ==
    /\ Range(<<>>) = {}
    /\ \A S : \A q \in Seq(S), m \in S : Range(Append(q, m)) = Range(q) \cup {m}
    /\ \A S : \A q \in Seq(S), r \in Seq(S) : Range(q \o r) = Range(q) \cup Range(r)
    /\ \A S : \A q \in Seq(S) : q # <<>> =>
            Range(q) = {q[1]} \cup Range(Tail(q)) /\ Head(q) = q[1]
  <1>1. Range(<<>>) = {}
    BY DEF Range
  <1>2. ASSUME NEW S, NEW q \in Seq(S), NEW m \in S
        PROVE  Range(Append(q, m)) = Range(q) \cup {m}
    <2> DEFINE r == Append(q, m)
    <2>1. /\ DOMAIN r = 1 .. Len(q) + 1 /\ DOMAIN q = 1 .. Len(q)
          /\ Len(q) \in Nat /\ r[Len(q) + 1] = m /\ \A k \in 1 .. Len(q) : r[k] = q[k]
      BY AppendProperties
    <2> HIDE DEF r
    <2>2. \A k \in DOMAIN r : k \in DOMAIN q \/ k = Len(q) + 1
      BY <2>1
    <2>3. \A k \in DOMAIN q : k \in DOMAIN r
      BY <2>1
    <2>4. Len(q) + 1 \in DOMAIN r
      BY <2>1
    <2>5. Range(r) = Range(q) \cup {m}
      BY <2>1, <2>2, <2>3, <2>4 DEF Range
    <2> QED BY <2>5 DEF r
  <1>3. ASSUME NEW S, NEW q \in Seq(S), NEW r \in Seq(S)
        PROVE  Range(q \o r) = Range(q) \cup Range(r)
    BY RangeConcatenation
  <1>4. ASSUME NEW S, NEW q \in Seq(S), q # <<>>
        PROVE  Range(q) = {q[1]} \cup Range(Tail(q)) /\ Head(q) = q[1]
    <2> DEFINE r == Tail(q)
    <2>1. /\ 1 \in DOMAIN q /\ Len(q) \in Nat \ {0} /\ DOMAIN q = 1 .. Len(q)
          /\ DOMAIN r = 1 .. Len(q) - 1
          /\ \A k \in DOMAIN r : k + 1 \in DOMAIN q /\ r[k] = q[k + 1]
          /\ Head(q) = q[1]
      BY <1>4, HeadTail
    <2> HIDE DEF r
    <2>2. \A k \in DOMAIN q : k = 1 \/ (k - 1 \in DOMAIN r /\ (k - 1) + 1 = k)
      BY <2>1
    <2>3. Range(q) = {q[1]} \cup Range(r)
      BY <2>1, <2>2 DEF Range
    <2> QED BY <2>1, <2>3 DEF r
  <1> QED BY <1>1, <1>2, <1>3, <1>4

\* The last word of a queue, when a message is added and when one is read.
LEMMA LastWords ==
    ASSUME NEW q \in Seq(Answers)
    PROVE  /\ Still(<<>>)
           /\ \A m \in Answers : m.type # "choke" =>
                /\ Final(q) => Final(Append(q, m))
                /\ Still(q) => Still(Append(q, m))
           /\ Choke(TRUE) \in Answers => Final(Append(q, Choke(TRUE)))
           /\ q # <<>> /\ Still(q) => q[1].type # "choke" /\ Still(Tail(q))
           /\ q # <<>> /\ Final(q) => \/ Final(Tail(q))
                                      \/ q[1] = Choke(TRUE) /\ Still(Tail(q))
  <1>0. Still(<<>>)
    <2>1. DOMAIN <<>> = {}
      OBVIOUS
    <2> QED BY <2>1 DEF Still
  <1>1. ASSUME NEW m \in Answers
        PROVE  /\ DOMAIN Append(q, m) = 1 .. Len(q) + 1 /\ DOMAIN q = 1 .. Len(q)
               /\ Len(q) \in Nat /\ Append(q, m)[Len(q) + 1] = m
               /\ \A k \in 1 .. Len(q) : Append(q, m)[k] = q[k]
    BY AppendProperties
  <1>2. ASSUME NEW m \in Answers, m.type # "choke"
        PROVE  /\ Final(q) => Final(Append(q, m))
               /\ Still(q) => Still(Append(q, m))
    <2> DEFINE r == Append(q, m)
    <2>1. /\ DOMAIN r = 1 .. Len(q) + 1 /\ DOMAIN q = 1 .. Len(q)
          /\ Len(q) \in Nat /\ r[Len(q) + 1] = m /\ \A k \in 1 .. Len(q) : r[k] = q[k]
      BY <1>1
    <2> HIDE DEF r
    <2>2. \A k \in DOMAIN r : k \in DOMAIN q \/ k = Len(q) + 1
      BY <2>1
    <2>3. \A k \in DOMAIN q : k \in DOMAIN r /\ r[k] = q[k]
      BY <2>1
    <2>4. Still(q) => Still(r)
      BY <1>2, <2>1, <2>2, <2>3 DEF Still
    <2>5. ASSUME NEW k \in DOMAIN q, q[k] = Choke(TRUE),
                 \A j \in DOMAIN q : j > k => q[j].type # "choke"
          PROVE  Final(r)
      <3>1. k \in DOMAIN r /\ r[k] = Choke(TRUE)
        BY <2>3, <2>5
      <3>2. \A j \in DOMAIN r : j > k => r[j].type # "choke"
        BY <1>2, <2>1, <2>2, <2>3, <2>5
      <3> QED BY <3>1, <3>2 DEF Final
    <2> QED BY <2>4, <2>5 DEF r, Final
  <1>3. ASSUME Choke(TRUE) \in Answers
        PROVE  Final(Append(q, Choke(TRUE)))
    <2> DEFINE r == Append(q, Choke(TRUE))
    <2>1. /\ DOMAIN r = 1 .. Len(q) + 1 /\ Len(q) \in Nat /\ r[Len(q) + 1] = Choke(TRUE)
      BY <1>1, <1>3
    <2> HIDE DEF r
    <2>2. Len(q) + 1 \in DOMAIN r /\ \A j \in DOMAIN r : ~(j > Len(q) + 1)
      BY <2>1
    <2>3. Final(r)
      BY <2>1, <2>2 DEF Final
    <2> QED BY <2>3 DEF r
  <1>4. ASSUME q # <<>>
        PROVE  /\ Still(q) => q[1].type # "choke" /\ Still(Tail(q))
               /\ Final(q) => \/ Final(Tail(q))
                              \/ q[1] = Choke(TRUE) /\ Still(Tail(q))
    <2> DEFINE r == Tail(q)
    <2>1. /\ 1 \in DOMAIN q /\ Len(q) \in Nat \ {0} /\ DOMAIN q = 1 .. Len(q)
          /\ DOMAIN r = 1 .. Len(q) - 1
          /\ \A k \in DOMAIN r : k + 1 \in DOMAIN q /\ r[k] = q[k + 1]
      BY <1>4, HeadTail
    <2> HIDE DEF r
    <2>2. Still(q) => q[1].type # "choke" /\ Still(r)
      BY <2>1 DEF Still
    <2>3. ASSUME NEW k \in DOMAIN q, q[k] = Choke(TRUE),
                 \A j \in DOMAIN q : j > k => q[j].type # "choke"
          PROVE  Final(r) \/ (q[1] = Choke(TRUE) /\ Still(r))
      <3>1. CASE k = 1
        <4>1. \A j \in DOMAIN r : j + 1 > 1
          BY <2>1
        <4> QED BY <2>1, <2>3, <3>1, <4>1 DEF Still
      <3>2. CASE k # 1
        <4>1. k - 1 \in DOMAIN r /\ r[k - 1] = q[k]
          BY <2>1, <3>2
        <4>2. \A j \in DOMAIN r : j > k - 1 => j + 1 > k
          BY <2>1
        <4>3. \A j \in DOMAIN r : j > k - 1 => r[j].type # "choke"
          BY <2>1, <2>3, <4>2
        <4> QED BY <2>3, <4>1, <4>3 DEF Final
      <3> QED BY <3>1, <3>2
    <2>4. Final(q) => \/ Final(r) \/ (q[1] = Choke(TRUE) /\ Still(r))
      BY <2>3 DEF Final
    <2> QED BY <2>2, <2>4 DEF r
  <1> QED BY <1>0, <1>2, <1>3, <1>4
LEMMA ChokeAnswers ==
    /\ Choke(TRUE) \in Answers /\ Choke(FALSE) \in Answers
    /\ Choke(TRUE) # Choke(FALSE)
    /\ \A b : Choke(b).type = "choke" /\ Choke(b).yes = b
    /\ \A m \in Answers : m.type = "choke" => m = Choke(m.yes) /\ m.yes \in BOOLEAN
  <1>1. \A b : Choke(b).type = "choke" /\ Choke(b).yes = b
    BY DEF Choke
  <1>2. Choke(TRUE) \in Answers /\ Choke(FALSE) \in Answers
    BY DEF Choke, Answers
  <1>3. Choke(TRUE) # Choke(FALSE)
    <2>1. Choke(TRUE).yes = TRUE /\ Choke(FALSE).yes = FALSE
      BY <1>1
    <2> HIDE DEF Choke
    <2> QED BY <2>1
  <1>4. \A m \in Answers : m.type = "choke" => m = Choke(m.yes) /\ m.yes \in BOOLEAN
    BY DEF Answers, Choke
  <1> QED BY <1>1, <1>2, <1>3, <1>4

\* A peer's threads run for leeches that dialled it, and write to such.
LEMMA Sharing ==
    ASSUME Base, NEW k \in Leeches, NEW p \in Peers
    PROVE  /\ far[<<k, p>>] # "none" => k \in Sharers(p)
           /\ \A x \in {"read", "tick"} : \A a \in todo[<<<<k, p>>, x>>] :
                    k \in Sharers(p) /\ a.to \in Sharers(p) /\ a.to \in Leeches
           /\ seed[p].peers \subseteq Sharers(p)
           /\ IsFiniteSet(Sharers(p))
  <1>0. Types /\ Dialling /\ Unused /\ Admitted
    BY BaseParts
  <1>1. \A l \in Leeches : far[<<l, p>>] # "none" => l \in Sharers(p)
    BY <1>0 DEF Dialling, Sharers
  <1>2. ASSUME NEW x \in {"read", "tick"}, NEW a \in todo[<<<<k, p>>, x>>]
        PROVE  k \in Sharers(p) /\ a.to \in Sharers(p) /\ a.to \in Leeches
    <2>1. <<<<k, p>>, x>> \in Threads
      BY LinkTypes
    <2>2. a.to \in Leeches
      BY <1>0, <1>2, <2>1 DEF Types
    <2>3. far[<<a.to, p>>] # "none"
      BY <1>0, <1>2, <2>2 DEF Unused, Quiet
    <2>4. far[<<k, p>>] # "none"
      BY <1>0, <1>2 DEF Unused, Quiet
    <2> QED BY <1>1, <2>2, <2>3, <2>4
  <1>3. seed[p].peers \subseteq Sharers(p)
    <2>1. seed[p].peers \subseteq Leeches
      BY <1>0 DEF Types, SeedType
    <2> QED BY <1>0, <1>1, <2>1 DEF Admitted
  <1>4. IsFiniteSet(Sharers(p))
    BY SwarmAssumption, FS_Subset DEF Sharers
  <1> QED BY <1>1, <1>2, <1>3, <1>4

\* Everybody who is interested in a roomy peer has a slot.
LEMMA RoomyFits ==
    ASSUME Base, NEW p \in Peers, Roomy(p)
    PROVE  Cardinality(seed[p].interested) <= limits.unchoke_slots
  <1>1. Tidy(seed[p]) /\ world \in WorldType
    BY BaseParts DEF Admitted, Types
  <1>2. CASE Leeches = {}
    <2>1. seed[p].interested = {} /\ Sharers(p) = {}
      BY <1>1, <1>2 DEF Tidy, SeedType, Sharers
    <2> QED BY <2>1 DEF Roomy
  <1>3. CASE Leeches # {}
    <2>1. PICK k \in Leeches : TRUE
      BY <1>3
    <2>2. seed[p].interested \subseteq Sharers(p) /\ IsFiniteSet(Sharers(p))
      BY <1>1, <2>1, Sharing DEF Tidy
    <2>3. /\ Cardinality(seed[p].interested) <= Cardinality(Sharers(p))
          /\ Cardinality(seed[p].interested) \in Nat /\ Cardinality(Sharers(p)) \in Nat
      BY <2>2, FS_Subset, FS_CardinalityType
    <2>4. limits.unchoke_slots \in Nat
      BY <1>1, LimitsType
    <2> QED BY <2>3, <2>4 DEF Roomy
  <1> QED BY <1>2, <1>3

LEMMA AskForms ==
    ASSUME NEW m \in Asks
    PROVE  \/ m.type = "interested" /\ m = Interested(m.yes) /\ m.yes \in BOOLEAN
           \/ m.type = "request" /\ m = Request(m.index) /\ m.index \in Pieces
  <1>1. CASE \E i \in Pieces : m = Request(i)
    <2>1. PICK i \in Pieces : m = Request(i)
      BY <1>1
    <2>2. m.type = "request" /\ m.index = i
      BY <2>1 DEF Request
    <2> QED BY <2>1, <2>2
  <1>2. CASE \E b \in BOOLEAN : m = Interested(b)
    <2>1. PICK b \in BOOLEAN : m = Interested(b)
      BY <1>2
    <2>2. m.type = "interested" /\ m.yes = b
      BY <2>1 DEF Interested
    <2> QED BY <2>1, <2>2
  <1> QED BY <1>1, <1>2 DEF Asks

\* A peer's reader, on its own connection.
LEMMA HostedSeedReads ==
    ASSUME Base, NEW l \in Leeches, NEW p \in Peers, SeedReads(l, p), Hosted(l, p)
    PROVE  Hosted(l, p)'
  <1> DEFINE c == <<l, p>>
             m == Head(toSeed[c])
             rd == <<c, "read">>
  <1>0. /\ Types /\ Tabled /\ Leeching /\ Admitted /\ Sending /\ Announced
    BY BaseParts
  <1>t. /\ toSeed \in [Links -> Seq(Asks)] /\ seed \in [Peers -> SeedType]
        /\ todo \in [Threads -> SUBSET [to : Leeches, msg : Answers]]
    BY <1>0 DEF Types
  <1>1. /\ far[c] = "up" /\ toSeed[c] # <<>> /\ todo[rd] = {}
        /\ toSeed' = [toSeed EXCEPT ![c] = Tail(@)]
        /\ \/ /\ m.type = "interested"
              /\ seed' = [seed EXCEPT ![p].interested =
                                IF m.yes THEN @ \cup {l} ELSE @ \ {l}]
              /\ UNCHANGED todo
           \/ /\ m.type = "request"
              /\ todo' = [todo EXCEPT ![rd] = on_request(p, l, m.index)]
              /\ UNCHANGED seed
        /\ UNCHANGED <<world, swarm, near, far, toLeech, planned>>
    BY DEF SeedReads, conn
  <1>2. /\ m \in Asks /\ toSeed'[c] = Tail(toSeed[c])
        /\ Range(toSeed[c]) = {m} \cup Range(toSeed'[c])
    <2>1. c \in Links /\ toSeed[c] \in Seq(Asks)
      BY <1>t, LinkTypes
    <2> QED BY <1>t, <1>1, <2>1, HeadTail, Ranges
  <1>3. \/ m.type = "interested" /\ m = Interested(m.yes) /\ m.yes \in BOOLEAN
        \/ m.type = "request" /\ m = Request(m.index) /\ m.index \in Pieces
    BY <1>2, AskForms
  <1>4. /\ seed'[p].unchoked = seed[p].unchoked
        /\ m.type = "request" => seed'[p] = seed[p]
        /\ m.type = "interested" => seed'[p].interested =
                IF m.yes THEN seed[p].interested \cup {l} ELSE seed[p].interested \ {l}
    <2>1. CASE m.type = "request"
      BY <1>1, <2>1
    <2>2. CASE m.type = "interested"
      <3> DEFINE I == IF m.yes THEN seed[p].interested \cup {l} ELSE seed[p].interested \ {l}
      <3>1. seed' = [seed EXCEPT ![p] = [seed[p] EXCEPT !.interested = I]]
        BY <1>1, <2>2
      <3> HIDE DEF I
      <3>2. seed'[p] = [seed[p] EXCEPT !.interested = I]
        BY <1>t, <3>1
      <3>3. seed'[p].unchoked = seed[p].unchoked /\ seed'[p].interested = I
        BY <1>t, <3>2 DEF SeedType
      <3> QED BY <2>2, <3>3 DEF I
    <2> QED BY <1>3, <2>1, <2>2
  <1>5. /\ \A t \in Threads : t # rd => todo'[t] = todo[t]
        /\ m.type = "interested" => todo'[rd] = {}
        /\ m.type = "request" => todo'[rd] = on_request(p, l, m.index)
    <2>1. rd \in Threads
      BY LinkTypes
    <2> QED BY <1>t, <1>1, <2>1
  <1>6. \A a \in todo'[rd] : a.msg.type = "piece"
    BY <1>3, <1>5 DEF on_request
  <1> HIDE DEF m
  <1>7. \A b : Sent(l, p, Choke(b))' <=> Sent(l, p, Choke(b))
    <2>1. \A k \in Leeches, x \in {"read", "tick"} : <<<<k, p>>, x>> # rd =>
                todo'[<<<<k, p>>, x>>] = todo[<<<<k, p>>, x>>]
      BY <1>5, LinkTypes
    <2>2. \A a \in todo'[rd] : \A b : a.msg # Choke(b)
      BY <1>6, ChokeAnswers
    <2> QED BY <1>1, <2>1, <2>2 DEF Sent
  <1>8. todo'[<<c, "tick">>] = todo[<<c, "tick">>]
    BY <1>5, LinkTypes
  <1>9. \A n : Planned(l, p, n)' <=> Planned(l, p, n)
    BY <1>1 DEF Planned
  <1> SUFFICES ASSUME Live(l, p)'
               PROVE  /\ Roomy(p)' => Done(l, p)' \/ Greets(l, p)'
                      /\ Sharers(p)' = {l} => LastWord(l, p)'
                      /\ Roomy(p)' \/ Sharers(p)' = {l} =>
                            \A i \in swarm'[l].peers[p].in_flight : Owes(l, p, i)'
    BY DEF Hosted
  <1>10. Live(l, p) /\ (Roomy(p)' <=> Roomy(p)) /\ Sharers(p)' = Sharers(p)
    BY <1>1 DEF Live, Roomy, Sharers, limits
  <1>11. Done(l, p) => Done(l, p)'
    BY <1>1 DEF Done
  <1>12. Greets(l, p) => Greets(l, p)'
    <2> SUFFICES ASSUME Greets(l, p) PROVE Greets(l, p)'
      OBVIOUS
    <2>1. m # Interested(FALSE)
      BY <1>2 DEF Greets
    <2>2. m.type = "interested" => m = Interested(TRUE) /\ l \in seed'[p].interested
      BY <1>3, <1>4, <2>1
    <2>3. m.type = "request" => m # Interested(TRUE)
      BY <1>3, AsksDiffer
    <2>4. l \in seed[p].interested => l \in seed'[p].interested
      BY <1>3, <1>4, <2>2
    <2>5. Interested(FALSE) \notin Range(toSeed'[c])
      BY <1>2 DEF Greets
    <2>6. Interested(TRUE) \in Range(toSeed[c]) =>
            Interested(TRUE) \in Range(toSeed'[c]) \/ l \in seed'[p].interested
      BY <1>2, <1>3, <2>2, <2>3
    <2>7. UNCHANGED <<swarm, toLeech>>
      BY <1>1
    <2> QED BY <1>4, <1>7, <1>9, <2>4, <2>5, <2>6, <2>7 DEF Greets
  <1>13. LastWord(l, p) => LastWord(l, p)'
    <2>1. UNCHANGED <<swarm, toLeech>>
      BY <1>1
    <2> QED BY <1>4, <1>8, <2>1 DEF LastWord, Choking
  <1>14. ASSUME Roomy(p) \/ Sharers(p) = {l}, NEW i \in swarm[l].peers[p].in_flight
         PROVE  Owes(l, p, i)'
    <2>u. UNCHANGED <<swarm, toLeech, planned>>
      BY <1>1
    <2>1. Owes(l, p, i)
      BY <1>10, <1>14 DEF Hosted
    <2>2. CASE ~(m = Request(i))
      <3>1. Request(i) \in Range(toSeed[c]) => Request(i) \in Range(toSeed'[c])
        BY <1>2, <2>2
      <3> QED BY <1>1, <1>8, <1>9, <2>u, <2>1, <3>1 DEF Owes, Choking
    <2>3. CASE m = Request(i)
      <3>1. m.type = "request" /\ m.index = i
        BY <2>3 DEF Request
      <3>2. p \in DOMAIN swarm[l].peers
        BY <1>0, <1>10 DEF Tabled, Live
      <3>3. i \in missing(swarm[l]) \cap swarm[l].peers[p].have /\ ~swarm[l].peers[p].chokes_us
        <4>1. Booked(swarm[l])
          BY <1>0 DEF Leeching, Sound
        <4> QED BY <1>14, <3>2, <4>1 DEF Booked
      <3>4. i \in world.holds[p]
        BY <1>0, <3>2, <3>3 DEF Announced, Tells
      <3>5. CASE l \in seed[p].unchoked
        <4> DEFINE a0 == [to |-> l, msg |-> [type |-> "piece", index |-> i,
                                             bytes |-> world.serves[p]]]
        <4>0. a0 \in todo'[rd] /\ a0.msg.index = i
          BY <1>5, <3>1, <3>4, <3>5 DEF on_request
        <4>1. \E a \in todo'[rd] : a.msg.index = i
          BY <4>0
        <4> QED BY <4>1 DEF Owes
      <3>6. CASE l \notin seed[p].unchoked
        <4>1. ~Roomy(p)
          BY <1>10, <3>3, <3>6 DEF Hosted, Done, Greets
        <4>2. LastWord(l, p)
          BY <1>10, <1>14, <4>1 DEF Hosted
        <4>3. \/ Choking(l, p)
              \/ Choke(TRUE) \in Range(toLeech[c])
          BY <3>3, <3>6, <4>2 DEF LastWord, Final, Range
        <4> QED BY <1>8, <2>u, <4>3 DEF Owes, Choking
      <3> QED BY <3>5, <3>6
    <2> QED BY <2>2, <2>3
  <1>15. swarm' = swarm
    BY <1>1
  <1> QED BY <1>10, <1>11, <1>12, <1>13, <1>14, <1>15 DEF Hosted
\* A peer's ticker, on all its connections.
LEMMA HostedSeedTick ==
    ASSUME Base, NEW h \in Leeches, NEW p \in Peers, SeedTick(h, p),
           NEW l \in Leeches, Hosted(l, p)
    PROVE  Hosted(l, p)'
  <1> DEFINE c == <<l, p>>
             tk == <<<<h, p>>, "tick">>
             r == tick(seed[p], p)
             U == r.sd.unchoked
             I == seed[p].interested
  <1>0. /\ Types /\ Admitted
    BY BaseParts
  <1>t. /\ seed \in [Peers -> SeedType] /\ world \in WorldType
        /\ todo \in [Threads -> SUBSET [to : Leeches, msg : Answers]]
    BY <1>0 DEF Types
  <1>1. /\ far[<<h, p>>] = "up" /\ todo[tk] = {}
        /\ seed' = [seed EXCEPT ![p] = r.sd]
        /\ todo' = [todo EXCEPT ![tk] = r.out]
        /\ UNCHANGED <<world, swarm, near, far, toLeech, toSeed, planned>>
    BY DEF SeedTick, conn
  <1>2. /\ r.sd.interested = I /\ U \subseteq I
        /\ Cardinality(I) <= limits.unchoke_slots => U = I
        /\ r.out = {[to |-> k, msg |-> Choke(k \notin U)] :
                    k \in {k \in seed[p].peers : (k \in U) # (k \in seed[p].unchoked)}}
    BY <1>0, <1>t, Ticks DEF Admitted
  <1>3. /\ \A a \in r.out : /\ a.to \in seed[p].peers /\ a.msg = Choke(a.to \notin U)
                            /\ (a.to \in U) # (a.to \in seed[p].unchoked)
        /\ \A k \in seed[p].peers : (k \in U) # (k \in seed[p].unchoked) =>
                \E a \in r.out : a.to = k /\ a.msg = Choke(k \notin U)
    <2>1. ASSUME NEW a \in r.out
          PROVE  /\ a.to \in seed[p].peers /\ a.msg = Choke(a.to \notin U)
                 /\ (a.to \in U) # (a.to \in seed[p].unchoked)
      <3> HIDE DEF r, U
      <3>1. PICK k \in seed[p].peers : /\ (k \in U) # (k \in seed[p].unchoked)
                                       /\ a = [to |-> k, msg |-> Choke(k \notin U)]
        BY <1>2, <2>1
      <3>2. a.to = k /\ a.msg = Choke(k \notin U)
        BY <3>1
      <3> QED BY <3>1, <3>2
    <2>2. ASSUME NEW k \in seed[p].peers, (k \in U) # (k \in seed[p].unchoked)
          PROVE  \E a \in r.out : a.to = k /\ a.msg = Choke(k \notin U)
      <3> HIDE DEF r, U
      <3> DEFINE a0 == [to |-> k, msg |-> Choke(k \notin U)]
      <3>1. a0 \in r.out /\ a0.to = k /\ a0.msg = Choke(k \notin U)
        BY <1>2, <2>2
      <3> QED BY <3>1
    <2> QED BY <2>1, <2>2
  <1> HIDE DEF r
  <1>4. /\ seed'[p].unchoked = U /\ seed'[p].interested = I
        /\ todo'[tk] = r.out /\ \A t \in Threads : t # tk => todo'[t] = todo[t]
    <2>1. tk \in Threads
      BY LinkTypes
    <2> QED BY <1>t, <1>1, <1>2, <2>1
  <1> HIDE DEF U, I
  <1> SUFFICES ASSUME Live(l, p)'
               PROVE  /\ Roomy(p)' => Done(l, p)' \/ Greets(l, p)'
                      /\ Sharers(p)' = {l} => LastWord(l, p)'
                      /\ Roomy(p)' \/ Sharers(p)' = {l} =>
                            \A i \in swarm'[l].peers[p].in_flight : Owes(l, p, i)'
    BY DEF Hosted
  <1>u. UNCHANGED <<swarm, toLeech, toSeed, planned>>
    BY <1>1
  <1>5. Live(l, p) /\ (Roomy(p)' <=> Roomy(p)) /\ Sharers(p)' = Sharers(p)
    BY <1>1 DEF Live, Roomy, Sharers, limits
  <1>6. l \in seed[p].peers
    BY <1>0, <1>5 DEF Live, Admitted
  <1>7. \A n : Planned(l, p, n)' <=> Planned(l, p, n)
    BY <1>1 DEF Planned
  <1>8. \A b : Sent(l, p, Choke(b))' <=>
            Sent(l, p, Choke(b)) \/ \E a \in r.out : a.to = l /\ a.msg = Choke(b)
    <2>1. \A k \in Leeches, x \in {"read", "tick"} : todo'[<<<<k, p>>, x>>] =
                IF <<<<k, p>>, x>> = tk THEN r.out ELSE todo[<<<<k, p>>, x>>]
      BY <1>4, LinkTypes
    <2>2. ASSUME NEW b, Sent(l, p, Choke(b))'
          PROVE  Sent(l, p, Choke(b)) \/ \E a \in r.out : a.to = l /\ a.msg = Choke(b)
      BY <2>1, <2>2 DEF Sent
    <2>3. ASSUME NEW b, Sent(l, p, Choke(b))
          PROVE  Sent(l, p, Choke(b))'
      <3>1. PICK k \in Leeches, x \in {"read", "tick"} :
                \E a \in todo[<<<<k, p>>, x>>] : a.to = l /\ a.msg = Choke(b)
        BY <2>3 DEF Sent
      <3>2. <<<<k, p>>, x>> # tk
        BY <1>1, <3>1
      <3>3. todo'[<<<<k, p>>, x>>] = todo[<<<<k, p>>, x>>]
        BY <2>1, <3>2
      <3> QED BY <3>1, <3>3 DEF Sent
    <2>4. ASSUME NEW b, \E a \in r.out : a.to = l /\ a.msg = Choke(b)
          PROVE  Sent(l, p, Choke(b))'
      BY <2>1, <2>4 DEF Sent
    <2> QED BY <2>2, <2>3, <2>4
  <1>9. Done(l, p) => Done(l, p)'
    BY <1>u DEF Done
  <1>10. ASSUME Roomy(p), Greets(l, p) PROVE Greets(l, p)'
    <2>1. U = I
      BY <1>2, <1>10, RoomyFits DEF U, I
    <2>2. l \in seed[p].unchoked => l \in I
      BY <1>10 DEF Greets, I
    <2>3. \A a \in r.out : a.to = l => a.msg = Choke(FALSE) /\ l \in U /\ l \notin seed[p].unchoked
      <3> SUFFICES ASSUME NEW a \in r.out, a.to = l
                   PROVE  a.msg = Choke(FALSE) /\ l \in U /\ l \notin seed[p].unchoked
        OBVIOUS
      <3>1. a.msg = Choke(l \notin U) /\ (l \in U) # (l \in seed[p].unchoked)
        BY <1>3
      <3>2. l \in U /\ l \notin seed[p].unchoked
        BY <2>1, <2>2, <3>1
      <3>3. (l \notin U) = FALSE
        BY <3>2
      <3> QED BY <3>1, <3>2, <3>3
    <2>4. ~Sent(l, p, Choke(TRUE))'
      BY <1>8, <1>10, <2>3, ChokeAnswers DEF Greets
    <2>5. l \in U /\ l \notin seed[p].unchoked => Sent(l, p, Choke(FALSE))'
      BY <1>3, <1>6, <1>8
    <2>6. Sent(l, p, Choke(FALSE))' => Sent(l, p, Choke(FALSE)) \/ l \in U
      BY <1>8, <2>3
    <2>7. l \in seed[p].unchoked => l \in U
      BY <2>1, <2>2
    <2>8. /\ l \in seed[p].unchoked <=>
            \/ ~swarm[l].peers[p].chokes_us \/ Choke(FALSE) \in Range(toLeech[<<l, p>>])
            \/ Sent(l, p, Choke(FALSE))
      BY <1>10 DEF Greets
    <2>9. Sent(l, p, Choke(FALSE)) => Sent(l, p, Choke(FALSE))'
      BY <1>8
    <2>10. /\ l \in U <=>
            \/ ~swarm[l].peers[p].chokes_us \/ Choke(FALSE) \in Range(toLeech[<<l, p>>])
            \/ Sent(l, p, Choke(FALSE))'
      BY <2>5, <2>6, <2>7, <2>8, <2>9
    <2>11. l \in U => l \in I
      BY <2>1
    <2>12. l \in seed'[p].unchoked <=> l \in U
      BY <1>4
    <2>13. l \in seed'[p].interested <=> l \in seed[p].interested
      BY <1>4 DEF I
    <2> QED BY <1>u, <1>7, <1>10, <2>4, <2>10, <2>11, <2>12, <2>13 DEF Greets, I
  <1>11. ASSUME Sharers(p) = {l}, LastWord(l, p) PROVE LastWord(l, p)'
    <2>1. h = l
      BY <1>1, <1>11, Sharing
    <2> SUFFICES ASSUME l \notin U
                 PROVE  \/ \E a \in r.out : a.to = l /\ a.msg = Choke(TRUE)
                        \/ r.out = {} /\ Final(toLeech[<<l, p>>])
                        \/ /\ r.out = {} /\ Still(toLeech[<<l, p>>])
                           /\ swarm[l].peers[p].chokes_us
      BY <1>u, <1>4, <2>1 DEF LastWord, Choking
    <2>2. CASE l \in seed[p].unchoked
      <3>1. \E a \in r.out : a.to = l /\ a.msg = Choke(l \notin U)
        BY <1>3, <1>6, <2>2
      <3>2. (l \notin U) = TRUE
        OBVIOUS
      <3> QED BY <3>1, <3>2
    <2>3. CASE l \notin seed[p].unchoked
      <3>1. \A a \in r.out : a.to = l
        BY <1>3, <1>11, Sharing
      <3>2. r.out = {}
        BY <1>3, <2>3, <3>1
      <3>3. ~Choking(l, p)
        BY <1>1, <2>1 DEF Choking
      <3> QED BY <1>11, <2>3, <3>2, <3>3 DEF LastWord
    <2> QED BY <2>2, <2>3
  <1>12. ASSUME NEW i, Owes(l, p, i) PROVE Owes(l, p, i)'
    <2>1. todo'[<<c, "read">>] = todo[<<c, "read">>]
      BY <1>4, LinkTypes
    <2>2. todo[<<c, "tick">>] = {} \/ todo'[<<c, "tick">>] = todo[<<c, "tick">>]
      BY <1>1, <1>4, LinkTypes
    <2>3. Choking(l, p) => Choking(l, p)'
      BY <2>2 DEF Choking
    <2> QED BY <1>u, <1>7, <1>12, <2>1, <2>3 DEF Owes
  <1> QED BY <1>u, <1>5, <1>9, <1>10, <1>11, <1>12 DEF Hosted

\* What a peer's thread sends, on all the peer's connections.
LEMMA HostedDispatch ==
    ASSUME Base, NEW h \in Leeches, NEW p \in Peers, NEW x \in {"read", "tick"},
           Dispatch(<<<<h, p>>, x>>), NEW l \in Leeches, Hosted(l, p)
    PROVE  Hosted(l, p)'
  <1> DEFINE c == <<l, p>>
             t == <<<<h, p>>, x>>
             m == (CHOOSE a \in todo[t] : a.to = l).msg
  <1>0. /\ Types /\ Sending
    BY BaseParts
  <1>t. /\ toLeech \in [Links -> Seq(Answers)]
        /\ todo \in [Threads -> SUBSET [to : Leeches, msg : Answers]]
    BY <1>0 DEF Types
  <1>1. /\ todo[t] # {} /\ todo' = [todo EXCEPT ![t] = {}]
        /\ toLeech' = [d \in Links |->
                IF d[2] = p /\ far[d] = "up" /\ near[d] = "up"
                   /\ \E a \in todo[t] : a.to = d[1]
                THEN Append(toLeech[d], (CHOOSE a \in todo[t] : a.to = d[1]).msg)
                ELSE toLeech[d]]
        /\ UNCHANGED <<world, swarm, seed, near, far, toSeed, planned>>
    BY DEF Dispatch, conn
  <1> SUFFICES ASSUME Live(l, p)'
               PROVE  /\ Roomy(p)' => Done(l, p)' \/ Greets(l, p)'
                      /\ Sharers(p)' = {l} => LastWord(l, p)'
                      /\ Roomy(p)' \/ Sharers(p)' = {l} =>
                            \A i \in swarm'[l].peers[p].in_flight : Owes(l, p, i)'
    BY DEF Hosted
  <1>2. Live(l, p) /\ (Roomy(p)' <=> Roomy(p)) /\ Sharers(p)' = Sharers(p)
    BY <1>1 DEF Live, Roomy, Sharers, limits
  <1>u. UNCHANGED <<swarm, seed, toSeed, planned>>
    BY <1>1
  <1>3. toLeech'[c] = IF \E a \in todo[t] : a.to = l THEN Append(toLeech[c], m) ELSE toLeech[c]
    BY <1>1, <1>2, LinkTypes DEF Live
  <1>4. toLeech[c] \in Seq(Answers)
    BY <1>t, LinkTypes
  <1>5. \A k \in Leeches, y \in {"read", "tick"} : todo'[<<<<k, p>>, y>>] =
            IF <<<<k, p>>, y>> = t THEN {} ELSE todo[<<<<k, p>>, y>>]
    BY <1>t, <1>1, LinkTypes
  <1>6. \A n : Planned(l, p, n)' <=> Planned(l, p, n)
    BY <1>1 DEF Planned
  <1>s. Sends(world, h, p, todo[<<<<h, p>>, "read">>], todo[<<<<h, p>>, "tick">>])
    BY <1>0 DEF Sending
  <1>f. h \in Sharers(p) /\ \A a \in todo[t] : a.to \in Sharers(p) /\ a.to \in Leeches
    BY <1>1, Sharing
  <1>7. ASSUME \E a \in todo[t] : a.to = l
        PROVE  /\ m \in Answers /\ \A a \in todo[t] : a.to = l => a.msg = m
               /\ x = "read" => h = l /\ m.type = "piece"
               /\ x = "tick" => m.type = "choke"
               /\ Range(toLeech'[c]) = Range(toLeech[c]) \cup {m}
    <2>1. PICK a \in todo[t] : a.to = l /\ m = a.msg
      BY <1>7
    <2>2. \A b \in todo[t] : b.to = l => b = a
      BY <1>s, <2>1 DEF Sends
    <2>3. a.msg \in Answers
      <3>1. t \in Threads
        BY LinkTypes
      <3>2. todo[t] \subseteq [to : Leeches, msg : Answers]
        BY <1>t, <3>1
      <3> QED BY <3>2
    <2> HIDE DEF m
    <2>4. m \in Answers /\ \A b \in todo[t] : b.to = l => b.msg = m
      BY <2>1, <2>2, <2>3
    <2>5. Range(toLeech'[c]) = Range(toLeech[c]) \cup {m}
      BY <1>3, <1>4, <1>7, <2>4, Ranges
    <2>6. /\ x = "read" => h = l /\ m.type = "piece"
          /\ x = "tick" => m.type = "choke"
      BY <1>s, <2>1 DEF Sends
    <2> QED BY <2>4, <2>5, <2>6
  <1> HIDE DEF m
  <1>8. ASSUME NEW n PROVE
           /\ Sent(l, p, n)' => Sent(l, p, n)
           /\ Sent(l, p, n) => Sent(l, p, n)' \/ ((\E a \in todo[t] : a.to = l) /\ n = m)
    <2>1. Sent(l, p, n)' => Sent(l, p, n)
      BY <1>5 DEF Sent
    <2>2. ASSUME Sent(l, p, n)
          PROVE  Sent(l, p, n)' \/ ((\E a \in todo[t] : a.to = l) /\ n = m)
      <3>1. PICK k \in Leeches, y \in {"read", "tick"} :
                \E a \in todo[<<<<k, p>>, y>>] : a.to = l /\ a.msg = n
        BY <2>2 DEF Sent
      <3>2. CASE <<<<k, p>>, y>> = t
        BY <1>7, <3>1, <3>2
      <3>3. CASE <<<<k, p>>, y>> # t
        BY <1>5, <3>1, <3>3 DEF Sent
      <3> QED BY <3>2, <3>3
    <2> QED BY <2>1, <2>2
  <1>9. Done(l, p) => Done(l, p)'
    <2>1. \A n \in Range(toLeech'[c]) : n \in Range(toLeech[c]) \/ n.type # "bitfield"
      BY <1>3, <1>7
    <2> QED BY <1>u, <2>1 DEF Done
  <1>10. ASSUME Greets(l, p) PROVE Greets(l, p)'
    <2>1. (\E a \in todo[t] : a.to = l) => Sent(l, p, m)
      <3>1. ASSUME NEW a \in todo[t], a.to = l PROVE Sent(l, p, m)
        BY <1>7, <3>1 DEF Sent
      <3> QED BY <3>1
    <2>2. Choke(TRUE) \notin Range(toLeech'[c]) /\ ~Sent(l, p, Choke(TRUE))'
      BY <1>3, <1>7, <1>8, <1>10, <2>1 DEF Greets
    <2>3. Choke(FALSE) \in Range(toLeech'[c]) =>
            Choke(FALSE) \in Range(toLeech[c]) \/ Sent(l, p, Choke(FALSE))
      BY <1>3, <1>7, <2>1
    <2>4. Choke(FALSE) \in Range(toLeech[c]) \/ Sent(l, p, Choke(FALSE)) =>
            Choke(FALSE) \in Range(toLeech'[c]) \/ Sent(l, p, Choke(FALSE))'
      BY <1>3, <1>7, <1>8
    <2>5. Sent(l, p, Choke(FALSE))' => Sent(l, p, Choke(FALSE))
      BY <1>8
    <2> QED BY <1>u, <1>6, <1>10, <2>2, <2>3, <2>4, <2>5 DEF Greets
  <1>11. ASSUME Sharers(p) = {l}, LastWord(l, p) PROVE LastWord(l, p)'
    <2>1. h = l /\ \A a \in todo[t] : a.to = l
      BY <1>f, <1>11
    <2>2. \E a \in todo[t] : a.to = l
      BY <1>1, <2>1
    <2>3. /\ m \in Answers /\ \A a \in todo[t] : a.msg = m
          /\ x = "read" => m.type = "piece"
          /\ toLeech'[c] = Append(toLeech[c], m)
      BY <1>3, <1>7, <2>1, <2>2
    <2>4. CASE x = "read"
      <3>1. todo'[<<c, "tick">>] = todo[<<c, "tick">>]
        BY <1>5, <2>4
      <3>2. /\ Final(toLeech[c]) => Final(toLeech'[c])
            /\ Still(toLeech[c]) => Still(toLeech'[c])
        BY <1>4, <2>3, <2>4, LastWords
      <3> QED BY <1>u, <1>11, <3>1, <3>2 DEF LastWord, Choking
    <2>5. CASE x = "tick"
      <3> SUFFICES ASSUME l \notin seed[p].unchoked
                   PROVE  todo'[<<c, "tick">>] = {} /\ Final(toLeech'[c])
        BY <1>u DEF LastWord
      <3>1. todo'[<<c, "tick">>] = {} /\ todo[<<c, "tick">>] # {}
        BY <1>1, <1>5, <2>1, <2>5
      <3>2. Choking(l, p)
        BY <1>11, <3>1 DEF LastWord
      <3>3. m = Choke(TRUE)
        BY <2>1, <2>3, <2>5, <3>2 DEF Choking
      <3>4. Final(toLeech'[c])
        BY <1>4, <2>3, <3>3, LastWords
      <3> QED BY <3>1, <3>4
    <2> QED BY <2>4, <2>5
  <1>12. ASSUME NEW i, Owes(l, p, i) PROVE  Owes(l, p, i)'
    <2>1. Range(toLeech[c]) \subseteq Range(toLeech'[c])
      BY <1>3, <1>7
    <2>2. CASE <<c, "read">> # t /\ <<c, "tick">> # t
      <3>1. todo'[<<c, "tick">>] = todo[<<c, "tick">>] /\ todo'[<<c, "read">>] = todo[<<c, "read">>]
        BY <1>5, <2>2
      <3> QED BY <1>u, <1>6, <1>12, <2>1, <3>1 DEF Owes, Choking
    <2>3. CASE <<c, "read">> = t
      <3>1. todo'[<<c, "tick">>] = todo[<<c, "tick">>]
        BY <1>5, <2>3
      <3>2. ASSUME NEW a \in todo[<<c, "read">>], a.msg.index = i
            PROVE  \E n \in Range(toLeech'[c]) : n.type = "piece" /\ n.index = i
        <4>1. a.to = l /\ a.msg.type = "piece"
          BY <1>s, <2>3, <3>2 DEF Sends
        <4>2. m = a.msg /\ m \in Range(toLeech'[c])
          BY <1>7, <2>3, <3>2, <4>1
        <4> QED BY <3>2, <4>1, <4>2
      <3> QED BY <1>u, <1>6, <1>12, <2>1, <3>1, <3>2 DEF Owes, Choking
    <2>4. CASE <<c, "tick">> = t
      <3>1. todo'[<<c, "read">>] = todo[<<c, "read">>]
        BY <1>5, <2>4
      <3>2. Choking(l, p) => Choke(TRUE) \in Range(toLeech'[c])
        BY <1>7, <2>4 DEF Choking
      <3> QED BY <1>u, <1>6, <1>12, <2>1, <3>1, <3>2 DEF Owes
    <2> QED BY <2>2, <2>3, <2>4
  <1> QED BY <1>u, <1>2, <1>9, <1>10, <1>11, <1>12 DEF Hosted
\* What a leech's thread sends, on all the leech's connections.
LEMMA HostedLeechDispatch ==
    ASSUME Base, NEW l \in Leeches, NEW x \in Peers \cup {0}, LeechDispatch(<<l, x>>),
           NEW p \in Peers, Hosted(l, p)
    PROVE  Hosted(l, p)'
  <1> DEFINE c == <<l, p>>
             out == planned[<<l, x>>][p]
  <1>t. /\ toSeed \in [Links -> Seq(Asks)]
        /\ planned \in [LeechThreads -> [Peers -> Seq(Asks)]]
    BY BaseParts DEF Types
  <1>x. \A y \in Peers \cup {0} : <<l, y>> \in LeechThreads
    BY DEF LeechThreads
  <1>1. /\ planned' = [planned EXCEPT ![<<l, x>>] = idle]
        /\ toSeed' = [d \in Links |->
                IF d[1] = l /\ near[d] = "up" /\ far[d] = "up"
                THEN toSeed[d] \o planned[<<l, x>>][d[2]] ELSE toSeed[d]]
        /\ UNCHANGED <<world, swarm, seed, near, far, toLeech, todo>>
    BY DEF LeechDispatch, conn
  <1> SUFFICES ASSUME Live(l, p)'
               PROVE  /\ Roomy(p)' => Done(l, p)' \/ Greets(l, p)'
                      /\ Sharers(p)' = {l} => LastWord(l, p)'
                      /\ Roomy(p)' \/ Sharers(p)' = {l} =>
                            \A i \in swarm'[l].peers[p].in_flight : Owes(l, p, i)'
    BY DEF Hosted
  <1>2. Live(l, p) /\ (Roomy(p)' <=> Roomy(p)) /\ Sharers(p)' = Sharers(p)
    BY <1>1 DEF Live, Roomy, Sharers, limits
  <1>u. UNCHANGED <<swarm, seed, toLeech, todo>>
    BY <1>1
  <1>3. Range(toSeed'[c]) = Range(toSeed[c]) \cup Range(out)
    <2>1. toSeed'[c] = toSeed[c] \o out
      BY <1>1, <1>2, LinkTypes DEF Live
    <2>2. toSeed[c] \in Seq(Asks) /\ out \in Seq(Asks)
      BY <1>t, <1>x, LinkTypes
    <2> DEFINE q0 == toSeed[c]
    <2>3. q0 \in Seq(Asks)
      BY <2>2
    <2> HIDE DEF out, q0
    <2>4. Range(q0 \o out) = Range(q0) \cup Range(out)
      BY <2>2, <2>3, RangeConcatenation
    <2> QED BY <2>1, <2>4 DEF q0
  <1>4. \A y \in Peers \cup {0} : planned'[<<l, y>>][p] =
            IF y = x THEN <<>> ELSE planned[<<l, y>>][p]
    <2>1. idle[p] = <<>>
      BY DEF idle
    <2> QED BY <1>t, <1>x, <1>1, <2>1
  <1>5. ASSUME NEW n PROVE /\ Planned(l, p, n)' => Planned(l, p, n)
                           /\ n \in Range(out) => Planned(l, p, n)
                           /\ Planned(l, p, n) => Planned(l, p, n)' \/ n \in Range(out)
    <2>1. Planned(l, p, n)' => Planned(l, p, n)
      BY <1>4, Ranges DEF Planned
    <2>2. n \in Range(out) => Planned(l, p, n)
      BY DEF Planned
    <2>3. Planned(l, p, n) => Planned(l, p, n)' \/ n \in Range(out)
      BY <1>4 DEF Planned
    <2> QED BY <2>1, <2>2, <2>3
  <1> HIDE DEF out
  <1>6. \A n : Sent(l, p, n)' <=> Sent(l, p, n)
    BY <1>u DEF Sent
  <1>7. Done(l, p) => Done(l, p)'
    BY <1>u DEF Done
  <1>8. ASSUME Greets(l, p) PROVE Greets(l, p)'
    <2>1. Interested(FALSE) \notin Range(toSeed'[c]) /\ ~Planned(l, p, Interested(FALSE))'
      BY <1>3, <1>5, <1>8 DEF Greets
    <2>2. Interested(TRUE) \in Range(toSeed[c]) \/ Planned(l, p, Interested(TRUE)) =>
            Interested(TRUE) \in Range(toSeed'[c]) \/ Planned(l, p, Interested(TRUE))'
      BY <1>3, <1>5
    <2> QED BY <1>u, <1>6, <1>8, <2>1, <2>2 DEF Greets
  <1>9. LastWord(l, p) => LastWord(l, p)'
    BY <1>u DEF LastWord, Choking
  <1>10. ASSUME NEW i, Owes(l, p, i) PROVE Owes(l, p, i)'
    <2>1. Planned(l, p, Request(i)) \/ Request(i) \in Range(toSeed[c]) =>
            Planned(l, p, Request(i))' \/ Request(i) \in Range(toSeed'[c])
      BY <1>3, <1>5
    <2> QED BY <1>u, <1>10, <2>1 DEF Owes, Choking
  <1> QED BY <1>u, <1>2, <1>7, <1>8, <1>9, <1>10 DEF Hosted

\* A peer that announces a piece.
LEMMA HostedPeerGains ==
    ASSUME Base, NEW p \in Peers, NEW i \in Pieces, PeerGains(p, i),
           NEW l \in Leeches, NEW q \in Peers, Hosted(l, q)
    PROVE  Hosted(l, q)'
  <1> DEFINE c == <<l, q>>
             m == [type |-> "have", index |-> i]
  <1>t. toLeech \in [Links -> Seq(Answers)] /\ world \in WorldType
    BY BaseParts DEF Types
  <1>1. /\ i \in world.gains[p]
        /\ world' = [world EXCEPT !.holds[p] = @ \cup {i}]
        /\ toLeech' = [d \in Links |->
                IF d[2] = p /\ far[d] = "up" /\ near[d] = "up"
                THEN Append(toLeech[d], m) ELSE toLeech[d]]
        /\ UNCHANGED <<swarm, seed, near, far, toSeed, todo, planned>>
    BY DEF PeerGains, conn
  <1>2. world'.links = world.links /\ world'.limits = world.limits /\ world'.gains = world.gains
    <2> DEFINE H == [world.holds EXCEPT ![p] = @ \cup {i}]
    <2>1. world' = [world EXCEPT !.holds = H]
      BY <1>1
    <2> HIDE DEF H
    <2> QED BY <1>t, <2>1 DEF WorldType
  <1>3. \A k \in Peers : (Roomy(k)' = Roomy(k)) /\ Sharers(k)' = Sharers(k)
    BY <1>2 DEF Roomy, Sharers, limits
  <1>4. CASE q # p
    <2>1. toLeech'[c] = toLeech[c]
      BY <1>1, <1>4, LinkTypes
    <2>2. Same(l, q)
      BY <1>1, <2>1 DEF Same, Live
    <2> QED BY <1>3, <2>2, HostedFrame
  <1>5. CASE q = p
    <2> SUFFICES ASSUME Live(l, q)'
                 PROVE  /\ Roomy(q)' => Done(l, q)' \/ Greets(l, q)'
                        /\ Sharers(q)' = {l} => LastWord(l, q)'
                        /\ Roomy(q)' \/ Sharers(q)' = {l} =>
                              \A j \in swarm'[l].peers[q].in_flight : Owes(l, q, j)'
      BY DEF Hosted
    <2>1. Live(l, q) /\ ~Roomy(q)
      BY <1>1, <1>5 DEF Live, Roomy
    <2>2. toLeech'[c] = Append(toLeech[c], m) /\ toLeech[c] \in Seq(Answers)
      BY <1>t, <1>1, <1>5, <2>1, LinkTypes DEF Live
    <2>3. m \in Answers /\ m.type # "choke"
      BY DEF Answers
    <2> HIDE DEF m
    <2>4. /\ Final(toLeech[c]) => Final(toLeech'[c])
          /\ Still(toLeech[c]) => Still(toLeech'[c])
          /\ Range(toLeech[c]) \subseteq Range(toLeech'[c])
      <3> DEFINE q0 == toLeech[c]
      <3>1. q0 \in Seq(Answers)
        BY <2>2
      <3> HIDE DEF q0
      <3>2. /\ Final(q0) => Final(Append(q0, m))
            /\ Still(q0) => Still(Append(q0, m))
        BY <2>3, <3>1, LastWords
      <3>3. Range(q0) \subseteq Range(Append(q0, m))
        BY <2>3, <3>1, Ranges
      <3> QED BY <2>2, <3>2, <3>3 DEF q0
    <2>u. UNCHANGED <<swarm, seed, toSeed, todo, planned>>
      BY <1>1
    <2>5. LastWord(l, q) => LastWord(l, q)'
      BY <2>u, <2>4 DEF LastWord, Choking
    <2>6. \A j : Owes(l, q, j) => Owes(l, q, j)'
      BY <2>u, <2>4 DEF Owes, Choking, Planned
    <2> QED BY <1>3, <2>u, <2>1, <2>5, <2>6 DEF Hosted
  <1> QED BY <1>4, <1>5

\* A new connection.
LEMMA HostedConnect ==
    ASSUME Base, NEW l \in Leeches, NEW p \in Peers, Connect(l, p)
    PROVE  Hosted(l, p)' /\ Unheard(l, p)'
  <1> DEFINE c == <<l, p>>
             admits == /\ world.manifest[p] # "absent"
                       /\ Cardinality(seed[p].peers) < limits.max_peers
  <1>0. Types /\ Tabled /\ Leeching /\ Dialling /\ Unused /\ Admitted
    BY BaseParts
  <1>t. /\ toLeech \in [Links -> Seq(Answers)] /\ world \in WorldType
        /\ far \in [Links -> {"none", "up", "mute", "gone"}]
        /\ swarm \in [Leeches -> SwarmType] /\ seed \in [Peers -> SeedType]
    BY <1>0 DEF Types
  <1>1. /\ near[c] = "dial"
        /\ far' = [far EXCEPT ![c] = IF admits THEN "up" ELSE "mute"]
        /\ swarm' = [swarm EXCEPT ![l] = met(@, p)]
        /\ seed' = [seed EXCEPT ![p] = IF admits THEN joined(@, l) ELSE @]
        /\ toLeech' = [toLeech EXCEPT ![c] = IF admits THEN add_peer(p) ELSE <<>>]
        /\ UNCHANGED <<world, toSeed, todo, planned>>
    BY DEF Connect
  <1>2. p \notin DOMAIN swarm[l].peers /\ Sound(swarm[l]) /\ far[c] = "none"
    BY <1>0, <1>1 DEF Tabled, Leeching, Dialling
  <1>3. Quiet(l, p) /\ Tidy(seed[p]) /\ l \notin seed[p].peers
    BY <1>0, <1>2 DEF Unused, Admitted
  <1>4. swarm'[l].peers[p] = NewPeer
    BY <1>t, <1>1, <1>2, Meets
  <1>5. /\ NewPeer.have = {} /\ NewPeer.in_flight = {}
        /\ NewPeer.chokes_us = TRUE /\ NewPeer.we_interested = FALSE
    BY DEF NewPeer
  <1>6. toLeech'[c] = IF admits THEN add_peer(p) ELSE <<>>
    BY <1>t, <1>1, LinkTypes
  <1>7. far'[c] = IF admits THEN "up" ELSE "mute"
    BY <1>t, <1>1, LinkTypes
  <1>8. seed'[p].unchoked = seed[p].unchoked /\ l \notin seed'[p].unchoked
    <2>1. l \notin seed[p].unchoked
      BY <1>3 DEF Tidy
    <2>2. seed'[p] = IF admits THEN joined(seed[p], l) ELSE seed[p]
      BY <1>t, <1>1
    <2> QED BY <1>3, <2>1, <2>2, Joins
  <1>9. Unheard(l, p)'
    BY <1>4, <1>5, <1>6, <1>7 DEF Unheard
  <1>10. Hosted(l, p)'
    <2> SUFFICES ASSUME Live(l, p)' PROVE Greets(l, p)' /\ LastWord(l, p)'
      BY <1>4, <1>5 DEF Hosted
    <2>1. admits
      BY <1>7 DEF Live
    <2> HIDE DEF admits
    <2>2. \A n \in Range(toLeech'[c]) : n.type # "choke"
      BY <1>6, <2>1 DEF add_peer, Range
    <2>3. Still(toLeech'[c])
      BY <2>2 DEF Still, Range
    <2>u. UNCHANGED <<toSeed, todo, planned>>
      BY <1>1
    <2>4. /\ toSeed'[c] = <<>> /\ \A x \in Peers \cup {0} : planned'[<<l, x>>][p] = <<>>
          /\ \A k \in Leeches, x \in {"read", "tick"} :
                \A a \in todo'[<<<<k, p>>, x>>] : a.to # l
          /\ todo'[<<c, "tick">>] = {}
      BY <1>3, <2>u DEF Quiet
    <2>5. \A n : ~Sent(l, p, n)'
      BY <2>4 DEF Sent
    <2>6. \A n : ~Planned(l, p, n)'
      BY <2>4, Ranges DEF Planned
    <2>7. LastWord(l, p)'
      BY <1>4, <1>5, <2>3, <2>4 DEF LastWord
    <2>8. \A b : Choke(b) \notin Range(toLeech'[c])
      BY <2>2, ChokeAnswers
    <2>9. \A n : n \notin Range(toSeed'[c])
      BY <2>4, Ranges
    <2>10. Greets(l, p)'
      BY <1>4, <1>5, <1>8, <2>5, <2>6, <2>8, <2>9 DEF Greets
    <2> QED BY <2>7, <2>10
  <1> QED BY <1>9, <1>10
\* How a leech's view of a peer changes before it asks for pieces.
Takes(sw, p, q, s, r) ==
    /\ missing(s) \subseteq missing(sw) /\ Range(r) \subseteq Range(q)
    /\ \/ s.peers[p].have = sw.peers[p].have
       \/ \E m \in Range(q) : m.type \in {"bitfield", "have"}
    /\ s.peers[p].we_interested = sw.peers[p].we_interested
    /\ s.peers[p].in_flight \subseteq sw.peers[p].in_flight
    /\ Choke(TRUE) \notin Range(q) =>
            ((~s.peers[p].chokes_us \/ Choke(FALSE) \in Range(r)) <=>
             (~sw.peers[p].chokes_us \/ Choke(FALSE) \in Range(q)))
    /\ Final(q) => Final(r) \/ (Still(r) /\ s.peers[p].chokes_us)
    /\ Still(q) => Still(r) /\ s.peers[p].chokes_us = sw.peers[p].chokes_us
    /\ s.peers[p].in_flight # {} /\ Choke(TRUE) \in Range(q) => Choke(TRUE) \in Range(r)
    /\ \A i \in s.peers[p].in_flight :
            (\E m \in Range(q) : m.type = "piece" /\ m.index = i) =>
                \E m \in Range(r) : m.type = "piece" /\ m.index = i

LEMMA TakesNothing ==
    ASSUME NEW sw, NEW p, NEW q, NEW s, missing(s) \subseteq missing(sw),
           s.peers[p].have = sw.peers[p].have,
           s.peers[p].chokes_us = sw.peers[p].chokes_us,
           s.peers[p].we_interested = sw.peers[p].we_interested,
           s.peers[p].in_flight \subseteq sw.peers[p].in_flight
    PROVE  Takes(sw, p, q, s, q)
  BY DEF Takes

LEMMA TakesOne ==
    ASSUME NEW sw \in SwarmType, NEW p \in DOMAIN sw.peers, NEW q \in Seq(Answers), q # <<>>,
           NEW s, Heard(sw, p, q[1], s)
    PROVE  Takes(sw, p, q, s, Tail(q))
  <1> DEFINE m == q[1]
             r == Tail(q)
  <1>1. Range(q) = {m} \cup Range(r) /\ m \in Answers /\ r \in Seq(Answers)
    BY Ranges, HeadTail
  <1>2. /\ missing(s) \subseteq missing(sw)
        /\ s.peers[p].have =
             IF m.type = "bitfield" THEN m.field
             ELSE IF m.type = "have" THEN sw.peers[p].have \cup {m.index}
             ELSE sw.peers[p].have
        /\ s.peers[p].chokes_us =
             IF m.type = "choke" THEN m.yes ELSE sw.peers[p].chokes_us
        /\ s.peers[p].we_interested = sw.peers[p].we_interested
        /\ s.peers[p].in_flight \subseteq sw.peers[p].in_flight
        /\ m.type = "piece" => m.index \notin s.peers[p].in_flight
    BY DEF Heard
  <1>3. s.peers[p].chokes_us => s.peers[p].in_flight = {}
    <2>1. Booked(s) /\ p \in DOMAIN s.peers
      BY DEF Heard, Sound
    <2> QED BY <2>1 DEF Booked
  <1>4. /\ Still(q) => m.type # "choke" /\ Still(r)
        /\ Final(q) => Final(r) \/ (m = Choke(TRUE) /\ Still(r))
    BY LastWords
  <1>5. m.type = "choke" => (m = Choke(m.yes) /\ m.yes \in BOOLEAN)
    BY <1>1, ChokeAnswers
  <1>6. \A b : m = Choke(b) => m.type = "choke" /\ m.yes = b
    BY ChokeAnswers
  <1> HIDE DEF m, r
  <1>7. Choke(TRUE) \notin Range(q) =>
            ((~s.peers[p].chokes_us \/ Choke(FALSE) \in Range(r)) <=>
             (~sw.peers[p].chokes_us \/ Choke(FALSE) \in Range(q)))
    <2> SUFFICES ASSUME Choke(TRUE) \notin Range(q)
                 PROVE  (~s.peers[p].chokes_us \/ Choke(FALSE) \in Range(r)) <=>
                        (~sw.peers[p].chokes_us \/ Choke(FALSE) \in Range(q))
      OBVIOUS
    <2>1. CASE m.type = "choke"
      <3>1. m = Choke(FALSE) /\ m.yes = FALSE
        BY <1>1, <1>5, <2>1
      <3> QED BY <1>1, <1>2, <2>1, <3>1
    <2>2. CASE m.type # "choke"
      <3>1. m # Choke(FALSE)
        BY <1>6, <2>2
      <3> QED BY <1>1, <1>2, <2>2, <3>1
    <2> QED BY <2>1, <2>2
  <1>8. Final(q) => Final(r) \/ (Still(r) /\ s.peers[p].chokes_us)
    BY <1>2, <1>4, <1>6
  <1>9. Still(q) => Still(r) /\ s.peers[p].chokes_us = sw.peers[p].chokes_us
    BY <1>2, <1>4
  <1>10. s.peers[p].in_flight # {} /\ Choke(TRUE) \in Range(q) => Choke(TRUE) \in Range(r)
    BY <1>1, <1>2, <1>3, <1>6
  <1>11. \A i \in s.peers[p].in_flight :
            (\E n \in Range(q) : n.type = "piece" /\ n.index = i) =>
                \E n \in Range(r) : n.type = "piece" /\ n.index = i
    BY <1>1, <1>2
  <1>12. \/ s.peers[p].have = sw.peers[p].have
         \/ \E n \in Range(q) : n.type \in {"bitfield", "have"}
    BY <1>1, <1>2
  <1> QED BY <1>1, <1>2, <1>7, <1>8, <1>9, <1>10, <1>11, <1>12 DEF Takes, r

\* A leech that took in a message, or ticked, on one of its connections.
LEMMA HostedPlans ==
    ASSUME Base, NEW l \in Leeches, NEW x \in Peers \cup {0}, NEW r, NEW s,
           planned[<<l, x>>] = idle, Sound(s), Kept(s, r),
           DOMAIN s.peers = DOMAIN swarm[l].peers,
           swarm'[l] = r.sw, planned' = [planned EXCEPT ![<<l, x>>] = r.out],
           NEW p \in Peers, Hosted(l, p), Live(l, p)' => Live(l, p),
           Live(l, p)' => Takes(swarm[l], p, toLeech[<<l, p>>], s, toLeech'[<<l, p>>]),
           Tells(world, p, s, toLeech'[<<l, p>>]),
           UNCHANGED <<world, seed, toSeed, todo>>
    PROVE  Hosted(l, p)'
  <1> DEFINE c == <<l, p>>
             out == r.out[p]
             q == toLeech[c]
             q1 == toLeech'[c]
             e == swarm[l].peers[p]
             e1 == r.sw.peers[p]
  <1> SUFFICES ASSUME Live(l, p)'
               PROVE  /\ Roomy(p)' => Done(l, p)' \/ Greets(l, p)'
                      /\ Sharers(p)' = {l} => LastWord(l, p)'
                      /\ Roomy(p)' \/ Sharers(p)' = {l} =>
                            \A i \in swarm'[l].peers[p].in_flight : Owes(l, p, i)'
    BY DEF Hosted
  <1>0. /\ Types /\ Tabled /\ Announced
    BY BaseParts
  <1>1. Live(l, p) /\ (Roomy(p)' <=> Roomy(p)) /\ Sharers(p)' = Sharers(p)
    BY DEF Roomy, Sharers, limits
  <1>2. p \in DOMAIN swarm[l].peers /\ p \in DOMAIN s.peers
    BY <1>0, <1>1 DEF Tabled, Live
  <1>3. /\ e1.have = s.peers[p].have /\ e1.chokes_us = s.peers[p].chokes_us
        /\ out \in Seq(Asks)
        /\ s.peers[p].in_flight \subseteq e1.in_flight
        /\ \A i \in Pieces : Request(i) \in Range(out) <=>
                i \in e1.in_flight \ s.peers[p].in_flight
        /\ e1.we_interested # s.peers[p].we_interested => Interested(e1.we_interested) \in Range(out)
        /\ Interested(FALSE) \in Range(out) => s.peers[p].have # {} /\ ~wants(s, p)
        /\ r.sw \in SwarmType /\ p \in DOMAIN r.sw.peers
    BY <1>2 DEF Kept, Sound
  <1>4. missing(r.sw) = missing(s)
    BY DEF Kept, missing
  <1>5. e1.in_flight \subseteq Pieces /\ e1.we_interested \in BOOLEAN
    BY <1>3, PeerShape
  <1>6. ASSUME NEW n PROVE Planned(l, p, n)' <=> Planned(l, p, n) \/ n \in Range(out)
    <2>t. planned \in [LeechThreads -> [Peers -> Seq(Asks)]]
      BY <1>0 DEF Types
    <2>x. \A y \in Peers \cup {0} : <<l, y>> \in LeechThreads
      BY DEF LeechThreads
    <2>1. \A y \in Peers \cup {0} : planned'[<<l, y>>][p] =
            IF y = x THEN out ELSE planned[<<l, y>>][p]
      BY <2>t, <2>x
    <2>2. planned[<<l, x>>][p] = <<>>
      BY DEF idle
    <2>3. Range(planned[<<l, x>>][p]) = {}
      BY <2>2, Ranges
    <2> HIDE DEF out
    <2>4. Planned(l, p, n)' => Planned(l, p, n) \/ n \in Range(out)
      BY <2>1 DEF Planned
    <2>5. ASSUME Planned(l, p, n) PROVE Planned(l, p, n)'
      <3>1. PICK y \in Peers \cup {0} : n \in Range(planned[<<l, y>>][p])
        BY <2>5 DEF Planned
      <3>2. y # x
        BY <2>3, <3>1
      <3> QED BY <2>1, <3>1, <3>2 DEF Planned
    <2>6. n \in Range(out) => Planned(l, p, n)'
      BY <2>1 DEF Planned
    <2> QED BY <2>4, <2>5, <2>6
  <1>7. \A n : Sent(l, p, n)' <=> Sent(l, p, n)
    BY DEF Sent
  <1>8. Takes(swarm[l], p, q, s, q1)
    OBVIOUS
  <1>9. /\ Tells(world, p, s, q1) /\ Tells(world, p, swarm[l], q)
    BY <1>0 DEF Announced
  <1>u. UNCHANGED <<seed, toSeed, todo>> /\ swarm'[l].peers[p] = e1 /\ swarm'[l] = r.sw
    OBVIOUS
  <1> HIDE DEF out, q, q1, e1
  <1>10. ASSUME Roomy(p), Done(l, p) PROVE Done(l, p)'
    <2>1. \A m \in Range(q) : m.type \notin {"bitfield", "have"}
      <3>1. \A m \in Range(q) : m.type # "have"
        BY <1>9, <1>10 DEF Tells, Range, Roomy
      <3> QED BY <1>10, <3>1 DEF Done, q
    <2>2. /\ s.peers[p].have = e.have /\ missing(s) \subseteq missing(swarm[l])
          /\ Range(q1) \subseteq Range(q)
      BY <1>8, <2>1 DEF Takes
    <2>3. missing(r.sw) \cap e1.have = {}
      BY <1>3, <1>4, <1>10, <2>2 DEF Done
    <2> QED BY <1>u, <2>1, <2>2, <2>3 DEF Done, q1
  <1>11. ASSUME Roomy(p), Greets(l, p), ~Done(l, p)' PROVE Greets(l, p)'
    <2>1. Interested(FALSE) \notin Range(out)
      <3> SUFFICES ASSUME Interested(FALSE) \in Range(out) PROVE FALSE
        OBVIOUS
      <3>1. s.peers[p].have # {} /\ missing(s) \cap s.peers[p].have = {}
        BY <1>3 DEF wants
      <3>2. \A m \in Range(q1) : m.type # "bitfield"
        BY <1>2, <1>9, <3>1 DEF Tells, Range
      <3> QED BY <1>u, <1>3, <1>4, <1>11, <3>1, <3>2 DEF Done, q1
    <2>2. /\ Interested(FALSE) \notin Range(toSeed'[c])
          /\ ~Planned(l, p, Interested(FALSE))'
      BY <1>u, <1>6, <1>11, <2>1 DEF Greets
    <2>3. e1.we_interested =>
            \/ l \in seed'[p].interested \/ Interested(TRUE) \in Range(toSeed'[c])
            \/ Planned(l, p, Interested(TRUE))'
      <3> SUFFICES ASSUME e1.we_interested
                   PROVE  \/ l \in seed[p].interested \/ Interested(TRUE) \in Range(toSeed[c])
                          \/ Planned(l, p, Interested(TRUE))'
        BY <1>u
      <3>1. CASE e.we_interested
        BY <1>6, <1>11, <3>1 DEF Greets
      <3>2. CASE ~e.we_interested
        <4>1. s.peers[p].we_interested = e.we_interested
          BY <1>8 DEF Takes
        <4>2. e1.we_interested = TRUE
          BY <1>5
        <4>3. Interested(TRUE) \in Range(out)
          BY <1>3, <3>2, <4>1, <4>2
        <4> QED BY <1>6, <4>3
      <3> QED BY <3>1, <3>2
    <2>4. Choke(TRUE) \notin Range(q1) /\ ~Sent(l, p, Choke(TRUE))'
      BY <1>7, <1>8, <1>11 DEF Greets, Takes, q
    <2>5. (~e1.chokes_us \/ Choke(FALSE) \in Range(q1)) <=>
             (~e.chokes_us \/ Choke(FALSE) \in Range(q))
      BY <1>3, <1>8, <1>11 DEF Greets, Takes, q
    <2>6. l \in seed'[p].unchoked <=>
            \/ ~e1.chokes_us \/ Choke(FALSE) \in Range(q1) \/ Sent(l, p, Choke(FALSE))'
      BY <1>u, <1>7, <1>11, <2>5 DEF Greets, q
    <2>7. l \in seed'[p].unchoked => l \in seed'[p].interested
      BY <1>u, <1>11 DEF Greets
    <2> QED BY <1>u, <2>2, <2>3, <2>4, <2>6, <2>7 DEF Greets, q1
  <1>12. ASSUME LastWord(l, p) PROVE LastWord(l, p)'
    <2>1. /\ Final(q) => Final(q1) \/ (Still(q1) /\ e1.chokes_us)
          /\ Still(q) /\ e.chokes_us => Still(q1) /\ e1.chokes_us
      BY <1>3, <1>8 DEF Takes
    <2> QED BY <1>u, <1>12, <2>1 DEF LastWord, Choking, q, q1
  <1>13. ASSUME Roomy(p) \/ Sharers(p) = {l}, NEW i \in e1.in_flight PROVE Owes(l, p, i)'
    <2>1. CASE i \notin s.peers[p].in_flight
      <3>1. Request(i) \in Range(out)
        BY <1>3, <1>5, <1>13, <2>1
      <3> QED BY <1>6, <3>1 DEF Owes
    <2>2. CASE i \in s.peers[p].in_flight
      <3>1. i \in e.in_flight
        BY <1>8, <2>2 DEF Takes
      <3>2. Owes(l, p, i)
        BY <1>1, <1>13, <3>1 DEF Hosted
      <3>3. /\ Choke(TRUE) \in Range(q) => Choke(TRUE) \in Range(q1)
            /\ (\E m \in Range(q) : m.type = "piece" /\ m.index = i) =>
                    \E m \in Range(q1) : m.type = "piece" /\ m.index = i
        BY <1>8, <2>2 DEF Takes
      <3> QED BY <1>u, <1>6, <3>2, <3>3 DEF Owes, Choking, q, q1
    <2> QED BY <2>1, <2>2
  <1> QED BY <1>u, <1>1, <1>10, <1>11, <1>12, <1>13 DEF Hosted
\* What a step that does not write on a silent connection leaves of it.
LEMMA UnheardFrame ==
    ASSUME NEW l \in Leeches, NEW p \in Peers, Unheard(l, p),
           far'[<<l, p>>] = "mute" /\ near'[<<l, p>>] \in {"up", "closing"} =>
                /\ far[<<l, p>>] = "mute" /\ near[<<l, p>>] \in {"up", "closing"}
                /\ toLeech[<<l, p>>] = <<>> => toLeech'[<<l, p>>] = <<>>
                /\ swarm'[l].peers[p].have = swarm[l].peers[p].have
                /\ swarm'[l].peers[p].chokes_us = swarm[l].peers[p].chokes_us
    PROVE  Unheard(l, p)'
  BY DEF Unheard

LEMMA WorldFrame ==
    ASSUME UNCHANGED world
    PROVE  \A p \in Peers : Roomy(p)' = Roomy(p) /\ Sharers(p)' = Sharers(p)
  <1>1. \A p \in Peers : Sharers(p)' = Sharers(p)
    BY DEF Sharers
  <1> QED BY <1>1 DEF Roomy, limits

\* A connection that ends concerns the two who had it.
LEMMA HostingEnds ==
    ASSUME Base, Hosting, NEW h \in Leeches, NEW g \in Peers,
           UNCHANGED <<world, planned, todo>>,
           near'[<<h, g>>] = "gone" \/ far'[<<h, g>>] = "gone",
           \A k \in Leeches, q \in Peers : <<k, q>> # <<h, g>> =>
                /\ near'[<<k, q>>] = near[<<k, q>>] /\ far'[<<k, q>>] = far[<<k, q>>]
                /\ toLeech'[<<k, q>>] = toLeech[<<k, q>>]
                /\ toSeed'[<<k, q>>] = toSeed[<<k, q>>]
                /\ near[<<k, q>>] \in {"up", "closing"} =>
                        swarm'[k].peers[q] = swarm[k].peers[q]
                /\ (k \in seed'[q].unchoked) = (k \in seed[q].unchoked)
                /\ (k \in seed'[q].interested) = (k \in seed[q].interested),
           \A k \in Leeches : /\ missing(swarm'[k]) = missing(swarm[k])
                              /\ swarm'[k].manifest = swarm[k].manifest
    PROVE  Hosting'
  <1> SUFFICES ASSUME NEW k \in Leeches, NEW q \in Peers
               PROVE  Hosted(k, q)' /\ Unheard(k, q)'
    BY DEF Hosting
  <1>h. Hosted(k, q) /\ Unheard(k, q)
    BY DEF Hosting
  <1>1. CASE <<k, q>> = <<h, g>>
    BY <1>1 DEF Hosted, Unheard, Live
  <1>2. CASE <<k, q>> # <<h, g>>
    <2>1. Same(k, q)
      BY <1>2 DEF Same, Live
    <2>2. Hosted(k, q)'
      BY <1>h, <2>1, HostedFrame, WorldFrame
    <2>3. Unheard(k, q)'
      BY <1>2, <1>h, UnheardFrame
    <2> QED BY <2>2, <2>3
  <1> QED BY <1>1, <1>2

LEMMA HostingKept ==
    ASSUME Hosting, UNCHANGED <<world, swarm, seed, near, far, toLeech, toSeed, todo, planned>>
    PROVE  Hosting'
  <1> SUFFICES ASSUME NEW k \in Leeches, NEW q \in Peers
               PROVE  Hosted(k, q)' /\ Unheard(k, q)'
    BY DEF Hosting
  <1>h. Hosted(k, q) /\ Unheard(k, q)
    BY DEF Hosting
  <1>1. Same(k, q)
    BY DEF Same, Live
  <1>2. Hosted(k, q)'
    BY <1>h, <1>1, HostedFrame, WorldFrame
  <1>3. Unheard(k, q)'
    BY <1>h, UnheardFrame
  <1> QED BY <1>2, <1>3

LEMMA HostingDialFails ==
    ASSUME Base, Hosting, NEW l \in Leeches, NEW p \in Peers, DialFails(<<l, p>>)
    PROVE  Hosting'
  <1>0. near \in [Links -> {"none", "dial", "up", "closing", "gone"}]
    BY BaseParts DEF Types
  <1>1. /\ near' = [near EXCEPT ![<<l, p>>] = "gone"]
        /\ UNCHANGED <<world, swarm, seed, far, toLeech, toSeed, todo, planned>>
    BY DEF DialFails
  <1>2. /\ near'[<<l, p>>] = "gone"
        /\ \A k \in Leeches, q \in Peers : <<k, q>> # <<l, p>> =>
                near'[<<k, q>>] = near[<<k, q>>]
    BY <1>0, <1>1, LinkTypes
  <1> QED BY <1>1, <1>2, HostingEnds

LEMMA HostingHangUp ==
    ASSUME Base, Hosting, NEW l \in Leeches, NEW p \in Peers, HangUp(<<l, p>>)
    PROVE  Hosting'
  <1>0. far \in [Links -> {"none", "up", "mute", "gone"}]
    BY BaseParts DEF Types
  <1>1. /\ far' = [far EXCEPT ![<<l, p>>] = "gone"]
        /\ UNCHANGED <<world, swarm, seed, near, toLeech, toSeed, todo, planned>>
    BY DEF HangUp
  <1>2. /\ far'[<<l, p>>] = "gone"
        /\ \A k \in Leeches, q \in Peers : <<k, q>> # <<l, p>> =>
                far'[<<k, q>>] = far[<<k, q>>]
    BY <1>0, <1>1, LinkTypes
  <1> QED BY <1>1, <1>2, HostingEnds

LEMMA HostingBreaks ==
    ASSUME Base, Hosting, NEW l \in Leeches, NEW p \in Peers,
           Break(<<l, p>>) \/ SeedSeesEnd(<<l, p>>) \/ Timeout(l, p)
    PROVE  Hosting'
  <1>0. /\ far \in [Links -> {"none", "up", "mute", "gone"}]
        /\ near \in [Links -> {"none", "dial", "up", "closing", "gone"}]
        /\ seed \in [Peers -> SeedType] /\ toSeed \in [Links -> Seq(Asks)]
        /\ Tidy(seed[p])
    BY BaseParts DEF Types, Admitted
  <1>1. /\ far' = [far EXCEPT ![<<l, p>>] = "gone"]
        /\ near' = near \/ near' = [near EXCEPT ![<<l, p>>] = "closing"]
        /\ seed' = [seed EXCEPT ![p] = without(seed[p], l)]
        /\ toSeed' = toSeed \/ toSeed' = [toSeed EXCEPT ![<<l, p>>] = <<>>]
        /\ UNCHANGED <<world, swarm, toLeech, todo, planned>>
    BY <1>0 DEF Break, SeedSeesEnd, Timeout
  <1>2. /\ without(seed[p], l).interested = seed[p].interested \ {l}
        /\ without(seed[p], l).unchoked = seed[p].unchoked \ {l}
    BY <1>0, Leaves
  <1>3. /\ far'[<<l, p>>] = "gone"
        /\ \A k \in Leeches, q \in Peers : <<k, q>> # <<l, p>> =>
                /\ far'[<<k, q>>] = far[<<k, q>>] /\ near'[<<k, q>>] = near[<<k, q>>]
                /\ toSeed'[<<k, q>>] = toSeed[<<k, q>>]
    BY <1>0, <1>1, LinkTypes
  <1>4. ASSUME NEW k \in Leeches, NEW q \in Peers, <<k, q>> # <<l, p>>
        PROVE  /\ (k \in seed'[q].unchoked) = (k \in seed[q].unchoked)
               /\ (k \in seed'[q].interested) = (k \in seed[q].interested)
    <2>1. CASE q # p
      BY <1>0, <1>1, <2>1
    <2>2. CASE q = p
      <3>1. k # l /\ seed'[q] = without(seed[p], l)
        BY <1>0, <1>1, <1>4, <2>2
      <3> QED BY <1>2, <2>2, <3>1
    <2> QED BY <2>1, <2>2
  <1>5. UNCHANGED <<world, swarm, toLeech, todo, planned>>
    BY <1>1
  <1>6. \A k \in Leeches, q \in Peers : <<k, q>> # <<l, p>> =>
                /\ near'[<<k, q>>] = near[<<k, q>>] /\ far'[<<k, q>>] = far[<<k, q>>]
                /\ toLeech'[<<k, q>>] = toLeech[<<k, q>>]
                /\ toSeed'[<<k, q>>] = toSeed[<<k, q>>]
                /\ near[<<k, q>>] \in {"up", "closing"} =>
                        swarm'[k].peers[q] = swarm[k].peers[q]
                /\ (k \in seed'[q].unchoked) = (k \in seed[q].unchoked)
                /\ (k \in seed'[q].interested) = (k \in seed[q].interested)
    BY <1>3, <1>4, <1>5
  <1>7. far'[<<l, p>>] = "gone"
    BY <1>3
  <1> QED BY <1>5, <1>6, <1>7, HostingEnds

LEMMA HostingLeechSeesEnd ==
    ASSUME Base, Hosting, NEW l \in Leeches, NEW p \in Peers, LeechSeesEnd(<<l, p>>)
    PROVE  Hosting'
  <1>0. /\ near \in [Links -> {"none", "dial", "up", "closing", "gone"}]
        /\ toLeech \in [Links -> Seq(Answers)]
    BY BaseParts DEF Types
  <1>1. /\ near' = [near EXCEPT ![<<l, p>>] = "closing"] /\ far[<<l, p>>] = "gone"
        /\ toLeech' = [toLeech EXCEPT ![<<l, p>>] = <<>>]
        /\ UNCHANGED <<world, swarm, seed, far, toSeed, todo, planned>>
    BY DEF LeechSeesEnd
  <1>2. /\ far'[<<l, p>>] = "gone"
        /\ \A k \in Leeches, q \in Peers : <<k, q>> # <<l, p>> =>
                near'[<<k, q>>] = near[<<k, q>>] /\ toLeech'[<<k, q>>] = toLeech[<<k, q>>]
    BY <1>0, <1>1, LinkTypes
  <1> QED BY <1>1, <1>2, HostingEnds

LEMMA HostingRemovePeer ==
    ASSUME Base, Hosting, NEW l \in Leeches, NEW p \in Peers, RemovePeer(l, p)
    PROVE  Hosting'
  <1>0. /\ near \in [Links -> {"none", "dial", "up", "closing", "gone"}]
        /\ toLeech \in [Links -> Seq(Answers)] /\ swarm \in [Leeches -> SwarmType]
        /\ world \in WorldType /\ Tabled /\ Sound(swarm[l])
    BY BaseParts DEF Types, Leeching
  <1>1. /\ near' = [near EXCEPT ![<<l, p>>] = "gone"] /\ near[<<l, p>>] = "closing"
        /\ toLeech' = [toLeech EXCEPT ![<<l, p>>] = <<>>]
        /\ swarm' = [swarm EXCEPT ![l] = remove_peer(swarm[l], p)]
        /\ UNCHANGED <<world, seed, far, toSeed, todo, planned>>
    BY <1>0 DEF RemovePeer
  <1>2. /\ near'[<<l, p>>] = "gone"
        /\ \A k \in Leeches, q \in Peers : <<k, q>> # <<l, p>> =>
                near'[<<k, q>>] = near[<<k, q>>] /\ toLeech'[<<k, q>>] = toLeech[<<k, q>>]
    BY <1>0, <1>1, LinkTypes
  <1>3. p \in DOMAIN swarm[l].peers
    BY <1>0, <1>1 DEF Tabled
  <1> DEFINE s == remove_peer(swarm[l], p)
  <1>4. /\ \A q \in DOMAIN swarm[l].peers \ {p} : s.peers[q] = swarm[l].peers[q]
        /\ missing(s) = missing(swarm[l]) /\ s.manifest = swarm[l].manifest
    BY <1>0, <1>3, Removes
  <1>5. /\ swarm'[l] = s /\ \A k \in Leeches : k # l => swarm'[k] = swarm[k]
    BY <1>0, <1>1
  <1> HIDE DEF s
  <1>6. \A k \in Leeches : /\ missing(swarm'[k]) = missing(swarm[k])
                           /\ swarm'[k].manifest = swarm[k].manifest
    BY <1>4, <1>5
  <1>7. ASSUME NEW k \in Leeches, NEW q \in Peers, <<k, q>> # <<l, p>>,
               near[<<k, q>>] \in {"up", "closing"}
        PROVE  swarm'[k].peers[q] = swarm[k].peers[q]
    <2>1. q \in DOMAIN swarm[k].peers
      BY <1>0, <1>7 DEF Tabled
    <2> QED BY <1>4, <1>5, <1>7, <2>1
  <1> QED BY <1>1, <1>2, <1>6, <1>7, HostingEnds
LEMMA HostingConnect ==
    ASSUME Base, Hosting, NEW l \in Leeches, NEW p \in Peers, Connect(l, p)
    PROVE  Hosting'
  <1> DEFINE c == <<l, p>>
             s == met(swarm[l], p)
  <1>0. /\ near \in [Links -> {"none", "dial", "up", "closing", "gone"}]
        /\ far \in [Links -> {"none", "up", "mute", "gone"}]
        /\ toLeech \in [Links -> Seq(Answers)] /\ swarm \in [Leeches -> SwarmType]
        /\ seed \in [Peers -> SeedType]
        /\ world \in WorldType /\ Tabled /\ Sound(swarm[l]) /\ Tidy(seed[p])
        /\ Dialling /\ Admitted
    BY BaseParts DEF Types, Leeching, Admitted
  <1>1. /\ near[c] = "dial" /\ near' = [near EXCEPT ![c] = "up"]
        /\ swarm' = [swarm EXCEPT ![l] = s]
        /\ seed' = [seed EXCEPT ![p] = joined(seed[p], l)] \/ seed' = seed
        /\ UNCHANGED <<world, toSeed, todo, planned>>
    BY <1>0 DEF Connect
  <1>2. /\ \A d \in Links : d # c => far'[d] = far[d]
        /\ \A d \in Links : d # c => toLeech'[d] = toLeech[d]
    BY <1>0 DEF Connect
  <1>3. \A k \in Leeches, q \in Peers : <<k, q>> # <<l, p>> =>
            /\ near'[<<k, q>>] = near[<<k, q>>] /\ far'[<<k, q>>] = far[<<k, q>>]
            /\ toLeech'[<<k, q>>] = toLeech[<<k, q>>]
    BY <1>0, <1>1, <1>2, LinkTypes
  <1>4. p \notin DOMAIN swarm[l].peers /\ l \notin seed[p].peers
    BY <1>0, <1>1 DEF Tabled, Dialling, Admitted
  <1>5. /\ joined(seed[p], l).interested = seed[p].interested
        /\ joined(seed[p], l).unchoked = seed[p].unchoked
    BY <1>0, <1>4, Joins
  <1>6. /\ \A q \in DOMAIN swarm[l].peers : s.peers[q] = swarm[l].peers[q]
        /\ missing(s) = missing(swarm[l]) /\ s.manifest = swarm[l].manifest
    BY <1>0, <1>4, Meets
  <1>7. /\ swarm'[l] = s /\ \A k \in Leeches : k # l => swarm'[k] = swarm[k]
    BY <1>0, <1>1
  <1>8. \A q \in Peers : /\ seed'[q].interested = seed[q].interested
                         /\ seed'[q].unchoked = seed[q].unchoked
    BY <1>0, <1>1, <1>5
  <1> HIDE DEF s
  <1> SUFFICES ASSUME NEW k \in Leeches, NEW q \in Peers, <<k, q>> # <<l, p>>
               PROVE  Hosted(k, q)' /\ Unheard(k, q)'
    BY HostedConnect DEF Hosting
  <1>h. Hosted(k, q) /\ Unheard(k, q)
    BY DEF Hosting
  <1>9. /\ near[<<k, q>>] \in {"up", "closing"} => swarm'[k].peers[q] = swarm[k].peers[q]
        /\ missing(swarm'[k]) = missing(swarm[k])
        /\ swarm'[k].manifest = swarm[k].manifest
    <2>1. near[<<k, q>>] \in {"up", "closing"} => q \in DOMAIN swarm[k].peers
      BY <1>0 DEF Tabled
    <2> QED BY <1>6, <1>7, <2>1
  <1>10. Same(k, q)
    BY <1>1, <1>3, <1>8, <1>9 DEF Same, Live
  <1>11. Hosted(k, q)'
    BY <1>h, <1>1, <1>10, HostedFrame, WorldFrame
  <1>12. Unheard(k, q)'
    BY <1>3, <1>9, <1>h, UnheardFrame
  <1> QED BY <1>11, <1>12

LEMMA HostingSeedReads ==
    ASSUME Base, Hosting, NEW l \in Leeches, NEW p \in Peers, SeedReads(l, p)
    PROVE  Hosting'
  <1> DEFINE c == <<l, p>>
  <1>0. /\ toSeed \in [Links -> Seq(Asks)] /\ seed \in [Peers -> SeedType]
        /\ todo \in [Threads -> SUBSET [to : Leeches, msg : Answers]]
    BY BaseParts DEF Types
  <1>1. /\ toSeed' = [toSeed EXCEPT ![c] = Tail(@)] /\ todo[<<c, "read">>] = {}
        /\ UNCHANGED <<world, swarm, near, far, toLeech, planned>>
    BY DEF SeedReads, conn
  <1>2. \/ /\ UNCHANGED todo
           /\ \E S \in {seed[p].interested \cup {l}, seed[p].interested \ {l}} :
                    seed' = [seed EXCEPT ![p].interested = S]
        \/ /\ UNCHANGED seed
           /\ todo' = [todo EXCEPT ![<<c, "read">>] = on_request(p, l, Head(toSeed[c]).index)]
    BY <1>0 DEF SeedReads
  <1> SUFFICES ASSUME NEW k \in Leeches, NEW q \in Peers
               PROVE  Hosted(k, q)' /\ Unheard(k, q)'
    BY DEF Hosting
  <1>h. Hosted(k, q) /\ Unheard(k, q)
    BY DEF Hosting
  <1>3. Unheard(k, q)'
    BY <1>1, <1>h, UnheardFrame
  <1>4. CASE <<k, q>> = c
    BY <1>3, <1>4, <1>h, HostedSeedReads
  <1>5. CASE <<k, q>> # c
    <2>1. toSeed'[<<k, q>>] = toSeed[<<k, q>>]
      BY <1>0, <1>1, <1>5, LinkTypes
    <2>2. /\ seed'[q].unchoked = seed[q].unchoked
          /\ (k \in seed'[q].interested) = (k \in seed[q].interested)
      <3>1. CASE UNCHANGED seed
        BY <3>1
      <3>2. CASE q # p
        BY <1>0, <1>2, <3>2
      <3>3. CASE q = p /\ ~UNCHANGED seed
        <4>1. k # l
          BY <1>5, <3>3
        <4>2. PICK S \in {seed[p].interested \cup {l}, seed[p].interested \ {l}} :
                    seed' = [seed EXCEPT ![p].interested = S]
          BY <1>2, <3>3
        <4>3. seed'[p].unchoked = seed[p].unchoked /\ seed'[p].interested = S
          BY <1>0, <4>2 DEF SeedType
        <4> QED BY <3>3, <4>1, <4>2, <4>3
      <3> QED BY <3>1, <3>2, <3>3
    <2>3. /\ todo'[<<<<k, q>>, "read">>] = todo[<<<<k, q>>, "read">>]
          /\ todo'[<<<<k, q>>, "tick">>] = todo[<<<<k, q>>, "tick">>]
      BY <1>0, <1>2, <1>5, LinkTypes
    <2>4. ASSUME NEW j \in Leeches, NEW x \in {"read", "tick"}, NEW a, a.to = k
          PROVE  a \in todo'[<<<<j, q>>, x>>] <=> a \in todo[<<<<j, q>>, x>>]
      <3>1. CASE <<<<j, q>>, x>> # <<c, "read">>
        BY <1>0, <1>2, <3>1, LinkTypes
      <3>2. CASE <<<<j, q>>, x>> = <<c, "read">>
        <4>1. k # l
          BY <1>5, <3>2
        <4>2. todo[<<c, "read">>] = {}
          BY <1>1
        <4>3. \A b \in todo'[<<c, "read">>] : b.to = l
          <5>1. CASE UNCHANGED todo
            BY <4>2, <5>1
          <5>2. CASE todo' = [todo EXCEPT ![<<c, "read">>] = on_request(p, l, Head(toSeed[c]).index)]
            <6>1. todo'[<<c, "read">>] = on_request(p, l, Head(toSeed[c]).index)
              BY <1>0, <5>2, LinkTypes
            <6> QED BY <6>1 DEF on_request
          <5> QED BY <1>2, <5>1, <5>2
        <4> QED BY <2>4, <3>2, <4>1, <4>2, <4>3
      <3> QED BY <3>1, <3>2
    <2>5. Same(k, q)
      BY <1>1, <2>1, <2>2, <2>3, <2>4 DEF Same, Live
    <2> QED BY <1>1, <1>3, <1>h, <2>5, HostedFrame, WorldFrame
  <1> QED BY <1>4, <1>5

LEMMA HostingSeedTick ==
    ASSUME Base, Hosting, NEW h \in Leeches, NEW p \in Peers, SeedTick(h, p)
    PROVE  Hosting'
  <1>0. /\ seed \in [Peers -> SeedType]
        /\ todo \in [Threads -> SUBSET [to : Leeches, msg : Answers]]
    BY BaseParts DEF Types
  <1>1. /\ seed' = [seed EXCEPT ![p] = tick(seed[p], p).sd]
        /\ todo' = [todo EXCEPT ![<<<<h, p>>, "tick">>] = tick(seed[p], p).out]
        /\ UNCHANGED <<world, swarm, near, far, toLeech, toSeed, planned>>
    BY DEF SeedTick, conn
  <1> SUFFICES ASSUME NEW k \in Leeches, NEW q \in Peers
               PROVE  Hosted(k, q)' /\ Unheard(k, q)'
    BY DEF Hosting
  <1>h. Hosted(k, q) /\ Unheard(k, q)
    BY DEF Hosting
  <1>2. Unheard(k, q)'
    BY <1>1, <1>h, UnheardFrame
  <1>3. CASE q = p
    BY <1>2, <1>3, <1>h, HostedSeedTick
  <1>4. CASE q # p
    <2>1. seed'[q] = seed[q]
      BY <1>0, <1>1, <1>4
    <2>2. \A j \in Leeches, x \in {"read", "tick"} :
                todo'[<<<<j, q>>, x>>] = todo[<<<<j, q>>, x>>]
      BY <1>0, <1>1, <1>4, LinkTypes
    <2>3. Same(k, q)
      BY <1>1, <2>1, <2>2 DEF Same, Live
    <2> QED BY <1>1, <1>2, <1>h, <2>3, HostedFrame, WorldFrame
  <1> QED BY <1>3, <1>4

LEMMA HostingDispatch ==
    ASSUME Base, Hosting, NEW h \in Leeches, NEW p \in Peers, NEW x \in {"read", "tick"},
           Dispatch(<<<<h, p>>, x>>)
    PROVE  Hosting'
  <1>0. todo \in [Threads -> SUBSET [to : Leeches, msg : Answers]]
    BY BaseParts DEF Types
  <1>1. /\ todo' = [todo EXCEPT ![<<<<h, p>>, x>>] = {}]
        /\ \A d \in Links : ~(d[2] = p /\ far[d] = "up") => toLeech'[d] = toLeech[d]
        /\ UNCHANGED <<world, swarm, seed, near, far, toSeed, planned>>
    BY DEF Dispatch, conn
  <1> SUFFICES ASSUME NEW k \in Leeches, NEW q \in Peers
               PROVE  Hosted(k, q)' /\ Unheard(k, q)'
    BY DEF Hosting
  <1>h. Hosted(k, q) /\ Unheard(k, q)
    BY DEF Hosting
  <1>d. <<k, q>> \in Links /\ <<k, q>>[2] = q
    BY LinkTypes
  <1>2. Unheard(k, q)'
    BY <1>d, <1>1, <1>h, UnheardFrame
  <1>3. CASE q = p
    BY <1>2, <1>3, <1>h, HostedDispatch
  <1>4. CASE q # p
    <2>1. toLeech'[<<k, q>>] = toLeech[<<k, q>>]
      BY <1>d, <1>1, <1>4
    <2>2. \A j \in Leeches, y \in {"read", "tick"} :
                todo'[<<<<j, q>>, y>>] = todo[<<<<j, q>>, y>>]
      BY <1>0, <1>1, <1>4, LinkTypes
    <2>3. Same(k, q)
      BY <1>1, <2>1, <2>2 DEF Same, Live
    <2> QED BY <1>1, <1>2, <1>h, <2>3, HostedFrame, WorldFrame
  <1> QED BY <1>3, <1>4

LEMMA HostingLeechDispatch ==
    ASSUME Base, Hosting, NEW l \in Leeches, NEW x \in Peers \cup {0}, LeechDispatch(<<l, x>>)
    PROVE  Hosting'
  <1>0. planned \in [LeechThreads -> [Peers -> Seq(Asks)]]
    BY BaseParts DEF Types
  <1>1. /\ planned' = [planned EXCEPT ![<<l, x>>] = idle]
        /\ \A d \in Links : d[1] # l => toSeed'[d] = toSeed[d]
        /\ UNCHANGED <<world, swarm, seed, near, far, toLeech, todo>>
    BY DEF LeechDispatch, conn
  <1> SUFFICES ASSUME NEW k \in Leeches, NEW q \in Peers
               PROVE  Hosted(k, q)' /\ Unheard(k, q)'
    BY DEF Hosting
  <1>h. Hosted(k, q) /\ Unheard(k, q)
    BY DEF Hosting
  <1>2. Unheard(k, q)'
    BY <1>1, <1>h, UnheardFrame
  <1>3. CASE k = l
    BY <1>2, <1>3, <1>h, HostedLeechDispatch
  <1>4. CASE k # l
    <2>1. toSeed'[<<k, q>>] = toSeed[<<k, q>>]
      BY <1>1, <1>4, LinkTypes
    <2>2. \A y \in Peers \cup {0} : planned'[<<k, y>>] = planned[<<k, y>>]
      BY <1>0, <1>1, <1>4 DEF LeechThreads
    <2>3. Same(k, q)
      BY <1>1, <2>1, <2>2 DEF Same, Live
    <2> QED BY <1>1, <1>2, <1>h, <2>3, HostedFrame, WorldFrame
  <1> QED BY <1>3, <1>4

LEMMA HostingPeerGains ==
    ASSUME Base, Hosting, NEW p \in Peers, NEW i \in Pieces, PeerGains(p, i)
    PROVE  Hosting'
  <1>1. /\ \A d \in Links : far[d] # "up" => toLeech'[d] = toLeech[d]
        /\ UNCHANGED <<swarm, near, far>>
    BY DEF PeerGains, conn
  <1> SUFFICES ASSUME NEW k \in Leeches, NEW q \in Peers
               PROVE  Hosted(k, q)' /\ Unheard(k, q)'
    BY DEF Hosting
  <1>h. Hosted(k, q) /\ Unheard(k, q)
    BY DEF Hosting
  <1>2. Unheard(k, q)'
    BY <1>1, <1>h, UnheardFrame, LinkTypes
  <1> QED BY <1>2, <1>h, HostedPeerGains
LEMMA HostingPlans ==
    ASSUME Base, Hosting, NEW l \in Leeches, NEW x \in Peers \cup {0}, NEW r, NEW s,
           planned[<<l, x>>] = idle, Sound(s), Kept(s, r),
           DOMAIN s.peers = DOMAIN swarm[l].peers,
           swarm' = [swarm EXCEPT ![l] = r.sw],
           planned' = [planned EXCEPT ![<<l, x>>] = r.out],
           \A k \in Leeches, q \in Peers :
              \/ near'[<<k, q>>] = near[<<k, q>>]
              \/ k = l /\ near[<<k, q>>] = "up" /\ near'[<<k, q>>] = "closing",
           \A q \in Peers : Tells(world, q, s, toLeech'[<<l, q>>]),
           \A q \in DOMAIN swarm[l].peers :
              Takes(swarm[l], q, toLeech[<<l, q>>], s, toLeech'[<<l, q>>]),
           \A q \in DOMAIN swarm[l].peers : toLeech[<<l, q>>] = <<>> =>
              /\ toLeech'[<<l, q>>] = <<>>
              /\ s.peers[q].have = swarm[l].peers[q].have
              /\ s.peers[q].chokes_us = swarm[l].peers[q].chokes_us,
           \A k \in Leeches, q \in Peers : k # l => toLeech'[<<k, q>>] = toLeech[<<k, q>>],
           UNCHANGED <<world, seed, far, toSeed, todo>>
    PROVE  Hosting'
  <1>0. /\ planned \in [LeechThreads -> [Peers -> Seq(Asks)]]
        /\ swarm \in [Leeches -> SwarmType] /\ Tabled
    BY BaseParts DEF Types
  <1>1. swarm'[l] = r.sw /\ \A k \in Leeches : k # l => swarm'[k] = swarm[k]
    BY <1>0
  <1> SUFFICES ASSUME NEW k \in Leeches, NEW q \in Peers
               PROVE  Hosted(k, q)' /\ Unheard(k, q)'
    BY DEF Hosting
  <1>h. Hosted(k, q) /\ Unheard(k, q)
    BY DEF Hosting
  <1>2. CASE k = l
    <2>1. /\ Live(l, q)' => Live(l, q) /\ near[<<l, q>>] = "up"
          /\ near'[<<l, q>>] \in {"up", "closing"} => near[<<l, q>>] \in {"up", "closing"}
      BY DEF Live
    <2>2. near[<<l, q>>] \in {"up", "closing"} => q \in DOMAIN swarm[l].peers
      BY <1>0 DEF Tabled
    <2>3. Hosted(l, q)'
      <3>1. Live(l, q)' => Takes(swarm[l], q, toLeech[<<l, q>>], s, toLeech'[<<l, q>>])
        BY <2>1, <2>2
      <3> QED BY <1>1, <1>2, <1>h, <2>1, <3>1, HostedPlans
    <2>4. Unheard(l, q)'
      <3> SUFFICES ASSUME far'[<<l, q>>] = "mute", near'[<<l, q>>] \in {"up", "closing"}
                   PROVE  /\ toLeech'[<<l, q>>] = <<>> /\ swarm'[l].peers[q].have = {}
                          /\ swarm'[l].peers[q].chokes_us
        BY DEF Unheard
      <3>1. far[<<l, q>>] = "mute" /\ near[<<l, q>>] \in {"up", "closing"}
        BY <2>1
      <3>2. /\ toLeech[<<l, q>>] = <<>> /\ swarm[l].peers[q].have = {}
            /\ swarm[l].peers[q].chokes_us
        BY <1>2, <1>h, <3>1 DEF Unheard
      <3>3. /\ toLeech'[<<l, q>>] = <<>> /\ s.peers[q].have = {} /\ s.peers[q].chokes_us
            /\ q \in DOMAIN s.peers
        BY <2>2, <3>1, <3>2
      <3>4. r.sw.peers[q].have = s.peers[q].have /\ r.sw.peers[q].chokes_us = s.peers[q].chokes_us
        BY <3>3 DEF Kept
      <3> QED BY <1>1, <3>3, <3>4
    <2> QED BY <1>2, <2>3, <2>4
  <1>3. CASE k # l
    <2>1. swarm'[k] = swarm[k] /\ near'[<<k, q>>] = near[<<k, q>>]
          /\ toLeech'[<<k, q>>] = toLeech[<<k, q>>]
      BY <1>1, <1>3
    <2>2. \A y \in Peers \cup {0} : planned'[<<k, y>>] = planned[<<k, y>>]
      BY <1>0, <1>3 DEF LeechThreads
    <2>3. Same(k, q)
      BY <2>1, <2>2 DEF Same, Live
    <2>4. Hosted(k, q)'
      BY <1>h, <2>3, HostedFrame, WorldFrame
    <2>5. Unheard(k, q)'
      BY <1>h, <2>1, UnheardFrame
    <2> QED BY <2>4, <2>5
  <1> QED BY <1>2, <1>3

LEMMA HostingLeechReads ==
    ASSUME Base, Hosting, NEW l \in Leeches, NEW p \in Peers, LeechReads(l, p)
    PROVE  Hosting'
  <1> DEFINE c == <<l, p>>
             m == Head(toLeech[c])
             r == on_message(swarm[l], p, m)
  <1>0. /\ Types /\ Tabled /\ Leeching /\ Announced
    BY BaseParts
  <1>t. /\ toLeech \in [Links -> Seq(Answers)] /\ world \in WorldType
        /\ near \in [Links -> {"none", "dial", "up", "closing", "gone"}]
        /\ swarm[l] \in SwarmType
    BY <1>0 DEF Types
  <1>1. /\ near[c] = "up" /\ toLeech[c] # <<>> /\ planned[c] = idle
        /\ swarm' = [swarm EXCEPT ![l] = r.sw]
        /\ near' = [near EXCEPT ![c] = IF r.drop = "no" THEN @ ELSE "closing"]
        /\ planned' = [planned EXCEPT ![c] = r.out]
        /\ toLeech' = [toLeech EXCEPT ![c] = Tail(@)]
        /\ UNCHANGED <<world, seed, far, toSeed, todo>>
    BY DEF LeechReads
  <1>2. /\ toLeech[c] \in Seq(Answers) /\ toLeech[c] # <<>> /\ m = toLeech[c][1]
        /\ p \in DOMAIN swarm[l].peers
    BY ReadsOne
  <1>3. PICK s : Heard(swarm[l], p, m, s) /\ Kept(s, r)
    BY ReadsOne
  <1> HIDE DEF m, r
  <1>4. /\ Sound(s) /\ DOMAIN s.peers = DOMAIN swarm[l].peers
        /\ missing(s) \subseteq missing(swarm[l])
        /\ \A q \in DOMAIN swarm[l].peers : q # p =>
                /\ s.peers[q].have = swarm[l].peers[q].have
                /\ s.peers[q].chokes_us = swarm[l].peers[q].chokes_us
                /\ s.peers[q].we_interested = swarm[l].peers[q].we_interested
                /\ s.peers[q].in_flight \subseteq swarm[l].peers[q].in_flight
        /\ s.peers[p].have =
             IF m.type = "bitfield" THEN m.field
             ELSE IF m.type = "have" THEN swarm[l].peers[p].have \cup {m.index}
             ELSE swarm[l].peers[p].have
    BY <1>2, <1>3 DEF Heard
  <1>5. /\ toLeech'[c] = Tail(toLeech[c])
        /\ \A k \in Leeches, q \in Peers : <<k, q>> # c => toLeech'[<<k, q>>] = toLeech[<<k, q>>]
    BY <1>t, <1>1, LinkTypes
  <1>d. DOMAIN swarm[l].peers \subseteq Peers
    BY <1>t, TableShape
  <1>6. \A q \in Peers : Tells(world, q, s, toLeech'[<<l, q>>])
    <2> SUFFICES ASSUME NEW q \in Peers PROVE Tells(world, q, s, toLeech'[<<l, q>>])
      OBVIOUS
    <2>1. Tells(world, q, swarm[l], toLeech[<<l, q>>])
      BY <1>0 DEF Announced
    <2>2. CASE q = p
      <3>1. Tells(world, p, s, Tail(toLeech[c]))
        BY <1>2, <1>4, <2>1, <2>2, TellsRest
      <3> QED BY <1>5, <2>2, <3>1
    <2>3. CASE q # p
      <3>1. toLeech'[<<l, q>>] = toLeech[<<l, q>>]
        BY <1>5, <2>3
      <3> QED BY <1>4, <2>1, <2>3, <3>1 DEF Tells
    <2> QED BY <2>2, <2>3
  <1>7. ASSUME NEW q \in DOMAIN swarm[l].peers
        PROVE  /\ Takes(swarm[l], q, toLeech[<<l, q>>], s, toLeech'[<<l, q>>])
               /\ toLeech[<<l, q>>] = <<>> =>
                      /\ toLeech'[<<l, q>>] = <<>>
                      /\ s.peers[q].have = swarm[l].peers[q].have
                      /\ s.peers[q].chokes_us = swarm[l].peers[q].chokes_us
    <2>1. CASE q = p
      <3>1. Takes(swarm[l], p, toLeech[c], s, Tail(toLeech[c]))
        BY <1>t, <1>2, <1>3, TakesOne
      <3> QED BY <1>2, <1>5, <2>1, <3>1
    <2>2. CASE q # p
      <3>1. toLeech'[<<l, q>>] = toLeech[<<l, q>>]
        BY <1>5, <1>d, <2>2
      <3> QED BY <1>4, <2>2, <3>1, TakesNothing
    <2> QED BY <2>1, <2>2
  <1>8. \A k \in Leeches, q \in Peers :
              \/ near'[<<k, q>>] = near[<<k, q>>]
              \/ k = l /\ near[<<k, q>>] = "up" /\ near'[<<k, q>>] = "closing"
    BY <1>t, <1>1, LinkTypes
  <1>9. \A k \in Leeches, q \in Peers : k # l => toLeech'[<<k, q>>] = toLeech[<<k, q>>]
    BY <1>5
  <1>10. /\ swarm' = [swarm EXCEPT ![l] = r.sw] /\ planned' = [planned EXCEPT ![<<l, p>>] = r.out]
         /\ planned[<<l, p>>] = idle
         /\ UNCHANGED <<world, seed, far, toSeed, todo>>
    BY <1>1
  <1> QED BY <1>3, <1>4, <1>6, <1>7, <1>8, <1>9, <1>10, HostingPlans

LEMMA HostingFetchTurn ==
    ASSUME Base, Hosting, NEW l \in Leeches, FetchTurn(l)
    PROVE  Hosting'
  <1> DEFINE r == schedule(swarm[l])
  <1>1. CASE UNCHANGED <<world, swarm, seed, near, far, toLeech, toSeed, todo, planned>>
    BY <1>1, HostingKept
  <1>2. CASE /\ planned[<<l, 0>>] = idle
             /\ swarm' = [swarm EXCEPT ![l] = r.sw]
             /\ planned' = [planned EXCEPT ![<<l, 0>>] = r.out]
             /\ UNCHANGED <<world, seed, near, far, toLeech, toSeed, todo>>
    <2>1. Sound(swarm[l]) /\ Kept(swarm[l], r)
      BY BaseParts, KeptBySchedule DEF Leeching, Types
    <2>2. \A q \in Peers : Tells(world, q, swarm[l], toLeech'[<<l, q>>])
      BY <1>2, BaseParts DEF Announced
    <2> HIDE DEF r
    <2>3. \A q \in DOMAIN swarm[l].peers :
              Takes(swarm[l], q, toLeech[<<l, q>>], swarm[l], toLeech'[<<l, q>>])
      BY <1>2, TakesNothing
    <2> QED BY <1>2, <2>1, <2>2, <2>3, HostingPlans
  <1> QED BY <1>1, <1>2 DEF FetchTurn, conn

LEMMA HostingInit == Init => Hosting
  <1> SUFFICES ASSUME Init, NEW l \in Leeches, NEW p \in Peers
               PROVE  Hosted(l, p) /\ Unheard(l, p)
    BY DEF Hosting
  <1>1. far[<<l, p>>] = "none"
    BY LinkTypes DEF Init
  <1> QED BY <1>1 DEF Hosted, Unheard, Live

LEMMA HostingStep ==
    ASSUME Base, Hosting, [Next]_vars
    PROVE  Hosting'
  <1>1. CASE \E c \in Links : Step(c[1], c[2])
    <2>1. PICK l \in Leeches, p \in Peers : Step(l, p)
      BY <1>1 DEF Links
    <2> QED BY <2>1, HostingConnect, HostingLeechReads, HostingSeedReads, HostingSeedTick,
               HostingHangUp, HostingBreaks, HostingLeechSeesEnd, HostingRemovePeer DEF Step
  <1>2. CASE \E t \in Threads : Dispatch(t)
    <2>1. PICK l \in Leeches, p \in Peers, x \in {"read", "tick"} : Dispatch(<<<<l, p>>, x>>)
      BY <1>2 DEF Threads, Links
    <2> QED BY <2>1, HostingDispatch
  <1>3. CASE \E t \in LeechThreads : LeechDispatch(t)
    <2>1. PICK l \in Leeches, x \in Peers \cup {0} : LeechDispatch(<<l, x>>)
      BY <1>3 DEF LeechThreads
    <2> QED BY <2>1, HostingLeechDispatch
  <1>4. CASE \E l \in Leeches : FetchTurn(l)
    BY <1>4, HostingFetchTurn
  <1>5. CASE \E c \in Links : DialFails(c) \/ Break(c)
    <2>1. PICK l \in Leeches, p \in Peers : DialFails(<<l, p>>) \/ Break(<<l, p>>)
      BY <1>5 DEF Links
    <2> QED BY <2>1, HostingDialFails, HostingBreaks
  <1>6. CASE \E l \in Leeches : FetchFails(l) \/ Deadline(l)
    BY <1>6, HostingKept DEF FetchFails, Deadline, conn
  <1>7. CASE \E p \in Peers, i \in Pieces : PeerGains(p, i)
    BY <1>7, HostingPeerGains
  <1>8. CASE UNCHANGED vars
    BY <1>8, HostingKept DEF vars
  <1> QED BY <1>1, <1>2, <1>3, <1>4, <1>5, <1>6, <1>7, <1>8 DEF Next, Rest

\* What the two ends of a connection know of each other's chokes, interest and
\* requests, whatever the dispatching threads of tcp.rs overtake.
THEOREM HostingHolds == Spec => []Hosting
  <1>1. Base /\ Hosting /\ [Next]_vars => Hosting'
    BY HostingStep
  <1> QED BY <1>1, HostingInit, BaseHolds, PTL DEF Spec

\* Where nobody is choked who still wants something, no piece stays reserved with
\* a peer that owes it no more: run_peer and the tickers of serve deliver the
\* request, the piece or the choke that releases it.
THEOREM ReservationsHold == Spec => []ReservationsAreOwed
  <1>1. ASSUME Base, Hosting PROVE ReservationsAreOwed
    <2> SUFFICES ASSUME NEW l \in Leeches, Uncontended(l), NEW p \in DOMAIN swarm[l].peers,
                        near[<<l, p>>] = "up", far[<<l, p>>] = "up",
                        NEW i \in swarm[l].peers[p].in_flight
                 PROVE  \/ \E t \in LeechThreads :
                               t[1] = l /\ Request(i) \in Range(planned[t][p])
                        \/ Request(i) \in Range(toSeed[<<l, p>>])
                        \/ \E m \in Range(toLeech[<<l, p>>]) : m.type = "piece" /\ m.index = i
                        \/ \E a \in todo[<<<<l, p>>, "read">>] : a.msg.index = i
                        \/ Choke(TRUE) \in Range(toLeech[<<l, p>>])
                        \/ \E a \in todo[<<<<l, p>>, "tick">>] :
                               a.to = l /\ a.msg = Choke(TRUE)
      BY DEF ReservationsAreOwed
    <2>1. p \in Peers
      BY <1>1, BaseParts, TableShape DEF Types
    <2>2. p \in Dialled(l)
      BY <1>1, <2>1, BaseParts DEF Dialling, Dialled
    <2>3. Roomy(p) \/ Sharers(p) = {l}
      BY <2>2 DEF Uncontended, Roomy
    <2>4. Owes(l, p, i)
      BY <1>1, <2>1, <2>3 DEF Hosting, Hosted, Live
    <2>5. ASSUME Planned(l, p, Request(i))
          PROVE  \E t \in LeechThreads : t[1] = l /\ Request(i) \in Range(planned[t][p])
      <3>1. PICK x \in Peers \cup {0} : Request(i) \in Range(planned[<<l, x>>][p])
        BY <2>5 DEF Planned
      <3>2. <<l, x>> \in LeechThreads /\ <<l, x>>[1] = l
        BY DEF LeechThreads
      <3> QED BY <3>1, <3>2
    <2> QED BY <2>4, <2>5 DEF Owes, Choking
  <1> QED BY <1>1, BaseHolds, HostingHolds, PTL
-----------------------------------------------------------------------------
(* The third invariant: a good peer is kept until the blob is complete, or    *)
(* dropped for a copy of a piece that another peer sent first.               *)

\* At most one entry of a queue is in S.
Single(q, S) == \A j, k \in DOMAIN q : q[j] \in S /\ q[k] \in S => j = k

PieceOf(i) == {m \in Answers : m.type = "piece" /\ m.index = i}

\* The four places where a request for a piece, or the piece, is on its way.
Asked(l, p, i) == Request(i) \in Range(toSeed[<<l, p>>])
Fetched(l, p, i) == \E a \in todo[<<<<l, p>>, "read">>] : a.msg.index = i
Coming(l, p, i) == \E m \in Range(toLeech[<<l, p>>]) : m \in PieceOf(i)

\* It is in one of them, once, and only when it is reserved.
Once(l, p, i) ==
    /\ \A x \in Peers \cup {0} : Single(planned[<<l, x>>][p], {Request(i)})
    /\ \A x, y \in Peers \cup {0} :
            /\ Request(i) \in Range(planned[<<l, x>>][p])
            /\ Request(i) \in Range(planned[<<l, y>>][p])
            => x = y
    /\ Single(toSeed[<<l, p>>], {Request(i)}) /\ Single(toLeech[<<l, p>>], PieceOf(i))
    /\ Planned(l, p, Request(i)) =>
            ~Asked(l, p, i) /\ ~Fetched(l, p, i) /\ ~Coming(l, p, i)
    /\ Asked(l, p, i) => ~Fetched(l, p, i) /\ ~Coming(l, p, i)
    /\ Fetched(l, p, i) => ~Coming(l, p, i)
    /\ \/ Planned(l, p, Request(i)) \/ Asked(l, p, i)
       \/ Fetched(l, p, i) \/ Coming(l, p, i)
       => i \in swarm[l].peers[p].in_flight

\* The pieces whose requests are kept track of.  In the endgame another peer's copy
\* takes the reservation away, and with it the piece is not missing any more.
Tracked(l) == IF Unduplicated(l) THEN Pieces ELSE missing(swarm[l])

\* The connection is up or will be, and the leech knows what the peer has, or will.
Strong(l, g) ==
    \/ near[<<l, g>>] = "dial"
    \/ /\ Live(l, g)
       /\ \/ swarm[l].manifest # "none"
          \/ toLeech[<<l, g>>] # <<>> /\ toLeech[<<l, g>>][1].type = "manifest"
       /\ \/ swarm[l].peers[g].have = Pieces
          \/ \E m \in Range(toLeech[<<l, g>>]) : m.type = "bitfield" /\ m.field = Pieces
       /\ \A i \in Tracked(l) : Once(l, g, i)

\* Without a forged manifest a leech holds no junk.
Truthful ==
    \A l \in Leeches : Unforged(l) =>
        /\ swarm[l].manifest # "forged" /\ \A i \in Pieces : swarm[l].pieces[i] # "junk"

\* A fetch that returned has the blob, and one that did not start has no peers.
Returned ==
    \A l \in Leeches : /\ result[l] = "ok" => missing(swarm[l]) = {}
                       /\ result[l] = "none" => Dialled(l) = {}
                     /\ l \in DOMAIN blamed

\* A leech that HonestTransfersSucceed is about, and a peer that has the blob.
Blessed(l, g) ==
    /\ g \in Dialled(l) /\ Whole(g) /\ Unforged(l) /\ Uncontended(l)
    /\ Unduplicated(l) \/ <<g, "UnsolicitedPiece">> \notin blamed[l]
    /\ faults = 0

Serving(l, g) ==
    Blessed(l, g) => /\ result[l] # "failed"
                     /\ missing(swarm[l]) = {} \/ Strong(l, g)

Assured == Truthful /\ Returned /\ \A l \in Leeches, g \in Peers : Serving(l, g)
LEMMA SingleEmpty == ASSUME NEW S PROVE Single(<<>>, S)
  <1>1. DOMAIN <<>> = {}
    OBVIOUS
  <1> QED BY <1>1 DEF Single

LEMMA SingleAppend ==
    ASSUME NEW T, NEW q \in Seq(T), NEW m \in T, NEW S, Single(q, S),
           m \in S => \A n \in Range(q) : n \notin S
    PROVE  Single(Append(q, m), S)
  <1> DEFINE r == Append(q, m)
  <1>1. /\ DOMAIN r = 1 .. Len(q) + 1 /\ DOMAIN q = 1 .. Len(q)
        /\ Len(q) \in Nat /\ r[Len(q) + 1] = m /\ \A k \in 1 .. Len(q) : r[k] = q[k]
    BY AppendProperties
  <1> HIDE DEF r
  <1>2. \A k \in DOMAIN r : (k \in DOMAIN q /\ r[k] = q[k]) \/ (k = Len(q) + 1 /\ r[k] = m)
    BY <1>1
  <1>3. \A k \in DOMAIN q : q[k] \in Range(q)
    BY DEF Range
  <1>4. Single(r, S)
    BY <1>2, <1>3 DEF Single
  <1> QED BY <1>4 DEF r

LEMMA SingleConcat ==
    ASSUME NEW T, NEW q \in Seq(T), NEW r \in Seq(T), NEW S, Single(q, S), Single(r, S),
           \A m \in Range(q), n \in Range(r) : ~(m \in S /\ n \in S)
    PROVE  Single(q \o r, S)
  <1> DEFINE u == q \o r
  <1>1. /\ DOMAIN u = 1 .. Len(q) + Len(r) /\ DOMAIN q = 1 .. Len(q)
        /\ DOMAIN r = 1 .. Len(r) /\ Len(q) \in Nat /\ Len(r) \in Nat
        /\ \A k \in 1 .. Len(q) + Len(r) :
              u[k] = IF k <= Len(q) THEN q[k] ELSE r[k - Len(q)]
    BY ConcatProperties
  <1> HIDE DEF u
  <1>2. \A k \in DOMAIN u : (k \in DOMAIN q /\ u[k] = q[k])
                            \/ (k - Len(q) \in DOMAIN r /\ u[k] = r[k - Len(q)])
    BY <1>1
  <1>3. /\ \A k \in DOMAIN q : q[k] \in Range(q)
        /\ \A k \in DOMAIN r : r[k] \in Range(r)
    BY DEF Range
  <1>4. ASSUME NEW j \in DOMAIN u, NEW k \in DOMAIN u, u[j] \in S, u[k] \in S PROVE j = k
    <2>1. j \in Nat /\ k \in Nat
      BY <1>1
    <2>2. CASE /\ j - Len(q) \in DOMAIN r /\ u[j] = r[j - Len(q)]
               /\ k - Len(q) \in DOMAIN r /\ u[k] = r[k - Len(q)]
      <3>1. j - Len(q) = k - Len(q)
        BY <1>4, <2>2 DEF Single
      <3> QED BY <1>1, <2>1, <3>1
    <2>3. CASE j \in DOMAIN q /\ u[j] = q[j] /\ k \in DOMAIN q /\ u[k] = q[k]
      BY <1>4, <2>3 DEF Single
    <2> QED BY <1>2, <1>3, <1>4, <2>2, <2>3
  <1>5. Single(u, S)
    BY <1>4 DEF Single
  <1> QED BY <1>5 DEF u

LEMMA SingleTail ==
    ASSUME NEW T, NEW q \in Seq(T), q # <<>>, NEW S, Single(q, S)
    PROVE  /\ Single(Tail(q), S)
           /\ q[1] \in S => \A n \in Range(Tail(q)) : n \notin S
  <1> DEFINE r == Tail(q)
  <1>1. /\ 1 \in DOMAIN q /\ DOMAIN r = 1 .. Len(q) - 1 /\ Len(q) \in Nat
        /\ \A k \in DOMAIN r : k + 1 \in DOMAIN q /\ r[k] = q[k + 1]
    BY HeadTail
  <1> HIDE DEF r
  <1>2. ASSUME NEW j \in DOMAIN r, NEW k \in DOMAIN r, r[j] \in S, r[k] \in S PROVE j = k
    <2>1. j + 1 = k + 1
      BY <1>1, <1>2 DEF Single
    <2> QED BY <1>1, <2>1
  <1>3. ASSUME q[1] \in S, NEW k \in DOMAIN r PROVE r[k] \notin S
    <2>1. k + 1 # 1
      BY <1>1
    <2> QED BY <1>1, <1>3, <2>1 DEF Single
  <1>4. Single(r, S) /\ (q[1] \in S => \A n \in Range(r) : n \notin S)
    BY <1>2, <1>3 DEF Single, Range
  <1> QED BY <1>4 DEF r

\* A verdict on a peer stays.
LEMMA BlameStays ==
    ASSUME Returned, [Next]_vars, NEW l \in Leeches
    PROVE  l \in DOMAIN blamed' /\ blamed[l] \subseteq blamed'[l]
  <1>1. ASSUME NEW k \in Leeches, NEW p \in Peers, LeechReads(k, p)
        PROVE  \E S : blamed' = [blamed EXCEPT ![k] = @ \cup S]
    <2> DEFINE r == on_message(swarm[k], p, Head(toLeech[<<k, p>>]))
    <2>1. blamed' = [blamed EXCEPT ![k] = IF r.drop = "no" THEN @ ELSE @ \cup {<<p, r.drop>>}]
      BY <1>1 DEF LeechReads
    <2> HIDE DEF r
    <2>2. CASE r.drop = "no"
      <3>1. blamed' = [blamed EXCEPT ![k] = @ \cup {}]
        BY <2>1, <2>2
      <3> QED BY <3>1
    <2>3. CASE r.drop # "no"
      BY <2>1, <2>3
    <2> QED BY <2>2, <2>3
  <1>2. \/ UNCHANGED blamed
        \/ \E k \in Leeches, p \in Peers : LeechReads(k, p)
    <2> SUFFICES ASSUME \E c \in Links : Step(c[1], c[2])
                 PROVE  UNCHANGED blamed \/ \E k \in Leeches, p \in Peers : LeechReads(k, p)
      BY DEF Next, Dispatch, LeechDispatch, FetchTurn, FetchFails, Rest, DialFails, Break,
             Deadline, PeerGains, vars
    <2>1. PICK k \in Leeches, p \in Peers : Step(k, p)
      BY DEF Links
    <2> QED BY <2>1 DEF Step, Connect, SeedReads, SeedTick, HangUp, Timeout, LeechSeesEnd,
                        SeedSeesEnd, RemovePeer
  <1>3. l \in DOMAIN blamed
    BY DEF Returned
  <1>4. CASE \E k \in Leeches, p \in Peers : LeechReads(k, p)
    <2>1. PICK k \in Leeches : \E S : blamed' = [blamed EXCEPT ![k] = @ \cup S]
      BY <1>1, <1>4
    <2>2. PICK S : blamed' = [blamed EXCEPT ![k] = @ \cup S]
      BY <2>1
    <2> QED BY <1>3, <2>2
  <1> QED BY <1>2, <1>3, <1>4

\* Whom a leech dials, what the manifests are and what the limits are does not change.
LEMMA DialledKept ==
    ASSUME Base, [Next]_vars, NEW l \in Leeches
    PROVE  /\ Dialled(l)' = Dialled(l) /\ world'.manifest = world.manifest
           /\ world'.limits = world.limits
  <1>0. world \in WorldType
    BY BaseParts DEF Types
  <1>1. UNCHANGED world \/ \E p \in Peers, i \in Pieces : PeerGains(p, i)
    BY DEF Next, Step, Connect, LeechReads, SeedReads, SeedTick, HangUp, Timeout,
           LeechSeesEnd, SeedSeesEnd, RemovePeer, Dispatch, LeechDispatch, FetchTurn,
           FetchFails, Rest, DialFails, Break, Deadline, vars
  <1>2. /\ world'.links = world.links /\ world'.manifest = world.manifest
        /\ world'.limits = world.limits
    BY <1>0, <1>1 DEF PeerGains, WorldType
  <1> QED BY <1>2 DEF Dialled

LEMMA UnduplicatedKept ==
    ASSUME Base, [Next]_vars, NEW l \in Leeches
    PROVE  Unduplicated(l)' <=> Unduplicated(l)
  BY DialledKept DEF Unduplicated, limits

\* What the third invariant is about only ceases to hold.
LEMMA BlessedBack ==
    ASSUME Base, Returned, [Next]_vars, NEW l \in Leeches, NEW g \in Peers, Blessed(l, g)'
    PROVE  /\ Blessed(l, g) /\ faults' = 0 /\ Dialled(l)' = Dialled(l)
           /\ world'.manifest[g] = world.manifest[g]
  <1>0. world \in WorldType /\ faults \in Nat
    BY BaseParts DEF Types
  <1>1. faults' \in {faults, faults + 1}
    BY DEF Next, Step, Connect, LeechReads, SeedReads, SeedTick, HangUp, Timeout,
           LeechSeesEnd, SeedSeesEnd, RemovePeer, Dispatch, LeechDispatch, FetchTurn,
           FetchFails, Rest, DialFails, Break, Deadline, PeerGains, vars
  <1>2. faults' = 0 /\ faults = 0
    <2>1. faults' = 0
      BY DEF Blessed
    <2> QED BY <1>0, <1>1, <2>1
  <1>b. <<g, "UnsolicitedPiece">> \in blamed[l] => <<g, "UnsolicitedPiece">> \in blamed'[l]
    BY BlameStays
  <1>d. Unduplicated(l)' <=> Unduplicated(l)
    BY UnduplicatedKept
  <1>3. CASE UNCHANGED world
    <2>1. Whole(g) /\ Unforged(l) /\ Uncontended(l) /\ Dialled(l)' = Dialled(l)
      BY <1>3 DEF Blessed, Whole, Unforged, Uncontended, Dialled, Sharers, limits
    <2>2. g \in Dialled(l)
      BY <2>1 DEF Blessed
    <2> QED BY <1>2, <1>3, <1>b, <1>d, <2>1, <2>2 DEF Blessed
  <1>4. CASE \E p \in Peers, i \in Pieces : PeerGains(p, i)
    <2>1. PICK p \in Peers, i \in Pieces : PeerGains(p, i)
      BY <1>4
    <2>2. i \in world.gains[p] /\ world' = [world EXCEPT !.holds[p] = @ \cup {i}]
      BY <2>1 DEF PeerGains
    <2>3. /\ world'.links = world.links /\ world'.gains = world.gains
          /\ world'.manifest = world.manifest /\ world'.serves = world.serves
          /\ world'.limits = world.limits
          /\ \A q \in Peers : q # p => world'.holds[q] = world.holds[q]
      BY <1>0, <2>2 DEF WorldType
    <2>4. \A q \in Peers : Sharers(q)' = Sharers(q)
      BY <2>3 DEF Sharers
    <2>5. Dialled(l)' = Dialled(l) /\ g \in Dialled(l)
      BY <2>3 DEF Dialled, Blessed
    <2>6. Whole(g)
      <3>1. g # p
        BY <2>2, <2>3 DEF Blessed, Whole
      <3> QED BY <2>3, <3>1 DEF Blessed, Whole
    <2>7. Unforged(l)
      BY <2>3, <2>5 DEF Blessed, Unforged
    <2>8. Uncontended(l)
      <3>1. Dialled(l) \subseteq Peers
        BY DEF Dialled
      <3> QED BY <2>3, <2>4, <2>5, <3>1 DEF Blessed, Uncontended, limits
    <2> QED BY <1>2, <1>b, <1>d, <2>3, <2>5, <2>6, <2>7, <2>8 DEF Blessed
  <1> QED BY <1>3, <1>4
        DEF Next, Step, Connect, LeechReads, SeedReads, SeedTick, HangUp, Timeout,
           LeechSeesEnd, SeedSeesEnd, RemovePeer, Dispatch, LeechDispatch, FetchTurn,
           FetchFails, Rest, DialFails, Break, Deadline, vars
\* What a leech has learnt and what it holds changes when it reads a message only.
LEMMA LeechHolds ==
    ASSUME Base, [Next]_vars, NEW l \in Leeches
    PROVE  \/ swarm'[l].manifest = swarm[l].manifest /\ swarm'[l].pieces = swarm[l].pieces
           \/ \E p \in Peers : LeechReads(l, p)
  <1>0. /\ swarm \in [Leeches -> SwarmType] /\ world \in WorldType
        /\ \A k \in Leeches : Sound(swarm[k])
        /\ Tabled /\ Dialling
    BY BaseParts DEF Types, Leeching
  <1>1. CASE \E k \in Leeches, p \in Peers : LeechReads(k, p)
    <2>1. PICK k \in Leeches, p \in Peers : LeechReads(k, p)
      BY <1>1
    <2>2. CASE k = l
      BY <2>1, <2>2
    <2>3. CASE k # l
      <3>1. swarm'[l] = swarm[l]
        BY <1>0, <2>1, <2>3 DEF LeechReads
      <3> QED BY <3>1
    <2> QED BY <2>2, <2>3
  <1>2. CASE \E k \in Leeches : FetchTurn(k)
    <2>1. PICK k \in Leeches : FetchTurn(k)
      BY <1>2
    <2>2. \/ UNCHANGED swarm
          \/ swarm' = [swarm EXCEPT ![k] = schedule(swarm[k]).sw]
      BY <2>1 DEF FetchTurn
    <2>3. Kept(swarm[k], schedule(swarm[k]))
      BY <1>0, KeptBySchedule
    <2>4. /\ schedule(swarm[k]).sw.manifest = swarm[k].manifest
          /\ schedule(swarm[k]).sw.pieces = swarm[k].pieces
      BY <2>3 DEF Kept
    <2> QED BY <1>0, <2>2, <2>4
  <1>3. CASE \E k \in Leeches, p \in Peers : Connect(k, p)
    <2>1. PICK k \in Leeches, p \in Peers : Connect(k, p)
      BY <1>3
    <2>2. swarm' = [swarm EXCEPT ![k] = met(swarm[k], p)] /\ near[<<k, p>>] = "dial"
      BY <1>0, <2>1 DEF Connect
    <2>3. p \notin DOMAIN swarm[k].peers
      BY <1>0, <2>2 DEF Tabled
    <2>4. met(swarm[k], p).manifest = swarm[k].manifest /\ met(swarm[k], p).pieces = swarm[k].pieces
      BY <1>0, <2>3, Meets
    <2> QED BY <1>0, <2>2, <2>4
  <1>4. CASE \E k \in Leeches, p \in Peers : RemovePeer(k, p)
    <2>1. PICK k \in Leeches, p \in Peers : RemovePeer(k, p)
      BY <1>4
    <2>2. swarm' = [swarm EXCEPT ![k] = remove_peer(swarm[k], p)] /\ near[<<k, p>>] = "closing"
      BY <1>0, <2>1 DEF RemovePeer
    <2>3. p \in DOMAIN swarm[k].peers
      BY <1>0, <2>2 DEF Tabled
    <2>4. /\ remove_peer(swarm[k], p).manifest = swarm[k].manifest
          /\ remove_peer(swarm[k], p).pieces = swarm[k].pieces
      BY <1>0, <2>3, Removes
    <2> QED BY <1>0, <2>2, <2>4
  <1>5. CASE UNCHANGED swarm
    BY <1>5
  <1>6. ASSUME NEW c \in Links, Step(c[1], c[2])
        PROVE  \/ UNCHANGED swarm
               \/ \E k \in Leeches, p \in Peers : LeechReads(k, p) \/ Connect(k, p) \/ RemovePeer(k, p)
    <2>1. PICK k \in Leeches, p \in Peers : c = <<k, p>>
      BY DEF Links
    <2> QED BY <1>6, <2>1 DEF Step, SeedReads, SeedTick, HangUp, Timeout, LeechSeesEnd, SeedSeesEnd
  <1>7. \/ \E c \in Links : Step(c[1], c[2])
        \/ \E k \in Leeches : FetchTurn(k)
        \/ UNCHANGED swarm
    BY DEF Next, Dispatch, LeechDispatch, FetchFails, Rest, DialFails, Break, Deadline,
           PeerGains, vars
  <1> QED BY <1>1, <1>2, <1>3, <1>4, <1>5, <1>6, <1>7

\* What reading a message does to what a leech holds.
LEMMA LeechLearns ==
    ASSUME Base, NEW l \in Leeches, NEW p \in Peers, LeechReads(l, p)
    PROVE  /\ \/ swarm'[l].manifest = swarm[l].manifest
              \/ swarm'[l].manifest = world.manifest[p]
           /\ \A i \in Pieces :
                \/ swarm'[l].pieces[i] = swarm[l].pieces[i]
                \/ \E b : swarm'[l].pieces[i] = b /\ verify_piece(swarm[l], b)
           /\ missing(swarm'[l]) \subseteq missing(swarm[l])
           /\ p \in Dialled(l)
  <1> DEFINE c == <<l, p>>
             m == Head(toLeech[c])
             r == on_message(swarm[l], p, m)
  <1>0. /\ swarm \in [Leeches -> SwarmType] /\ Announced /\ Dialling
    BY BaseParts DEF Types
  <1>1. /\ near[c] = "up" /\ swarm' = [swarm EXCEPT ![l] = r.sw]
    BY DEF LeechReads
  <1>2. /\ toLeech[c] \in Seq(Answers) /\ toLeech[c] # <<>> /\ m = toLeech[c][1]
    BY ReadsOne
  <1>3. PICK s : Heard(swarm[l], p, m, s) /\ Kept(s, r)
    BY ReadsOne
  <1>4. 1 \in DOMAIN toLeech[c]
    BY <1>2, HeadTail
  <1>5. m.type = "manifest" => m.of = world.manifest[p]
    BY <1>0, <1>2, <1>4 DEF Announced, Tells
  <1> HIDE DEF m, r
  <1>6. swarm'[l] = r.sw
    BY <1>0, <1>1
  <1>7. /\ r.sw.manifest = s.manifest /\ r.sw.pieces = s.pieces
        /\ missing(r.sw) = missing(s)
    BY <1>3 DEF Kept, missing
  <1>8. /\ s.manifest = swarm[l].manifest \/ s.manifest = world.manifest[p]
        /\ missing(s) \subseteq missing(swarm[l])
        /\ \A i \in Pieces : \/ s.pieces[i] = swarm[l].pieces[i]
                             \/ s.pieces[i] = m.bytes /\ verify_piece(swarm[l], m.bytes)
    BY <1>3, <1>5 DEF Heard
  <1>9. p \in Dialled(l)
    BY <1>0, <1>1 DEF Dialling, Dialled
  <1> QED BY <1>6, <1>7, <1>8, <1>9

LEMMA LeechGains ==
    ASSUME Base, [Next]_vars, NEW l \in Leeches
    PROVE  missing(swarm'[l]) \subseteq missing(swarm[l])
  <1>1. CASE swarm'[l].pieces = swarm[l].pieces
    BY <1>1 DEF missing
  <1> QED BY <1>1, LeechHolds, LeechLearns

\* The pieces that are kept track of become fewer only.
LEMMA TrackedBack ==
    ASSUME Base, [Next]_vars, NEW l \in Leeches
    PROVE  Tracked(l)' \subseteq Tracked(l)
  BY LeechGains, UnduplicatedKept DEF Tracked

LEMMA TruthfulStep ==
    ASSUME Base, Truthful, [Next]_vars
    PROVE  Truthful'
  <1> SUFFICES ASSUME NEW l \in Leeches, Unforged(l)'
               PROVE  /\ swarm'[l].manifest # "forged"
                      /\ \A i \in Pieces : swarm'[l].pieces[i] # "junk"
    BY DEF Truthful
  <1>1. Unforged(l)
    BY DialledKept DEF Unforged
  <1>2. swarm[l].manifest # "forged" /\ \A i \in Pieces : swarm[l].pieces[i] # "junk"
    BY <1>1 DEF Truthful
  <1>3. \A b : verify_piece(swarm[l], b) => b # "junk"
    BY <1>2 DEF verify_piece
  <1>4. ASSUME NEW p \in Peers, LeechReads(l, p)
        PROVE  /\ swarm'[l].manifest # "forged"
               /\ \A i \in Pieces : swarm'[l].pieces[i] # "junk"
    <2>1. world.manifest[p] # "forged"
      BY <1>1, <1>4, LeechLearns DEF Unforged
    <2> QED BY <1>2, <1>3, <1>4, <2>1, LeechLearns
  <1> QED BY <1>2, <1>4, LeechHolds

LEMMA ReturnedStep ==
    ASSUME Base, Returned, [Next]_vars
    PROVE  Returned'
  <1> SUFFICES ASSUME NEW l \in Leeches
               PROVE  /\ result'[l] = "ok" => missing(swarm'[l]) = {}
                      /\ result'[l] = "none" => Dialled(l)' = {}
                      /\ l \in DOMAIN blamed'
    BY DEF Returned
  <1>0. /\ result \in [Leeches -> {"none", "running", "ok", "failed"}] /\ Sound(swarm[l])
    BY BaseParts DEF Types, Leeching
  <1>1. /\ result[l] = "ok" => missing(swarm[l]) = {}
        /\ result[l] = "none" => Dialled(l) = {}
    BY DEF Returned
  <1>2. \/ UNCHANGED result
        \/ \E k \in Leeches : \/ result' = [result EXCEPT ![k] = "failed"]
                              \/ result' = [result EXCEPT ![k] = "ok"] /\ swarm[k].complete
    BY DEF Next, Step, Connect, LeechReads, SeedReads, SeedTick, HangUp, Timeout,
           LeechSeesEnd, SeedSeesEnd, RemovePeer, Dispatch, LeechDispatch, FetchTurn,
           FetchFails, Rest, DialFails, Break, Deadline, PeerGains, vars
  <1>3. \/ result'[l] = result[l]
        \/ result'[l] = "failed"
        \/ result'[l] = "ok" /\ missing(swarm[l]) = {}
    BY <1>0, <1>2 DEF Sound, Finished
  <1> QED BY <1>1, <1>3, LeechGains, DialledKept, BlameStays
\* A step that leaves a leech's connection with a good peer alone.
Steady(l, g) ==
    /\ near'[<<l, g>>] = near[<<l, g>>] /\ far'[<<l, g>>] = far[<<l, g>>]
    /\ toLeech'[<<l, g>>] = toLeech[<<l, g>>] /\ toSeed'[<<l, g>>] = toSeed[<<l, g>>]
    /\ \A x \in Peers \cup {0} : planned'[<<l, x>>][g] = planned[<<l, x>>][g]
    /\ near[<<l, g>>] = "up" => swarm'[l].peers[g] = swarm[l].peers[g]
    /\ swarm'[l].manifest = swarm[l].manifest
    /\ todo'[<<<<l, g>>, "read">>] = todo[<<<<l, g>>, "read">>]

LEMMA OnceFrame ==
    ASSUME NEW l \in Leeches, NEW g \in Peers, NEW i, Steady(l, g), near[<<l, g>>] = "up",
           Once(l, g, i)
    PROVE  Once(l, g, i)'
  <1>1. Planned(l, g, Request(i))' <=> Planned(l, g, Request(i))
    BY DEF Planned, Steady
  <1>2. /\ Asked(l, g, i)' <=> Asked(l, g, i)
        /\ Fetched(l, g, i)' <=> Fetched(l, g, i)
        /\ Coming(l, g, i)' <=> Coming(l, g, i)
    BY DEF Asked, Fetched, Coming, Steady
  <1> QED BY <1>1, <1>2 DEF Once, Steady

LEMMA StrongFrame ==
    ASSUME NEW l \in Leeches, NEW g \in Peers, Strong(l, g), Steady(l, g),
           Tracked(l)' \subseteq Tracked(l)
    PROVE  Strong(l, g)'
  <1>1. CASE near[<<l, g>>] = "dial"
    BY <1>1 DEF Strong, Steady
  <1>2. CASE near[<<l, g>>] # "dial"
    <2>1. Live(l, g) /\ near[<<l, g>>] = "up" /\ \A i \in Tracked(l) : Once(l, g, i)
      BY <1>2 DEF Strong, Live
    <2>2. Live(l, g)' /\ \A i \in Tracked(l)' : Once(l, g, i)'
      BY <2>1, OnceFrame DEF Steady, Live
    <2>3. /\ \/ swarm'[l].manifest # "none"
             \/ toLeech'[<<l, g>>] # <<>> /\ toLeech'[<<l, g>>][1].type = "manifest"
          /\ \/ swarm'[l].peers[g].have = Pieces
             \/ \E m \in Range(toLeech'[<<l, g>>]) : m.type = "bitfield" /\ m.field = Pieces
      BY <1>2, <2>1 DEF Strong, Steady
    <2> QED BY <2>2, <2>3 DEF Strong
  <1> QED BY <1>1, <1>2

\* A good peer admits a leech that nobody contends with.
LEMMA StrongConnect ==
    ASSUME Base, NEW l \in Leeches, NEW g \in Peers, Blessed(l, g), Connect(l, g)
    PROVE  Strong(l, g)'
  <1> DEFINE c == <<l, g>>
             ms == [type |-> "manifest", of |-> world.manifest[g]]
             bf == [type |-> "bitfield", field |-> world.holds[g]]
  <1>0. /\ Types /\ Tabled /\ Leeching /\ Dialling /\ Unused /\ Admitted
    BY BaseParts
  <1>t. /\ near \in [Links -> {"none", "dial", "up", "closing", "gone"}]
        /\ far \in [Links -> {"none", "up", "mute", "gone"}]
        /\ toLeech \in [Links -> Seq(Answers)] /\ swarm \in [Leeches -> SwarmType]
        /\ world \in WorldType /\ c \in Links
    BY <1>0, LinkTypes DEF Types
  <1>1. near[c] = "dial" /\ far[c] = "none"
    BY <1>0 DEF Connect, Dialling
  <1>2. Cardinality(seed[g].peers) < limits.max_peers
    <2>1. seed[g].peers \subseteq Sharers(g) /\ IsFiniteSet(Sharers(g))
      BY Sharing
    <2>2. l \notin seed[g].peers
      BY <1>0, <1>1 DEF Admitted
    <2>3. l \in Sharers(g) /\ Cardinality(Sharers(g)) <= limits.max_peers
      BY DEF Blessed, Uncontended, Dialled, Sharers
    <2>4. IsFiniteSet(seed[g].peers)
      BY <2>1, FS_Subset
    <2>5. /\ IsFiniteSet(seed[g].peers \cup {l})
          /\ Cardinality(seed[g].peers \cup {l}) = Cardinality(seed[g].peers) + 1
      BY <2>2, <2>4, FS_AddElement
    <2>6. seed[g].peers \cup {l} \subseteq Sharers(g)
      BY <2>1, <2>3
    <2>7. Cardinality(seed[g].peers \cup {l}) <= Cardinality(Sharers(g))
      BY <2>1, <2>6, FS_Subset
    <2>8. /\ Cardinality(seed[g].peers) \in Nat /\ Cardinality(Sharers(g)) \in Nat
          /\ limits.max_peers \in Nat
      BY <1>t, <2>1, <2>4, FS_CardinalityType, LimitsType
    <2> QED BY <2>3, <2>5, <2>7, <2>8
  <1>3. world.manifest[g] = "true" /\ world.holds[g] = Pieces
    BY DEF Blessed, Whole
  <1>4. /\ near' = [near EXCEPT ![c] = "up"] /\ far' = [far EXCEPT ![c] = "up"]
        /\ swarm' = [swarm EXCEPT ![l] = met(swarm[l], g)]
        /\ toLeech' = [toLeech EXCEPT ![c] = add_peer(g)]
        /\ UNCHANGED <<world, toSeed, todo, planned>>
    BY <1>t, <1>2, <1>3 DEF Connect
  <1>5. near'[c] = "up" /\ far'[c] = "up" /\ toLeech'[c] = add_peer(g)
        /\ swarm'[l] = met(swarm[l], g)
    BY <1>t, <1>4
  <1>6. g \notin DOMAIN swarm[l].peers
    BY <1>0, <1>1 DEF Tabled
  <1>7. swarm'[l].peers[g] = NewPeer
    BY <1>0, <1>t, <1>5, <1>6, Meets DEF Leeching
  <1>8. add_peer(g) = <<ms, bf>>
    BY DEF add_peer
  <1>9. /\ ms.type = "manifest" /\ bf.type = "bitfield" /\ bf.field = Pieces
    BY <1>3
  <1> HIDE DEF ms, bf
  <1>10. /\ toLeech'[c] # <<>> /\ toLeech'[c][1] = ms /\ toLeech'[c][2] = bf
         /\ DOMAIN toLeech'[c] = 1 .. 2
    BY <1>5, <1>8
  <1>11. Range(toLeech'[c]) = {ms, bf}
    BY <1>10 DEF Range
  <1>12. Quiet(l, g)
    BY <1>0, <1>1 DEF Unused
  <1>13. ASSUME NEW i \in Pieces PROVE Once(l, g, i)'
    <2>1. \A x \in Peers \cup {0} : planned'[<<l, x>>][g] = <<>>
      BY <1>4, <1>12 DEF Quiet
    <2>2. toSeed'[c] = <<>> /\ todo'[<<c, "read">>] = {}
      BY <1>4, <1>12 DEF Quiet
    <2>3. Range(<<>>) = {}
      BY Ranges
    <2>4. ~Planned(l, g, Request(i))' /\ \A x \in Peers \cup {0} :
                Request(i) \notin Range(planned'[<<l, x>>][g])
      BY <2>1, <2>3 DEF Planned
    <2>5. ~Asked(l, g, i)' /\ ~Fetched(l, g, i)'
      BY <2>2, <2>3 DEF Asked, Fetched
    <2>6. ms \notin PieceOf(i) /\ bf \notin PieceOf(i)
      BY <1>9 DEF PieceOf
    <2>7. ~Coming(l, g, i)'
      BY <1>11, <2>6 DEF Coming
    <2>8. Single(toLeech'[c], PieceOf(i))
      BY <1>10, <2>6 DEF Single
    <2>9. Single(toSeed'[c], {Request(i)})
      BY <2>2, SingleEmpty
    <2>10. \A x \in Peers \cup {0} : Single(planned'[<<l, x>>][g], {Request(i)})
      BY <2>1, SingleEmpty
    <2> QED BY <2>4, <2>5, <2>7, <2>8, <2>9, <2>10 DEF Once
  <1>14. Tracked(l)' \subseteq Pieces
    BY DEF Tracked, missing
  <1> QED BY <1>5, <1>9, <1>10, <1>11, <1>13, <1>14 DEF Strong, Live

\* While it still wants something, a leech and a good peer know of each other.
LEMMA StrongGreets ==
    ASSUME Base, Hosting, NEW l \in Leeches, NEW g \in Peers, Blessed(l, g), Strong(l, g),
           near[<<l, g>>] # "dial", missing(swarm[l]) # {}
    PROVE  Live(l, g) /\ Greets(l, g) /\ Roomy(g)
  <1>1. Roomy(g)
    BY DEF Blessed, Whole, Uncontended, Roomy
  <1>2. Live(l, g)
    BY DEF Strong
  <1>3. Done(l, g) \/ Greets(l, g)
    BY <1>1, <1>2 DEF Hosting, Hosted
  <1>4. ~Done(l, g)
    <2>1. missing(swarm[l]) \subseteq Pieces
      BY DEF missing
    <2> QED BY <2>1 DEF Done, Strong
  <1> QED BY <1>1, <1>2, <1>3, <1>4

\* The queue of a good peer grows at its end.
LEMMA StrongDispatch ==
    ASSUME Base, NEW l \in Leeches, NEW g \in Peers, Strong(l, g), near[<<l, g>>] # "dial",
           NEW h \in Leeches, NEW x \in {"read", "tick"}, Dispatch(<<<<h, g>>, x>>),
           Tracked(l)' \subseteq Tracked(l)
    PROVE  Strong(l, g)'
  <1> DEFINE c == <<l, g>>
             t == <<<<h, g>>, x>>
             q == toLeech[c]
             a0 == CHOOSE a \in todo[t] : a.to = l
  <1>0. Types /\ Sending
    BY BaseParts
  <1>t. /\ toLeech \in [Links -> Seq(Answers)]
        /\ todo \in [Threads -> SUBSET [to : Leeches, msg : Answers]]
        /\ c \in Links /\ t \in Threads /\ <<c, "read">> \in Threads /\ q \in Seq(Answers)
    BY <1>0, LinkTypes DEF Types
  <1>1. Live(l, g) /\ \A i \in Tracked(l)' : Once(l, g, i)
    BY DEF Strong
  <1>2. /\ todo' = [todo EXCEPT ![t] = {}]
        /\ UNCHANGED <<world, swarm, seed, near, far, toSeed, planned>>
    BY DEF Dispatch, conn
  <1>3. toLeech'[c] = IF \E a \in todo[t] : a.to = l THEN Append(q, a0.msg) ELSE q
    <2>1. c[1] = l /\ c[2] = g /\ t[1][2] = g
      OBVIOUS
    <2> QED BY <1>t, <1>1, <2>1 DEF Dispatch, Live
  <1>4. CASE ~\E a \in todo[t] : a.to = l
    <2>1. toLeech'[c] = toLeech[c]
      BY <1>3, <1>4
    <2>2. todo'[<<c, "read">>] = todo[<<c, "read">>]
      <3>1. CASE t # <<c, "read">>
        BY <1>t, <1>2, <3>1
      <3>2. CASE t = <<c, "read">>
        <4>1. \A a \in todo[t] : a.to = l
          BY <1>0, <3>2 DEF Sending, Sends
        <4>2. todo[t] = {}
          BY <1>4, <4>1
        <4> QED BY <1>t, <1>2, <3>2, <4>2
      <3> QED BY <3>1, <3>2
    <2>3. Steady(l, g)
      BY <1>2, <2>1, <2>2 DEF Steady
    <2> QED BY <2>3, StrongFrame
  <1>5. CASE \E a \in todo[t] : a.to = l
    <2>1. a0 \in todo[t] /\ a0.to = l /\ a0.msg \in Answers
      <3>1. a0 \in todo[t] /\ a0.to = l
        BY <1>5
      <3>2. todo[t] \in SUBSET [to : Leeches, msg : Answers]
        BY <1>t
      <3> HIDE DEF a0
      <3> QED BY <3>1, <3>2
    <2> DEFINE m == a0.msg
               q1 == toLeech'[c]
    <2>2. q1 = Append(q, m)
      BY <1>3, <1>5
    <2>a. /\ x = "read" => h = l /\ m.type = "piece" /\ \A a \in todo[t] : a.msg = m
          /\ x = "tick" => m.type = "choke"
      <3>1. Sends(world, h, g, todo[<<<<h, g>>, "read">>], todo[<<<<h, g>>, "tick">>])
        BY <1>0 DEF Sending
      <3> HIDE DEF a0
      <3>2. CASE x = "read"
        BY <2>1, <3>1, <3>2 DEF Sends
      <3>3. CASE x = "tick"
        BY <2>1, <3>1, <3>3 DEF Sends
      <3> QED BY <3>2, <3>3
    <2>b. m \in Answers
      BY <2>1
    <2>u. UNCHANGED <<swarm, near, far, toSeed, planned>>
      BY <1>2
    <2>d. q1 = toLeech'[c]
      OBVIOUS
    <2>e. x = "read" => todo[<<c, "read">>] = todo[t] /\ todo'[<<c, "read">>] = {}
      BY <1>t, <1>2, <2>a
    <2>f. x = "tick" => todo'[<<c, "read">>] = todo[<<c, "read">>]
      BY <1>t, <1>2
    <2>g. m \in {a.msg : a \in todo[t]}
      BY <2>1
    <2> HIDE DEF m, a0, q1
    <2>3. Range(q1) = Range(q) \cup {m}
      BY <1>t, <2>2, <2>b, Ranges
    <2>4. q # <<>> => q1 # <<>> /\ q1[1] = q[1]
      <3>1. \A r \in Seq(Answers) : r # <<>> => Append(r, m) # <<>> /\ Append(r, m)[1] = r[1]
        BY <2>b
      <3> QED BY <1>t, <2>2, <3>1
    <2>5. ASSUME NEW i \in Tracked(l)' PROVE Once(l, g, i)'
      <3>1. Once(l, g, i)
        BY <1>1
      <3>2. /\ Planned(l, g, Request(i))' <=> Planned(l, g, Request(i))
            /\ Asked(l, g, i)' <=> Asked(l, g, i)
        BY <2>u DEF Planned, Asked
      <3>3. CASE x = "read" /\ m.index = i
        <4>1. m \in PieceOf(i)
          BY <2>a, <2>b, <3>3 DEF PieceOf
        <4>2. Fetched(l, g, i)
          BY <2>e, <2>g, <3>3 DEF Fetched
        <4>3. /\ ~Fetched(l, g, i)' /\ Coming(l, g, i)'
          BY <2>3, <2>d, <2>e, <3>3, <4>1 DEF Fetched, Coming
        <4>4. ~Coming(l, g, i) /\ ~Asked(l, g, i) /\ ~Planned(l, g, Request(i))
              /\ i \in swarm[l].peers[g].in_flight
          BY <3>1, <4>2 DEF Once
        <4>5. \A n \in Range(q) : n \notin PieceOf(i)
          BY <4>4 DEF Coming
        <4>6. Single(q1, PieceOf(i))
          <5>1. Single(q, PieceOf(i))
            BY <3>1 DEF Once
          <5> QED BY <1>t, <2>2, <2>b, <4>5, <5>1, SingleAppend
        <4> QED BY <2>u, <2>d, <3>1, <3>2, <4>3, <4>4, <4>6 DEF Once
      <3>4. CASE ~(x = "read" /\ m.index = i)
        <4>1. m \notin PieceOf(i)
          BY <2>a, <3>4 DEF PieceOf
        <4>2. Coming(l, g, i)' <=> Coming(l, g, i)
          BY <2>3, <2>d, <4>1 DEF Coming
        <4>3. Fetched(l, g, i)' => Fetched(l, g, i)
          BY <2>e, <2>f DEF Fetched
        <4>6. Single(q1, PieceOf(i))
          <5>1. Single(q, PieceOf(i))
            BY <3>1 DEF Once
          <5> QED BY <1>t, <2>2, <2>b, <4>1, <5>1, SingleAppend
        <4> QED BY <2>u, <2>d, <3>1, <3>2, <4>2, <4>3, <4>6 DEF Once
      <3> QED BY <3>3, <3>4
    <2>6. Live(l, g)'
      BY <1>1, <2>u DEF Live
    <2>7. /\ \/ swarm'[l].manifest # "none"
             \/ q1 # <<>> /\ q1[1].type = "manifest"
          /\ \/ swarm'[l].peers[g].have = Pieces
             \/ \E n \in Range(q1) : n.type = "bitfield" /\ n.field = Pieces
      BY <2>3, <2>4, <2>u DEF Strong
    <2> QED BY <2>d, <2>5, <2>6, <2>7 DEF Strong
  <1> QED BY <1>4, <1>5
\* A good peer reads a message.
LEMMA StrongSeedReads ==
    ASSUME Base, NEW l \in Leeches, NEW g \in Peers, Strong(l, g), SeedReads(l, g),
           Tracked(l)' \subseteq Tracked(l)
    PROVE  Strong(l, g)'
  <1> DEFINE c == <<l, g>>
             q == toSeed[c]
             m == Head(q)
             rd == <<c, "read">>
  <1>0. Types /\ Dialling
    BY BaseParts
  <1>t. /\ toSeed \in [Links -> Seq(Asks)] /\ c \in Links /\ rd \in Threads
        /\ todo \in [Threads -> SUBSET [to : Leeches, msg : Answers]] /\ q \in Seq(Asks)
    BY <1>0, LinkTypes DEF Types
  <1>1. /\ far[c] = "up" /\ q # <<>> /\ todo[rd] = {}
        /\ toSeed' = [toSeed EXCEPT ![c] = Tail(@)]
        /\ UNCHANGED <<world, swarm, near, far, toLeech, planned>>
    BY DEF SeedReads, conn
  <1>2. \/ m.type = "interested" /\ UNCHANGED todo
        \/ m.type = "request" /\ todo' = [todo EXCEPT ![rd] = on_request(g, l, m.index)]
    BY DEF SeedReads
  <1>3. near[c] # "dial"
    BY <1>0, <1>1 DEF Dialling
  <1>4. Live(l, g) /\ \A i \in Tracked(l)' : Once(l, g, i)
    BY <1>3 DEF Strong
  <1>5. m \in Asks /\ m = q[1] /\ Range(q) = {m} \cup Range(Tail(q)) /\ Tail(q) \in Seq(Asks)
    BY <1>t, <1>1, HeadTail, Ranges
  <1>6. toSeed'[c] = Tail(q)
    BY <1>t, <1>1
  <1>7. \A a \in todo'[rd] : m.type = "request" /\ a.msg.index = m.index
    <2>1. CASE m.type = "interested" /\ UNCHANGED todo
      BY <1>1, <2>1
    <2>2. CASE m.type = "request" /\ todo' = [todo EXCEPT ![rd] = on_request(g, l, m.index)]
      <3>1. todo'[rd] = on_request(g, l, m.index)
        BY <1>t, <2>2
      <3> QED BY <2>2, <3>1 DEF on_request
    <2> QED BY <1>2, <2>1, <2>2
  <1>8. ASSUME NEW i \in Tracked(l)' PROVE Once(l, g, i)'
    <2>1. Once(l, g, i)
      BY <1>4
    <2>2. /\ Planned(l, g, Request(i))' <=> Planned(l, g, Request(i))
          /\ Coming(l, g, i)' <=> Coming(l, g, i)
      BY <1>1 DEF Planned, Coming
    <2>3. Single(q, {Request(i)})
      BY <2>1 DEF Once
    <2>4. /\ Single(Tail(q), {Request(i)})
          /\ m = Request(i) => Request(i) \notin Range(Tail(q))
      <3>1. m \in {Request(i)} => \A n \in Range(Tail(q)) : n \notin {Request(i)}
        BY <1>t, <1>1, <1>5, <2>3, SingleTail
      <3>2. Single(Tail(q), {Request(i)})
        BY <1>t, <1>1, <2>3, SingleTail
      <3> QED BY <3>1, <3>2
    <2>5. Fetched(l, g, i)' => m = Request(i)
      <3> SUFFICES ASSUME NEW a \in todo'[rd], a.msg.index = i PROVE m = Request(i)
        BY DEF Fetched
      <3>1. m.type = "request" /\ m.index = i
        BY <1>7
      <3> QED BY <1>5, <3>1, AskForms
    <2> HIDE DEF m, q
    <2>6. CASE m = Request(i)
      <3>1. Asked(l, g, i)
        BY <1>5, <2>6 DEF Asked, q
      <3>2. ~Asked(l, g, i)'
        BY <1>6, <2>4, <2>6 DEF Asked
      <3> QED BY <1>1, <1>6, <2>1, <2>2, <2>4, <3>1, <3>2 DEF Once
    <2>7. CASE m # Request(i)
      <3>1. Asked(l, g, i)' => Asked(l, g, i)
        BY <1>5, <1>6 DEF Asked, q
      <3>2. ~Fetched(l, g, i)'
        BY <2>5, <2>7
      <3> QED BY <1>1, <1>6, <2>1, <2>2, <2>4, <3>1, <3>2 DEF Once
    <2> QED BY <2>6, <2>7
  <1> HIDE DEF m, q
  <1> QED BY <1>1, <1>3, <1>4, <1>8 DEF Strong, Live

\* A leech writes to a good peer.
LEMMA StrongLeechDispatch ==
    ASSUME Base, NEW l \in Leeches, NEW g \in Peers, Strong(l, g), near[<<l, g>>] # "dial",
           NEW x \in Peers \cup {0}, LeechDispatch(<<l, x>>), Tracked(l)' \subseteq Tracked(l)
    PROVE  Strong(l, g)'
  <1> DEFINE c == <<l, g>>
             q == toSeed[c]
             out == planned[<<l, x>>][g]
  <1>0. Types
    BY BaseParts
  <1>t. /\ toSeed \in [Links -> Seq(Asks)] /\ c \in Links /\ <<l, x>> \in LeechThreads
        /\ planned \in [LeechThreads -> [Peers -> Seq(Asks)]]
        /\ q \in Seq(Asks) /\ out \in Seq(Asks)
        /\ \A y \in Peers \cup {0} : <<l, y>> \in LeechThreads
    <2>1. c \in Links /\ \A y \in Peers \cup {0} : <<l, y>> \in LeechThreads
      BY LinkTypes DEF LeechThreads
    <2>2. /\ toSeed \in [Links -> Seq(Asks)]
          /\ planned \in [LeechThreads -> [Peers -> Seq(Asks)]]
      BY <1>0 DEF Types
    <2> QED BY <2>1, <2>2
  <1>1. Live(l, g) /\ \A i \in Tracked(l)' : Once(l, g, i)
    BY DEF Strong
  <1>2. /\ planned' = [planned EXCEPT ![<<l, x>>] = idle]
        /\ UNCHANGED <<world, swarm, seed, near, far, toLeech, todo>>
    BY DEF LeechDispatch, conn
  <1>3. toSeed'[c] = q \o out
    <2>1. c[1] = l /\ c[2] = g /\ <<l, x>>[1] = l
      OBVIOUS
    <2> QED BY <1>t, <1>1, <2>1 DEF LeechDispatch, Live
  <1>4. \A y \in Peers \cup {0} : planned'[<<l, y>>][g] =
            IF y = x THEN <<>> ELSE planned[<<l, y>>][g]
    BY <1>t, <1>2 DEF idle
  <1>5. Range(q \o out) = Range(q) \cup Range(out) /\ Range(<<>>) = {}
    BY <1>t, RangeConcatenation, Ranges
  <1>d. out = planned[<<l, x>>][g] /\ q = toSeed[c]
    OBVIOUS
  <1> HIDE DEF out, q
  <1>6. ASSUME NEW i \in Tracked(l)' PROVE Once(l, g, i)'
    <2>1. Once(l, g, i)
      BY <1>1
    <2>2. /\ Fetched(l, g, i)' <=> Fetched(l, g, i)
          /\ Coming(l, g, i)' <=> Coming(l, g, i)
      BY <1>2 DEF Fetched, Coming
    <2>3. Planned(l, g, Request(i))' => Planned(l, g, Request(i))
      BY <1>4, <1>5 DEF Planned
    <2>4. Request(i) \in Range(out) => Planned(l, g, Request(i)) /\ ~Planned(l, g, Request(i))'
      <3> SUFFICES ASSUME Request(i) \in Range(out)
                   PROVE  Planned(l, g, Request(i)) /\ ~Planned(l, g, Request(i))'
        OBVIOUS
      <3>1. \A y \in Peers \cup {0} : Request(i) \in Range(planned[<<l, y>>][g]) => y = x
        BY <1>d, <2>1 DEF Once
      <3> QED BY <1>4, <1>5, <1>d, <3>1 DEF Planned
    <2>5. Asked(l, g, i)' <=> Asked(l, g, i) \/ Request(i) \in Range(out)
      BY <1>3, <1>5, <1>d DEF Asked
    <2>6. Single(q \o out, {Request(i)})
      <3>1. Single(q, {Request(i)}) /\ Single(out, {Request(i)})
        BY <1>d, <2>1 DEF Once
      <3>2. \A m \in Range(q), n \in Range(out) : ~(m \in {Request(i)} /\ n \in {Request(i)})
        BY <1>d, <2>1, <2>4 DEF Once, Asked
      <3> QED BY <1>t, <3>1, <3>2, SingleConcat
    <2>7. \A y \in Peers \cup {0} : Single(planned'[<<l, y>>][g], {Request(i)})
      BY <1>4, <2>1, SingleEmpty DEF Once
    <2>8. \A y, z \in Peers \cup {0} :
            /\ Request(i) \in Range(planned'[<<l, y>>][g])
            /\ Request(i) \in Range(planned'[<<l, z>>][g])
            => y = z
      BY <1>4, <1>5, <2>1 DEF Once
    <2>9. Single(toSeed'[c], {Request(i)}) /\ Single(toLeech'[c], PieceOf(i))
      BY <1>2, <1>3, <2>1, <2>6 DEF Once
    <2>10. /\ Planned(l, g, Request(i))' =>
                ~Asked(l, g, i)' /\ ~Fetched(l, g, i)' /\ ~Coming(l, g, i)'
           /\ Asked(l, g, i)' => ~Fetched(l, g, i)' /\ ~Coming(l, g, i)'
           /\ Fetched(l, g, i)' => ~Coming(l, g, i)'
           /\ \/ Planned(l, g, Request(i))' \/ Asked(l, g, i)'
              \/ Fetched(l, g, i)' \/ Coming(l, g, i)'
              => i \in swarm'[l].peers[g].in_flight
      BY <1>2, <2>1, <2>2, <2>3, <2>4, <2>5 DEF Once
    <2> QED BY <2>7, <2>8, <2>9, <2>10 DEF Once
  <1> QED BY <1>1, <1>2, <1>6 DEF Strong, Live

\* A leech that took in a message, or ticked, asks a good peer for more.
LEMMA StrongPlans ==
    ASSUME Base, NEW l \in Leeches, NEW g \in Peers, NEW x \in Peers \cup {0}, NEW r, NEW s,
           planned[<<l, x>>] = idle, Kept(s, r), g \in DOMAIN s.peers,
           swarm'[l] = r.sw, planned' = [planned EXCEPT ![<<l, x>>] = r.out],
           Live(l, g)', UNCHANGED <<toSeed, todo>>,
           \/ s.manifest # "none"
           \/ toLeech'[<<l, g>>] # <<>> /\ toLeech'[<<l, g>>][1].type = "manifest",
           \/ s.peers[g].have = Pieces
           \/ \E m \in Range(toLeech'[<<l, g>>]) : m.type = "bitfield" /\ m.field = Pieces,
           \A i \in Tracked(l)' :
              /\ Once(l, g, i) /\ Single(toLeech'[<<l, g>>], PieceOf(i))
              /\ Coming(l, g, i)' => Coming(l, g, i)
              /\ \/ Planned(l, g, Request(i)) \/ Asked(l, g, i)
                 \/ Fetched(l, g, i) \/ Coming(l, g, i)'
                 => i \in s.peers[g].in_flight
    PROVE  Strong(l, g)'
  <1> DEFINE out == r.out[g]
             fly == r.sw.peers[g].in_flight
  <1>t. /\ planned \in [LeechThreads -> [Peers -> Seq(Asks)]]
        /\ \A y \in Peers \cup {0} : <<l, y>> \in LeechThreads
    BY BaseParts DEF Types, LeechThreads
  <1>1. /\ r.sw.manifest = s.manifest /\ r.sw.peers[g].have = s.peers[g].have
        /\ s.peers[g].in_flight \subseteq fly
        /\ \A i \in Pieces : Request(i) \in Range(out) <=> i \in fly \ s.peers[g].in_flight
        /\ \A j, k \in DOMAIN out : out[j] = out[k] => j = k
    BY DEF Kept
  <1>2. \A y \in Peers \cup {0} : planned'[<<l, y>>][g] =
            IF y = x THEN out ELSE planned[<<l, y>>][g]
    BY <1>t
  <1>3. planned[<<l, x>>][g] = <<>> /\ Range(<<>>) = {}
    BY Ranges DEF idle
  <1>4. swarm'[l].manifest = s.manifest /\ swarm'[l].peers[g].have = s.peers[g].have
        /\ swarm'[l].peers[g].in_flight = fly
    BY <1>1
  <1> HIDE DEF out, fly
  <1>p. Tracked(l)' \subseteq Pieces
    BY DEF Tracked, missing
  <1>5. ASSUME NEW i \in Tracked(l)' PROVE Once(l, g, i)'
    <2>1. /\ Once(l, g, i) /\ Single(toLeech'[<<l, g>>], PieceOf(i))
          /\ Coming(l, g, i)' => Coming(l, g, i)
          /\ \/ Planned(l, g, Request(i)) \/ Asked(l, g, i)
             \/ Fetched(l, g, i) \/ Coming(l, g, i)'
             => i \in s.peers[g].in_flight
      OBVIOUS
    <2>2. /\ Asked(l, g, i)' <=> Asked(l, g, i)
          /\ Fetched(l, g, i)' <=> Fetched(l, g, i)
      BY DEF Asked, Fetched
    <2>3. Planned(l, g, Request(i))' => Planned(l, g, Request(i)) \/ Request(i) \in Range(out)
      BY <1>2 DEF Planned
    <2>4. Request(i) \in Range(out) => i \in fly /\ i \notin s.peers[g].in_flight
      BY <1>1, <1>p
    <2>5. Single(out, {Request(i)})
      BY <1>1 DEF Single
    <2>6. \A y \in Peers \cup {0} : Single(planned'[<<l, y>>][g], {Request(i)})
      BY <1>2, <2>1, <2>5 DEF Once
    <2>7. \A y, z \in Peers \cup {0} :
            /\ Request(i) \in Range(planned'[<<l, y>>][g])
            /\ Request(i) \in Range(planned'[<<l, z>>][g])
            => y = z
      <3>1. CASE Request(i) \in Range(out)
        <4>1. ~Planned(l, g, Request(i))
          BY <2>1, <2>4, <3>1
        <4>2. \A y \in Peers \cup {0} : Request(i) \in Range(planned'[<<l, y>>][g]) => y = x
          BY <1>2, <4>1 DEF Planned
        <4> QED BY <4>2
      <3>2. CASE Request(i) \notin Range(out)
        <4>1. \A y \in Peers \cup {0} : Request(i) \in Range(planned'[<<l, y>>][g]) =>
                    Request(i) \in Range(planned[<<l, y>>][g])
          BY <1>2, <3>2
        <4> QED BY <2>1, <4>1 DEF Once
      <3> QED BY <3>1, <3>2
    <2>8. Single(toSeed'[<<l, g>>], {Request(i)})
      BY <2>1 DEF Once
    <2>9. /\ Planned(l, g, Request(i))' =>
                ~Asked(l, g, i)' /\ ~Fetched(l, g, i)' /\ ~Coming(l, g, i)'
          /\ Asked(l, g, i)' => ~Fetched(l, g, i)' /\ ~Coming(l, g, i)'
          /\ Fetched(l, g, i)' => ~Coming(l, g, i)'
      BY <2>1, <2>2, <2>3, <2>4 DEF Once
    <2>10. \/ Planned(l, g, Request(i))' \/ Asked(l, g, i)'
           \/ Fetched(l, g, i)' \/ Coming(l, g, i)'
           => i \in fly
      BY <1>1, <2>1, <2>2, <2>3, <2>4
    <2> QED BY <1>4, <2>1, <2>6, <2>7, <2>8, <2>9, <2>10 DEF Once
  <1> QED BY <1>4, <1>5 DEF Strong

LEMMA StrongFetchTurn ==
    ASSUME Base, NEW l \in Leeches, NEW g \in Peers, Strong(l, g), near[<<l, g>>] # "dial",
           FetchTurn(l), Tracked(l)' \subseteq Tracked(l)
    PROVE  Strong(l, g)'
  <1> DEFINE r == schedule(swarm[l])
  <1>0. /\ Live(l, g) /\ \A i \in Tracked(l)' : Once(l, g, i)
        /\ \/ swarm[l].manifest # "none"
           \/ toLeech[<<l, g>>] # <<>> /\ toLeech[<<l, g>>][1].type = "manifest"
        /\ \/ swarm[l].peers[g].have = Pieces
           \/ \E m \in Range(toLeech[<<l, g>>]) : m.type = "bitfield" /\ m.field = Pieces
    BY DEF Strong
  <1>1. CASE UNCHANGED <<swarm, near, far, toLeech, toSeed, todo, planned>>
    <2>1. Steady(l, g)
      BY <1>1 DEF Steady
    <2> QED BY <2>1, StrongFrame
  <1>2. CASE /\ planned[<<l, 0>>] = idle
             /\ swarm' = [swarm EXCEPT ![l] = r.sw]
             /\ planned' = [planned EXCEPT ![<<l, 0>>] = r.out]
             /\ UNCHANGED <<near, far, toLeech, toSeed, todo>>
    <2>1. /\ Kept(swarm[l], r) /\ swarm \in [Leeches -> SwarmType] /\ Tabled
      BY BaseParts, KeptBySchedule DEF Types
    <2> HIDE DEF r
    <2>2. swarm'[l] = r.sw /\ Live(l, g)' /\ g \in DOMAIN swarm[l].peers
      BY <1>0, <1>2, <2>1 DEF Live, Tabled
    <2>3. \A i : Coming(l, g, i)' <=> Coming(l, g, i)
      BY <1>2 DEF Coming
    <2>4. \A i \in Tracked(l)' :
              /\ Once(l, g, i) /\ Single(toLeech'[<<l, g>>], PieceOf(i))
              /\ Coming(l, g, i)' => Coming(l, g, i)
              /\ \/ Planned(l, g, Request(i)) \/ Asked(l, g, i)
                 \/ Fetched(l, g, i) \/ Coming(l, g, i)'
                 => i \in swarm[l].peers[g].in_flight
      BY <1>0, <1>2, <2>3 DEF Once
    <2> QED BY <1>0, <1>2, <2>1, <2>2, <2>4, StrongPlans
  <1> QED BY <1>1, <1>2 DEF FetchTurn, conn
\* A good peer is not dropped: what it sends was asked for and fits the manifest,
\* or is a copy of what another peer sent, which is the verdict excepted.
LEMMA GoodKept ==
    ASSUME Base, Truthful, Returned, NEW l \in Leeches, NEW g \in Peers, Blessed(l, g),
           Strong(l, g), LeechReads(l, g), Blessed(l, g)', Unduplicated(l)' <=> Unduplicated(l)
    PROVE  on_message(swarm[l], g, Head(toLeech[<<l, g>>])).drop = "no"
  <1> DEFINE c == <<l, g>>
             m == Head(toLeech[c])
  <1>0. /\ Types /\ Announced /\ swarm[l] \in SwarmType
    BY BaseParts DEF Types
  <1>1. near[c] = "up"
    BY DEF LeechReads
  <1>2. /\ toLeech[c] \in Seq(Answers) /\ toLeech[c] # <<>> /\ m = toLeech[c][1]
        /\ m \in Answers
    BY ReadsOne
  <1>3. 1 \in DOMAIN toLeech[c] /\ m \in Range(toLeech[c])
    <2>1. 1 \in DOMAIN toLeech[c]
      BY <1>2, HeadTail
    <2> QED BY <1>2, <2>1 DEF Range
  <1>4. /\ m.type = "manifest" => m.of = world.manifest[g]
        /\ m.type = "piece" => m.bytes = world.serves[g]
    BY <1>0, <1>2, <1>3 DEF Announced, Tells
  <1>5. /\ m.type = "manifest" => m.of = "true"
        /\ m.type = "piece" => m.bytes = "good"
    BY <1>4 DEF Blessed, Whole
  <1>6. m.type = "piece" => swarm[l].manifest = "true"
    <2>1. swarm[l].manifest # "forged"
      BY DEF Truthful, Blessed
    <2>2. m.type = "piece" => swarm[l].manifest # "none"
      BY <1>1, <1>2 DEF Strong
    <2>3. swarm[l].manifest \in {"none", "true", "forged"}
      BY <1>0 DEF SwarmType
    <2> QED BY <2>1, <2>2, <2>3
  <1>7. m.type = "piece" => m.index \in swarm[l].peers[g].in_flight
    <2> SUFFICES ASSUME m.type = "piece" PROVE m.index \in swarm[l].peers[g].in_flight
      OBVIOUS
    <2>1. m.index \in Pieces /\ m \in PieceOf(m.index)
      BY <1>2 DEF Answers, PieceOf
    <2>2. Coming(l, g, m.index)
      BY <1>3, <2>1 DEF Coming
    <2>3. CASE Unduplicated(l)
      <3>1. Once(l, g, m.index)
        BY <1>1, <2>1, <2>3 DEF Strong, Tracked
      <3> QED BY <2>2, <3>1 DEF Once
    <2>4. CASE ~Unduplicated(l)
      <3> SUFFICES ASSUME m.index \notin swarm[l].peers[g].in_flight PROVE FALSE
        OBVIOUS
      <3> DEFINE r == on_message(swarm[l], g, m)
      <3>1. r.drop = "UnsolicitedPiece"
        <4>1. r = on_piece(swarm[l], g, m.index, m.bytes)
          BY DEF on_message
        <4>2. r = says(swarm[l], "UnsolicitedPiece")
          BY <4>1 DEF on_piece
        <4> QED BY <4>2 DEF says
      <3>2. blamed' = [blamed EXCEPT ![l] = IF r.drop = "no" THEN @ ELSE @ \cup {<<g, r.drop>>}]
        BY DEF LeechReads
      <3> HIDE DEF r
      <3>3. <<g, "UnsolicitedPiece">> \in blamed'[l]
        BY <3>1, <3>2 DEF Returned
      <3> QED BY <2>4, <3>3 DEF Blessed
    <2> QED BY <2>3, <2>4
  <1>8. m.type = "piece" => verify_piece(swarm[l], m.bytes)
    BY <1>5, <1>6 DEF verify_piece
  <1>9. on_message(swarm[l], g, m).drop # "no" => Dropped(swarm[l], g, m, on_message(swarm[l], g, m))
    BY ReadsOne
  <1>10. ~Dropped(swarm[l], g, m, on_message(swarm[l], g, m))
    <2> HIDE DEF m
    <2> QED BY <1>5, <1>7, <1>8 DEF Dropped
  <1> QED BY <1>9, <1>10

LEMMA StrongReadsIt ==
    ASSUME Base, Hosting, Truthful, Returned, NEW l \in Leeches, NEW g \in Peers,
           Blessed(l, g), Strong(l, g), missing(swarm[l]) # {}, LeechReads(l, g),
           Blessed(l, g)', Unduplicated(l)' <=> Unduplicated(l),
           Tracked(l)' \subseteq Tracked(l)
    PROVE  Strong(l, g)'
  <1> DEFINE c == <<l, g>>
             q == toLeech[c]
             m == Head(q)
             r == on_message(swarm[l], g, m)
  <1>0. /\ Types /\ Announced /\ swarm \in [Leeches -> SwarmType]
        /\ toLeech \in [Links -> Seq(Answers)] /\ c \in Links
        /\ near \in [Links -> {"none", "dial", "up", "closing", "gone"}]
    BY BaseParts, LinkTypes DEF Types
  <1>1. /\ near[c] = "up" /\ planned[c] = idle
        /\ swarm' = [swarm EXCEPT ![l] = r.sw]
        /\ near' = [near EXCEPT ![c] = IF r.drop = "no" THEN @ ELSE "closing"]
        /\ planned' = [planned EXCEPT ![c] = r.out]
        /\ toLeech' = [toLeech EXCEPT ![c] = Tail(@)]
        /\ UNCHANGED <<world, seed, far, toSeed, todo, result, faults>>
    BY DEF LeechReads
  <1>2. /\ q \in Seq(Answers) /\ q # <<>> /\ m = q[1] /\ m \in Answers
        /\ g \in DOMAIN swarm[l].peers
        /\ m.type = "bitfield" => swarm[l].peers[g].have = {}
    BY ReadsOne
  <1>3. PICK s : Heard(swarm[l], g, m, s) /\ Kept(s, r)
    BY ReadsOne
  <1>4. r.drop = "no"
    BY GoodKept
  <1>5. Range(q) = {m} \cup Range(Tail(q)) /\ 1 \in DOMAIN q
    BY <1>2, Ranges, HeadTail
  <1>6. m.type = "manifest" => m.of = "true"
    BY <1>0, <1>2, <1>5 DEF Announced, Tells, Blessed, Whole
  <1>g. Live(l, g) /\ Greets(l, g)
    BY <1>1, StrongGreets
  <1>s. /\ \/ swarm[l].manifest # "none" \/ m.type = "manifest"
        /\ \/ swarm[l].peers[g].have = Pieces
           \/ \E n \in Range(q) : n.type = "bitfield" /\ n.field = Pieces
        /\ \A i \in Tracked(l)' : Once(l, g, i)
    BY <1>1, <1>2 DEF Strong
  <1>c. Choke(TRUE) \notin Range(q)
    BY <1>g DEF Greets
  <1>k. ~(m.type = "choke" /\ m.yes)
    <2> SUFFICES ASSUME m.type = "choke", m.yes PROVE FALSE
      OBVIOUS
    <2>1. m = Choke(m.yes) /\ m.yes \in BOOLEAN
      BY <1>2, ChokeAnswers
    <2>2. m.yes = TRUE
      BY <2>1
    <2> QED BY <1>5, <1>c, <2>1, <2>2
  <1> HIDE DEF m, r, q
  <1>7. /\ swarm'[l] = r.sw /\ toLeech'[c] = Tail(q) /\ near'[c] = "up" /\ far'[c] = far[c]
    BY <1>0, <1>1, <1>4 DEF q
  <1>8. Live(l, g)'
    BY <1>7, <1>g DEF Live
  <1>9. g \in DOMAIN s.peers
    BY <1>2, <1>3 DEF Heard
  <1>10. s.manifest # "none"
    BY <1>3, <1>6, <1>s DEF Heard
  <1>11. \/ s.peers[g].have = Pieces
         \/ \E n \in Range(Tail(q)) : n.type = "bitfield" /\ n.field = Pieces
    <2>1. s.peers[g].have =
             IF m.type = "bitfield" THEN m.field
             ELSE IF m.type = "have" THEN swarm[l].peers[g].have \cup {m.index}
             ELSE swarm[l].peers[g].have
      BY <1>2, <1>3 DEF Heard
    <2>2. CASE swarm[l].peers[g].have = Pieces
      <3>1. m.type # "bitfield"
        BY <1>2, <2>2, SwarmAssumption
      <3>2. m.type = "have" => m.index \in Pieces
        BY <1>2 DEF Answers
      <3> QED BY <2>1, <2>2, <3>1, <3>2
    <2>3. CASE \E n \in Range(q) : n.type = "bitfield" /\ n.field = Pieces
      BY <1>5, <2>1, <2>3
    <2> QED BY <1>s, <2>2, <2>3
  <1>12. ASSUME NEW i \in Tracked(l)'
         PROVE  /\ Once(l, g, i) /\ Single(Tail(q), PieceOf(i))
                /\ Coming(l, g, i)' => Coming(l, g, i)
                /\ \/ Planned(l, g, Request(i)) \/ Asked(l, g, i)
                   \/ Fetched(l, g, i) \/ Coming(l, g, i)'
                   => i \in s.peers[g].in_flight
    <2>1. Once(l, g, i)
      BY <1>s
    <2>2. Single(q, PieceOf(i))
      BY <2>1 DEF Once, q
    <2>3. Single(Tail(q), PieceOf(i)) /\ (m \in PieceOf(i) => \A n \in Range(Tail(q)) : n \notin PieceOf(i))
      BY <1>2, <2>2, SingleTail
    <2>4. /\ Coming(l, g, i)' => Coming(l, g, i)
          /\ m \in PieceOf(i) => Coming(l, g, i) /\ ~Coming(l, g, i)'
      BY <1>5, <1>7, <2>3 DEF Coming, q
    <2>5. CASE m \in PieceOf(i)
      BY <2>1, <2>3, <2>4, <2>5 DEF Once
    <2>6. CASE m \notin PieceOf(i)
      <3>1. i \in swarm[l].peers[g].in_flight => i \in s.peers[g].in_flight
        <4>1. ~(m.type = "piece" /\ i = m.index)
          BY <1>2, <2>6 DEF PieceOf
        <4> QED BY <1>2, <1>3, <1>k, <4>1 DEF Heard
      <3> QED BY <2>1, <2>3, <2>4, <3>1 DEF Once
    <2> QED BY <2>5, <2>6
  <1>13. /\ planned[<<l, g>>] = idle /\ planned' = [planned EXCEPT ![<<l, g>>] = r.out]
         /\ UNCHANGED <<toSeed, todo>>
    BY <1>1
  <1> QED BY <1>3, <1>7, <1>8, <1>9, <1>10, <1>11, <1>12, <1>13, StrongPlans

\* Another peer's message costs a good peer's requests when it is the last piece, or
\* the piece is not missing any more.
LEMMA StrongReadsOther ==
    ASSUME Base, NEW l \in Leeches, NEW g \in Peers, Blessed(l, g), Strong(l, g),
           near[<<l, g>>] # "dial", NEW p \in Peers, p # g, LeechReads(l, p),
           Unduplicated(l)' <=> Unduplicated(l), Tracked(l)' \subseteq Tracked(l)
    PROVE  missing(swarm'[l]) = {} \/ Strong(l, g)'
  <1> DEFINE c == <<l, p>>
             m == Head(toLeech[c])
             r == on_message(swarm[l], p, m)
  <1>0. /\ Types /\ Tabled /\ swarm \in [Leeches -> SwarmType]
        /\ toLeech \in [Links -> Seq(Answers)] /\ c \in Links /\ <<l, g>> \in Links
        /\ near \in [Links -> {"none", "dial", "up", "closing", "gone"}]
        /\ planned \in [LeechThreads -> [Peers -> Seq(Asks)]]
        /\ world \in WorldType
    BY BaseParts, LinkTypes DEF Types
  <1>1. /\ near[c] = "up" /\ planned[c] = idle
        /\ swarm' = [swarm EXCEPT ![l] = r.sw]
        /\ near' = [near EXCEPT ![c] = IF r.drop = "no" THEN @ ELSE "closing"]
        /\ planned' = [planned EXCEPT ![c] = r.out]
        /\ toLeech' = [toLeech EXCEPT ![c] = Tail(@)]
        /\ UNCHANGED <<world, seed, far, toSeed, todo, result, faults>>
    BY DEF LeechReads
  <1>2. /\ m \in Answers /\ p \in DOMAIN swarm[l].peers /\ Sound(swarm[l])
    BY ReadsOne
  <1>3. PICK s : Heard(swarm[l], p, m, s) /\ Kept(s, r)
    BY ReadsOne
  <1>4. <<l, g>> # c
    OBVIOUS
  <1>s. /\ Live(l, g) /\ \A i \in Tracked(l)' : Once(l, g, i)
        /\ \/ swarm[l].manifest # "none"
           \/ toLeech[<<l, g>>] # <<>> /\ toLeech[<<l, g>>][1].type = "manifest"
        /\ \/ swarm[l].peers[g].have = Pieces
           \/ \E n \in Range(toLeech[<<l, g>>]) : n.type = "bitfield" /\ n.field = Pieces
    BY DEF Strong
  <1>5. /\ swarm'[l] = r.sw /\ toLeech'[<<l, g>>] = toLeech[<<l, g>>]
        /\ near'[<<l, g>>] = near[<<l, g>>]
    BY <1>0, <1>1, <1>4
  <1>6. g \in DOMAIN swarm[l].peers /\ Live(l, g)'
    BY <1>0, <1>1, <1>5, <1>s DEF Tabled, Live
  <1>7. CASE m.type = "piece" /\ m.index \notin swarm[l].peers[p].in_flight
    <2>1. r = says(swarm[l], "UnsolicitedPiece")
      <3>1. r = on_piece(swarm[l], p, m.index, m.bytes)
        BY <1>7 DEF on_message
      <3> QED BY <1>7, <3>1 DEF on_piece
    <2>2. r.sw = swarm[l] /\ r.out = idle
      BY <2>1 DEF says
    <2>3. \A x \in Peers \cup {0} : planned'[<<l, x>>] = planned[<<l, x>>]
      BY <1>0, <1>1, <2>2 DEF LeechThreads
    <2>4. Steady(l, g)
      BY <1>1, <1>5, <2>2, <2>3 DEF Steady
    <2> QED BY <2>4, StrongFrame
  <1>8. CASE m.type = "piece" => m.index \in swarm[l].peers[p].in_flight
    <2> HIDE DEF m, r
    <2>1. CASE /\ Unduplicated(l)
               /\ \E i \in swarm[l].peers[g].in_flight : i \notin s.peers[g].in_flight
      <3>1. PICK i \in swarm[l].peers[g].in_flight : i \notin s.peers[g].in_flight
        BY <2>1
      <3>2. m.type = "piece" /\ i = m.index /\ i \notin missing(s)
        BY <1>3, <1>6, <3>1 DEF Heard
      <3>3. i \in swarm[l].peers[p].in_flight
        BY <1>8, <3>2
      <3>4. ~(Cardinality(missing(swarm[l])) > limits.endgame_at)
        BY <1>2, <1>6, <3>1, <3>3 DEF Sound, Apart
      <3>5. limits.endgame_at <= 1
        <4>1. p \in Dialled(l) /\ g \in Dialled(l)
          BY LeechLearns DEF Blessed
        <4> QED BY <2>1, <4>1 DEF Unduplicated
      <3>6. IsFiniteSet(missing(swarm[l])) /\ Cardinality(missing(swarm[l])) \in Nat
        BY SwarmAssumption, FS_Subset, FS_CardinalityType DEF missing
      <3>7. Cardinality(missing(swarm[l])) <= 1
        BY <1>0, <3>4, <3>5, <3>6, LimitsType
      <3>8. i \in missing(swarm[l])
        BY <1>2, <1>6, <3>1 DEF Sound, Booked
      <3>9. missing(swarm[l]) = {i}
        <4>1. Cardinality(missing(swarm[l]) \ {i}) = Cardinality(missing(swarm[l])) - 1
          BY <3>6, <3>8, FS_RemoveElement
        <4>2. IsFiniteSet(missing(swarm[l]) \ {i})
          BY <3>6, FS_RemoveElement
        <4>3. Cardinality(missing(swarm[l]) \ {i}) \in Nat
          BY <4>2, FS_CardinalityType
        <4>4. Cardinality(missing(swarm[l]) \ {i}) = 0
          BY <3>6, <3>7, <4>1, <4>3
        <4>5. missing(swarm[l]) \ {i} = {}
          BY <4>2, <4>4, FS_EmptySet
        <4> QED BY <3>8, <4>5
      <3>10. missing(s) = {}
        BY <1>3, <3>2, <3>9 DEF Heard
      <3>11. missing(r.sw) = missing(s)
        BY <1>3 DEF Kept, missing
      <3> QED BY <1>5, <3>10, <3>11
    <2>2. CASE \A i \in Tracked(l)' :
                 i \in swarm[l].peers[g].in_flight => i \in s.peers[g].in_flight
      <3>1. /\ g \in DOMAIN s.peers /\ s.peers[g].have = swarm[l].peers[g].have
        BY <1>3, <1>6 DEF Heard
      <3>2. swarm[l].manifest # "none" => s.manifest # "none"
        <4>1. m.type = "manifest" => m.of # "none"
          BY <1>2 DEF Answers, Manifests
        <4> QED BY <1>3, <4>1 DEF Heard
      <3>3. \A i : Coming(l, g, i)' <=> Coming(l, g, i)
        BY <1>5 DEF Coming
      <3>4. \A i \in Tracked(l)' :
              /\ Once(l, g, i) /\ Single(toLeech'[<<l, g>>], PieceOf(i))
              /\ Coming(l, g, i)' => Coming(l, g, i)
              /\ \/ Planned(l, g, Request(i)) \/ Asked(l, g, i)
                 \/ Fetched(l, g, i) \/ Coming(l, g, i)'
                 => i \in s.peers[g].in_flight
        BY <1>5, <1>s, <2>2, <3>3 DEF Once
      <3>5. /\ planned[<<l, p>>] = idle /\ planned' = [planned EXCEPT ![<<l, p>>] = r.out]
            /\ UNCHANGED <<toSeed, todo>>
        BY <1>1
      <3>6. /\ \/ s.manifest # "none"
               \/ toLeech'[<<l, g>>] # <<>> /\ toLeech'[<<l, g>>][1].type = "manifest"
            /\ \/ s.peers[g].have = Pieces
               \/ \E n \in Range(toLeech'[<<l, g>>]) : n.type = "bitfield" /\ n.field = Pieces
        BY <1>5, <1>s, <3>1, <3>2
      <3> QED BY <1>3, <1>5, <1>6, <3>1, <3>4, <3>5, <3>6, StrongPlans
    <2>3. CASE ~Unduplicated(l)
      <3>1. Tracked(l)' = missing(swarm'[l]) /\ missing(swarm'[l]) = missing(s)
        BY <1>3, <1>5, <2>3 DEF Tracked, Kept, missing
      <3>2. \A i \in swarm[l].peers[g].in_flight \ s.peers[g].in_flight : i \notin missing(s)
        BY <1>3, <1>6 DEF Heard
      <3> QED BY <2>2, <3>1, <3>2
    <2> QED BY <2>1, <2>2, <2>3
  <1> QED BY <1>7, <1>8
\* A peer that is told nothing is asked for nothing, and its interest has not changed.
LEMMA EmptyNote ==
    ASSUME NEW sw \in SwarmType, NEW p \in DOMAIN sw.peers, NEW q \in Seq(Pieces),
           note(sw, p, q) = <<>>
    PROVE  q = <<>> /\ wants(sw, p) = sw.peers[p].we_interested
  <1> DEFINE h == IF wants(sw, p) = sw.peers[p].we_interested THEN <<>>
                  ELSE <<Interested(wants(sw, p))>>
             t == [k \in DOMAIN q |-> Request(q[k])]
  <1>1. wants(sw, p) \in BOOLEAN
    BY DEF wants
  <1>2. Interested(wants(sw, p)) \in Asks
    BY <1>1 DEF Asks
  <1>3. h \in Seq(Asks)
    BY <1>2
  <1>4. t \in Seq(Asks) /\ DOMAIN t = DOMAIN q
    <2>1. DOMAIN q = 1 .. Len(q) /\ Len(q) \in Nat /\ \A k \in 1 .. Len(q) : q[k] \in Pieces
      OBVIOUS
    <2>2. \A k \in 1 .. Len(q) : Request(q[k]) \in Asks
      BY <2>1 DEF Asks
    <2> QED BY <2>1, <2>2
  <1>5. note(sw, p, q) = h \o t
    BY DEF note
  <1> HIDE DEF t
  <1>6. Len(h) + Len(t) = 0 /\ Len(h) \in Nat /\ Len(t) \in Nat
    <2>1. Len(h \o t) = Len(h) + Len(t) /\ Len(h) \in Nat /\ Len(t) \in Nat
      <3> HIDE DEF h
      <3> QED BY <1>3, <1>4, ConcatProperties
    <2>2. Len(<<>>) = 0
      OBVIOUS
    <2> QED BY <1>5, <2>1, <2>2
  <1>7. Len(h) = 0 /\ Len(t) = 0
    <2> HIDE DEF h
    <2> QED BY <1>6
  <1>8. q = <<>>
    <2>1. DOMAIN q = {}
      <3>1. DOMAIN t = 1 .. 0
        BY <1>4, <1>7
      <3> QED BY <1>4, <3>1
    <2> QED BY <2>1
  <1>9. wants(sw, p) = sw.peers[p].we_interested
    <2> SUFFICES ASSUME wants(sw, p) # sw.peers[p].we_interested PROVE FALSE
      OBVIOUS
    <2>1. h = <<Interested(wants(sw, p))>>
      OBVIOUS
    <2>2. Len(h) = 1
      BY <2>1
    <2> HIDE DEF h
    <2> QED BY <1>7, <2>2
  <1> QED BY <1>8, <1>9

\* A leech whose peers are all silent has nothing booked with any of them.
LEMMA SilentFree ==
    ASSUME Base, Hosting, NEW l \in Leeches, NEW p \in DOMAIN swarm[l].peers,
           Uncontended(l), Silent(l, p)
    PROVE  /\ swarm[l].peers[p].in_flight = {}
           /\ far[<<l, p>>] = "mute" => swarm[l].peers[p].chokes_us
           /\ far[<<l, p>>] # "mute" => /\ far[<<l, p>>] = "up"
                                        /\ \A n : ~Planned(l, p, n) /\ ~Sent(l, p, n)
  <1>0. /\ Types /\ Dialling /\ Sending /\ Sound(swarm[l]) /\ p \in Peers
    BY BaseParts, TableShape DEF Leeching, Types
  <1>1. /\ near[<<l, p>>] = "up" /\ toLeech[<<l, p>>] = <<>>
        /\ far[<<l, p>>] \in {"up", "mute"}
    BY DEF Silent
  <1>r. Range(<<>>) = {}
    BY Ranges
  <1>2. CASE far[<<l, p>>] = "mute"
    <2>1. swarm[l].peers[p].chokes_us
      BY <1>0, <1>1, <1>2 DEF Hosting, Unheard
    <2> QED BY <1>0, <1>2, <2>1 DEF Sound, Booked
  <1>3. CASE far[<<l, p>>] = "up"
    <2>1. /\ toSeed[<<l, p>>] = <<>>
          /\ \A t \in Threads : \A a \in todo[t] : t[1][2] = p => a.to # l
          /\ \A t \in LeechThreads : t[1] = l => planned[t][p] = <<>>
      BY <1>3 DEF Silent
    <2>2. ASSUME NEW n PROVE ~Planned(l, p, n)
      <3>1. \A x \in Peers \cup {0} : <<l, x>> \in LeechThreads /\ <<l, x>>[1] = l
        BY DEF LeechThreads
      <3>2. \A x \in Peers \cup {0} : planned[<<l, x>>][p] = <<>>
        BY <2>1, <3>1
      <3> QED BY <1>r, <3>2 DEF Planned
    <2>3. \A k \in Leeches, x \in {"read", "tick"} : \A a \in todo[<<<<k, p>>, x>>] : a.to # l
      <3>1. \A k \in Leeches, x \in {"read", "tick"} :
                <<<<k, p>>, x>> \in Threads /\ <<<<k, p>>, x>>[1][2] = p
        BY <1>0, LinkTypes
      <3> QED BY <2>1, <3>1
    <2>4. \A n : ~Sent(l, p, n)
      BY <2>3 DEF Sent
    <2>5. ASSUME NEW i \in swarm[l].peers[p].in_flight PROVE FALSE
      <3>1. p \in Dialled(l)
        BY <1>0, <1>1 DEF Dialling, Dialled
      <3>2. Roomy(p) \/ Sharers(p) = {l}
        BY <3>1 DEF Uncontended, Roomy
      <3>3. Owes(l, p, i)
        BY <1>0, <1>1, <1>3, <2>5, <3>2 DEF Hosting, Hosted, Live
      <3>4. ~Choking(l, p)
        BY <2>3 DEF Choking
      <3>5. ~\E a \in todo[<<<<l, p>>, "read">>] : a.msg.index = i
        <4>1. Sends(world, l, p, todo[<<<<l, p>>, "read">>], todo[<<<<l, p>>, "tick">>])
          BY <1>0 DEF Sending
        <4>2. \A a \in todo[<<<<l, p>>, "read">>] : a.to = l
          BY <4>1 DEF Sends
        <4> QED BY <2>3, <4>2
      <3> QED BY <1>1, <1>r, <2>1, <2>2, <3>3, <3>4, <3>5 DEF Owes
    <2> QED BY <1>3, <2>2, <2>4, <2>5
  <1> QED BY <1>1, <1>2, <1>3

\* The connections of a leech do not all fall silent while a good peer is among
\* them: the leech would ask it, or it would let the leech in.
LEMMA NotAllSilent ==
    ASSUME Base, Hosting, Returned, NEW l \in Leeches, NEW g \in Peers, Blessed(l, g),
           Strong(l, g), near[<<l, g>>] # "dial", missing(swarm[l]) # {},
           result[l] # "failed",
           \A q \in Peers : near[<<l, q>>] \notin {"none", "gone"} => Silent(l, q)
    PROVE  FALSE
  <1> DEFINE sw == swarm[l]
             r == schedule(swarm[l])
             D == DOMAIN swarm[l].peers
  <1>0. /\ Types /\ Tabled /\ Admitted /\ world \in WorldType /\ sw \in SwarmType
        /\ Sound(sw) /\ result[l] \in {"none", "running", "ok", "failed"}
        /\ Tidy(seed[g])
    BY BaseParts DEF Types, Leeching, Admitted
  <1>1. Live(l, g) /\ Greets(l, g) /\ Roomy(g)
    BY StrongGreets
  <1>2. result[l] = "running"
    BY <1>0 DEF Returned, Blessed
  <1>3. D \subseteq Peers /\ g \in D /\ \A q \in D : near[<<l, q>>] \in {"up", "closing"}
    BY <1>0, <1>1, TableShape DEF Tabled, Live
  <1>4. \A q \in D : Silent(l, q)
    BY <1>3
  <1>u. Uncontended(l)
    BY DEF Blessed
  <1>5. \A q \in D :
          /\ sw.peers[q].in_flight = {}
          /\ far[<<l, q>>] = "mute" => sw.peers[q].chokes_us
          /\ far[<<l, q>>] # "mute" => far[<<l, q>>] = "up"
    BY <1>4, <1>u, SilentFree
  <1>6. \A n : ~Planned(l, g, n) /\ ~Sent(l, g, n)
    BY <1>1, <1>3, <1>4, <1>u, SilentFree DEF Live
  <1>7. /\ toLeech[<<l, g>>] = <<>> /\ toSeed[<<l, g>>] = <<>>
        /\ \A a \in tick(seed[g], g).out : a.to # l
    BY <1>1, <1>3, <1>4 DEF Silent, Live
  <1>8. Range(<<>>) = {}
    BY Ranges
  <1>9. sw.peers[g].have = Pieces /\ sw.manifest # "none"
    BY <1>7, <1>8 DEF Strong
  <1>10. \A q \in D : far[<<l, q>>] = "up" => r.out[q] = <<>>
    BY <1>2, <1>4 DEF Silent
  <1>11. ~sw.complete
    BY <1>0 DEF Sound, Finished
  <1>12. PICK pk : Turned(sw, r, D, pk)
    BY <1>0, <1>9, <1>11, Schedules
  <1>13. /\ \A q \in D : r.out[q] = note(sw, q, pk[q]) /\ pk[q] \in Seq(Pieces)
         /\ \A q \in D : sw.peers[q].chokes_us => pk[q] = <<>>
         /\ (/\ ~sw.peers[g].chokes_us /\ pk[g] = <<>>
             /\ Cardinality(sw.peers[g].in_flight) < limits.max_in_flight) =>
                    wanted(sw, g, booked_with(sw)) \subseteq UNION {Range(pk[q]) : q \in D}
    BY <1>3, <1>12 DEF Turned
  <1> HIDE DEF sw, r, D
  <1>14. \A q \in D : pk[q] = <<>>
    <2> SUFFICES ASSUME NEW q \in D PROVE pk[q] = <<>>
      OBVIOUS
    <2>1. CASE far[<<l, q>>] = "mute"
      BY <1>5, <1>13, <2>1
    <2>2. CASE far[<<l, q>>] # "mute"
      <3>1. note(sw, q, pk[q]) = <<>>
        BY <1>5, <1>10, <1>13, <2>2
      <3> QED BY <1>0, <1>13, <3>1, EmptyNote DEF D, sw
    <2> QED BY <2>1, <2>2
  <1>15. wants(sw, g) = sw.peers[g].we_interested
    <2>1. note(sw, g, pk[g]) = <<>>
      BY <1>1, <1>3, <1>10, <1>13 DEF Live
    <2> QED BY <1>0, <1>3, <1>13, <2>1, EmptyNote DEF D, sw
  <1>16. missing(sw) \subseteq Pieces /\ missing(sw) # {}
    BY DEF missing, sw
  <1>17. sw.peers[g].we_interested
    BY <1>9, <1>15, <1>16 DEF wants
  <1>18. l \in seed[g].interested
    BY <1>1, <1>6, <1>7, <1>8, <1>17 DEF Greets, sw
  <1>19. l \in seed[g].unchoked
    <2> SUFFICES ASSUME l \notin seed[g].unchoked PROVE FALSE
      OBVIOUS
    <2>1. Cardinality(seed[g].interested) <= limits.unchoke_slots
      BY <1>1, RoomyFits
    <2>2. tick(seed[g], g).sd.unchoked = seed[g].interested
      BY <1>0, <2>1, Ticks
    <2>3. l \in seed[g].peers
      BY <1>0, <1>1 DEF Admitted, Live
    <2> DEFINE a == [to |-> l, msg |-> Choke(l \notin tick(seed[g], g).sd.unchoked)]
    <2>4. a \in tick(seed[g], g).out
      <3>1. tick(seed[g], g).out =
                {[to |-> k, msg |-> Choke(k \notin tick(seed[g], g).sd.unchoked)] :
                    k \in {k \in seed[g].peers :
                        (k \in tick(seed[g], g).sd.unchoked) # (k \in seed[g].unchoked)}}
        BY <1>0, Ticks
      <3>2. l \in {k \in seed[g].peers :
                        (k \in tick(seed[g], g).sd.unchoked) # (k \in seed[g].unchoked)}
        BY <1>18, <2>2, <2>3
      <3> QED BY <3>1, <3>2
    <2>5. a.to = l
      OBVIOUS
    <2> QED BY <1>7, <2>4, <2>5
  <1>20. ~sw.peers[g].chokes_us
    BY <1>1, <1>6, <1>7, <1>8, <1>19 DEF Greets, sw
  <1>21. booked_with(sw) = {}
    BY <1>5 DEF booked_with, D, sw
  <1>22. wanted(sw, g, booked_with(sw)) = missing(sw)
    BY <1>3, <1>5, <1>9, <1>16, <1>21 DEF wanted
  <1>23. Cardinality(sw.peers[g].in_flight) < limits.max_in_flight
    <2>1. Cardinality(sw.peers[g].in_flight) = 0
      BY <1>3, <1>5, FS_EmptySet
    <2>2. limits.max_in_flight \in Nat \ {0}
      BY <1>0, LimitsType
    <2> QED BY <2>1, <2>2
  <1>24. missing(sw) \subseteq UNION {Range(pk[q]) : q \in D}
    BY <1>3, <1>13, <1>14, <1>20, <1>22, <1>23
  <1>25. \A q \in D : Range(pk[q]) = {}
    BY <1>8, <1>14
  <1> QED BY <1>16, <1>24, <1>25
\* Steps that do not concern a leech's connection with a good peer.
LEMMA SteadyEnds ==
    ASSUME Base, NEW l \in Leeches, NEW g \in Peers, NEW h \in Leeches, NEW p \in Peers,
           <<h, p>> # <<l, g>>,
           \/ DialFails(<<h, p>>) \/ HangUp(<<h, p>>) \/ Break(<<h, p>>)
           \/ SeedSeesEnd(<<h, p>>) \/ Timeout(h, p) \/ LeechSeesEnd(<<h, p>>)
    PROVE  Steady(l, g)
  <1> DEFINE c == <<h, p>>
  <1>0. /\ near \in [Links -> {"none", "dial", "up", "closing", "gone"}]
        /\ far \in [Links -> {"none", "up", "mute", "gone"}]
        /\ toLeech \in [Links -> Seq(Answers)] /\ toSeed \in [Links -> Seq(Asks)]
        /\ c \in Links /\ <<l, g>> \in Links
    BY BaseParts, LinkTypes DEF Types
  <1>1. /\ \E v : near' = [near EXCEPT ![c] = v] \/ near' = near
        /\ far' = [far EXCEPT ![c] = "gone"] \/ far' = far
        /\ toLeech' = [toLeech EXCEPT ![c] = <<>>] \/ toLeech' = toLeech
        /\ toSeed' = [toSeed EXCEPT ![c] = <<>>] \/ toSeed' = toSeed
        /\ UNCHANGED <<swarm, todo, planned>>
    BY DEF DialFails, HangUp, Break, SeedSeesEnd, Timeout, LeechSeesEnd
  <1>2. /\ near'[<<l, g>>] = near[<<l, g>>] /\ far'[<<l, g>>] = far[<<l, g>>]
        /\ toLeech'[<<l, g>>] = toLeech[<<l, g>>] /\ toSeed'[<<l, g>>] = toSeed[<<l, g>>]
    BY <1>0, <1>1
  <1> QED BY <1>1, <1>2 DEF Steady

LEMMA SteadyTables ==
    ASSUME Base, NEW l \in Leeches, NEW g \in Peers, NEW h \in Leeches, NEW p \in Peers,
           <<h, p>> # <<l, g>>, Connect(h, p) \/ RemovePeer(h, p)
    PROVE  Steady(l, g)
  <1> DEFINE c == <<h, p>>
             s == swarm'[h]
  <1>0. /\ near \in [Links -> {"none", "dial", "up", "closing", "gone"}]
        /\ far \in [Links -> {"none", "up", "mute", "gone"}]
        /\ toLeech \in [Links -> Seq(Answers)] /\ swarm \in [Leeches -> SwarmType]
        /\ c \in Links /\ <<l, g>> \in Links /\ Tabled /\ world \in WorldType
        /\ Sound(swarm[h])
    BY BaseParts, LinkTypes DEF Types, Leeching
  <1>1. /\ \A d \in Links : d # c => near'[d] = near[d] /\ far'[d] = far[d] /\ toLeech'[d] = toLeech[d]
        /\ UNCHANGED <<toSeed, todo, planned>>
        /\ \A k \in Leeches : k # h => swarm'[k] = swarm[k]
    BY <1>0 DEF Connect, RemovePeer
  <1>2. /\ \A q \in DOMAIN swarm[h].peers : q # p => s.peers[q] = swarm[h].peers[q]
        /\ s.manifest = swarm[h].manifest
    <2>1. CASE Connect(h, p)
      <3>1. s = met(swarm[h], p) /\ near[c] = "dial"
        BY <1>0, <2>1 DEF Connect
      <3>2. p \notin DOMAIN swarm[h].peers
        BY <1>0, <3>1 DEF Tabled
      <3> QED BY <1>0, <3>1, <3>2, Meets
    <2>2. CASE RemovePeer(h, p)
      <3>1. s = remove_peer(swarm[h], p) /\ near[c] = "closing"
        BY <1>0, <2>2 DEF RemovePeer
      <3>2. p \in DOMAIN swarm[h].peers
        BY <1>0, <3>1 DEF Tabled
      <3> QED BY <1>0, <3>1, <3>2, Removes
    <2> QED BY <2>1, <2>2
  <1>3. near[<<l, g>>] = "up" => g \in DOMAIN swarm[l].peers
    BY <1>0 DEF Tabled
  <1>4. /\ near[<<l, g>>] = "up" => swarm'[l].peers[g] = swarm[l].peers[g]
        /\ swarm'[l].manifest = swarm[l].manifest
    <2>1. CASE h = l
      BY <1>2, <1>3, <2>1
    <2>2. CASE h # l
      BY <1>1, <2>2
    <2> QED BY <2>1, <2>2
  <1> QED BY <1>0, <1>1, <1>4 DEF Steady

LEMMA SteadyPeers ==
    ASSUME Base, NEW l \in Leeches, NEW g \in Peers, NEW h \in Leeches, NEW p \in Peers,
           \/ <<h, p>> # <<l, g>> /\ SeedReads(h, p)
           \/ SeedTick(h, p)
           \/ p # g /\ \E x \in {"read", "tick"} : Dispatch(<<<<h, p>>, x>>)
           \/ p # g /\ \E i \in Pieces : PeerGains(p, i)
    PROVE  Steady(l, g)
  <1>0. /\ toLeech \in [Links -> Seq(Answers)] /\ toSeed \in [Links -> Seq(Asks)]
        /\ todo \in [Threads -> SUBSET [to : Leeches, msg : Answers]]
        /\ <<h, p>> \in Links /\ <<l, g>> \in Links /\ <<l, g>>[2] = g
        /\ <<<<l, g>>, "read">> \in Threads
    BY BaseParts, LinkTypes DEF Types
  <1>1. CASE <<h, p>> # <<l, g>> /\ SeedReads(h, p)
    <2>1. /\ toSeed' = [toSeed EXCEPT ![<<h, p>>] = Tail(@)]
          /\ \/ UNCHANGED todo
             \/ \E S : todo' = [todo EXCEPT ![<<<<h, p>>, "read">>] = S]
          /\ UNCHANGED <<swarm, near, far, toLeech, planned>>
      BY <1>1 DEF SeedReads, conn
    <2> QED BY <1>0, <1>1, <2>1 DEF Steady
  <1>2. CASE SeedTick(h, p)
    <2>1. /\ todo' = [todo EXCEPT ![<<<<h, p>>, "tick">>] = tick(seed[p], p).out]
          /\ UNCHANGED <<swarm, near, far, toLeech, toSeed, planned>>
      BY <1>2 DEF SeedTick, conn
    <2>2. todo'[<<<<l, g>>, "read">>] = todo[<<<<l, g>>, "read">>]
      BY <1>0, <2>1
    <2> QED BY <2>1, <2>2 DEF Steady
  <1>3. CASE p # g /\ \E x \in {"read", "tick"} : Dispatch(<<<<h, p>>, x>>)
    <2>1. PICK x \in {"read", "tick"} : Dispatch(<<<<h, p>>, x>>)
      BY <1>3
    <2>2. /\ todo' = [todo EXCEPT ![<<<<h, p>>, x>>] = {}]
          /\ \A d \in Links : d[2] # p => toLeech'[d] = toLeech[d]
          /\ UNCHANGED <<swarm, near, far, toSeed, planned>>
      BY <2>1 DEF Dispatch, conn
    <2>3. /\ todo'[<<<<l, g>>, "read">>] = todo[<<<<l, g>>, "read">>]
          /\ toLeech'[<<l, g>>] = toLeech[<<l, g>>]
      BY <1>0, <1>3, <2>2
    <2> QED BY <2>2, <2>3 DEF Steady
  <1>4. CASE p # g /\ \E i \in Pieces : PeerGains(p, i)
    <2>1. /\ \A d \in Links : d[2] # p => toLeech'[d] = toLeech[d]
          /\ UNCHANGED <<swarm, near, far, toSeed, todo, planned>>
      BY <1>4 DEF PeerGains, conn
    <2> QED BY <1>0, <1>4, <2>1 DEF Steady
  <1> QED BY <1>1, <1>2, <1>3, <1>4

LEMMA SteadyLeeches ==
    ASSUME Base, NEW l \in Leeches, NEW g \in Peers, NEW h \in Leeches, h # l,
           \/ \E p \in Peers : LeechReads(h, p)
           \/ FetchTurn(h)
           \/ \E x \in Peers \cup {0} : LeechDispatch(<<h, x>>)
    PROVE  Steady(l, g)
  <1>0. /\ toLeech \in [Links -> Seq(Answers)] /\ swarm \in [Leeches -> SwarmType]
        /\ near \in [Links -> {"none", "dial", "up", "closing", "gone"}]
        /\ planned \in [LeechThreads -> [Peers -> Seq(Asks)]]
        /\ <<l, g>> \in Links /\ <<l, g>>[1] = l
        /\ \A y \in Peers \cup {0} : <<l, y>> \in LeechThreads
    BY BaseParts, LinkTypes DEF Types, LeechThreads
  <1>1. CASE \E p \in Peers : LeechReads(h, p)
    <2>1. PICK p \in Peers : LeechReads(h, p)
      BY <1>1
    <2>2. /\ \E v : swarm' = [swarm EXCEPT ![h] = v]
          /\ \E v : near' = [near EXCEPT ![<<h, p>>] = v]
          /\ \E v : planned' = [planned EXCEPT ![<<h, p>>] = v]
          /\ \E v : toLeech' = [toLeech EXCEPT ![<<h, p>>] = v]
          /\ UNCHANGED <<far, toSeed, todo>>
      BY <2>1 DEF LeechReads
    <2>3. <<h, p>> # <<l, g>> /\ \A y \in Peers \cup {0} : <<h, p>> # <<l, y>>
      OBVIOUS
    <2>4. /\ swarm'[l] = swarm[l] /\ near'[<<l, g>>] = near[<<l, g>>]
          /\ toLeech'[<<l, g>>] = toLeech[<<l, g>>]
          /\ \A y \in Peers \cup {0} : planned'[<<l, y>>] = planned[<<l, y>>]
      BY <1>0, <2>2, <2>3
    <2> QED BY <2>2, <2>4 DEF Steady
  <1>2. CASE FetchTurn(h)
    <2>2. /\ UNCHANGED swarm \/ \E v : swarm' = [swarm EXCEPT ![h] = v]
          /\ UNCHANGED planned \/ \E v : planned' = [planned EXCEPT ![<<h, 0>>] = v]
          /\ UNCHANGED <<near, far, toLeech, toSeed, todo>>
      BY <1>2 DEF FetchTurn, conn
    <2>3. \A y \in Peers \cup {0} : <<h, 0>> # <<l, y>>
      OBVIOUS
    <2>4. /\ swarm'[l] = swarm[l]
          /\ \A y \in Peers \cup {0} : planned'[<<l, y>>] = planned[<<l, y>>]
      BY <1>0, <2>2, <2>3
    <2> QED BY <2>2, <2>4 DEF Steady
  <1>3. CASE \E x \in Peers \cup {0} : LeechDispatch(<<h, x>>)
    <2>1. PICK x \in Peers \cup {0} : LeechDispatch(<<h, x>>)
      BY <1>3
    <2>2. /\ planned' = [planned EXCEPT ![<<h, x>>] = idle]
          /\ \A d \in Links : d[1] # h => toSeed'[d] = toSeed[d]
          /\ UNCHANGED <<swarm, near, far, toLeech, todo>>
      BY <2>1 DEF LeechDispatch, conn
    <2>3. \A y \in Peers \cup {0} : <<h, x>> # <<l, y>>
      OBVIOUS
    <2>4. /\ toSeed'[<<l, g>>] = toSeed[<<l, g>>]
          /\ \A y \in Peers \cup {0} : planned'[<<l, y>>] = planned[<<l, y>>]
      BY <1>0, <2>2, <2>3
    <2> QED BY <2>2, <2>4 DEF Steady
  <1> QED BY <1>1, <1>2, <1>3

\* A good peer that is not connected yet: only its own dial changes that.
LEMMA StrongDial ==
    ASSUME Base, NEW l \in Leeches, NEW g \in Peers, near[<<l, g>>] = "dial",
           [Next]_vars, ~Connect(l, g), ~DialFails(<<l, g>>)
    PROVE  near'[<<l, g>>] = "dial"
  <1>0. /\ near \in [Links -> {"none", "dial", "up", "closing", "gone"}]
        /\ <<l, g>> \in Links
    BY BaseParts, LinkTypes DEF Types
  <1>1. CASE \E c \in Links : Step(c[1], c[2])
    <2>1. PICK h \in Leeches, p \in Peers : Step(h, p)
      BY <1>1 DEF Links
    <2>2. CASE UNCHANGED near
      BY <2>2
    <2>3. CASE <<h, p>> # <<l, g>> /\ \E v : near' = [near EXCEPT ![<<h, p>>] = v]
      BY <1>0, <2>3
    <2>4. CASE <<h, p>> = <<l, g>> /\ ~UNCHANGED near
      BY <2>1, <2>4 DEF Step, Connect, LeechReads, SeedReads, SeedTick, HangUp, Timeout,
                        Silent, LeechSeesEnd, SeedSeesEnd, RemovePeer, conn
    <2>5. UNCHANGED near \/ \E v : near' = [near EXCEPT ![<<h, p>>] = v]
      BY <2>1 DEF Step, Connect, LeechReads, SeedReads, SeedTick, HangUp, Timeout,
                  LeechSeesEnd, SeedSeesEnd, RemovePeer, conn
    <2> QED BY <2>2, <2>3, <2>4, <2>5
  <1>2. CASE \E c \in Links : DialFails(c)
    <2>1. PICK c \in Links : DialFails(c)
      BY <1>2
    <2> QED BY <1>0, <2>1 DEF DialFails
  <1>3. CASE UNCHANGED near
    BY <1>3
  <1> QED BY <1>1, <1>2, <1>3
       DEF Next, Dispatch, LeechDispatch, FetchTurn, FetchFails, Rest, Break, Deadline,
           PeerGains, vars, conn
\* A good peer is kept until the blob is complete, when nothing breaks.
LEMMA StrongStep ==
    ASSUME Base, Hosting, Truthful, Returned, NEW l \in Leeches, NEW g \in Peers,
           Blessed(l, g), Strong(l, g), missing(swarm[l]) # {}, result[l] # "failed",
           [Next]_vars, Blessed(l, g)', faults' = 0
    PROVE  missing(swarm'[l]) = {} \/ Strong(l, g)'
  <1> DEFINE c == <<l, g>>
  <1>f. faults \in Nat /\ faults' # faults + 1
    BY BaseParts DEF Types
  <1>t. Tracked(l)' \subseteq Tracked(l) /\ (Unduplicated(l)' <=> Unduplicated(l))
    BY TrackedBack, UnduplicatedKept
  <1>1. CASE near[c] = "dial"
    <2>1. CASE Connect(l, g)
      BY <2>1, StrongConnect
    <2>2. ~DialFails(c)
      BY <1>f DEF DialFails
    <2>3. CASE ~Connect(l, g)
      BY <1>1, <2>2, <2>3, StrongDial DEF Strong
    <2> QED BY <2>1, <2>3
  <1>2. CASE near[c] # "dial"
    <2>0. near[c] = "up" /\ far[c] = "up"
      BY <1>2 DEF Strong, Live
    <2>1. ASSUME NEW h \in Leeches, NEW p \in Peers, Step(h, p)
          PROVE  missing(swarm'[l]) = {} \/ Strong(l, g)'
      <3>1. CASE <<h, p>> # c /\ (\/ HangUp(<<h, p>>) \/ Timeout(h, p) \/ LeechSeesEnd(<<h, p>>)
                                  \/ SeedSeesEnd(<<h, p>>))
        BY <1>t, <3>1, SteadyEnds, StrongFrame
      <3>2. CASE <<h, p>> # c /\ (Connect(h, p) \/ RemovePeer(h, p))
        BY <1>t, <3>2, SteadyTables, StrongFrame
      <3>3. CASE (<<h, p>> # c /\ SeedReads(h, p)) \/ SeedTick(h, p)
        BY <1>t, <3>3, SteadyPeers, StrongFrame
      <3>4. CASE h = l /\ p = g /\ SeedReads(h, p)
        BY <1>t, <3>4, StrongSeedReads
      <3>5. CASE LeechReads(h, p)
        <4>1. CASE h # l
          BY <1>t, <3>5, <4>1, SteadyLeeches, StrongFrame
        <4>2. CASE h = l /\ p = g
          BY <1>t, <3>5, <4>2, StrongReadsIt
        <4>3. CASE h = l /\ p # g
          BY <1>t, <1>2, <3>5, <4>3, StrongReadsOther
        <4> QED BY <4>1, <4>2, <4>3
      <3>6. CASE <<h, p>> = c /\ Timeout(h, p)
        <4>1. \A q \in Peers : near[<<l, q>>] \notin {"none", "gone"} => Silent(l, q)
          BY <1>f, <3>6 DEF Timeout
        <4> QED BY <1>2, <4>1, NotAllSilent
      <3>7. <<h, p>> = c => /\ ~HangUp(<<h, p>>) /\ ~LeechSeesEnd(<<h, p>>)
                            /\ ~SeedSeesEnd(<<h, p>>) /\ ~Connect(h, p) /\ ~RemovePeer(h, p)
        BY <2>0 DEF HangUp, LeechSeesEnd, SeedSeesEnd, Connect, RemovePeer
      <3>8. <<h, p>> = c => h = l /\ p = g
        OBVIOUS
      <3> QED BY <2>1, <3>1, <3>2, <3>3, <3>4, <3>5, <3>6, <3>7, <3>8 DEF Step
    <2>2. ASSUME NEW h \in Leeches, NEW p \in Peers, NEW x \in {"read", "tick"},
                 Dispatch(<<<<h, p>>, x>>)
          PROVE  Strong(l, g)'
      <3>1. CASE p = g
        BY <1>t, <1>2, <2>2, <3>1, StrongDispatch
      <3>2. CASE p # g
        BY <1>t, <2>2, <3>2, SteadyPeers, StrongFrame
      <3> QED BY <3>1, <3>2
    <2>3. ASSUME NEW h \in Leeches, NEW x \in Peers \cup {0}, LeechDispatch(<<h, x>>)
          PROVE  Strong(l, g)'
      <3>1. CASE h = l
        BY <1>t, <1>2, <2>3, <3>1, StrongLeechDispatch
      <3>2. CASE h # l
        BY <1>t, <2>3, <3>2, SteadyLeeches, StrongFrame
      <3> QED BY <3>1, <3>2
    <2>4. ASSUME NEW h \in Leeches, FetchTurn(h) PROVE Strong(l, g)'
      <3>1. CASE h = l
        BY <1>t, <1>2, <2>4, <3>1, StrongFetchTurn
      <3>2. CASE h # l
        BY <1>t, <2>4, <3>2, SteadyLeeches, StrongFrame
      <3> QED BY <3>1, <3>2
    <2>5. CASE UNCHANGED <<swarm, near, far, toLeech, toSeed, todo, planned>>
      <3>1. Steady(l, g)
        BY <2>5 DEF Steady
      <3> QED BY <1>t, <3>1, StrongFrame
    <2>6. ASSUME NEW p \in Peers, NEW i \in Pieces, PeerGains(p, i) PROVE Strong(l, g)'
      <3>1. p # g
        BY <2>6 DEF PeerGains, Blessed, Whole
      <3> QED BY <1>t, <2>6, <3>1, SteadyPeers, StrongFrame
    <2>7. ASSUME NEW d \in Links PROVE ~DialFails(d) /\ ~Break(d)
      BY <1>f DEF DialFails, Break
    <2>8. CASE \E d \in Links : Step(d[1], d[2])
      <3>1. PICK h \in Leeches, p \in Peers : Step(h, p)
        BY <2>8 DEF Links
      <3> QED BY <2>1, <3>1
    <2>9. CASE \E t \in Threads : Dispatch(t)
      <3>1. PICK h \in Leeches, p \in Peers, x \in {"read", "tick"} : Dispatch(<<<<h, p>>, x>>)
        BY <2>9 DEF Threads, Links
      <3> QED BY <2>2, <3>1
    <2>10. CASE \E t \in LeechThreads : LeechDispatch(t)
      <3>1. PICK h \in Leeches, x \in Peers \cup {0} : LeechDispatch(<<h, x>>)
        BY <2>10 DEF LeechThreads
      <3> QED BY <2>3, <3>1
    <2>11. CASE \E h \in Leeches : FetchFails(h) \/ Deadline(h)
      BY <2>5, <2>11 DEF FetchFails, Deadline, conn
    <2>12. CASE UNCHANGED vars
      BY <2>5, <2>12 DEF vars
    <2> QED BY <2>4, <2>6, <2>7, <2>8, <2>9, <2>10, <2>11, <2>12 DEF Next, Rest
  <1> QED BY <1>1, <1>2

\* A fetch with a good peer does not fail: the peer is there, or the blob is.
LEMMA ServingFetch ==
    ASSUME Base, Truthful, NEW l \in Leeches, NEW g \in Peers, Blessed(l, g),
           missing(swarm[l]) = {} \/ Strong(l, g), result[l] # "failed",
           [Next]_vars, faults' = 0
    PROVE  result'[l] # "failed"
  <1>0. /\ result \in [Leeches -> {"none", "running", "ok", "failed"}]
        /\ Sound(swarm[l]) /\ faults \in Nat
    BY BaseParts DEF Types, Leeching
  <1>1. ~FetchFails(l)
    <2> SUFFICES ASSUME FetchFails(l) PROVE FALSE
      OBVIOUS
    <2>1. CASE missing(swarm[l]) = {}
      <3>1. \A i \in Pieces : swarm[l].pieces[i] \in {"none", "good", "junk"}
        BY <1>0 DEF Sound, SwarmType
      <3>2. \A i \in Pieces : swarm[l].pieces[i] # "junk"
        BY DEF Truthful, Blessed
      <3>3. finish(swarm[l])
        BY <2>1, <3>1, <3>2 DEF finish, missing
      <3>4. swarm[l].complete
        BY <1>0, <2>1 DEF Sound, Finished
      <3> QED BY <3>3, <3>4 DEF FetchFails
    <2>2. CASE Strong(l, g)
      <3>1. near[<<l, g>>] \notin {"none", "gone"}
        BY <2>2 DEF Strong, Live
      <3> QED BY <3>1 DEF FetchFails
    <2> QED BY <2>1, <2>2
  <1>2. ~Deadline(l)
    BY <1>0 DEF Deadline
  <1>3. \/ UNCHANGED result
        \/ \E k \in Leeches : \/ FetchFails(k) \/ Deadline(k)
                              \/ result' = [result EXCEPT ![k] = "ok"]
    BY DEF Next, Step, Connect, LeechReads, SeedReads, SeedTick, HangUp, Timeout,
           LeechSeesEnd, SeedSeesEnd, RemovePeer, Dispatch, LeechDispatch, FetchTurn,
           Rest, DialFails, Break, PeerGains, vars
  <1>4. CASE \E k \in Leeches : FetchFails(k) \/ Deadline(k)
    <2>1. PICK k \in Leeches : FetchFails(k) \/ Deadline(k)
      BY <1>4
    <2>2. k # l /\ result' = [result EXCEPT ![k] = "failed"]
      BY <1>1, <1>2, <2>1 DEF FetchFails, Deadline
    <2> QED BY <1>0, <2>2
  <1> QED BY <1>0, <1>3, <1>4

LEMMA AssuredInit == Init => Assured
  <1> SUFFICES ASSUME Init PROVE Assured
    OBVIOUS
  <1>1. Truthful
    BY DEF Init, Truthful, Leech
  <1>2. Returned
    BY DEF Init, Returned
  <1>3. ASSUME NEW l \in Leeches, NEW g \in Peers, Blessed(l, g)
        PROVE  result[l] # "failed" /\ Strong(l, g)
    <2>1. near[<<l, g>>] = "dial"
      BY <1>3, LinkTypes DEF Init, Blessed, Dialled
    <2> QED BY <2>1 DEF Init, Strong
  <1> QED BY <1>1, <1>2, <1>3 DEF Assured, Serving

LEMMA AssuredStep ==
    ASSUME Base, Hosting, Assured, [Next]_vars
    PROVE  Assured'
  <1>0. Truthful /\ Returned
    BY DEF Assured
  <1>1. Truthful' /\ Returned'
    BY <1>0, TruthfulStep, ReturnedStep
  <1>2. ASSUME NEW l \in Leeches, NEW g \in Peers, Blessed(l, g)'
        PROVE  result'[l] # "failed" /\ (missing(swarm'[l]) = {} \/ Strong(l, g)')
    <2>1. Blessed(l, g) /\ faults' = 0
      BY <1>0, <1>2, BlessedBack
    <2>2. result[l] # "failed" /\ (missing(swarm[l]) = {} \/ Strong(l, g))
      BY <2>1 DEF Assured, Serving
    <2>3. result'[l] # "failed"
      BY <1>0, <2>1, <2>2, ServingFetch
    <2>4. CASE missing(swarm[l]) = {}
      BY <2>3, <2>4, LeechGains
    <2>5. CASE missing(swarm[l]) # {}
      BY <1>0, <1>2, <2>1, <2>2, <2>3, <2>5, StrongStep
    <2> QED BY <2>4, <2>5
  <1> QED BY <1>1, <1>2 DEF Assured, Serving

\* Where leeches do not contend for a peer, no manifest is forged and nothing breaks,
\* a fetch with a peer that has the blob fails for one reason: in the endgame the peer
\* was dropped for a copy of a piece that another peer had sent first (on_piece).  So
\* fetch does not drop it otherwise, run_peer does not time out on it, and every piece
\* comes; and where requests are not duplicated, it does not fail at all.
THEOREM HonestTransfersHold == Spec => []HonestTransfersSucceed
  <1>1. Base /\ Hosting /\ Assured /\ [Next]_vars => Assured'
    BY AssuredStep
  <1>2. Assured => HonestTransfersSucceed
    <2> SUFFICES ASSUME Assured, NEW l \in Leeches, Unforged(l), Uncontended(l), faults = 0,
                        result[l] = "failed", NEW g \in Dialled(l), Whole(g)
                 PROVE  ~Unduplicated(l) /\ <<g, "UnsolicitedPiece">> \in blamed[l]
      BY DEF HonestTransfersSucceed
    <2>1. g \in Peers
      BY DEF Dialled
    <2>2. ~Blessed(l, g)
      BY <2>1 DEF Assured, Serving
    <2> QED BY <2>2 DEF Blessed
  <1> QED BY <1>1, <1>2, AssuredInit, BaseHolds, HostingHolds, PTL DEF Spec
-----------------------------------------------------------------------------
(* What a fetch returns, and whom it blames.                                *)

\* Before the endgame no piece is asked of two peers, whatever peers came and went
\* (mod.rs schedule, on_piece, remove_peer).
THEOREM OnePeerHolds == Spec => []OnePeerPerPiece
  <1>1. Base => OnePeerPerPiece
    BY DEF Base, Leeching, Sound, Apart, OnePeerPerPiece
  <1> QED BY <1>1, BaseHolds, PTL

\* A leech that misses nothing takes no piece.
LEMMA BlobStays ==
    ASSUME Base, [Next]_vars, NEW l \in Leeches, missing(swarm[l]) = {}
    PROVE  swarm'[l].pieces = swarm[l].pieces
  <1>1. ASSUME NEW p \in Peers, LeechReads(l, p)
        PROVE  swarm'[l].pieces = swarm[l].pieces
    <2> DEFINE m == Head(toLeech[<<l, p>>])
               r == on_message(swarm[l], p, m)
    <2>0. swarm \in [Leeches -> SwarmType]
      BY BaseParts DEF Types
    <2>1. swarm'[l] = r.sw
      BY <1>1, <2>0 DEF LeechReads
    <2>2. p \in DOMAIN swarm[l].peers /\ Sound(swarm[l])
      BY <1>1, ReadsOne
    <2>3. PICK s : Heard(swarm[l], p, m, s) /\ Kept(s, r)
      BY <1>1, ReadsOne
    <2>4. CASE m.type = "piece"
      <3>1. swarm[l].peers[p].in_flight = {}
        BY <2>2 DEF Sound, Booked
      <3>2. r.sw = swarm[l]
        BY <2>4, <3>1 DEF on_message, on_piece, says
      <3> QED BY <2>1, <3>2
    <2>5. CASE m.type # "piece"
      <3> HIDE DEF m, r
      <3>1. r.sw.pieces = s.pieces /\ \A i \in Pieces : s.pieces[i] = swarm[l].pieces[i]
        BY <2>3, <2>5 DEF Kept, Heard
      <3>2. swarm[l] \in SwarmType /\ r.sw \in SwarmType
        BY <2>0, <2>3 DEF Kept
      <3>3. swarm[l].pieces \in [Pieces -> {"none", "good", "junk"}]
            /\ r.sw.pieces \in [Pieces -> {"none", "good", "junk"}]
        BY <3>2 DEF SwarmType
      <3>4. r.sw.pieces = swarm[l].pieces
        BY <3>1, <3>3
      <3> QED BY <2>1, <3>4
    <2> QED BY <2>4, <2>5
  <1> QED BY <1>1, LeechHolds

\* Whatever manifests a leech was told and whatever pieces it was sent, a fetch that
\* returns has the blob: tcp.rs fetch returns what finish has compared with the
\* digest, and nothing is written over it.
THEOREM FetchedHolds == Spec => []FetchedIsTheBlob
  <1>1. Init => FetchedIsTheBlob
    BY DEF Init, FetchedIsTheBlob
  <1>2. ASSUME Base, FetchedIsTheBlob, [Next]_vars PROVE FetchedIsTheBlob'
    <2> SUFFICES ASSUME NEW l \in Leeches, result'[l] = "ok", NEW i \in Pieces
                 PROVE  swarm'[l].pieces[i] = "good"
      BY DEF FetchedIsTheBlob
    <2>0. result \in [Leeches -> {"none", "running", "ok", "failed"}]
      BY <1>2, BaseParts DEF Types
    <2>1. \/ UNCHANGED result
          \/ \E k \in Leeches :
                \/ result' = [result EXCEPT ![k] = "failed"]
                \/ result' = [result EXCEPT ![k] = "ok"] /\ finish(swarm[k])
      BY <1>2 DEF Next, Step, Connect, LeechReads, SeedReads, SeedTick, HangUp, Timeout,
             LeechSeesEnd, SeedSeesEnd, RemovePeer, Dispatch, LeechDispatch, FetchTurn,
             FetchFails, Rest, DialFails, Break, Deadline, PeerGains, vars
    <2>2. \A j \in Pieces : swarm[l].pieces[j] = "good"
      <3>1. result[l] = "ok" \/ finish(swarm[l])
        BY <2>0, <2>1
      <3> QED BY <1>2, <3>1 DEF FetchedIsTheBlob, finish
    <2>3. missing(swarm[l]) = {}
      BY <2>2 DEF missing
    <2> QED BY <1>2, <2>2, <2>3, BlobStays
  <1> QED BY <1>1, <1>2, BaseHolds, PTL DEF Spec

\* Nothing is asked for before there is a manifest.
Unasked(sw) ==
    sw.manifest = "none" => \A p \in DOMAIN sw.peers : sw.peers[p].in_flight = {}

LEMMA UnaskedHeard ==
    ASSUME world \in WorldType, NEW sw, Sound(sw), NEW p \in DOMAIN sw.peers,
           NEW m \in Answers, Unasked(sw), sw.manifest = "none"
    PROVE  Unasked(on_message(sw, p, m).sw)
  <1> DEFINE r == on_message(sw, p, m)
  <1>0. sw \in SwarmType /\ sw.peers \in [DOMAIN sw.peers -> PeerState]
    BY TableShape DEF Sound
  <1>1. \A s : s.manifest = "none" => schedule(s).sw = s
    BY DEF schedule
  <1>2. m.type \in {"manifest", "bitfield", "have", "choke", "piece"}
    BY DEF Answers
  <1>3. \A q \in DOMAIN sw.peers : sw.peers[q].in_flight = {}
    BY DEF Unasked
  <1>4. CASE m.type = "manifest"
    <2>1. CASE m.of = "other"
      <3>1. r.sw = sw
        BY <1>4, <2>1 DEF on_message, on_manifest, says
      <3> QED BY <3>1
    <2>2. CASE m.of # "other"
      <3> DEFINE s == [sw EXCEPT !.manifest = m.of]
      <3>1. r = schedule(s)
        BY <1>4, <2>2 DEF on_message, on_manifest
      <3>2. s \in SwarmType /\ s.manifest = m.of /\ m.of # "none"
        BY <1>0, <1>4, <2>2 DEF SwarmType, Answers, Manifests
      <3> HIDE DEF s
      <3>k. Kept(s, schedule(s))
        BY <3>2, KeptBySchedule
      <3>3. r.sw.manifest # "none"
        BY <3>1, <3>2, <3>k DEF Kept
      <3> QED BY <3>3 DEF Unasked
    <2> QED BY <2>1, <2>2
  <1>5. CASE m.type = "piece"
    <2>1. r.sw = sw
      BY <1>3, <1>5 DEF on_message, on_piece, says
    <2> QED BY <2>1
  <1>6. ASSUME NEW st \in PeerState, NEW a, st.in_flight = {}
        PROVE  LET s == [sw EXCEPT !.peers = [sw.peers EXCEPT ![p] = st],
                                   !.availability = a]
               IN  Unasked(schedule(s).sw)
    <2> DEFINE T == [sw.peers EXCEPT ![p] = st]
               s == [sw EXCEPT !.peers = T, !.availability = a]
    <2>1. \A q \in DOMAIN T : T[q].in_flight = {}
      BY <1>0, <1>3, <1>6
    <2> HIDE DEF T
    <2>2. s.manifest = "none" /\ s.peers = T
      BY <1>0 DEF SwarmType
    <2> HIDE DEF s
    <2>3. schedule(s).sw = s
      BY <1>1, <2>2
    <2>4. Unasked(s)
      BY <2>1, <2>2 DEF Unasked
    <2>5. Unasked(schedule(s).sw)
      BY <2>3, <2>4
    <2> QED BY <2>5 DEF s, T
  <1>7. sw.peers[p] \in PeerState /\ sw.peers[p].in_flight = {}
    BY <1>0, <1>3
  <1>8. CASE m.type = "bitfield"
    <2> DEFINE st == [sw.peers[p] EXCEPT !.have = m.field]
               a == counted(counted(sw.availability, sw.peers[p].have, -1), m.field, 1)
    <2>1. st \in PeerState /\ st.in_flight = {}
      BY <1>7, <1>8 DEF PeerState, Answers
    <2>2. r = schedule([sw EXCEPT !.peers = [sw.peers EXCEPT ![p] = st],
                                  !.availability = a])
      BY <1>8 DEF on_message, on_bitfield
    <2> HIDE DEF st, a
    <2> QED BY <1>6, <2>1, <2>2
  <1>9. CASE m.type = "have"
    <2> DEFINE st == [sw.peers[p] EXCEPT !.have = sw.peers[p].have \cup {m.index}]
               a == counted(sw.availability, {m.index} \ sw.peers[p].have, 1)
    <2>1. st \in PeerState /\ st.in_flight = {}
      BY <1>7, <1>9 DEF PeerState, Answers
    <2>2. r = schedule([sw EXCEPT !.peers = [sw.peers EXCEPT ![p] = st],
                                  !.availability = a])
      BY <1>9 DEF on_message, on_have
    <2> HIDE DEF st, a
    <2> QED BY <1>6, <2>1, <2>2
  <1>10. CASE m.type = "choke"
    <2> DEFINE st == [sw.peers[p] EXCEPT !.chokes_us = m.yes,
                                         !.in_flight = IF m.yes THEN {} ELSE @]
    <2>1. st \in PeerState /\ st.in_flight = {}
      BY <1>7, <1>10 DEF PeerState, Answers
    <2>2. r = schedule([sw EXCEPT !.peers = [sw.peers EXCEPT ![p] = st],
                                  !.availability = sw.availability])
      BY <1>0, <1>10 DEF on_message, on_choke, SwarmType
    <2> HIDE DEF st
    <2> QED BY <1>6, <2>1, <2>2
  <1> QED BY <1>2, <1>4, <1>5, <1>8, <1>9, <1>10
\* A manifest that a leech has taken stays.
LEMMA ManifestStays ==
    ASSUME Base, [Next]_vars, NEW l \in Leeches, swarm[l].manifest # "none"
    PROVE  swarm'[l].manifest = swarm[l].manifest
  <1>1. ASSUME NEW p \in Peers, LeechReads(l, p)
        PROVE  swarm'[l].manifest = swarm[l].manifest
    <2> DEFINE m == Head(toLeech[<<l, p>>])
               r == on_message(swarm[l], p, m)
    <2>0. swarm \in [Leeches -> SwarmType]
      BY BaseParts DEF Types
    <2>1. swarm'[l] = r.sw
      BY <1>1, <2>0 DEF LeechReads
    <2>2. PICK s : Heard(swarm[l], p, m, s) /\ Kept(s, r)
      BY <1>1, ReadsOne
    <2>3. CASE m.type = "manifest"
      <3>1. r.sw = swarm[l]
        BY <2>3 DEF on_message, on_manifest, says
      <3> QED BY <2>1, <3>1
    <2>4. CASE m.type # "manifest"
      <3> HIDE DEF m, r
      <3> QED BY <2>1, <2>2, <2>4 DEF Heard, Kept
    <2> QED BY <2>3, <2>4
  <1> QED BY <1>1, LeechHolds

LEMMA UnaskedStep ==
    ASSUME Base, \A k \in Leeches : Unasked(swarm[k]), [Next]_vars, NEW l \in Leeches
    PROVE  Unasked(swarm'[l])
  <1>0. /\ swarm \in [Leeches -> SwarmType] /\ world \in WorldType
        /\ \A k \in Leeches : Sound(swarm[k])
        /\ Tabled /\ Dialling
    BY BaseParts DEF Types, Leeching
  <1>1. CASE swarm[l].manifest # "none"
    <2>1. swarm'[l].manifest # "none"
      BY <1>1, ManifestStays
    <2> QED BY <2>1 DEF Unasked
  <1>2. CASE swarm[l].manifest = "none"
    <2>1. ASSUME NEW p \in Peers, LeechReads(l, p) PROVE Unasked(swarm'[l])
      <3> DEFINE m == Head(toLeech[<<l, p>>])
                 r == on_message(swarm[l], p, m)
      <3>1. swarm'[l] = r.sw
        BY <1>0, <2>1 DEF LeechReads
      <3>2. m \in Answers /\ p \in DOMAIN swarm[l].peers
        BY <2>1, ReadsOne
      <3> HIDE DEF m
      <3>3. Unasked(r.sw)
        BY <1>0, <1>2, <3>2, UnaskedHeard
      <3> QED BY <3>1, <3>3
    <2>2. CASE FetchTurn(l)
      <3>1. \/ UNCHANGED swarm
            \/ swarm' = [swarm EXCEPT ![l] = schedule(swarm[l]).sw]
        BY <2>2 DEF FetchTurn
      <3>2. schedule(swarm[l]).sw = swarm[l]
        BY <1>2 DEF schedule
      <3>3. swarm'[l] = swarm[l]
        BY <1>0, <3>1, <3>2
      <3> QED BY <3>3
    <2>3. ASSUME NEW p \in Peers, Connect(l, p) PROVE Unasked(swarm'[l])
      <3>1. swarm'[l] = met(swarm[l], p) /\ near[<<l, p>>] = "dial"
        BY <1>0, <2>3 DEF Connect
      <3>2. p \notin DOMAIN swarm[l].peers
        BY <1>0, <3>1 DEF Tabled
      <3>3. /\ DOMAIN met(swarm[l], p).peers = DOMAIN swarm[l].peers \cup {p}
            /\ \A q \in DOMAIN swarm[l].peers :
                    met(swarm[l], p).peers[q] = swarm[l].peers[q]
            /\ met(swarm[l], p).peers[p] = NewPeer
        BY <1>0, <3>2, Meets
      <3>4. NewPeer.in_flight = {}
        BY DEF NewPeer
      <3> QED BY <1>2, <3>1, <3>3, <3>4 DEF Unasked
    <2>4. ASSUME NEW p \in Peers, RemovePeer(l, p) PROVE Unasked(swarm'[l])
      <3>1. swarm'[l] = remove_peer(swarm[l], p) /\ near[<<l, p>>] = "closing"
        BY <1>0, <2>4 DEF RemovePeer
      <3>2. p \in DOMAIN swarm[l].peers
        BY <1>0, <3>1 DEF Tabled
      <3>3. /\ DOMAIN remove_peer(swarm[l], p).peers = DOMAIN swarm[l].peers \ {p}
            /\ \A q \in DOMAIN swarm[l].peers \ {p} :
                    remove_peer(swarm[l], p).peers[q] = swarm[l].peers[q]
        BY <1>0, <3>2, Removes
      <3> QED BY <1>2, <3>1, <3>3 DEF Unasked
    <2>5. CASE swarm'[l] = swarm[l]
      BY <2>5
    <2>6. ASSUME NEW c \in Links, Step(c[1], c[2])
          PROVE  \/ swarm'[l] = swarm[l]
                 \/ \E p \in Peers : LeechReads(l, p) \/ Connect(l, p) \/ RemovePeer(l, p)
      <3>1. PICK k \in Leeches, p \in Peers : c = <<k, p>>
        BY DEF Links
      <3>2. \/ UNCHANGED swarm
            \/ LeechReads(k, p) \/ Connect(k, p) \/ RemovePeer(k, p)
        BY <2>6, <3>1
           DEF Step, SeedReads, SeedTick, HangUp, Timeout, LeechSeesEnd, SeedSeesEnd
      <3>3. CASE k # l /\ (LeechReads(k, p) \/ Connect(k, p) \/ RemovePeer(k, p))
        BY <1>0, <3>3 DEF LeechReads, Connect, RemovePeer
      <3> QED BY <3>2, <3>3
    <2>7. ASSUME NEW k \in Leeches, FetchTurn(k)
          PROVE  swarm'[l] = swarm[l] \/ FetchTurn(l)
      <3>1. CASE k # l
        BY <1>0, <2>7, <3>1 DEF FetchTurn
      <3> QED BY <2>7, <3>1
    <2>8. \/ \E c \in Links : Step(c[1], c[2])
          \/ \E k \in Leeches : FetchTurn(k)
          \/ UNCHANGED swarm
      BY DEF Next, Dispatch, LeechDispatch, FetchFails, Rest, DialFails, Break, Deadline,
             PeerGains, vars
    <2> QED BY <2>1, <2>2, <2>3, <2>4, <2>5, <2>6, <2>7, <2>8
  <1> QED BY <1>1, <1>2

\* When a leech blames a peer, and for what.
LEMMA Verdicts ==
    ASSUME world \in WorldType, NEW sw, Sound(sw), NEW p \in DOMAIN sw.peers,
           NEW m \in Answers, m.type = "bitfield" => sw.peers[p].have = {}, Unasked(sw)
    PROVE  /\ on_message(sw, p, m).drop = "BadPiece" =>
                 m.type = "piece" /\ (m.bytes = "junk" \/ sw.manifest = "forged")
           /\ on_message(sw, p, m).drop = "WrongManifest" =>
                 m.type = "manifest" /\ m.of = "other"
  <1> DEFINE r == on_message(sw, p, m)
  <1>1. \A s \in SwarmType : schedule(s).drop = "no"
    BY KeptBySchedule
  <1>2. r.drop # "no" => Dropped(sw, p, m, r)
    BY Handled
  <1>3. sw.manifest \in {"none", "true", "forged"}
    BY DEF Sound, SwarmType
  <1>4. CASE m.type = "manifest"
    <2>1. CASE m.of = "other"
      <3>1. r.drop = "WrongManifest"
        BY <1>4, <2>1 DEF on_message, on_manifest, says
      <3> QED BY <1>4, <2>1, <3>1
    <2>2. CASE m.of # "other"
      <3>1. r.drop = "no"
        BY <1>2, <1>4, <2>2 DEF Dropped
      <3> QED BY <3>1
    <2> QED BY <2>1, <2>2
  <1>5. CASE m.type = "piece"
    <2>1. m.bytes \in {"good", "junk"}
      BY <1>5 DEF Answers
    <2>2. CASE m.index \notin sw.peers[p].in_flight
      <3>1. r.drop = "UnsolicitedPiece"
        BY <1>5, <2>2 DEF on_message, on_piece, says
      <3> QED BY <3>1
    <2>3. CASE m.index \in sw.peers[p].in_flight
      <3>1. sw.manifest # "none"
        BY <2>3 DEF Unasked
      <3>2. r.drop # "no" => ~verify_piece(sw, m.bytes)
        BY <1>2, <1>5, <2>3 DEF Dropped
      <3>3. sw.pieces[m.index] = "none"
        BY <2>3 DEF Sound, Booked, missing
      <3>4. ~verify_piece(sw, m.bytes) => r.drop = "BadPiece"
        BY <1>5, <2>3, <3>3 DEF on_message, on_piece, says
      <3>5. r.drop \in {"no", "BadPiece"}
        BY <3>2, <3>4
      <3>6. r.drop = "BadPiece" => m.bytes = "junk" \/ sw.manifest = "forged"
        BY <1>3, <2>1, <3>1, <3>2 DEF verify_piece
      <3> QED BY <1>5, <3>5, <3>6
    <2> QED BY <2>2, <2>3
  <1>6. CASE m.type \notin {"manifest", "piece"}
    BY <1>2, <1>6 DEF Dropped
  <1> QED BY <1>4, <1>5, <1>6

\* What the blame rests on.
Blaming ==
    /\ \A l \in Leeches : Unasked(swarm[l])
    /\ DOMAIN blamed = Leeches /\ BlameIsDeserved

LEMMA BlamingStep ==
    ASSUME Base, Blaming, [Next]_vars
    PROVE  Blaming'
  <1>0. world \in WorldType /\ Announced
    BY BaseParts DEF Types
  <1>1. \A l \in Leeches : Unasked(swarm'[l])
    BY UnaskedStep DEF Blaming
  <1>2. world'.manifest = world.manifest /\ world'.serves = world.serves
    <2>1. UNCHANGED world \/ \E p \in Peers, i \in Pieces : PeerGains(p, i)
      BY DEF Next, Step, Connect, LeechReads, SeedReads, SeedTick, HangUp, Timeout,
             LeechSeesEnd, SeedSeesEnd, RemovePeer, Dispatch, LeechDispatch, FetchTurn,
             FetchFails, Rest, DialFails, Break, Deadline, vars
    <2> QED BY <1>0, <2>1 DEF PeerGains, WorldType
  <1>3. ASSUME NEW l \in Leeches, NEW b \in blamed[l]
        PROVE  /\ b[2] = "BadPiece" =>
                     world'.serves[b[1]] = "junk" \/ swarm'[l].manifest = "forged"
               /\ b[2] = "WrongManifest" => world'.manifest[b[1]] = "other"
    <2>1. /\ b[2] = "BadPiece" =>
                   world.serves[b[1]] = "junk" \/ swarm[l].manifest = "forged"
          /\ b[2] = "WrongManifest" => world.manifest[b[1]] = "other"
      BY <1>3 DEF Blaming, BlameIsDeserved
    <2>2. swarm[l].manifest = "forged" => swarm'[l].manifest = "forged"
      BY ManifestStays
    <2> QED BY <1>2, <2>1, <2>2
  <1>4. ASSUME NEW k \in Leeches, NEW p \in Peers, LeechReads(k, p)
        PROVE  /\ DOMAIN blamed' = Leeches
               /\ \A l \in Leeches : \A b \in blamed'[l] :
                    \/ b \in blamed[l]
                    \/ /\ l = k
                       /\ b[2] = "BadPiece" =>
                            world.serves[b[1]] = "junk" \/ swarm[l].manifest = "forged"
                       /\ b[2] = "WrongManifest" => world.manifest[b[1]] = "other"
    <2> DEFINE m == Head(toLeech[<<k, p>>])
               r == on_message(swarm[k], p, m)
    <2>1. blamed' = [blamed EXCEPT ![k] = IF r.drop = "no" THEN blamed[k]
                                          ELSE blamed[k] \cup {<<p, r.drop>>}]
      BY <1>4 DEF LeechReads
    <2>2. /\ toLeech[<<k, p>>] \in Seq(Answers) /\ toLeech[<<k, p>>] # <<>>
          /\ m \in Answers /\ m = toLeech[<<k, p>>][1]
          /\ p \in DOMAIN swarm[k].peers /\ Sound(swarm[k])
          /\ m.type = "bitfield" => swarm[k].peers[p].have = {}
      BY <1>4, ReadsOne
    <2>3. 1 \in DOMAIN toLeech[<<k, p>>]
      BY <2>2, HeadTail
    <2>4. /\ m.type = "manifest" => m.of = world.manifest[p]
          /\ m.type = "piece" => m.bytes = world.serves[p]
      BY <1>0, <2>2, <2>3 DEF Announced, Tells
    <2>5. Unasked(swarm[k]) /\ DOMAIN blamed = Leeches
      BY DEF Blaming
    <2> HIDE DEF m
    <2>6. /\ r.drop = "BadPiece" =>
                m.type = "piece" /\ (m.bytes = "junk" \/ swarm[k].manifest = "forged")
          /\ r.drop = "WrongManifest" => m.type = "manifest" /\ m.of = "other"
      BY <1>0, <2>2, <2>5, Verdicts
    <2> DEFINE v == r.drop
    <2> HIDE DEF r
    <2>7. /\ v = "BadPiece" => world.serves[p] = "junk" \/ swarm[k].manifest = "forged"
          /\ v = "WrongManifest" => world.manifest[p] = "other"
      BY <2>4, <2>6
    <2>8. ASSUME NEW l \in Leeches, NEW b \in blamed'[l]
          PROVE  b \in blamed[l] \/ (l = k /\ b = <<p, v>>)
      BY <2>1, <2>5, <2>8
    <2>9. DOMAIN blamed' = Leeches
      BY <2>1, <2>5
    <2> HIDE DEF v
    <2> QED BY <2>7, <2>8, <2>9
  <1>5. \/ UNCHANGED blamed
        \/ \E k \in Leeches, p \in Peers : LeechReads(k, p)
    <2>1. ASSUME NEW c \in Links, Step(c[1], c[2])
          PROVE  UNCHANGED blamed \/ \E k \in Leeches, p \in Peers : LeechReads(k, p)
      <3>1. PICK k \in Leeches, p \in Peers : c = <<k, p>>
        BY DEF Links
      <3> QED BY <2>1, <3>1 DEF Step, Connect, SeedReads, SeedTick, HangUp, Timeout,
                                LeechSeesEnd, SeedSeesEnd, RemovePeer
    <2> QED BY <2>1 DEF Next, Dispatch, LeechDispatch, FetchTurn, FetchFails, Rest,
                        DialFails, Break, Deadline, PeerGains, vars
  <1>6. DOMAIN blamed' = Leeches
    BY <1>4, <1>5 DEF Blaming
  <1>7. ASSUME NEW l \in Leeches, NEW b \in blamed'[l]
        PROVE  /\ b[2] = "BadPiece" =>
                     world'.serves[b[1]] = "junk" \/ swarm'[l].manifest = "forged"
               /\ b[2] = "WrongManifest" => world'.manifest[b[1]] = "other"
    <2>1. CASE b \in blamed[l]
      BY <1>3, <2>1
    <2>2. CASE b \notin blamed[l]
      <3>1. /\ b[2] = "BadPiece" =>
                    world.serves[b[1]] = "junk" \/ swarm[l].manifest = "forged"
            /\ b[2] = "WrongManifest" => world.manifest[b[1]] = "other"
        BY <1>4, <1>5, <1>7, <2>2
      <3>2. swarm[l].manifest = "forged" => swarm'[l].manifest = "forged"
        BY ManifestStays
      <3> QED BY <1>2, <3>1, <3>2
    <2> QED BY <2>1, <2>2
  <1> QED BY <1>1, <1>6, <1>7 DEF Blaming, BlameIsDeserved

\* A peer that is dropped for a bad piece did serve junk, unless somebody's forged
\* manifest was taken for the blob's, and one that is dropped for a wrong manifest
\* claimed another blob (mod.rs on_piece, on_manifest; piece.rs verify_piece).
THEOREM BlameHolds == Spec => []BlameIsDeserved
  <1>1. Init => Blaming
    <2> SUFFICES ASSUME Init PROVE Blaming
      OBVIOUS
    <2>1. \A l \in Leeches : Unasked(swarm[l])
      <3>1. \A l \in Leeches : swarm[l] = Leech
        BY DEF Init
      <3>2. DOMAIN Leech.peers = {}
        BY DEF Leech
      <3> QED BY <3>1, <3>2 DEF Unasked
    <2>2. DOMAIN blamed = Leeches /\ \A l \in Leeches : blamed[l] = {}
      BY DEF Init
    <2> QED BY <2>1, <2>2 DEF Blaming, BlameIsDeserved
  <1>2. Base /\ Blaming /\ [Next]_vars => Blaming'
    BY BlamingStep
  <1>3. Blaming => BlameIsDeserved
    BY DEF Blaming
  <1> QED BY <1>1, <1>2, <1>3, BaseHolds, PTL DEF Spec
=============================================================================
