---------------------------- MODULE EconomyProofs ----------------------------
(***************************************************************************)
(* Proofs about one log: its money (Economy) and its committees (Sealed).  *)
(*                                                                         *)
(* Every balance is a sum over a prefix of the log.  The first part proves *)
(* what the library's fold computes, by induction on the least             *)
(* counterexample; the second how each sum changes when an entry is        *)
(* appended; the third what the node's rules keep true (EconomyInv), and   *)
(* the fourth that what an entry was asked when it landed a longer log     *)
(* still answers (AuditInv).  From these follow the clean audit, the       *)
(* promises that are paid, the reserve behind typed work and the supply    *)
(* that adds up.  The last part says the same of committees (SealedInv).   *)
(***************************************************************************)
EXTENDS Sealed, FiniteSetTheorems, SequenceTheorems, Folds, TLAPS

\* A non-empty set of naturals has a least element.
LEMMA LeastNatural ==
    ASSUME NEW T, T \subseteq Nat, T # {}
    PROVE  \E x \in T : \A y \in T : x <= y
  <1>1. PICK x \in T : \A y \in T : <<y, x>> \notin OpToRel(<, Nat)
    BY WFMin, NatLessThanWellFounded
  <1>2. \A y \in T : ~(y < x)
    BY <1>1 DEF OpToRel
  <1> QED BY <1>2

\* Induction on a set of naturals.
LEMMA EveryNatural ==
    ASSUME NEW T, T \subseteq Nat, 0 \in T, \A n \in T : n + 1 \in T
    PROVE  T = Nat
  <1> SUFFICES ASSUME Nat \ T # {} PROVE FALSE
    OBVIOUS
  <1>1. PICK x \in Nat \ T : \A y \in Nat \ T : x <= y
    BY LeastNatural
  <1>2. x # 0 /\ x - 1 \in Nat
    BY <1>1
  <1>3. x - 1 \in T
    BY <1>1, <1>2
  <1> QED BY <1>1, <1>2, <1>3

\* Induction on the subsets of a finite set.
LEMMA EverySubset ==
    ASSUME NEW S, IsFiniteSet(S), NEW Q,
           \A T \in SUBSET S :
                (\A U \in SUBSET T : U # T => U \in Q) => T \in Q
    PROVE  \A T \in SUBSET S : T \in Q
  <1> DEFINE bad == {T \in SUBSET S : T \notin Q}
             sizes == {Cardinality(T) : T \in bad}
  <1> SUFFICES ASSUME bad # {} PROVE FALSE
    OBVIOUS
  <1>1. \A T \in SUBSET S : IsFiniteSet(T) /\ Cardinality(T) \in Nat
    BY FS_Subset, FS_CardinalityType
  <1>2. sizes \subseteq Nat /\ sizes # {}
    BY <1>1
  <1>3. PICK n \in sizes : \A m \in sizes : n <= m
    BY <1>2, LeastNatural
  <1>4. PICK T \in bad : Cardinality(T) = n
    BY <1>3
  <1>5. ASSUME NEW U \in SUBSET T, U # T, U \notin Q PROVE FALSE
    <2>1. Cardinality(U) <= Cardinality(T) /\ Cardinality(U) # Cardinality(T)
      BY <1>1, <1>4, <1>5, FS_Subset
    <2>2. U \in bad
      BY <1>4, <1>5
    <2>3. n <= Cardinality(U)
      BY <1>3, <2>2
    <2> QED BY <1>1, <1>4, <1>5, <2>1, <2>3
  <1> QED BY <1>4, <1>5

pick(s) == CHOOSE x \in s : TRUE

\* What the fold adds up, subset by subset.
Tally(f, g) == [s \in SUBSET DOMAIN f |->
    IF s = {} THEN 0 ELSE f[pick(s)] + g[s \ {pick(s)}]]

LEMMA SumUnfold ==
    ASSUME NEW f
    PROVE SumFunction(f) = (CHOOSE g : g = Tally(f, g))[DOMAIN f]
  BY DEF SumFunction, SumFunctionOnSet, FoldFunctionOnSet, MapThenFoldSet, Tally, pick

LEMMA Picked ==
    ASSUME NEW S, IsFiniteSet(S), NEW T \in SUBSET S, T # {}
    PROVE  /\ pick(T) \in T /\ T \ {pick(T)} \in SUBSET S
           /\ T \ {pick(T)} # T
           /\ Cardinality(T) \in Nat
           /\ Cardinality(T \ {pick(T)}) = Cardinality(T) - 1
  <1>1. pick(T) \in T
    BY DEF pick
  <1>2. IsFiniteSet(T) /\ Cardinality(T) \in Nat
    BY FS_Subset, FS_CardinalityType
  <1> QED BY <1>1, <1>2, FS_RemoveElement

\* A tally exists.
LEMMA TallyExists ==
    ASSUME NEW S, IsFiniteSet(S), NEW f \in [S -> Int]
    PROVE  \E g : g = Tally(f, g) /\ g \in [SUBSET S -> Int]
  <1> DEFINE upTo(n) == {T \in SUBSET S : Cardinality(T) <= n}
             row(g, T) == IF T = {} THEN 0 ELSE f[pick(T)] + g[T \ {pick(T)}]
             good == {n \in Nat : \E g \in [upTo(n) -> Int] :
                                    \A T \in upTo(n) : g[T] = row(g, T)}
  <1>1. \A T \in SUBSET S : IsFiniteSet(T) /\ Cardinality(T) \in Nat
    BY FS_Subset, FS_CardinalityType
  <1>2. 0 \in good
    <2> DEFINE g == [T \in upTo(0) |-> 0]
    <2>1. \A T \in upTo(0) : T = {}
      BY <1>1, FS_EmptySet
    <2>2. g \in [upTo(0) -> Int] /\ \A T \in upTo(0) : g[T] = row(g, T)
      BY <2>1
    <2> QED BY <2>2
  <1>3. ASSUME NEW n \in good PROVE n + 1 \in good
    <2>1. PICK g \in [upTo(n) -> Int] : \A T \in upTo(n) : g[T] = row(g, T)
      OBVIOUS
    <2> DEFINE h == [T \in upTo(n + 1) |->
                        IF Cardinality(T) <= n THEN g[T] ELSE row(g, T)]
    <2>2. ASSUME NEW T \in upTo(n + 1), T # {}
          PROVE  /\ pick(T) \in S /\ f[pick(T)] \in Int
                 /\ T \ {pick(T)} \in upTo(n)
                 /\ T \ {pick(T)} \in upTo(n + 1)
                 /\ g[T \ {pick(T)}] \in Int
                 /\ h[T \ {pick(T)}] = g[T \ {pick(T)}]
      <3>1. /\ pick(T) \in T /\ T \ {pick(T)} \in SUBSET S
            /\ Cardinality(T) \in Nat
            /\ Cardinality(T \ {pick(T)}) = Cardinality(T) - 1
        BY <2>2, Picked
      <3>2. Cardinality(T \ {pick(T)}) <= n
        BY <2>2, <3>1
      <3>3. T \ {pick(T)} \in upTo(n) /\ T \ {pick(T)} \in upTo(n + 1)
        BY <1>1, <3>1, <3>2
      <3> QED BY <2>1, <2>2, <3>1, <3>2, <3>3
    <2>3. ASSUME NEW T \in upTo(n + 1) PROVE h[T] \in Int /\ h[T] = row(h, T)
      <3>1. CASE T = {}
        <4>1. Cardinality(T) <= n
          BY <3>1, FS_EmptySet
        <4>2. T \in upTo(n)
          BY <2>3, <4>1
        <4> QED BY <2>1, <2>3, <3>1, <4>1, <4>2
      <3>2. CASE T # {}
        <4>1. /\ f[pick(T)] \in Int /\ g[T \ {pick(T)}] \in Int
              /\ h[T \ {pick(T)}] = g[T \ {pick(T)}]
          BY <2>2, <2>3, <3>2
        <4>2. row(h, T) = row(g, T) /\ row(g, T) \in Int
          BY <3>2, <4>1
        <4>3. Cardinality(T) <= n => T \in upTo(n) /\ g[T] = row(g, T)
          BY <2>1, <2>3
        <4> QED BY <2>3, <4>2, <4>3
      <3> QED BY <3>1, <3>2
    <2>4. h \in [upTo(n + 1) -> Int]
      BY <2>3
    <2> HIDE DEF h
    <2>5. \E k \in [upTo(n + 1) -> Int] : \A T \in upTo(n + 1) : k[T] = row(k, T)
      <3>1. \A T \in upTo(n + 1) : h[T] = row(h, T)
        BY <2>3
      <3> WITNESS h \in [upTo(n + 1) -> Int]
      <3> QED BY <3>1
    <2>6. n + 1 \in Nat
      OBVIOUS
    <2> HIDE DEF upTo, row
    <2> QED BY <2>5, <2>6
  <1>4. good = Nat
    <2>1. good \subseteq Nat
      OBVIOUS
    <2> HIDE DEF good
    <2> QED BY <1>2, <1>3, <2>1, EveryNatural
  <1>5. Cardinality(S) \in good
    BY <1>4, FS_CardinalityType
  <1>6. upTo(Cardinality(S)) = SUBSET S
    BY FS_Subset
  <1>7. PICK g \in [SUBSET S -> Int] : \A T \in SUBSET S : g[T] = row(g, T)
    BY <1>5, <1>6
  <1>8. g = [T \in SUBSET S |-> row(g, T)]
    BY <1>7
  <1> QED BY <1>7, <1>8 DEF Tally

\* The sum of a function is its tally at its whole domain.
LEMMA SumTally ==
    ASSUME NEW S, IsFiniteSet(S), NEW f \in [S -> Int]
    PROVE  \E g \in [SUBSET S -> Int] :
              /\ SumFunction(f) = g[S]
              /\ g[{}] = 0
              /\ \A T \in SUBSET S : T # {} =>
                    g[T] = f[pick(T)] + g[T \ {pick(T)}]
  <1> DEFINE g == CHOOSE g : g = Tally(f, g)
  <1>1. PICK h : h = Tally(f, h) /\ h \in [SUBSET S -> Int]
    BY TallyExists
  <1>2. g = Tally(f, g)
    BY <1>1
  <1>3. SumFunction(f) = g[S]
    BY SumUnfold
  <1> HIDE DEF g
  <1>4. \A T \in SUBSET S :
            /\ g[T] = IF T = {} THEN 0 ELSE f[pick(T)] + g[T \ {pick(T)}]
            /\ h[T] = IF T = {} THEN 0 ELSE f[pick(T)] + h[T \ {pick(T)}]
    BY <1>1, <1>2 DEF Tally
  <1> DEFINE Q == {T \in SUBSET S : g[T] = h[T]}
  <1>5. ASSUME NEW T \in SUBSET S, \A U \in SUBSET T : U # T => U \in Q
        PROVE  T \in Q
    <2>1. CASE T = {}
      BY <1>4, <2>1
    <2>2. CASE T # {}
      <3>1. T \ {pick(T)} \in Q
        <4>1. T \ {pick(T)} \in SUBSET T /\ T \ {pick(T)} # T
          BY <2>2, Picked
        <4> HIDE DEF Q
        <4> QED BY <1>5, <4>1
      <3> QED BY <1>4, <2>2, <3>1
    <2> QED BY <2>1, <2>2
  <1>6. \A T \in SUBSET S : T \in Q
    <2> HIDE DEF Q
    <2> QED BY <1>5, EverySubset
  <1>7. g = h
    <2>1. g = [T \in SUBSET S |-> g[T]]
      BY <1>2 DEF Tally
    <2> QED BY <1>1, <1>6, <2>1
  <1> QED BY <1>1, <1>3, <1>4, <1>7

\* Whichever element is taken out, the rest is what remains.
LEMMA SumSplit ==
    ASSUME NEW S, IsFiniteSet(S), NEW f \in [S -> Int], NEW x \in S
    PROVE  /\ SumFunction(f) \in Int
           /\ SumFunction([s \in S \ {x} |-> f[s]]) \in Int
           /\ SumFunction(f) = f[x] + SumFunction([s \in S \ {x} |-> f[s]])
  <1> DEFINE R == S \ {x}
             r == [s \in R |-> f[s]]
  <1>1. IsFiniteSet(R) /\ r \in [R -> Int]
    BY FS_RemoveElement
  <1>2. PICK g \in [SUBSET S -> Int] :
              /\ SumFunction(f) = g[S]
              /\ g[{}] = 0
              /\ \A T \in SUBSET S : T # {} =>
                    g[T] = f[pick(T)] + g[T \ {pick(T)}]
    BY SumTally
  <1>3. PICK h \in [SUBSET R -> Int] :
              /\ SumFunction(r) = h[R]
              /\ h[{}] = 0
              /\ \A T \in SUBSET R : T # {} =>
                    h[T] = r[pick(T)] + h[T \ {pick(T)}]
    <2>1. \A X : IsFiniteSet(X) => \A e \in [X -> Int] :
            \E k \in [SUBSET X -> Int] :
              /\ SumFunction(e) = k[X]
              /\ k[{}] = 0
              /\ \A T \in SUBSET X : T # {} =>
                    k[T] = e[pick(T)] + k[T \ {pick(T)}]
      BY SumTally
    <2>2. \A e \in [R -> Int] :
            \E k \in [SUBSET R -> Int] :
              /\ SumFunction(e) = k[R]
              /\ k[{}] = 0
              /\ \A T \in SUBSET R : T # {} =>
                    k[T] = e[pick(T)] + k[T \ {pick(T)}]
      BY <1>1, <2>1
    <2> HIDE DEF R, r
    <2> QED BY <1>1, <2>2, Zenon
  <1> DEFINE Q == {T \in SUBSET S : \A y \in T : g[T] = f[y] + g[T \ {y}]}
             P == {T \in SUBSET R : g[T] = h[T]}
  <1>4. ASSUME NEW T \in SUBSET S, \A U \in SUBSET T : U # T => U \in Q
        PROVE  T \in Q
    <2> SUFFICES ASSUME NEW y \in T PROVE g[T] = f[y] + g[T \ {y}]
      OBVIOUS
    <2> DEFINE z == pick(T)
    <2>1. /\ z \in T /\ f[z] \in Int /\ f[y] \in Int
          /\ g[T] = f[z] + g[T \ {z}]
      <3>1. T # {} /\ z \in T
        BY DEF pick
      <3>2. g[T] = f[pick(T)] + g[T \ {pick(T)}]
        BY <1>2, <3>1
      <3> QED BY <3>1, <3>2
    <2> HIDE DEF z
    <2>2. CASE y = z
      BY <2>1, <2>2
    <2>3. CASE y # z
      <3>1. T \ {z} \in Q /\ T \ {y} \in Q
        <4>1. /\ T \ {z} \in SUBSET T /\ T \ {z} # T
              /\ T \ {y} \in SUBSET T /\ T \ {y} # T
          BY <2>1
        <4> HIDE DEF Q
        <4> QED BY <1>4, <4>1
      <3>2. y \in T \ {z} /\ z \in T \ {y}
        BY <2>1, <2>3
      <3>3. /\ g[T \ {z}] = f[y] + g[(T \ {z}) \ {y}]
            /\ g[T \ {y}] = f[z] + g[(T \ {y}) \ {z}]
        BY <3>1, <3>2
      <3>4. (T \ {z}) \ {y} = (T \ {y}) \ {z} /\ (T \ {y}) \ {z} \in SUBSET S
        OBVIOUS
      <3> DEFINE w == g[(T \ {y}) \ {z}]
      <3>5. w \in Int
        BY <1>2, <3>4
      <3>6. g[T] = f[z] + (f[y] + w) /\ g[T \ {y}] = f[z] + w
        BY <2>1, <3>3, <3>4
      <3> HIDE DEF w
      <3> QED BY <2>1, <3>5, <3>6
    <2> QED BY <2>2, <2>3
  <1>5. S \in Q
    <2>1. \A T \in SUBSET S : T \in Q
      <3> HIDE DEF Q
      <3> QED BY <1>4, EverySubset
    <2> QED BY <2>1
  <1>6. ASSUME NEW T \in SUBSET R, \A U \in SUBSET T : U # T => U \in P
        PROVE  T \in P
    <2>1. CASE T = {}
      BY <1>2, <1>3, <2>1
    <2>2. CASE T # {}
      <3>1. /\ pick(T) \in T /\ T \ {pick(T)} \in SUBSET T /\ T \ {pick(T)} # T
        BY <2>2 DEF pick
      <3>2. T \ {pick(T)} \in P
        <4> HIDE DEF P
        <4> QED BY <1>6, <3>1
      <3>3. r[pick(T)] = f[pick(T)]
        BY <3>1
      <3>4. g[T] = f[pick(T)] + g[T \ {pick(T)}] /\ h[T] = r[pick(T)] + h[T \ {pick(T)}]
        BY <1>2, <1>3, <2>2
      <3> QED BY <3>2, <3>3, <3>4
    <2> QED BY <2>1, <2>2
  <1>7. R \in P
    <2>1. \A T \in SUBSET R : T \in P
      <3> HIDE DEF P, R
      <3> QED BY <1>1, <1>6, EverySubset
    <2> QED BY <2>1
  <1>8. g[S] = f[x] + g[R] /\ g[R] = h[R] /\ g[S] \in Int /\ g[R] \in Int
    BY <1>2, <1>5, <1>7
  <1> QED BY <1>2, <1>3, <1>8

LEMMA SumEmpty ==
    ASSUME NEW f, DOMAIN f = {}
    PROVE  SumFunction(f) = 0
  <1> DEFINE g == CHOOSE g : g = Tally(f, g)
  <1>1. SumFunction(f) = g[{}]
    BY SumUnfold
  <1>2. [s \in SUBSET {} |-> 0] = Tally(f, [s \in SUBSET {} |-> 0])
    BY DEF Tally
  <1>3. g = Tally(f, g)
    BY <1>2
  <1> HIDE DEF g
  <1>4. g[{}] = 0
    BY <1>3 DEF Tally
  <1> QED BY <1>1, <1>4

-----------------------------------------------------------------------------
(* Sums of naturals. *)

\* A sum of naturals is a natural.
LEMMA SumNat ==
    ASSUME NEW S, IsFiniteSet(S), NEW f \in [S -> Nat]
    PROVE  SumFunction(f) \in Nat
  <1> DEFINE part(T) == [s \in T |-> f[s]]
             Q == {T \in SUBSET S : SumFunction(part(T)) \in Nat}
  <1>1. ASSUME NEW T \in SUBSET S, \A U \in SUBSET T : U # T => U \in Q
        PROVE  T \in Q
    <2>1. CASE T = {}
      BY <2>1, SumEmpty
    <2>2. CASE T # {}
      <3>1. PICK x \in T : TRUE
        BY <2>2
      <3>2. IsFiniteSet(T) /\ part(T) \in [T -> Int] /\ part(T)[x] \in Nat
        BY FS_Subset
      <3>3. SumFunction(part(T)) =
                part(T)[x] + SumFunction([s \in T \ {x} |-> part(T)[s]])
        <4> HIDE DEF part
        <4> QED BY <3>2, SumSplit
      <3>4. [s \in T \ {x} |-> part(T)[s]] = part(T \ {x})
        OBVIOUS
      <3>5. T \ {x} \in Q
        <4>1. T \ {x} \in SUBSET T /\ T \ {x} # T
          BY <3>1
        <4> HIDE DEF Q
        <4> QED BY <1>1, <4>1
      <3>6. SumFunction(part(T \ {x})) \in Nat
        BY <3>5
      <3>7. SumFunction(part(T)) \in Nat
        <4> HIDE DEF part
        <4> QED BY <3>2, <3>3, <3>4, <3>6
      <3> QED BY <3>7
    <2> QED BY <2>1, <2>2
  <1>2. S \in Q
    <2>1. \A T \in SUBSET S : T \in Q
      <3> HIDE DEF Q
      <3> QED BY <1>1, EverySubset
    <2> QED BY <2>1
  <1>3. part(S) = f
    OBVIOUS
  <1> QED BY <1>2, <1>3

\* One more element adds its value.
LEMMA SumAdds ==
    ASSUME NEW S, IsFiniteSet(S), NEW f \in [S -> Nat], NEW x, x \notin S,
           NEW v \in Nat, NEW g, g \in [S \cup {x} -> Nat], g[x] = v,
           \A s \in S : g[s] = f[s]
    PROVE  SumFunction(g) = SumFunction(f) + v
  <1>1. IsFiniteSet(S \cup {x}) /\ g \in [S \cup {x} -> Int]
    BY FS_AddElement
  <1>2. SumFunction(g) = g[x] + SumFunction([s \in (S \cup {x}) \ {x} |-> g[s]])
    BY <1>1, SumSplit
  <1>3. [s \in (S \cup {x}) \ {x} |-> g[s]] = f
    OBVIOUS
  <1>4. SumFunction(f) \in Nat
    BY SumNat
  <1> QED BY <1>2, <1>3, <1>4

\* A sum over more elements, each at least as large, is at least as large.
LEMMA SumGrows ==
    ASSUME NEW S, NEW T, IsFiniteSet(T), S \subseteq T,
           NEW f \in [S -> Nat], NEW g \in [T -> Nat],
           \A s \in S : f[s] <= g[s]
    PROVE  SumFunction(f) <= SumFunction(g)
  <1> DEFINE low(U)  == [s \in U \cap S |-> f[s]]
             high(U) == [s \in U |-> g[s]]
             Q == {U \in SUBSET T : SumFunction(low(U)) <= SumFunction(high(U))}
  <1>1. ASSUME NEW U \in SUBSET T, \A W \in SUBSET U : W # U => W \in Q
        PROVE  U \in Q
    <2>1. CASE U = {}
      <3>1. SumFunction(low(U)) = 0 /\ SumFunction(high(U)) = 0
        BY <2>1, SumEmpty
      <3> QED BY <3>1
    <2>2. CASE U # {}
      <3>1. PICK x \in U : TRUE
        BY <2>2
      <3> DEFINE R == U \ {x}
      <3>2. R \in Q
        <4>1. R \in SUBSET U /\ R # U
          BY <3>1
        <4> HIDE DEF Q, R
        <4> QED BY <1>1, <4>1
      <3>3. /\ IsFiniteSet(R) /\ IsFiniteSet(R \cap S)
            /\ high(R) \in [R -> Nat] /\ low(R) \in [R \cap S -> Nat]
        BY FS_Subset, FS_Intersection
      <3>4. SumFunction(low(R)) \in Nat /\ SumFunction(high(R)) \in Nat
        <4> HIDE DEF low, high, R
        <4> QED BY <3>3, SumNat
      <3>5. SumFunction(high(U)) = SumFunction(high(R)) + g[x]
        <4>1. /\ x \notin R /\ U = R \cup {x} /\ g[x] \in Nat /\ high(U)[x] = g[x]
              /\ high(U) \in [R \cup {x} -> Nat] /\ \A s \in R : high(U)[s] = high(R)[s]
          BY <3>1
        <4> HIDE DEF high, R
        <4> QED BY <3>3, <4>1, SumAdds
      <3>6. CASE x \in S
        <4>1. SumFunction(low(U)) = SumFunction(low(R)) + f[x]
          <5>1. /\ x \notin R \cap S /\ f[x] \in Nat /\ low(U)[x] = f[x]
                /\ U \cap S = (R \cap S) \cup {x}
                /\ low(U) \in [(R \cap S) \cup {x} -> Nat]
                /\ \A s \in R \cap S : low(U)[s] = low(R)[s]
            BY <3>1, <3>6
          <5> HIDE DEF low, R
          <5> QED BY <3>3, <5>1, SumAdds
        <4>2. f[x] <= g[x] /\ f[x] \in Nat /\ g[x] \in Nat
          BY <3>6
        <4>3. SumFunction(low(R)) <= SumFunction(high(R))
          BY <3>2
        <4>4. SumFunction(low(U)) <= SumFunction(high(U))
          <5> HIDE DEF low, high, R
          <5> QED BY <3>4, <3>5, <4>1, <4>2, <4>3
        <4> QED BY <4>4
      <3>7. CASE x \notin S
        <4>1. low(U) = low(R)
          <5>1. U \cap S = R \cap S
            BY <3>1, <3>7
          <5> QED BY <5>1
        <4>2. g[x] \in Nat
          BY <3>1
        <4>3. SumFunction(low(R)) <= SumFunction(high(R))
          BY <3>2
        <4>4. SumFunction(low(U)) <= SumFunction(high(U))
          <5> HIDE DEF low, high, R
          <5> QED BY <3>4, <3>5, <4>1, <4>2, <4>3
        <4> QED BY <4>4
      <3> QED BY <3>6, <3>7
    <2> QED BY <2>1, <2>2
  <1>2. T \in Q
    <2>1. \A U \in SUBSET T : U \in Q
      <3> HIDE DEF Q
      <3> QED BY <1>1, EverySubset
    <2> QED BY <2>1
  <1>3. low(T) = f /\ high(T) = g
    <2>1. T \cap S = S
      OBVIOUS
    <2> QED BY <2>1
  <1> QED BY <1>2, <1>3

-----------------------------------------------------------------------------
(* The log as a sequence that only grows. *)

LogSeq == \E S : log \in Seq(S)

LEMMA LogLength ==
    ASSUME LogSeq
    PROVE  Len(log) \in Nat /\ log = [p \in 1 .. Len(log) |-> log[p]]
  <1>1. PICK S : log \in Seq(S)
    BY DEF LogSeq
  <1> QED BY <1>1, LenProperties

\* The next state has the same first n entries.
Kept(n) ==
    /\ n \in Nat /\ n <= Len(log) /\ n <= Len(log')
    /\ \A p \in 1 .. n : log'[p] = log[p]

LEMMA Appended ==
    ASSUME LogSeq, NEW x, log' = Append(log, x)
    PROVE  /\ LogSeq'
           /\ Len(log) \in Nat /\ Len(log') = Len(log) + 1
           /\ log'[Len(log) + 1] = x
           /\ Kept(Len(log))
           /\ \A p \in 1 .. Len(log) : log'[p] = log[p]
  <1>1. PICK S : log \in Seq(S)
    BY DEF LogSeq
  <1>2. log \in Seq(S \cup {x}) /\ x \in S \cup {x}
    BY <1>1
  <1>3. log' \in Seq(S \cup {x})
    BY <1>2
  <1>4. /\ Len(log) \in Nat /\ Len(log') = Len(log) + 1
        /\ log'[Len(log) + 1] = x
        /\ \A p \in 1 .. Len(log) : log'[p] = log[p]
    BY <1>2
  <1> QED BY <1>3, <1>4 DEF LogSeq, Kept

LEMMA KeptEntries ==
    ASSUME NEW n, NEW k, Kept(n)
    PROVE  /\ entries(k, n)' = entries(k, n)
           /\ \A p \in entries(k, n) : p \in 1 .. n /\ log'[p] = log[p]
           /\ \A p \in 1 .. n : log'[p] = log[p]
  BY DEF Kept, entries

LEMMA KeptSettled ==
    ASSUME NEW n, NEW i, Kept(n)
    PROVE  settled_within(i, n)' = settled_within(i, n)
  <1> DEFINE S == {p \in entries("settlement", n) : Claim[log[p].claim].submitter = i}
             T == {p \in entries("settlement", n)' : Claim[log'[p].claim].submitter = i}
  <1>1. T = S /\ \A p \in S : log'[p] = log[p]
    BY KeptEntries
  <1>2. [p \in T |-> log'[p].reward] = [p \in S |-> log[p].reward]
    BY <1>1
  <1> QED BY <1>2 DEF settled_within, sum

LEMMA KeptServed ==
    ASSUME NEW n, NEW i, Kept(n)
    PROVE  served_within(i, n)' = served_within(i, n)
  <1> DEFINE S == {p \in entries("availability_settlement", n) : i \in DOMAIN log[p].paid}
             T == {p \in entries("availability_settlement", n)' : i \in DOMAIN log'[p].paid}
  <1>1. T = S /\ \A p \in S : log'[p] = log[p]
    BY KeptEntries
  <1>2. [p \in T |-> log'[p].paid[i]] = [p \in S |-> log[p].paid[i]]
    BY <1>1
  <1> QED BY <1>2 DEF served_within, sum

LEMMA KeptWon ==
    ASSUME NEW n, NEW i, Kept(n)
    PROVE  challenge_won(i, n)' = challenge_won(i, n)
  <1> DEFINE S == {p \in entries("challenge_settlement", n) : log[p].winner = i}
             T == {p \in entries("challenge_settlement", n)' : log'[p].winner = i}
  <1>1. T = S /\ \A p \in S : log'[p] = log[p]
    BY KeptEntries
  <1>2. [p \in T |-> log'[p].units] = [p \in S |-> log[p].units]
    BY <1>1
  <1> QED BY <1>2 DEF challenge_won, sum

LEMMA KeptLost ==
    ASSUME NEW n, NEW i, Kept(n)
    PROVE  challenge_lost(i, n)' = challenge_lost(i, n)
  <1> DEFINE S == {p \in entries("challenge_settlement", n) : log[p].loser = i}
             T == {p \in entries("challenge_settlement", n)' : log'[p].loser = i}
  <1>1. T = S /\ \A p \in S : log'[p] = log[p]
    BY KeptEntries
  <1>2. [p \in T |-> log'[p].units] = [p \in S |-> log[p].units]
    BY <1>1
  <1> QED BY <1>2 DEF challenge_lost, sum

LEMMA KeptCaught ==
    ASSUME NEW n, NEW i, Kept(n)
    PROVE  caught_within(i, n)' = caught_within(i, n)
  <1> DEFINE S == {p \in entries("verification_slash", n) : log[p].catcher = i}
             T == {p \in entries("verification_slash", n)' : log'[p].catcher = i}
  <1>1. T = S /\ \A p \in S : log'[p] = log[p]
    BY KeptEntries
  <1>2. [p \in T |-> log'[p].units] = [p \in S |-> log[p].units]
    BY <1>1
  <1> QED BY <1>2 DEF caught_within, sum

LEMMA KeptSlashed ==
    ASSUME NEW n, NEW i, Kept(n)
    PROVE  slashed_within(i, n)' = slashed_within(i, n)
  <1> DEFINE S == {p \in entries("verification_slash", n) : log[p].attestor = i}
             T == {p \in entries("verification_slash", n)' : log'[p].attestor = i}
  <1>1. T = S /\ \A p \in S : log'[p] = log[p]
    BY KeptEntries
  <1>2. [p \in T |-> log'[p].units] = [p \in S |-> log[p].units]
    BY <1>1
  <1> QED BY <1>2 DEF slashed_within, sum

LEMMA KeptLocked ==
    ASSUME NEW n, NEW i, Kept(n)
    PROVE  locked_within(i, n)' = locked_within(i, n)
  <1> DEFINE S == {p \in entries("undertaking", n) : log[p].identity = i}
             T == {p \in entries("undertaking", n)' : log'[p].identity = i}
  <1>1. T = S /\ \A p \in S : log'[p] = log[p]
    BY KeptEntries
  <1>2. [p \in T |-> log'[p].bond] = [p \in S |-> log[p].bond]
    BY <1>1
  <1> QED BY <1>2 DEF locked_within, sum

LEMMA KeptPools ==
    ASSUME NEW n, NEW i, Kept(n)
    PROVE  pools_charged(i, n)' = pools_charged(i, n)
  <1> DEFINE S == {p \in entries("availability_pool", n) : Pool[log[p].pool].funder = i}
             T == {p \in entries("availability_pool", n)' : Pool[log'[p].pool].funder = i}
  <1>1. T = S /\ \A p \in S : log'[p] = log[p]
    BY KeptEntries
  <1>2. [p \in T |-> ceiling(log'[p].pool)] = [p \in S |-> ceiling(log[p].pool)]
    BY <1>1
  <1> QED BY <1>2 DEF pools_charged, sum

LEMMA KeptRewards ==
    ASSUME NEW n, NEW i, NEW t, Kept(n)
    PROVE  rewards_charged(i, t, n)' = rewards_charged(i, t, n)
  <1> DEFINE S == {p \in entries("objective", n) :
                    Objective[log[p].objective].funder = i
                    /\ Objective[log[p].objective].tier \in t}
             T == {p \in entries("objective", n)' :
                    Objective[log'[p].objective].funder = i
                    /\ Objective[log'[p].objective].tier \in t}
  <1>1. T = S /\ \A p \in S : log'[p] = log[p]
    BY KeptEntries
  <1>2. [p \in T |-> Objective[log'[p].objective].reward]
            = [p \in S |-> Objective[log[p].objective].reward]
    BY <1>1
  <1> QED BY <1>2 DEF rewards_charged, sum

LEMMA KeptChallengeBonds ==
    ASSUME NEW n, NEW i, Kept(n)
    PROVE  challenge_bonds_within(i, n)' = challenge_bonds_within(i, n)
  <1> DEFINE S == {p \in entries("challenge", n) :
                    /\ log[p].challenger = i
                    /\ \A q \in entries("challenge_settlement", n) :
                            log[q].challenge # p}
             T == {p \in entries("challenge", n)' :
                    /\ log'[p].challenger = i
                    /\ \A q \in entries("challenge_settlement", n)' :
                            log'[q].challenge # p}
  <1>1. /\ entries("challenge", n)' = entries("challenge", n)
        /\ entries("challenge_settlement", n)' = entries("challenge_settlement", n)
        /\ \A p \in entries("challenge", n) : log'[p] = log[p]
        /\ \A p \in entries("challenge_settlement", n) : log'[p] = log[p]
    BY KeptEntries
  <1>2. T = S /\ \A p \in S : log'[p] = log[p]
    BY <1>1
  <1>3. [p \in T |-> log'[p].bond] = [p \in S |-> log[p].bond]
    BY <1>2
  <1> QED BY <1>3 DEF challenge_bonds_within, sum

LEMMA KeptAttestationBonds ==
    ASSUME NEW n, Kept(n)
    PROVE  /\ settled_epoch_within(n)' = settled_epoch_within(n)
           /\ \A p : slashed(p, n)' <=> slashed(p, n)
           /\ \A i : attestation_bonds_within(i, n)' = attestation_bonds_within(i, n)
  <1>1. /\ entries("batch", n)' = entries("batch", n)
        /\ entries("verification_slash", n)' = entries("verification_slash", n)
        /\ entries("attestation", n)' = entries("attestation", n)
        /\ \A p \in entries("batch", n) : log'[p] = log[p]
        /\ \A p \in entries("verification_slash", n) : log'[p] = log[p]
        /\ \A p \in entries("attestation", n) : log'[p] = log[p]
    BY KeptEntries
  <1>2. settled_epoch_within(n)' = settled_epoch_within(n)
    <2>1. {log'[p].epoch : p \in entries("batch", n)'}
            = {log[p].epoch : p \in entries("batch", n)}
      BY <1>1
    <2> QED BY <2>1 DEF settled_epoch_within
  <1>3. ASSUME NEW p PROVE slashed(p, n)' <=> slashed(p, n)
    BY <1>1 DEF slashed
  <1>4. ASSUME NEW i
        PROVE  attestation_bonds_within(i, n)' = attestation_bonds_within(i, n)
    <2> DEFINE S == {p \in entries("attestation", n) :
                        /\ log[p].attestor = i /\ ~slashed(p, n)
                        /\ attestation_window_open(p, settled_epoch_within(n))}
               T == {p \in entries("attestation", n)' :
                        /\ log'[p].attestor = i /\ ~slashed(p, n)'
                        /\ attestation_window_open(p, settled_epoch_within(n))'}
    <2>1. T = S
      BY <1>1, <1>2, <1>3 DEF attestation_window_open
    <2> QED BY <2>1 DEF attestation_bonds_within
  <1> QED BY <1>2, <1>3, <1>4

\* A bounded set of naturals has a greatest element, and Max is it.
LEMMA MaxOf ==
    ASSUME NEW S, S \subseteq Nat, S # {}, NEW n \in Nat, \A s \in S : s <= n
    PROVE  Max(S) \in S /\ \A s \in S : s <= Max(S)
  <1> DEFINE T == {n - s : s \in S}
  <1>1. T \subseteq Nat /\ T # {}
    <2>1. \A s \in S : s \in Nat /\ n - s \in Nat
      OBVIOUS
    <2> QED BY <2>1
  <1>2. PICK x \in T : \A y \in T : x <= y
    BY <1>1, LeastNatural
  <1>3. PICK s \in S : x = n - s
    BY <1>2
  <1>4. ASSUME NEW y \in S PROVE s >= y
    <2>1. n - y \in T
      OBVIOUS
    <2>2. x <= n - y
      BY <1>2, <2>1
    <2>3. y \in Nat /\ s \in Nat
      BY <1>3
    <2> QED BY <1>3, <2>2, <2>3
  <1>5. \E m \in S : \A y \in S : m >= y
    BY <1>4
  <1>6. Max(S) \in S /\ \A y \in S : Max(S) >= y
    BY <1>5 DEF Max
  <1>7. ASSUME NEW y \in S PROVE y <= Max(S)
    <2>1. y \in Nat /\ Max(S) \in Nat /\ Max(S) >= y
      BY <1>6
    <2> QED BY <2>1
  <1> QED BY <1>6, <1>7

LEMMA MinOfTwo ==
    ASSUME NEW a \in Nat, NEW b \in Nat
    PROVE  Min({a, b}) = IF a <= b THEN a ELSE b
  <1>1. \E m \in {a, b} : \A y \in {a, b} : m =< y
    OBVIOUS
  <1>2. Min({a, b}) \in {a, b} /\ \A y \in {a, b} : Min({a, b}) =< y
    BY <1>1 DEF Min
  <1> QED BY <1>2

\* The genesis prefix is every issuance that nothing else precedes.
LEMMA Genesis ==
    ASSUME LogSeq
    PROVE  /\ genesis_prefix \in 0 .. Len(log)
           /\ \A p \in 1 .. Len(log) :
                p <= genesis_prefix <=> \A q \in 1 .. p : log[q].kind = "issuance"
           /\ declares_supply <=> (Len(log) > 0 /\ log[1].kind = "issuance")
  <1> DEFINE S == {n \in 0 .. Len(log) : \A p \in 1 .. n : log[p].kind = "issuance"}
  <1>1. Len(log) \in Nat
    BY LogLength
  <1>2. S \subseteq Nat /\ 0 \in S /\ \A s \in S : s <= Len(log)
    BY <1>1
  <1>3. genesis_prefix \in S /\ \A s \in S : s <= genesis_prefix
    <2> HIDE DEF S
    <2>1. Max(S) \in S /\ \A s \in S : s <= Max(S)
      BY <1>1, <1>2, MaxOf
    <2> QED BY <2>1 DEF genesis_prefix, S
  <1>4. ASSUME NEW p \in 1 .. Len(log)
        PROVE  p <= genesis_prefix <=> \A q \in 1 .. p : log[q].kind = "issuance"
    BY <1>1, <1>3
  <1>5. declares_supply <=> (Len(log) > 0 /\ log[1].kind = "issuance")
    <2>1. CASE Len(log) = 0
      BY <1>1, <1>3, <2>1 DEF declares_supply
    <2>2. CASE Len(log) > 0
      <3>1. 1 \in 1 .. Len(log) /\ 1 .. 1 = {1} /\ genesis_prefix \in Nat
        BY <1>1, <1>3, <2>2
      <3>2. 1 <= genesis_prefix <=> \A q \in 1 .. 1 : log[q].kind = "issuance"
        BY <1>4, <3>1
      <3> QED BY <2>2, <3>1, <3>2 DEF declares_supply
    <2> QED BY <1>1, <2>1, <2>2
  <1> QED BY <1>1, <1>3, <1>4, <1>5

\* The issuances that count among the first n entries.
countedIssuances(i, n) ==
    {p \in 1 .. n : log[p].holder = i /\ \A q \in 1 .. p : log[q].kind = "issuance"}

LEMMA Issued ==
    ASSUME LogSeq, NEW i, NEW n \in Nat, n <= Len(log)
    PROVE  issued_within(i, n) =
                SumFunction([p \in countedIssuances(i, n) |-> log[p].units])
  <1>1. Len(log) \in Nat /\ genesis_prefix \in Nat /\ genesis_prefix <= Len(log)
    BY Genesis, LogLength
  <1>2. Min({n, genesis_prefix}) = IF n <= genesis_prefix THEN n ELSE genesis_prefix
    BY <1>1, MinOfTwo
  <1>3. {p \in 1 .. Min({n, genesis_prefix}) : log[p].holder = i}
            = countedIssuances(i, n)
    BY <1>1, <1>2, Genesis DEF countedIssuances
  <1> QED BY <1>3 DEF issued_within, sum

IssuedIsCounted ==
    \A i : \A n \in Nat : n <= Len(log) =>
        issued_within(i, n) =
            SumFunction([p \in countedIssuances(i, n) |-> log[p].units])

LEMMA IssuedCount == LogSeq => IssuedIsCounted
  BY Issued DEF IssuedIsCounted

LEMMA IssuedCountNext == LogSeq' => IssuedIsCounted'
  BY IssuedCount, PTL

LEMMA KeptIssued ==
    ASSUME LogSeq, LogSeq', NEW n, NEW i, Kept(n)
    PROVE  issued_within(i, n)' = issued_within(i, n)
  <1>1. countedIssuances(i, n)' = countedIssuances(i, n)
        /\ \A p \in countedIssuances(i, n) : log'[p] = log[p]
    BY DEF countedIssuances, Kept
  <1>2. issued_within(i, n) =
                SumFunction([p \in countedIssuances(i, n) |-> log[p].units])
    BY IssuedCount DEF Kept, IssuedIsCounted
  <1>3. issued_within(i, n)' =
                SumFunction([p \in countedIssuances(i, n)' |-> log'[p].units])
    BY IssuedCountNext DEF Kept, IssuedIsCounted
  <1>4. [p \in countedIssuances(i, n)' |-> log'[p].units]
            = [p \in countedIssuances(i, n) |-> log[p].units]
    BY <1>1
  <1> QED BY <1>2, <1>3, <1>4

\* What an identity holds at a position is settled once the log is past it.
LEMMA KeptMoney ==
    ASSUME LogSeq, LogSeq', NEW n, NEW i, Kept(n)
    PROVE  /\ gross_paid_within(i, n)' = gross_paid_within(i, n)
           /\ committed_within(i, n)' = committed_within(i, n)
           /\ spendable_within(i, n)' = spendable_within(i, n)
  <1>1. gross_paid_within(i, n)' = gross_paid_within(i, n)
    BY KeptIssued, KeptWon, KeptCaught, KeptSettled, KeptServed
       DEF gross_paid_within
  <1>2. committed_within(i, n)' = committed_within(i, n)
    BY KeptLocked, KeptRewards, KeptPools, KeptChallengeBonds, KeptLost,
       KeptAttestationBonds, KeptSlashed DEF committed_within, charged_within
  <1> QED BY <1>1, <1>2 DEF spendable_within, balances_within

-----------------------------------------------------------------------------
(* Well-formed logs, and what one more entry does to each sum. *)

\* What the rules ask of entry p and of the entries it refers to.
EntryOK(p) ==
    /\ log[p].ts \in Nat
    /\ log[p].kind = "issuance" => log[p].holder \in Identities /\ log[p].units \in Nat
    /\ log[p].kind = "objective" => log[p].objective \in Objectives
    /\ log[p].kind = "settlement" => log[p].claim \in Claims /\ log[p].reward \in Nat
    /\ log[p].kind = "batch" => log[p].epoch \in Epochs
    /\ log[p].kind = "availability_pool" => log[p].pool \in Pools
    /\ log[p].kind = "undertaking" =>
            log[p].identity \in Identities /\ log[p].bond \in Nat
    /\ log[p].kind = "availability_settlement" =>
            \A i \in DOMAIN log[p].paid : log[p].paid[i] \in Nat
    /\ log[p].kind = "attestation" => log[p].attestor \in Identities
    /\ log[p].kind = "verification_slash" =>
            /\ log[p].attestation \in entries("attestation", p - 1)
            /\ log[p].attestor = log[log[p].attestation].attestor
            /\ log[p].units = VerificationBond
            /\ ~slashed(log[p].attestation, p - 1)
            /\ attestation_window_open(log[p].attestation, settled_epoch_within(p - 1))
    /\ log[p].kind = "challenge" =>
            /\ log[p].claim \in Claims /\ log[p].challenger \in Identities
            /\ log[p].bond \in Nat
    /\ log[p].kind = "challenge_settlement" =>
            /\ log[p].challenge \in entries("challenge", p - 1)
            /\ \A q \in entries("challenge_settlement", p - 1) :
                    log[q].challenge # log[p].challenge
            /\ log[p].units \in Nat

LogOK == LogSeq /\ \A p \in 1 .. Len(log) : EntryOK(p)

LEMMA NextEntries ==
    ASSUME NEW n \in Nat, NEW k
    PROVE  /\ IsFiniteSet(entries(k, n))
           /\ n + 1 \notin entries(k, n)
           /\ entries(k, n) \subseteq entries(k, n + 1)
           /\ entries(k, n) \subseteq 1 .. n
           /\ \A p \in entries(k, n + 1) : p \in entries(k, n) \/ p = n + 1
           /\ entries(k, n + 1) = IF log[n + 1].kind = k
                                  THEN entries(k, n) \cup {n + 1} ELSE entries(k, n)
  <1>1. IsFiniteSet(1 .. n) /\ entries(k, n) \in SUBSET (1 .. n)
    BY FS_Interval DEF entries
  <1>2. 1 .. n + 1 = (1 .. n) \cup {n + 1} /\ n + 1 \notin 1 .. n
    OBVIOUS
  <1>3. IsFiniteSet(entries(k, n))
    BY <1>1, FS_Subset
  <1> QED BY <1>1, <1>2, <1>3 DEF entries

\* The sum of the values v over a set of entries, grown by the next one.
LEMMA NextSum ==
    ASSUME NEW S, IsFiniteSet(S), NEW x, x \notin S,
           NEW T, S \subseteq T, T \subseteq S \cup {x}, NEW v \in [T -> Nat]
    PROVE  /\ SumFunction([p \in S |-> v[p]]) \in Nat
           /\ SumFunction(v) = SumFunction([p \in S |-> v[p]])
                                + IF x \in T THEN v[x] ELSE 0
  <1> DEFINE f == [p \in S |-> v[p]]
  <1>1. f \in [S -> Nat]
    OBVIOUS
  <1>2. SumFunction(f) \in Nat
    BY <1>1, SumNat
  <1>3. CASE T = S \cup {x}
    <2>1. /\ v \in [S \cup {x} -> Nat] /\ v[x] \in Nat /\ x \in T
          /\ \A s \in S : v[s] = f[s]
      BY <1>3
    <2>2. SumFunction(v) = SumFunction(f) + v[x]
      <3> HIDE DEF f
      <3> QED BY <1>1, <2>1, SumAdds
    <2> QED BY <1>2, <2>1, <2>2
  <1>4. CASE T = S
    <2>1. v = f /\ x \notin T
      BY <1>4
    <2>2. SumFunction(v) = SumFunction(f)
      BY <2>1
    <2> QED BY <1>2, <2>1, <2>2
  <1>5. T = S \/ T = S \cup {x}
    OBVIOUS
  <1> QED BY <1>3, <1>4, <1>5

LEMMA NextSettled ==
    ASSUME LogOK, NEW n \in Nat, n < Len(log), NEW i
    PROVE  /\ settled_within(i, n) \in Nat
           /\ settled_within(i, n + 1) = settled_within(i, n) +
                IF log[n + 1].kind = "settlement" /\ Claim[log[n + 1].claim].submitter = i
                THEN log[n + 1].reward ELSE 0
  <1> DEFINE S == {p \in entries("settlement", n) : Claim[log[p].claim].submitter = i}
             T == {p \in entries("settlement", n + 1) : Claim[log[p].claim].submitter = i}
             v == [p \in T |-> log[p].reward]
  <1>1. Len(log) \in Nat /\ \A p \in entries("settlement", n + 1) : p \in 1 .. Len(log)
    BY LogLength DEF entries, LogOK
  <1>2. v \in [T -> Nat]
    <2>1. \A p \in entries("settlement", n + 1) : EntryOK(p) /\ log[p].kind = "settlement"
      BY <1>1 DEF LogOK, entries
    <2>2. \A p \in T : log[p].reward \in Nat
      BY <2>1 DEF EntryOK
    <2> QED BY <2>2
  <1>3. IsFiniteSet(S) /\ n + 1 \notin S
    BY NextEntries, FS_Subset
  <1>4. S \subseteq T /\ T \subseteq S \cup {n + 1}
    <2>1. /\ entries("settlement", n) \subseteq entries("settlement", n + 1)
          /\ \A p \in entries("settlement", n + 1) : p \in entries("settlement", n) \/ p = n + 1
      BY NextEntries
    <2> QED BY <2>1
  <1>8. n + 1 \in T <=> (log[n + 1].kind = "settlement" /\ Claim[log[n + 1].claim].submitter = i)
    <2>1. n + 1 \in entries("settlement", n + 1) <=> log[n + 1].kind = "settlement"
      BY DEF entries
    <2> QED BY <2>1
  <1>5. /\ [p \in S |-> log[p].reward] = [p \in S |-> v[p]]
        /\ n + 1 \in T => v[n + 1] = log[n + 1].reward
    BY <1>4
  <1>6. /\ SumFunction([p \in S |-> v[p]]) \in Nat
        /\ SumFunction(v) = SumFunction([p \in S |-> v[p]])
                                + IF n + 1 \in T THEN v[n + 1] ELSE 0
    <2> HIDE DEF S, T, v
    <2> QED BY <1>2, <1>3, <1>4, NextSum
  <1>7. settled_within(i, n) = SumFunction([p \in S |-> v[p]])
        /\ settled_within(i, n + 1) = SumFunction(v)
    BY <1>5 DEF settled_within, sum
  <1> HIDE DEF S, T, v
  <1> QED BY <1>5, <1>6, <1>7, <1>8

LEMMA NextServed ==
    ASSUME LogOK, NEW n \in Nat, n < Len(log), NEW i
    PROVE  /\ served_within(i, n) \in Nat
           /\ served_within(i, n + 1) = served_within(i, n) +
                IF log[n + 1].kind = "availability_settlement" /\ i \in DOMAIN log[n + 1].paid
                THEN log[n + 1].paid[i] ELSE 0
  <1> DEFINE S == {p \in entries("availability_settlement", n) : i \in DOMAIN log[p].paid}
             T == {p \in entries("availability_settlement", n + 1) : i \in DOMAIN log[p].paid}
             v == [p \in T |-> log[p].paid[i]]
  <1>1. Len(log) \in Nat /\ \A p \in entries("availability_settlement", n + 1) : p \in 1 .. Len(log)
    BY LogLength DEF entries, LogOK
  <1>2. v \in [T -> Nat]
    <2>1. \A p \in entries("availability_settlement", n + 1) : EntryOK(p) /\ log[p].kind = "availability_settlement"
      BY <1>1 DEF LogOK, entries
    <2>2. \A p \in T : log[p].paid[i] \in Nat
      BY <2>1 DEF EntryOK
    <2> QED BY <2>2
  <1>3. IsFiniteSet(S) /\ n + 1 \notin S
    BY NextEntries, FS_Subset
  <1>4. S \subseteq T /\ T \subseteq S \cup {n + 1}
    <2>1. /\ entries("availability_settlement", n) \subseteq entries("availability_settlement", n + 1)
          /\ \A p \in entries("availability_settlement", n + 1) : p \in entries("availability_settlement", n) \/ p = n + 1
      BY NextEntries
    <2> QED BY <2>1
  <1>8. n + 1 \in T <=> (log[n + 1].kind = "availability_settlement" /\ i \in DOMAIN log[n + 1].paid)
    <2>1. n + 1 \in entries("availability_settlement", n + 1) <=> log[n + 1].kind = "availability_settlement"
      BY DEF entries
    <2> QED BY <2>1
  <1>5. /\ [p \in S |-> log[p].paid[i]] = [p \in S |-> v[p]]
        /\ n + 1 \in T => v[n + 1] = log[n + 1].paid[i]
    BY <1>4
  <1>6. /\ SumFunction([p \in S |-> v[p]]) \in Nat
        /\ SumFunction(v) = SumFunction([p \in S |-> v[p]])
                                + IF n + 1 \in T THEN v[n + 1] ELSE 0
    <2> HIDE DEF S, T, v
    <2> QED BY <1>2, <1>3, <1>4, NextSum
  <1>7. served_within(i, n) = SumFunction([p \in S |-> v[p]])
        /\ served_within(i, n + 1) = SumFunction(v)
    BY <1>5 DEF served_within, sum
  <1> HIDE DEF S, T, v
  <1> QED BY <1>5, <1>6, <1>7, <1>8

LEMMA NextWon ==
    ASSUME LogOK, NEW n \in Nat, n < Len(log), NEW i
    PROVE  /\ challenge_won(i, n) \in Nat
           /\ challenge_won(i, n + 1) = challenge_won(i, n) +
                IF log[n + 1].kind = "challenge_settlement" /\ log[n + 1].winner = i
                THEN log[n + 1].units ELSE 0
  <1> DEFINE S == {p \in entries("challenge_settlement", n) : log[p].winner = i}
             T == {p \in entries("challenge_settlement", n + 1) : log[p].winner = i}
             v == [p \in T |-> log[p].units]
  <1>1. Len(log) \in Nat /\ \A p \in entries("challenge_settlement", n + 1) : p \in 1 .. Len(log)
    BY LogLength DEF entries, LogOK
  <1>2. v \in [T -> Nat]
    <2>1. \A p \in entries("challenge_settlement", n + 1) : EntryOK(p) /\ log[p].kind = "challenge_settlement"
      BY <1>1 DEF LogOK, entries
    <2>2. \A p \in T : log[p].units \in Nat
      BY <2>1 DEF EntryOK
    <2> QED BY <2>2
  <1>3. IsFiniteSet(S) /\ n + 1 \notin S
    BY NextEntries, FS_Subset
  <1>4. S \subseteq T /\ T \subseteq S \cup {n + 1}
    <2>1. /\ entries("challenge_settlement", n) \subseteq entries("challenge_settlement", n + 1)
          /\ \A p \in entries("challenge_settlement", n + 1) : p \in entries("challenge_settlement", n) \/ p = n + 1
      BY NextEntries
    <2> QED BY <2>1
  <1>8. n + 1 \in T <=> (log[n + 1].kind = "challenge_settlement" /\ log[n + 1].winner = i)
    <2>1. n + 1 \in entries("challenge_settlement", n + 1) <=> log[n + 1].kind = "challenge_settlement"
      BY DEF entries
    <2> QED BY <2>1
  <1>5. /\ [p \in S |-> log[p].units] = [p \in S |-> v[p]]
        /\ n + 1 \in T => v[n + 1] = log[n + 1].units
    BY <1>4
  <1>6. /\ SumFunction([p \in S |-> v[p]]) \in Nat
        /\ SumFunction(v) = SumFunction([p \in S |-> v[p]])
                                + IF n + 1 \in T THEN v[n + 1] ELSE 0
    <2> HIDE DEF S, T, v
    <2> QED BY <1>2, <1>3, <1>4, NextSum
  <1>7. challenge_won(i, n) = SumFunction([p \in S |-> v[p]])
        /\ challenge_won(i, n + 1) = SumFunction(v)
    BY <1>5 DEF challenge_won, sum
  <1> HIDE DEF S, T, v
  <1> QED BY <1>5, <1>6, <1>7, <1>8

LEMMA NextLost ==
    ASSUME LogOK, NEW n \in Nat, n < Len(log), NEW i
    PROVE  /\ challenge_lost(i, n) \in Nat
           /\ challenge_lost(i, n + 1) = challenge_lost(i, n) +
                IF log[n + 1].kind = "challenge_settlement" /\ log[n + 1].loser = i
                THEN log[n + 1].units ELSE 0
  <1> DEFINE S == {p \in entries("challenge_settlement", n) : log[p].loser = i}
             T == {p \in entries("challenge_settlement", n + 1) : log[p].loser = i}
             v == [p \in T |-> log[p].units]
  <1>1. Len(log) \in Nat /\ \A p \in entries("challenge_settlement", n + 1) : p \in 1 .. Len(log)
    BY LogLength DEF entries, LogOK
  <1>2. v \in [T -> Nat]
    <2>1. \A p \in entries("challenge_settlement", n + 1) : EntryOK(p) /\ log[p].kind = "challenge_settlement"
      BY <1>1 DEF LogOK, entries
    <2>2. \A p \in T : log[p].units \in Nat
      BY <2>1 DEF EntryOK
    <2> QED BY <2>2
  <1>3. IsFiniteSet(S) /\ n + 1 \notin S
    BY NextEntries, FS_Subset
  <1>4. S \subseteq T /\ T \subseteq S \cup {n + 1}
    <2>1. /\ entries("challenge_settlement", n) \subseteq entries("challenge_settlement", n + 1)
          /\ \A p \in entries("challenge_settlement", n + 1) : p \in entries("challenge_settlement", n) \/ p = n + 1
      BY NextEntries
    <2> QED BY <2>1
  <1>8. n + 1 \in T <=> (log[n + 1].kind = "challenge_settlement" /\ log[n + 1].loser = i)
    <2>1. n + 1 \in entries("challenge_settlement", n + 1) <=> log[n + 1].kind = "challenge_settlement"
      BY DEF entries
    <2> QED BY <2>1
  <1>5. /\ [p \in S |-> log[p].units] = [p \in S |-> v[p]]
        /\ n + 1 \in T => v[n + 1] = log[n + 1].units
    BY <1>4
  <1>6. /\ SumFunction([p \in S |-> v[p]]) \in Nat
        /\ SumFunction(v) = SumFunction([p \in S |-> v[p]])
                                + IF n + 1 \in T THEN v[n + 1] ELSE 0
    <2> HIDE DEF S, T, v
    <2> QED BY <1>2, <1>3, <1>4, NextSum
  <1>7. challenge_lost(i, n) = SumFunction([p \in S |-> v[p]])
        /\ challenge_lost(i, n + 1) = SumFunction(v)
    BY <1>5 DEF challenge_lost, sum
  <1> HIDE DEF S, T, v
  <1> QED BY <1>5, <1>6, <1>7, <1>8

LEMMA NextCaught ==
    ASSUME LogOK, NEW n \in Nat, n < Len(log), NEW i
    PROVE  /\ caught_within(i, n) \in Nat
           /\ caught_within(i, n + 1) = caught_within(i, n) +
                IF log[n + 1].kind = "verification_slash" /\ log[n + 1].catcher = i
                THEN log[n + 1].units ELSE 0
  <1> DEFINE S == {p \in entries("verification_slash", n) : log[p].catcher = i}
             T == {p \in entries("verification_slash", n + 1) : log[p].catcher = i}
             v == [p \in T |-> log[p].units]
  <1>1. Len(log) \in Nat /\ \A p \in entries("verification_slash", n + 1) : p \in 1 .. Len(log)
    BY LogLength DEF entries, LogOK
  <1>2. v \in [T -> Nat]
    <2>1. \A p \in entries("verification_slash", n + 1) : EntryOK(p) /\ log[p].kind = "verification_slash"
      BY <1>1 DEF LogOK, entries
    <2>2. \A p \in T : log[p].units \in Nat
      BY <2>1, EconomyAssumption DEF EntryOK
    <2> QED BY <2>2
  <1>3. IsFiniteSet(S) /\ n + 1 \notin S
    BY NextEntries, FS_Subset
  <1>4. S \subseteq T /\ T \subseteq S \cup {n + 1}
    <2>1. /\ entries("verification_slash", n) \subseteq entries("verification_slash", n + 1)
          /\ \A p \in entries("verification_slash", n + 1) : p \in entries("verification_slash", n) \/ p = n + 1
      BY NextEntries
    <2> QED BY <2>1
  <1>8. n + 1 \in T <=> (log[n + 1].kind = "verification_slash" /\ log[n + 1].catcher = i)
    <2>1. n + 1 \in entries("verification_slash", n + 1) <=> log[n + 1].kind = "verification_slash"
      BY DEF entries
    <2> QED BY <2>1
  <1>5. /\ [p \in S |-> log[p].units] = [p \in S |-> v[p]]
        /\ n + 1 \in T => v[n + 1] = log[n + 1].units
    BY <1>4
  <1>6. /\ SumFunction([p \in S |-> v[p]]) \in Nat
        /\ SumFunction(v) = SumFunction([p \in S |-> v[p]])
                                + IF n + 1 \in T THEN v[n + 1] ELSE 0
    <2> HIDE DEF S, T, v
    <2> QED BY <1>2, <1>3, <1>4, NextSum
  <1>7. caught_within(i, n) = SumFunction([p \in S |-> v[p]])
        /\ caught_within(i, n + 1) = SumFunction(v)
    BY <1>5 DEF caught_within, sum
  <1> HIDE DEF S, T, v
  <1> QED BY <1>5, <1>6, <1>7, <1>8

LEMMA NextSlashed ==
    ASSUME LogOK, NEW n \in Nat, n < Len(log), NEW i
    PROVE  /\ slashed_within(i, n) \in Nat
           /\ slashed_within(i, n + 1) = slashed_within(i, n) +
                IF log[n + 1].kind = "verification_slash" /\ log[n + 1].attestor = i
                THEN log[n + 1].units ELSE 0
  <1> DEFINE S == {p \in entries("verification_slash", n) : log[p].attestor = i}
             T == {p \in entries("verification_slash", n + 1) : log[p].attestor = i}
             v == [p \in T |-> log[p].units]
  <1>1. Len(log) \in Nat /\ \A p \in entries("verification_slash", n + 1) : p \in 1 .. Len(log)
    BY LogLength DEF entries, LogOK
  <1>2. v \in [T -> Nat]
    <2>1. \A p \in entries("verification_slash", n + 1) : EntryOK(p) /\ log[p].kind = "verification_slash"
      BY <1>1 DEF LogOK, entries
    <2>2. \A p \in T : log[p].units \in Nat
      BY <2>1, EconomyAssumption DEF EntryOK
    <2> QED BY <2>2
  <1>3. IsFiniteSet(S) /\ n + 1 \notin S
    BY NextEntries, FS_Subset
  <1>4. S \subseteq T /\ T \subseteq S \cup {n + 1}
    <2>1. /\ entries("verification_slash", n) \subseteq entries("verification_slash", n + 1)
          /\ \A p \in entries("verification_slash", n + 1) : p \in entries("verification_slash", n) \/ p = n + 1
      BY NextEntries
    <2> QED BY <2>1
  <1>8. n + 1 \in T <=> (log[n + 1].kind = "verification_slash" /\ log[n + 1].attestor = i)
    <2>1. n + 1 \in entries("verification_slash", n + 1) <=> log[n + 1].kind = "verification_slash"
      BY DEF entries
    <2> QED BY <2>1
  <1>5. /\ [p \in S |-> log[p].units] = [p \in S |-> v[p]]
        /\ n + 1 \in T => v[n + 1] = log[n + 1].units
    BY <1>4
  <1>6. /\ SumFunction([p \in S |-> v[p]]) \in Nat
        /\ SumFunction(v) = SumFunction([p \in S |-> v[p]])
                                + IF n + 1 \in T THEN v[n + 1] ELSE 0
    <2> HIDE DEF S, T, v
    <2> QED BY <1>2, <1>3, <1>4, NextSum
  <1>7. slashed_within(i, n) = SumFunction([p \in S |-> v[p]])
        /\ slashed_within(i, n + 1) = SumFunction(v)
    BY <1>5 DEF slashed_within, sum
  <1> HIDE DEF S, T, v
  <1> QED BY <1>5, <1>6, <1>7, <1>8

LEMMA NextLocked ==
    ASSUME LogOK, NEW n \in Nat, n < Len(log), NEW i
    PROVE  /\ locked_within(i, n) \in Nat
           /\ locked_within(i, n + 1) = locked_within(i, n) +
                IF log[n + 1].kind = "undertaking" /\ log[n + 1].identity = i
                THEN log[n + 1].bond ELSE 0
  <1> DEFINE S == {p \in entries("undertaking", n) : log[p].identity = i}
             T == {p \in entries("undertaking", n + 1) : log[p].identity = i}
             v == [p \in T |-> log[p].bond]
  <1>1. Len(log) \in Nat /\ \A p \in entries("undertaking", n + 1) : p \in 1 .. Len(log)
    BY LogLength DEF entries, LogOK
  <1>2. v \in [T -> Nat]
    <2>1. \A p \in entries("undertaking", n + 1) : EntryOK(p) /\ log[p].kind = "undertaking"
      BY <1>1 DEF LogOK, entries
    <2>2. \A p \in T : log[p].bond \in Nat
      BY <2>1 DEF EntryOK
    <2> QED BY <2>2
  <1>3. IsFiniteSet(S) /\ n + 1 \notin S
    BY NextEntries, FS_Subset
  <1>4. S \subseteq T /\ T \subseteq S \cup {n + 1}
    <2>1. /\ entries("undertaking", n) \subseteq entries("undertaking", n + 1)
          /\ \A p \in entries("undertaking", n + 1) : p \in entries("undertaking", n) \/ p = n + 1
      BY NextEntries
    <2> QED BY <2>1
  <1>8. n + 1 \in T <=> (log[n + 1].kind = "undertaking" /\ log[n + 1].identity = i)
    <2>1. n + 1 \in entries("undertaking", n + 1) <=> log[n + 1].kind = "undertaking"
      BY DEF entries
    <2> QED BY <2>1
  <1>5. /\ [p \in S |-> log[p].bond] = [p \in S |-> v[p]]
        /\ n + 1 \in T => v[n + 1] = log[n + 1].bond
    BY <1>4
  <1>6. /\ SumFunction([p \in S |-> v[p]]) \in Nat
        /\ SumFunction(v) = SumFunction([p \in S |-> v[p]])
                                + IF n + 1 \in T THEN v[n + 1] ELSE 0
    <2> HIDE DEF S, T, v
    <2> QED BY <1>2, <1>3, <1>4, NextSum
  <1>7. locked_within(i, n) = SumFunction([p \in S |-> v[p]])
        /\ locked_within(i, n + 1) = SumFunction(v)
    BY <1>5 DEF locked_within, sum
  <1> HIDE DEF S, T, v
  <1> QED BY <1>5, <1>6, <1>7, <1>8

LEMMA CeilingNat ==
    ASSUME NEW a \in Pools
    PROVE  ceiling(a) \in Nat
  <1>1. /\ Pool[a].per_epoch \in Nat /\ Pool[a].to_epoch \in Nat
        /\ Pool[a].from_epoch \in Nat /\ Pool[a].from_epoch <= Pool[a].to_epoch
    BY EconomyAssumption
  <1>2. \A x, y \in Nat : x * y \in Nat
    OBVIOUS
  <1>3. Pool[a].to_epoch - Pool[a].from_epoch + 1 \in Nat
    BY <1>1
  <1> QED BY <1>1, <1>2, <1>3 DEF ceiling

LEMMA NextPools ==
    ASSUME LogOK, NEW n \in Nat, n < Len(log), NEW i
    PROVE  /\ pools_charged(i, n) \in Nat
           /\ pools_charged(i, n + 1) = pools_charged(i, n) +
                IF log[n + 1].kind = "availability_pool" /\ Pool[log[n + 1].pool].funder = i
                THEN ceiling(log[n + 1].pool) ELSE 0
  <1> DEFINE S == {p \in entries("availability_pool", n) : Pool[log[p].pool].funder = i}
             T == {p \in entries("availability_pool", n + 1) : Pool[log[p].pool].funder = i}
             v == [p \in T |-> ceiling(log[p].pool)]
  <1>1. Len(log) \in Nat /\ \A p \in entries("availability_pool", n + 1) : p \in 1 .. Len(log)
    BY LogLength DEF entries, LogOK
  <1>2. v \in [T -> Nat]
    <2>1. \A p \in entries("availability_pool", n + 1) : EntryOK(p) /\ log[p].kind = "availability_pool"
      BY <1>1 DEF LogOK, entries
    <2>2. \A p \in T : ceiling(log[p].pool) \in Nat
      BY <2>1, CeilingNat DEF EntryOK
    <2> QED BY <2>2
  <1>3. IsFiniteSet(S) /\ n + 1 \notin S
    BY NextEntries, FS_Subset
  <1>4. S \subseteq T /\ T \subseteq S \cup {n + 1}
    <2>1. /\ entries("availability_pool", n) \subseteq entries("availability_pool", n + 1)
          /\ \A p \in entries("availability_pool", n + 1) : p \in entries("availability_pool", n) \/ p = n + 1
      BY NextEntries
    <2> QED BY <2>1
  <1>8. n + 1 \in T <=> (log[n + 1].kind = "availability_pool" /\ Pool[log[n + 1].pool].funder = i)
    <2>1. n + 1 \in entries("availability_pool", n + 1) <=> log[n + 1].kind = "availability_pool"
      BY DEF entries
    <2> QED BY <2>1
  <1>5. /\ [p \in S |-> ceiling(log[p].pool)] = [p \in S |-> v[p]]
        /\ n + 1 \in T => v[n + 1] = ceiling(log[n + 1].pool)
    BY <1>4
  <1>6. /\ SumFunction([p \in S |-> v[p]]) \in Nat
        /\ SumFunction(v) = SumFunction([p \in S |-> v[p]])
                                + IF n + 1 \in T THEN v[n + 1] ELSE 0
    <2> HIDE DEF S, T, v
    <2> QED BY <1>2, <1>3, <1>4, NextSum
  <1>7. pools_charged(i, n) = SumFunction([p \in S |-> v[p]])
        /\ pools_charged(i, n + 1) = SumFunction(v)
    BY <1>5 DEF pools_charged, sum
  <1> HIDE DEF S, T, v
  <1> QED BY <1>5, <1>6, <1>7, <1>8

LEMMA NextRewards ==
    ASSUME LogOK, NEW n \in Nat, n < Len(log), NEW i, NEW t
    PROVE  /\ rewards_charged(i, t, n) \in Nat
           /\ rewards_charged(i, t, n + 1) = rewards_charged(i, t, n) +
                IF log[n + 1].kind = "objective" /\ Objective[log[n + 1].objective].funder = i
                   /\ Objective[log[n + 1].objective].tier \in t
                THEN Objective[log[n + 1].objective].reward ELSE 0
  <1> DEFINE funds(p) == Objective[log[p].objective].funder = i
                        /\ Objective[log[p].objective].tier \in t
             S == {p \in entries("objective", n) : funds(p)}
             T == {p \in entries("objective", n + 1) : funds(p)}
             v == [p \in T |-> Objective[log[p].objective].reward]
  <1>1. Len(log) \in Nat /\ \A p \in entries("objective", n + 1) : p \in 1 .. Len(log)
    BY LogLength DEF entries, LogOK
  <1>2. v \in [T -> Nat]
    <2>1. \A p \in entries("objective", n + 1) : EntryOK(p) /\ log[p].kind = "objective"
      BY <1>1 DEF LogOK, entries
    <2>2. \A p \in T : Objective[log[p].objective].reward \in Nat
      BY <2>1, EconomyAssumption DEF EntryOK
    <2> QED BY <2>2
  <1>3. IsFiniteSet(S) /\ n + 1 \notin S
    BY NextEntries, FS_Subset
  <1>4. S \subseteq T /\ T \subseteq S \cup {n + 1}
    <2>1. /\ entries("objective", n) \subseteq entries("objective", n + 1)
          /\ \A p \in entries("objective", n + 1) : p \in entries("objective", n) \/ p = n + 1
      BY NextEntries
    <2> QED BY <2>1
  <1>8. n + 1 \in T <=> (log[n + 1].kind = "objective" /\ funds(n + 1))
    <2>1. n + 1 \in entries("objective", n + 1) <=> log[n + 1].kind = "objective"
      BY DEF entries
    <2> QED BY <2>1
  <1>5. /\ [p \in S |-> Objective[log[p].objective].reward] = [p \in S |-> v[p]]
        /\ n + 1 \in T => v[n + 1] = Objective[log[n + 1].objective].reward
    BY <1>4
  <1>6. /\ SumFunction([p \in S |-> v[p]]) \in Nat
        /\ SumFunction(v) = SumFunction([p \in S |-> v[p]])
                                + IF n + 1 \in T THEN v[n + 1] ELSE 0
    <2> HIDE DEF S, T, v
    <2> QED BY <1>2, <1>3, <1>4, NextSum
  <1>7. rewards_charged(i, t, n) = SumFunction([p \in S |-> v[p]])
        /\ rewards_charged(i, t, n + 1) = SumFunction(v)
    BY <1>5 DEF rewards_charged, sum
  <1> HIDE DEF S, T, v
  <1> QED BY <1>5, <1>6, <1>7, <1>8

\* Issuances only add up.
LEMMA NextIssued ==
    ASSUME LogOK, NEW n \in Nat, n < Len(log), NEW i
    PROVE  /\ issued_within(i, n) \in Nat /\ issued_within(i, n + 1) \in Nat
           /\ issued_within(i, n) <= issued_within(i, n + 1)
  <1> DEFINE S == countedIssuances(i, n)
             T == countedIssuances(i, n + 1)
             f == [p \in S |-> log[p].units]
             g == [p \in T |-> log[p].units]
  <1>1. Len(log) \in Nat /\ n <= Len(log) /\ n + 1 <= Len(log) /\ n + 1 \in Nat
    BY LogLength DEF LogOK
  <1>2. issued_within(i, n) = SumFunction(f) /\ issued_within(i, n + 1) = SumFunction(g)
    BY <1>1, Issued DEF LogOK
  <1>3. S \subseteq T /\ T \in SUBSET (1 .. n + 1) /\ S \in SUBSET (1 .. n + 1)
    BY DEF countedIssuances
  <1>4. IsFiniteSet(T) /\ IsFiniteSet(S)
    <2>1. IsFiniteSet(1 .. n + 1)
      BY <1>1, FS_Interval
    <2> HIDE DEF S, T
    <2> QED BY <1>3, <2>1, FS_Subset
  <1>5. f \in [S -> Nat] /\ g \in [T -> Nat] /\ \A s \in S : f[s] <= g[s]
    <2>1. \A p \in T : p \in 1 .. Len(log) /\ log[p].kind = "issuance"
      BY <1>1 DEF countedIssuances
    <2>2. \A p \in T : log[p].units \in Nat
      BY <2>1 DEF LogOK, EntryOK
    <2> QED BY <1>3, <2>2
  <1> HIDE DEF S, T, f, g
  <1>6. SumFunction(f) \in Nat /\ SumFunction(g) \in Nat
    BY <1>4, <1>5, SumNat
  <1>7. SumFunction(f) <= SumFunction(g)
    BY <1>3, <1>4, <1>5, SumGrows
  <1> QED BY <1>2, <1>6, <1>7

\* The challenges of i whose bonds are live after n entries.
liveChallenges(i, n) ==
    {p \in entries("challenge", n) :
        /\ log[p].challenger = i
        /\ \A q \in entries("challenge_settlement", n) : log[q].challenge # p}

LEMMA NextChallengeBonds ==
    ASSUME LogOK, NEW n \in Nat, n < Len(log), NEW i
    PROVE  /\ challenge_bonds_within(i, n) \in Nat
           /\ challenge_bonds_within(i, n + 1) \in Nat
           /\ log[n + 1].kind = "challenge" =>
                challenge_bonds_within(i, n + 1) = challenge_bonds_within(i, n)
                    + IF log[n + 1].challenger = i THEN log[n + 1].bond ELSE 0
           /\ log[n + 1].kind = "challenge_settlement" =>
                challenge_bonds_within(i, n) = challenge_bonds_within(i, n + 1)
                    + IF log[log[n + 1].challenge].challenger = i
                      THEN log[log[n + 1].challenge].bond ELSE 0
           /\ log[n + 1].kind \notin {"challenge", "challenge_settlement"} =>
                challenge_bonds_within(i, n + 1) = challenge_bonds_within(i, n)
  <1> DEFINE S == liveChallenges(i, n)
             T == liveChallenges(i, n + 1)
             f == [p \in S |-> log[p].bond]
             g == [p \in T |-> log[p].bond]
  <1>1. Len(log) \in Nat /\ n + 1 \in 1 .. Len(log) /\ EntryOK(n + 1)
    BY LogLength DEF LogOK
  <1>2. /\ challenge_bonds_within(i, n) = SumFunction(f)
        /\ challenge_bonds_within(i, n + 1) = SumFunction(g)
    BY DEF challenge_bonds_within, sum, liveChallenges
  <1>3. /\ IsFiniteSet(S) /\ IsFiniteSet(T) /\ n + 1 \notin S
        /\ f \in [S -> Nat] /\ g \in [T -> Nat]
    <2>1. /\ S \in SUBSET entries("challenge", n)
          /\ T \in SUBSET entries("challenge", n + 1)
          /\ entries("challenge", n) \subseteq 1 .. Len(log)
          /\ entries("challenge", n + 1) \subseteq 1 .. Len(log)
      BY <1>1 DEF entries, liveChallenges
    <2>2. IsFiniteSet(entries("challenge", n)) /\ IsFiniteSet(entries("challenge", n + 1))
          /\ n + 1 \notin entries("challenge", n)
      <3>1. n + 1 \in Nat
        OBVIOUS
      <3> QED BY <3>1, NextEntries
    <2>3. \A p \in entries("challenge", n) \cup entries("challenge", n + 1) :
                log[p].bond \in Nat
      BY <2>1 DEF LogOK, EntryOK, entries
    <2> QED BY <2>1, <2>2, <2>3, FS_Subset
  <1>4. SumFunction(f) \in Nat /\ SumFunction(g) \in Nat
    <2> HIDE DEF S, T, f, g
    <2> QED BY <1>3, SumNat
  <1>5. CASE log[n + 1].kind = "challenge"
    <2>1. /\ entries("challenge_settlement", n + 1) = entries("challenge_settlement", n)
          /\ entries("challenge", n + 1) = entries("challenge", n) \cup {n + 1}
      BY <1>5, NextEntries
    <2>2. \A q \in entries("challenge_settlement", n + 1) : log[q].challenge # n + 1
      <3>1. ASSUME NEW q \in entries("challenge_settlement", n + 1)
            PROVE  log[q].challenge # n + 1
        <4>1. q \in 1 .. Len(log) /\ q <= n + 1 /\ EntryOK(q) /\ log[q].kind = "challenge_settlement"
          BY <1>1, <3>1 DEF entries, LogOK
        <4>2. log[q].challenge \in 1 .. q - 1
          BY <4>1 DEF EntryOK, entries
        <4> QED BY <4>1, <4>2
      <3> QED BY <3>1
    <2>3. T = IF log[n + 1].challenger = i THEN S \cup {n + 1} ELSE S
      BY <2>1, <2>2 DEF liveChallenges
    <2>4. S \subseteq T /\ T \subseteq S \cup {n + 1}
          /\ (n + 1 \in T <=> log[n + 1].challenger = i)
          /\ f = [p \in S |-> g[p]]
          /\ (n + 1 \in T => g[n + 1] = log[n + 1].bond)
      BY <1>3, <2>3
    <2>5. SumFunction(g) = SumFunction([p \in S |-> g[p]])
                                + IF n + 1 \in T THEN g[n + 1] ELSE 0
      <3> DEFINE m == n + 1
      <3>1. /\ IsFiniteSet(S) /\ g \in [T -> Nat] /\ m \notin S
            /\ S \subseteq T /\ T \subseteq S \cup {m}
        BY <1>3, <2>4
      <3>2. SumFunction(g) = SumFunction([p \in S |-> g[p]])
                                + IF m \in T THEN g[m] ELSE 0
        <4> HIDE DEF S, T, f, g, m
        <4> QED BY <3>1, NextSum
      <3> QED BY <3>2
    <2> HIDE DEF S, T, f, g
    <2> QED BY <1>2, <1>4, <1>5, <2>4, <2>5
  <1>6. CASE log[n + 1].kind = "challenge_settlement"
    <2> DEFINE c == log[n + 1].challenge
    <2>1. /\ entries("challenge", n + 1) = entries("challenge", n)
          /\ entries("challenge_settlement", n + 1)
                = entries("challenge_settlement", n) \cup {n + 1}
      BY <1>6, NextEntries
    <2>2. /\ c \in entries("challenge", n)
          /\ \A q \in entries("challenge_settlement", n) : log[q].challenge # c
      <3>1. (n + 1) - 1 = n
        OBVIOUS
      <3> QED BY <1>1, <1>6, <3>1 DEF EntryOK
    <2>3. T = S \ {c} /\ (c \in S <=> log[c].challenger = i)
      BY <2>1, <2>2 DEF liveChallenges
    <2>4. /\ T \subseteq S /\ S \subseteq T \cup {c} /\ c \notin T
          /\ g = [p \in T |-> f[p]]
          /\ (c \in S => f[c] = log[c].bond)
      BY <2>3
    <2>5. SumFunction(f) = SumFunction([p \in T |-> f[p]])
                                + IF c \in S THEN f[c] ELSE 0
      <3>1. T \subseteq S /\ S \subseteq T \cup {c} /\ c \notin T
        BY <2>4
      <3> HIDE DEF S, T, f, g, c
      <3> QED BY <1>3, <3>1, NextSum
    <2> HIDE DEF S, T, f, g
    <2> QED BY <1>2, <1>4, <1>6, <2>3, <2>4, <2>5
  <1>7. CASE log[n + 1].kind \notin {"challenge", "challenge_settlement"}
    <2>1. /\ entries("challenge", n + 1) = entries("challenge", n)
          /\ entries("challenge_settlement", n + 1) = entries("challenge_settlement", n)
      BY <1>7, NextEntries
    <2>2. T = S
      BY <2>1 DEF liveChallenges
    <2> QED BY <1>2, <1>4, <1>7, <2>2
  <1> HIDE DEF S, T, f, g
  <1> QED BY <1>2, <1>4, <1>5, <1>6, <1>7

\* The log's own clock only moves forward, and only a BATCH moves it.
LEMMA NextSettledEpoch ==
    ASSUME LogOK, NEW n \in Nat, n < Len(log)
    PROVE  /\ settled_epoch_within(n) \in Nat /\ settled_epoch_within(n + 1) \in Nat
           /\ settled_epoch_within(n) <= settled_epoch_within(n + 1)
           /\ log[n + 1].kind # "batch" =>
                settled_epoch_within(n + 1) = settled_epoch_within(n)
  <1> DEFINE E(m) == {log[p].epoch : p \in entries("batch", m)} \cup {0}
  <1>1. Len(log) \in Nat /\ MaxEpoch \in Nat
    BY LogLength, EconomyAssumption DEF LogOK
  <1>2. ASSUME NEW m \in Nat, m <= Len(log)
        PROVE  Max(E(m)) \in E(m) /\ (\A e \in E(m) : e <= Max(E(m))) /\ E(m) \subseteq Nat
    <2>1. \A p \in entries("batch", m) : log[p].epoch \in Epochs
      BY <1>1, <1>2 DEF entries, LogOK, EntryOK
    <2>2. E(m) \subseteq Nat /\ E(m) # {} /\ \A e \in E(m) : e <= MaxEpoch
      BY <1>1, <2>1 DEF Epochs
    <2> HIDE DEF E
    <2> QED BY <1>1, <2>2, MaxOf
  <1>3. n + 1 \in Nat /\ n + 1 <= Len(log) /\ n <= Len(log)
    BY <1>1
  <1>4. E(n) \subseteq E(n + 1)
    <2>1. entries("batch", n) \subseteq entries("batch", n + 1)
      BY NextEntries
    <2> QED BY <2>1
  <1>5. /\ Max(E(n)) \in Nat /\ Max(E(n + 1)) \in Nat
        /\ Max(E(n)) <= Max(E(n + 1))
    <2> HIDE DEF E
    <2> QED BY <1>2, <1>3, <1>4
  <1>6. log[n + 1].kind # "batch" => E(n + 1) = E(n)
    BY NextEntries
  <1> QED BY <1>5, <1>6 DEF settled_epoch_within

\* The attestations of i whose bonds are live after n entries.
liveAttestations(i, n) ==
    {p \in entries("attestation", n) :
        /\ log[p].attestor = i /\ ~slashed(p, n)
        /\ attestation_window_open(p, settled_epoch_within(n))}

LEMMA BondsOf ==
    ASSUME NEW a \in Nat, NEW b \in Nat
    PROVE  /\ VerificationBond \in Nat
           /\ VerificationBond * a \in Nat
           /\ a <= b => VerificationBond * a <= VerificationBond * b
           /\ VerificationBond * (a + 1) = VerificationBond * a + VerificationBond
  <1>1. VerificationBond \in Nat
    BY EconomyAssumption
  <1>2. \A v, x, y \in Nat : /\ v * x \in Nat
                             /\ x <= y => v * x <= v * y
                             /\ v * (x + 1) = v * x + v
    OBVIOUS
  <1> QED BY <1>1, <1>2

\* An attestation adds a bond, a slash takes one that was live, a BATCH only
\* gives bonds back, and nothing else touches them.
LEMMA NextAttestationBonds ==
    ASSUME LogOK, NEW n \in Nat, n < Len(log), NEW i
    PROVE  /\ attestation_bonds_within(i, n) \in Nat
           /\ attestation_bonds_within(i, n + 1) \in Nat
           /\ log[n + 1].kind = "attestation" =>
                attestation_bonds_within(i, n + 1) <= attestation_bonds_within(i, n)
                    + IF log[n + 1].attestor = i THEN VerificationBond ELSE 0
           /\ log[n + 1].kind = "verification_slash" =>
                attestation_bonds_within(i, n) = attestation_bonds_within(i, n + 1)
                    + IF log[n + 1].attestor = i THEN VerificationBond ELSE 0
           /\ log[n + 1].kind \notin {"attestation", "verification_slash"} =>
                attestation_bonds_within(i, n + 1) <= attestation_bonds_within(i, n)
  <1> DEFINE S == liveAttestations(i, n)
             T == liveAttestations(i, n + 1)
  <1>1. Len(log) \in Nat /\ n + 1 \in 1 .. Len(log) /\ EntryOK(n + 1) /\ n + 1 \in Nat
        /\ (n + 1) - 1 = n
    BY LogLength DEF LogOK
  <1>2. /\ attestation_bonds_within(i, n) = VerificationBond * Cardinality(S)
        /\ attestation_bonds_within(i, n + 1) = VerificationBond * Cardinality(T)
    BY DEF attestation_bonds_within, liveAttestations
  <1>3. /\ IsFiniteSet(S) /\ IsFiniteSet(T) /\ n + 1 \notin S
        /\ Cardinality(S) \in Nat /\ Cardinality(T) \in Nat
    <2>1. S \in SUBSET entries("attestation", n) /\ T \in SUBSET entries("attestation", n + 1)
      BY DEF liveAttestations
    <2>2. /\ IsFiniteSet(entries("attestation", n))
          /\ IsFiniteSet(entries("attestation", n + 1))
          /\ n + 1 \notin entries("attestation", n)
      BY <1>1, NextEntries
    <2> HIDE DEF S, T
    <2> QED BY <2>1, <2>2, FS_Subset, FS_CardinalityType
  <1> DEFINE s == Cardinality(S)
             t == Cardinality(T)
             V == VerificationBond
  <1>4. /\ V \in Nat /\ V * s \in Nat /\ V * t \in Nat
        /\ t <= s => V * t <= V * s
        /\ t <= s + 1 => V * t <= V * s + V
        /\ s = t + 1 => V * s = V * t + V
    <2> HIDE DEF s, t
    <2>1. s \in Nat /\ t \in Nat /\ s + 1 \in Nat
      BY <1>3 DEF s, t
    <2>2. V * (s + 1) = V * s + V /\ V * (t + 1) = V * t + V
      BY <2>1, BondsOf
    <2>3. V \in Nat /\ V * s \in Nat /\ V * t \in Nat /\ (t <= s => V * t <= V * s)
      BY <2>1, BondsOf
    <2>4. t <= s + 1 => V * t <= V * (s + 1)
      BY <2>1, BondsOf
    <2> QED BY <2>2, <2>3, <2>4
  <1>5. /\ settled_epoch_within(n) \in Nat /\ settled_epoch_within(n + 1) \in Nat
        /\ settled_epoch_within(n) <= settled_epoch_within(n + 1)
        /\ log[n + 1].kind # "batch" =>
                settled_epoch_within(n + 1) = settled_epoch_within(n)
    BY NextSettledEpoch
  <1>6. \A p \in entries("attestation", n) :
            attestation_window_open(p, settled_epoch_within(n + 1)) =>
            attestation_window_open(p, settled_epoch_within(n))
    <2>1. \A p \in entries("attestation", n) : log[p].ts \in Nat
      BY <1>1 DEF entries, LogOK, EntryOK
    <2> QED BY <1>5, <2>1, EconomyAssumption DEF attestation_window_open
  <1>7. \A p : slashed(p, n) => slashed(p, n + 1)
    <2>1. entries("verification_slash", n) \subseteq entries("verification_slash", n + 1)
      BY NextEntries
    <2> QED BY <2>1 DEF slashed
  <1>8. T \subseteq S \cup {n + 1}
    <2>1. \A p \in entries("attestation", n + 1) : p \in entries("attestation", n) \/ p = n + 1
      BY NextEntries
    <2> QED BY <1>6, <1>7, <2>1 DEF liveAttestations
  <1>9. /\ T \subseteq S => t <= s
        /\ t <= s + 1
    <2>1. T \subseteq S => t <= s
      BY <1>3, FS_Subset
    <2>2. /\ IsFiniteSet(S \cup {n + 1}) /\ Cardinality(S \cup {n + 1}) = s + 1
      BY <1>3, FS_AddElement
    <2>3. t <= Cardinality(S \cup {n + 1})
      <3> HIDE DEF S, T
      <3> QED BY <1>8, <2>2, FS_Subset
    <2> QED BY <2>1, <2>2, <2>3
  <1>10. CASE log[n + 1].kind = "attestation"
    <2>1. log[n + 1].attestor # i => T \subseteq S
      BY <1>8 DEF liveAttestations
    <2> HIDE DEF S, T
    <2> QED BY <1>2, <1>4, <1>9, <1>10, <2>1
  <1>11. CASE log[n + 1].kind = "verification_slash"
    <2> DEFINE a == log[n + 1].attestation
    <2>1. /\ a \in entries("attestation", n)
          /\ log[n + 1].attestor = log[a].attestor
          /\ ~slashed(a, n)
          /\ attestation_window_open(a, settled_epoch_within(n))
      BY <1>1, <1>11 DEF EntryOK
    <2>2. /\ entries("attestation", n + 1) = entries("attestation", n)
          /\ entries("verification_slash", n + 1)
                = entries("verification_slash", n) \cup {n + 1}
          /\ settled_epoch_within(n + 1) = settled_epoch_within(n)
      BY <1>5, <1>11, NextEntries
    <2>3. \A p : slashed(p, n + 1) <=> (slashed(p, n) \/ p = a)
      BY <2>2 DEF slashed
    <2>4. T = S \ {a} /\ (a \in S <=> log[n + 1].attestor = i)
      BY <2>1, <2>2, <2>3 DEF liveAttestations
    <2>5. t = IF a \in S THEN s - 1 ELSE s
      <3> HIDE DEF S, a
      <3> QED BY <1>3, <2>4, FS_RemoveElement
    <2>6. a \in S => s = t + 1
      BY <1>3, <2>5
    <2> HIDE DEF S, T
    <2>7. CASE log[n + 1].attestor = i
      BY <1>2, <1>4, <1>11, <2>4, <2>6, <2>7
    <2>8. CASE log[n + 1].attestor # i
      <3>1. t = s
        BY <2>4, <2>5, <2>8
      <3> HIDE DEF s, t
      <3> QED BY <1>2, <1>4, <1>11, <2>8, <3>1 DEF s, t
    <2> QED BY <2>7, <2>8
  <1>12. CASE log[n + 1].kind \notin {"attestation", "verification_slash"}
    <2>1. entries("attestation", n + 1) = entries("attestation", n)
      BY <1>12, NextEntries
    <2>2. T \subseteq S
      BY <1>6, <1>7, <2>1 DEF liveAttestations
    <2> HIDE DEF S, T
    <2> QED BY <1>2, <1>4, <1>9, <1>12, <2>2
  <1> HIDE DEF S, T
  <1> QED BY <1>2, <1>4, <1>10, <1>11, <1>12

-----------------------------------------------------------------------------
(* Conservation: what was committed had been issued or paid. *)

\* What the rules ask of the money behind entry p: a reward, a pool, a bond is
\* charged to somebody who could spend it; a lost dispute takes the bond, or
\* what the loser holds.
Afforded(p) ==
    /\ log[p].kind = "objective" =>
            Objective[log[p].objective].reward
                <= spendable_within(Objective[log[p].objective].funder, p - 1)
    /\ log[p].kind = "availability_pool" =>
            ceiling(log[p].pool) <= spendable_within(Pool[log[p].pool].funder, p - 1)
    /\ log[p].kind = "undertaking" =>
            log[p].bond <= spendable_within(log[p].identity, p - 1)
    /\ log[p].kind = "attestation" =>
            VerificationBond <= spendable_within(log[p].attestor, p - 1)
    /\ log[p].kind = "challenge" =>
            log[p].bond <= spendable_within(log[p].challenger, p - 1)
    /\ log[p].kind = "challenge_settlement" =>
            \/ /\ log[p].loser = log[log[p].challenge].challenger
               /\ log[p].units = log[log[p].challenge].bond
            \/ log[p].units <= spendable_within(log[p].loser, p - 1)

AllAfforded == declares_supply => \A p \in 1 .. Len(log) : Afforded(p)

\* Nothing has been committed before the first entry.
LEMMA NothingCommitted ==
    ASSUME NEW i
    PROVE  committed_within(i, 0) = 0
  <1>1. \A k : entries(k, 0) = {}
    BY DEF entries
  <1>2. locked_within(i, 0) = 0
    BY <1>1, SumEmpty DEF locked_within, sum
  <1>3. rewards_charged(i, Kinds, 0) = 0
    BY <1>1, SumEmpty DEF rewards_charged, sum
  <1>4. pools_charged(i, 0) = 0
    BY <1>1, SumEmpty DEF pools_charged, sum
  <1>5. challenge_bonds_within(i, 0) = 0
    BY <1>1, SumEmpty DEF challenge_bonds_within, sum
  <1>6. challenge_lost(i, 0) = 0
    BY <1>1, SumEmpty DEF challenge_lost, sum
  <1>7. slashed_within(i, 0) = 0
    BY <1>1, SumEmpty DEF slashed_within, sum
  <1>8. attestation_bonds_within(i, 0) = 0
    <2> DEFINE S == {p \in entries("attestation", 0) :
                        /\ log[p].attestor = i /\ ~slashed(p, 0)
                        /\ attestation_window_open(p, settled_epoch_within(0))}
    <2>1. S = {}
      BY <1>1
    <2>2. attestation_bonds_within(i, 0) = VerificationBond * Cardinality(S)
      BY DEF attestation_bonds_within
    <2>3. Cardinality(S) = 0
      BY <2>1, FS_EmptySet
    <2>4. VerificationBond \in Nat
      BY EconomyAssumption
    <2> HIDE DEF S
    <2> QED BY <2>2, <2>3, <2>4
  <1> QED BY <1>2, <1>3, <1>4, <1>5, <1>6, <1>7, <1>8
          DEF committed_within, charged_within

\* What came in never goes out again, and a dispute's winner gains its units.
LEMMA NextGross ==
    ASSUME LogOK, NEW n \in Nat, n < Len(log), NEW i
    PROVE  /\ gross_paid_within(i, n) \in Nat /\ gross_paid_within(i, n + 1) \in Nat
           /\ gross_paid_within(i, n) <= gross_paid_within(i, n + 1)
           /\ log[n + 1].kind = "challenge_settlement" /\ log[n + 1].winner = i =>
                gross_paid_within(i, n) + log[n + 1].units
                    <= gross_paid_within(i, n + 1)
  <1>1. Len(log) \in Nat /\ n + 1 \in 1 .. Len(log) /\ EntryOK(n + 1)
    BY LogLength DEF LogOK
  <1>2. /\ log[n + 1].kind = "settlement" => log[n + 1].reward \in Nat
        /\ log[n + 1].kind = "availability_settlement" =>
                \A j \in DOMAIN log[n + 1].paid : log[n + 1].paid[j] \in Nat
        /\ log[n + 1].kind = "challenge_settlement" => log[n + 1].units \in Nat
        /\ log[n + 1].kind = "verification_slash" => log[n + 1].units \in Nat
    BY <1>1, EconomyAssumption DEF EntryOK
  <1> DEFINE is(m) == issued_within(i, m)
             se(m) == settled_within(i, m)
             sv(m) == served_within(i, m)
             wo(m) == challenge_won(i, m)
             ca(m) == caught_within(i, m)
             won == IF log[n + 1].kind = "challenge_settlement" /\ log[n + 1].winner = i
                    THEN log[n + 1].units ELSE 0
  <1>3. is(n) \in Nat /\ is(n + 1) \in Nat /\ is(n) <= is(n + 1)
    <2>1. is(n) \in Nat
      BY NextIssued
    <2>2. is(n + 1) \in Nat
      BY NextIssued
    <2>3. is(n) <= is(n + 1)
      BY NextIssued
    <2> QED BY <2>1, <2>2, <2>3
  <1>4. \E d \in Nat : se(n) \in Nat /\ se(n + 1) = se(n) + d
    <2> DEFINE d == IF log[n + 1].kind = "settlement"
                       /\ Claim[log[n + 1].claim].submitter = i
                    THEN log[n + 1].reward ELSE 0
    <2>1. d \in Nat
      BY <1>2
    <2>2. se(n) \in Nat /\ se(n + 1) = se(n) + d
      BY NextSettled
    <2> QED BY <2>1, <2>2
  <1>5. \E d \in Nat : sv(n) \in Nat /\ sv(n + 1) = sv(n) + d
    <2> DEFINE d == IF log[n + 1].kind = "availability_settlement"
                       /\ i \in DOMAIN log[n + 1].paid
                    THEN log[n + 1].paid[i] ELSE 0
    <2>1. d \in Nat
      BY <1>2
    <2>2. sv(n) \in Nat /\ sv(n + 1) = sv(n) + d
      BY NextServed
    <2> QED BY <2>1, <2>2
  <1>6. won \in Nat /\ wo(n) \in Nat /\ wo(n + 1) = wo(n) + won
    <2>1. won \in Nat
      BY <1>2
    <2>2. wo(n) \in Nat /\ wo(n + 1) = wo(n) + won
      BY NextWon
    <2> QED BY <2>1, <2>2
  <1>7. \E d \in Nat : ca(n) \in Nat /\ ca(n + 1) = ca(n) + d
    <2> DEFINE d == IF log[n + 1].kind = "verification_slash" /\ log[n + 1].catcher = i
                    THEN log[n + 1].units ELSE 0
    <2>1. d \in Nat
      BY <1>2
    <2>2. ca(n) \in Nat /\ ca(n + 1) = ca(n) + d
      BY NextCaught
    <2> QED BY <2>1, <2>2
  <1>8. \A m : gross_paid_within(i, m) = is(m) + wo(m) + ca(m) + se(m) + sv(m)
    BY DEF gross_paid_within
  <1>9. /\ log[n + 1].kind = "challenge_settlement" /\ log[n + 1].winner = i =>
                won = log[n + 1].units
    OBVIOUS
  <1> HIDE DEF is, se, sv, wo, ca, won
  <1>11. PICK ds \in Nat : se(n) \in Nat /\ se(n + 1) = se(n) + ds
    BY <1>4
  <1>12. PICK dv \in Nat : sv(n) \in Nat /\ sv(n + 1) = sv(n) + dv
    BY <1>5
  <1>13. PICK dc \in Nat : ca(n) \in Nat /\ ca(n + 1) = ca(n) + dc
    BY <1>7
  <1>14. gross_paid_within(i, n) = is(n) + wo(n) + ca(n) + se(n) + sv(n)
    BY <1>8
  <1>15. gross_paid_within(i, n + 1)
            = is(n + 1) + (wo(n) + won) + (ca(n) + dc) + (se(n) + ds) + (sv(n) + dv)
    BY <1>6, <1>8, <1>11, <1>12, <1>13
  <1>10. /\ gross_paid_within(i, n) \in Nat /\ gross_paid_within(i, n + 1) \in Nat
         /\ gross_paid_within(i, n) <= gross_paid_within(i, n + 1)
         /\ gross_paid_within(i, n) + won <= gross_paid_within(i, n + 1)
    <2> DEFINE g1 == is(n) + wo(n) + ca(n) + se(n) + sv(n)
               g2 == is(n + 1) + (wo(n) + won) + (ca(n) + dc) + (se(n) + ds) + (sv(n) + dv)
    <2>1. /\ is(n) \in Nat /\ is(n + 1) \in Nat /\ is(n) <= is(n + 1) /\ se(n) \in Nat
          /\ sv(n) \in Nat /\ wo(n) \in Nat /\ ca(n) \in Nat /\ won \in Nat
      BY <1>3, <1>6, <1>11, <1>12, <1>13
    <2>3. gross_paid_within(i, n) = g1 /\ gross_paid_within(i, n + 1) = g2
      BY <1>14, <1>15
    <2>4. PICK a1 \in Nat, a2 \in Nat, w \in Nat, c \in Nat, s \in Nat, v \in Nat, dw \in Nat :
            /\ a1 = is(n) /\ a2 = is(n + 1) /\ w = wo(n) /\ c = ca(n) /\ s = se(n)
            /\ v = sv(n) /\ dw = won
      BY <2>1
    <2>5. /\ g1 = a1 + w + c + s + v
          /\ g2 = a2 + (w + dw) + (c + dc) + (s + ds) + (v + dv)
          /\ won = dw
      BY <2>4
    <2>6. a1 <= a2
      BY <2>1, <2>4
    <2> HIDE DEF g1, g2
    <2>2. /\ g1 \in Nat /\ g2 \in Nat /\ g1 <= g2 /\ g1 + won <= g2
      BY <2>5, <2>6
    <2> QED BY <2>2, <2>3
  <1> QED BY <1>9, <1>10

\* What entry p charges to i, and what a decided challenge gives back.
chargedAt(i, p) ==
    (IF log[p].kind = "undertaking" /\ log[p].identity = i THEN log[p].bond ELSE 0)
    + (IF log[p].kind = "objective" /\ Objective[log[p].objective].funder = i
       THEN Objective[log[p].objective].reward ELSE 0)
    + (IF log[p].kind = "availability_pool" /\ Pool[log[p].pool].funder = i
       THEN ceiling(log[p].pool) ELSE 0)
    + (IF log[p].kind = "challenge" /\ log[p].challenger = i THEN log[p].bond ELSE 0)
    + (IF log[p].kind = "challenge_settlement" /\ log[p].loser = i
       THEN log[p].units ELSE 0)
    + (IF log[p].kind = "attestation" /\ log[p].attestor = i
       THEN VerificationBond ELSE 0)

returnedAt(i, p) ==
    IF log[p].kind = "challenge_settlement" /\ log[log[p].challenge].challenger = i
    THEN log[log[p].challenge].bond ELSE 0

LEMMA NextCommitted ==
    ASSUME LogOK, NEW n \in Nat, n < Len(log), NEW i
    PROVE  /\ committed_within(i, n) \in Nat /\ committed_within(i, n + 1) \in Nat
           /\ chargedAt(i, n + 1) \in Nat /\ returnedAt(i, n + 1) \in Nat
           /\ committed_within(i, n + 1) + returnedAt(i, n + 1)
                <= committed_within(i, n) + chargedAt(i, n + 1)
  <1> DEFINE x == log[n + 1]
             k == log[n + 1].kind
             lo(m) == locked_within(i, m)
             re(m) == rewards_charged(i, Kinds, m)
             po(m) == pools_charged(i, m)
             cb(m) == challenge_bonds_within(i, m)
             cl(m) == challenge_lost(i, m)
             ab(m) == attestation_bonds_within(i, m)
             sl(m) == slashed_within(i, m)
             d1 == IF k = "undertaking" /\ x.identity = i THEN x.bond ELSE 0
             d2 == IF k = "objective" /\ Objective[x.objective].funder = i
                   THEN Objective[x.objective].reward ELSE 0
             d3 == IF k = "availability_pool" /\ Pool[x.pool].funder = i
                   THEN ceiling(x.pool) ELSE 0
             d4 == IF k = "challenge" /\ x.challenger = i THEN x.bond ELSE 0
             d5 == IF k = "challenge_settlement" /\ x.loser = i THEN x.units ELSE 0
             d6 == IF k = "attestation" /\ x.attestor = i THEN VerificationBond ELSE 0
             d7 == IF k = "verification_slash" /\ x.attestor = i
                   THEN VerificationBond ELSE 0
             back == returnedAt(i, n + 1)
  <1>1. Len(log) \in Nat /\ n + 1 \in 1 .. Len(log) /\ EntryOK(n + 1)
    BY LogLength DEF LogOK
  <1>2. /\ k = "undertaking" => x.bond \in Nat
        /\ k = "objective" => /\ Objective[x.objective].reward \in Nat
                              /\ Objective[x.objective].tier \in Kinds
        /\ k = "availability_pool" => ceiling(x.pool) \in Nat
        /\ k = "challenge" => x.bond \in Nat
        /\ k = "challenge_settlement" =>
                x.units \in Nat /\ log[x.challenge].bond \in Nat
        /\ k = "verification_slash" => x.units = VerificationBond
        /\ VerificationBond \in Nat
    <2>1. k = "challenge_settlement" => log[x.challenge].bond \in Nat
      <3> HAVE k = "challenge_settlement"
      <3>1. x.challenge \in 1 .. Len(log) /\ log[x.challenge].kind = "challenge"
        BY <1>1 DEF EntryOK, entries
      <3> QED BY <3>1 DEF LogOK, EntryOK
    <2>2. k = "objective" => /\ Objective[x.objective].reward \in Nat
                             /\ Objective[x.objective].tier \in Kinds
      BY <1>1, EconomyAssumption DEF EntryOK
    <2>3. k = "availability_pool" => ceiling(x.pool) \in Nat
      BY <1>1, CeilingNat DEF EntryOK
    <2> QED BY <1>1, <2>1, <2>2, <2>3, EconomyAssumption DEF EntryOK
  <1>3. /\ d1 \in Nat /\ d2 \in Nat /\ d3 \in Nat /\ d4 \in Nat /\ d5 \in Nat
        /\ d6 \in Nat /\ d7 \in Nat /\ back \in Nat
    BY <1>2 DEF returnedAt
  <1>4. lo(n) \in Nat /\ lo(n + 1) = lo(n) + d1
    BY NextLocked
  <1>5. re(n) \in Nat /\ re(n + 1) = re(n) + d2
    BY <1>2, NextRewards
  <1>6. po(n) \in Nat /\ po(n + 1) = po(n) + d3
    BY NextPools
  <1>7. cl(n) \in Nat /\ cl(n + 1) = cl(n) + d5
    BY NextLost
  <1>8. sl(n) \in Nat /\ sl(n + 1) = sl(n) + d7
    BY <1>2, NextSlashed
  <1>9. cb(n) \in Nat /\ cb(n + 1) \in Nat /\ cb(n + 1) + back = cb(n) + d4
    <2>1. /\ cb(n) \in Nat /\ cb(n + 1) \in Nat
          /\ k = "challenge" => cb(n + 1) = cb(n)
                    + IF x.challenger = i THEN x.bond ELSE 0
          /\ k = "challenge_settlement" => cb(n) = cb(n + 1)
                    + IF log[x.challenge].challenger = i
                      THEN log[x.challenge].bond ELSE 0
          /\ k \notin {"challenge", "challenge_settlement"} => cb(n + 1) = cb(n)
      BY NextChallengeBonds
    <2>2. /\ k = "challenge" => back = 0
          /\ k = "challenge_settlement" => d4 = 0 /\ back =
                IF log[x.challenge].challenger = i THEN log[x.challenge].bond ELSE 0
          /\ k \notin {"challenge", "challenge_settlement"} => d4 = 0 /\ back = 0
      BY DEF returnedAt
    <2>3. k = "challenge" => d4 = IF x.challenger = i THEN x.bond ELSE 0
      OBVIOUS
    <2> HIDE DEF x, k, cb, d4, back
    <2> QED BY <1>3, <2>1, <2>2, <2>3
  <1>10. ab(n) \in Nat /\ ab(n + 1) \in Nat /\ ab(n + 1) + d7 <= ab(n) + d6
    <2>1. /\ ab(n) \in Nat /\ ab(n + 1) \in Nat
          /\ k = "attestation" => ab(n + 1) <= ab(n)
                    + IF x.attestor = i THEN VerificationBond ELSE 0
          /\ k = "verification_slash" => ab(n) = ab(n + 1)
                    + IF x.attestor = i THEN VerificationBond ELSE 0
          /\ k \notin {"attestation", "verification_slash"} => ab(n + 1) <= ab(n)
      BY NextAttestationBonds
    <2>2. /\ k = "attestation" => d7 = 0 /\ d6 =
                IF x.attestor = i THEN VerificationBond ELSE 0
          /\ k = "verification_slash" => d6 = 0 /\ d7 =
                IF x.attestor = i THEN VerificationBond ELSE 0
          /\ k \notin {"attestation", "verification_slash"} => d6 = 0 /\ d7 = 0
      OBVIOUS
    <2> HIDE DEF x, k, ab, d6, d7
    <2> QED BY <1>3, <2>1, <2>2
  <1>11. \A m : committed_within(i, m) =
            lo(m) + (re(m) + po(m)) + cb(m) + cl(m) + ab(m) + sl(m)
    BY DEF committed_within, charged_within
  <1>12. chargedAt(i, n + 1) = d1 + d2 + d3 + d4 + d5 + d6
    BY DEF chargedAt
  <1> HIDE DEF x, k, lo, re, po, cb, cl, ab, sl, d1, d2, d3, d4, d5, d6, d7, back
  <1>13. chargedAt(i, n + 1) \in Nat /\ back \in Nat
    BY <1>3, <1>12
  <1>16. committed_within(i, n) = lo(n) + (re(n) + po(n)) + cb(n) + cl(n) + ab(n) + sl(n)
    BY <1>11
  <1>17. committed_within(i, n + 1) = (lo(n) + d1) + ((re(n) + d2) + (po(n) + d3))
                + cb(n + 1) + (cl(n) + d5) + ab(n + 1) + (sl(n) + d7)
    BY <1>4, <1>5, <1>6, <1>7, <1>8, <1>11
  <1> DEFINE cm(m) == committed_within(i, m)
             ch == chargedAt(i, n + 1)
  <1>18. /\ cm(n) = lo(n) + (re(n) + po(n)) + cb(n) + cl(n) + ab(n) + sl(n)
         /\ cm(n + 1) = (lo(n) + d1) + ((re(n) + d2) + (po(n) + d3))
                + cb(n + 1) + (cl(n) + d5) + ab(n + 1) + (sl(n) + d7)
         /\ ch = d1 + d2 + d3 + d4 + d5 + d6
    BY <1>12, <1>16, <1>17
  <1> HIDE DEF cm, ch
  <1>14. cm(n) \in Nat /\ cm(n + 1) \in Nat /\ cm(n + 1) + back <= cm(n) + ch
    <2> DEFINE c1 == lo(n) + (re(n) + po(n)) + cb(n) + cl(n) + ab(n) + sl(n)
               c2 == (lo(n) + d1) + ((re(n) + d2) + (po(n) + d3))
                        + cb(n + 1) + (cl(n) + d5) + ab(n + 1) + (sl(n) + d7)
               c3 == d1 + d2 + d3 + d4 + d5 + d6
    <2>1. /\ lo(n) \in Nat /\ re(n) \in Nat /\ po(n) \in Nat /\ cl(n) \in Nat
          /\ sl(n) \in Nat /\ cb(n) \in Nat /\ cb(n + 1) \in Nat
          /\ ab(n) \in Nat /\ ab(n + 1) \in Nat
          /\ cb(n + 1) + back = cb(n) + d4 /\ ab(n + 1) + d7 <= ab(n) + d6
      BY <1>4, <1>5, <1>6, <1>7, <1>8, <1>9, <1>10
    <2>3. cm(n) = c1 /\ cm(n + 1) = c2 /\ ch = c3
      BY <1>18
    <2>4. PICK e1 \in Nat, e2 \in Nat, e3 \in Nat, e4 \in Nat, e5 \in Nat,
               e6 \in Nat, e7 \in Nat, e8 \in Nat, e9 \in Nat :
            /\ e1 = lo(n) /\ e2 = re(n) /\ e3 = po(n) /\ e4 = cl(n) /\ e5 = sl(n)
            /\ e6 = cb(n) /\ e7 = cb(n + 1) /\ e8 = ab(n) /\ e9 = ab(n + 1)
      BY <2>1
    <2>5. PICK f1 \in Nat, f2 \in Nat, f3 \in Nat, f4 \in Nat, f5 \in Nat,
               f6 \in Nat, f7 \in Nat, f8 \in Nat :
            /\ f1 = d1 /\ f2 = d2 /\ f3 = d3 /\ f4 = d4 /\ f5 = d5 /\ f6 = d6
            /\ f7 = d7 /\ f8 = back
      BY <1>3
    <2>6. /\ c1 = e1 + (e2 + e3) + e6 + e4 + e8 + e5
          /\ c2 = (e1 + f1) + ((e2 + f2) + (e3 + f3)) + e7 + (e4 + f5) + e9 + (e5 + f7)
          /\ c3 = f1 + f2 + f3 + f4 + f5 + f6
          /\ back = f8
      BY <2>4, <2>5
    <2>7. e7 + f8 = e6 + f4 /\ e9 + f7 <= e8 + f6
      BY <2>1, <2>4, <2>5
    <2> HIDE DEF c1, c2, c3
    <2>2. c1 \in Nat /\ c2 \in Nat /\ c2 + back <= c1 + c3
      BY <2>6, <2>7
    <2> QED BY <2>2, <2>3
  <1> QED BY <1>13, <1>14 DEF back, cm, ch

\* An entry charges what it gives back, or what its author could spend.
LEMMA ChargeIsCovered ==
    ASSUME LogOK, NEW n \in Nat, n < Len(log), NEW i, Afforded(n + 1)
    PROVE  \/ chargedAt(i, n + 1) <= returnedAt(i, n + 1)
           \/ chargedAt(i, n + 1) <= spendable_within(i, n)
           \/ chargedAt(i, n + 1) = 0
  <1> DEFINE x == log[n + 1]
  <1>1. Len(log) \in Nat /\ n + 1 \in 1 .. Len(log) /\ EntryOK(n + 1) /\ n + 1 - 1 = n
    BY LogLength DEF LogOK
  <1>2. CASE x.kind = "undertaking"
    <2>1. chargedAt(i, n + 1) = IF x.identity = i THEN x.bond ELSE 0
      BY <1>1, <1>2 DEF chargedAt, EntryOK
    <2> QED BY <1>1, <1>2, <2>1 DEF Afforded
  <1>3. CASE x.kind = "objective"
    <2>1. Objective[x.objective].reward \in Nat
      BY <1>1, <1>3, EconomyAssumption DEF EntryOK
    <2>2. chargedAt(i, n + 1) = IF Objective[x.objective].funder = i
                                THEN Objective[x.objective].reward ELSE 0
      BY <1>3, <2>1 DEF chargedAt
    <2> QED BY <1>1, <1>3, <2>2 DEF Afforded
  <1>4. CASE x.kind = "availability_pool"
    <2>1. ceiling(x.pool) \in Nat
      BY <1>1, <1>4, CeilingNat DEF EntryOK
    <2>2. chargedAt(i, n + 1) = IF Pool[x.pool].funder = i THEN ceiling(x.pool) ELSE 0
      BY <1>4, <2>1 DEF chargedAt
    <2> QED BY <1>1, <1>4, <2>2 DEF Afforded
  <1>5. CASE x.kind = "challenge"
    <2>1. chargedAt(i, n + 1) = IF x.challenger = i THEN x.bond ELSE 0
      BY <1>1, <1>5 DEF chargedAt, EntryOK
    <2> QED BY <1>1, <1>5, <2>1 DEF Afforded
  <1>6. CASE x.kind = "challenge_settlement"
    <2>1. chargedAt(i, n + 1) = IF x.loser = i THEN x.units ELSE 0
      BY <1>1, <1>6 DEF chargedAt, EntryOK
    <2>2. \/ x.loser = log[x.challenge].challenger /\ x.units = log[x.challenge].bond
          \/ x.units <= spendable_within(x.loser, n)
      BY <1>1, <1>6 DEF Afforded
    <2>3. x.units \in Nat
      BY <1>1, <1>6 DEF EntryOK
    <2> QED BY <1>6, <2>1, <2>2, <2>3 DEF returnedAt
  <1>7. CASE x.kind = "attestation"
    <2>1. chargedAt(i, n + 1) = IF x.attestor = i THEN VerificationBond ELSE 0
      BY <1>7, EconomyAssumption DEF chargedAt
    <2> QED BY <1>1, <1>7, <2>1 DEF Afforded
  <1>8. CASE x.kind \notin {"undertaking", "objective", "availability_pool",
                            "challenge", "challenge_settlement", "attestation"}
    BY <1>8 DEF chargedAt
  <1> QED BY <1>2, <1>3, <1>4, <1>5, <1>6, <1>7, <1>8

\* On a log whose entries could be afforded, nobody owes more than they hold,
\* at any position.
LEMMA Conserved ==
    ASSUME LogOK, \A p \in 1 .. Len(log) : Afforded(p), NEW i
    PROVE  \A n \in 0 .. Len(log) : committed_within(i, n) <= gross_paid_within(i, n)
  <1> DEFINE T == {n \in Nat : n <= Len(log) =>
                        committed_within(i, n) <= gross_paid_within(i, n)}
  <1>1. Len(log) \in Nat
    BY LogLength DEF LogOK
  <1>2. 0 \in T
    <2>1. gross_paid_within(i, 0) \in Nat
      <3>1. CASE Len(log) = 0
        <4>1. /\ issued_within(i, 0) = 0 /\ challenge_won(i, 0) = 0
              /\ caught_within(i, 0) = 0 /\ settled_within(i, 0) = 0
              /\ served_within(i, 0) = 0
          <5>1. \A k : entries(k, 0) = {}
            BY DEF entries
          <5>2. countedIssuances(i, 0) = {}
            BY DEF countedIssuances
          <5>3. issued_within(i, 0) = 0
            <6> DEFINE f == [p \in countedIssuances(i, 0) |-> log[p].units]
            <6>1. issued_within(i, 0) = SumFunction(f)
              BY <1>1, Issued DEF LogOK
            <6>2. DOMAIN f = {}
              BY <5>2
            <6> HIDE DEF f
            <6> QED BY <6>1, <6>2, SumEmpty
          <5> QED BY <5>1, <5>3, SumEmpty
                  DEF challenge_won, caught_within, settled_within, served_within, sum
        <4> QED BY <4>1 DEF gross_paid_within
      <3>2. CASE Len(log) > 0
        BY <1>1, <3>2, NextGross
      <3> QED BY <1>1, <3>1, <3>2
    <2> QED BY <2>1, NothingCommitted
  <1>3. ASSUME NEW n \in T PROVE n + 1 \in T
    <2> SUFFICES ASSUME n + 1 <= Len(log)
                 PROVE  committed_within(i, n + 1) <= gross_paid_within(i, n + 1)
      OBVIOUS
    <2>1. n \in Nat /\ n < Len(log) /\ n + 1 \in 1 .. Len(log)
      BY <1>1
    <2>2. committed_within(i, n) <= gross_paid_within(i, n)
      BY <1>1, <2>1
    <2>3. /\ gross_paid_within(i, n) \in Nat /\ gross_paid_within(i, n + 1) \in Nat
          /\ gross_paid_within(i, n) <= gross_paid_within(i, n + 1)
      BY <2>1, NextGross
    <2>4. /\ committed_within(i, n) \in Nat /\ committed_within(i, n + 1) \in Nat
          /\ chargedAt(i, n + 1) \in Nat /\ returnedAt(i, n + 1) \in Nat
          /\ committed_within(i, n + 1) + returnedAt(i, n + 1)
                <= committed_within(i, n) + chargedAt(i, n + 1)
      BY <2>1, NextCommitted
    <2>5. \/ chargedAt(i, n + 1) <= returnedAt(i, n + 1)
          \/ chargedAt(i, n + 1) <= minus(gross_paid_within(i, n), committed_within(i, n))
          \/ chargedAt(i, n + 1) = 0
      BY <2>1, ChargeIsCovered DEF spendable_within, balances_within
    <2> DEFINE g1 == gross_paid_within(i, n)
               g2 == gross_paid_within(i, n + 1)
               c1 == committed_within(i, n)
               c2 == committed_within(i, n + 1)
               a == chargedAt(i, n + 1)
               b == returnedAt(i, n + 1)
    <2>6. /\ g1 \in Nat /\ g2 \in Nat /\ c1 \in Nat /\ c2 \in Nat /\ a \in Nat /\ b \in Nat
          /\ c1 <= g1 /\ g1 <= g2 /\ c2 + b <= c1 + a
          /\ a <= b \/ a <= minus(g1, c1) \/ a = 0
      BY <2>2, <2>3, <2>4, <2>5
    <2> HIDE DEF g1, g2, c1, c2, a, b
    <2>7. minus(g1, c1) = g1 - c1
      BY <2>6 DEF minus
    <2>8. c2 <= g2
      BY <2>6, <2>7
    <2> QED BY <2>8 DEF c2, g2
  <1> HIDE DEF T
  <1>4. T = Nat
    BY <1>2, <1>3, EveryNatural DEF T
  <1> QED BY <1>1, <1>4 DEF T

-----------------------------------------------------------------------------
(* The shares of an epoch: mul_div_floor is the exact floor. *)

\* A function defined by recursion on 0 .. m exists.
Follows(g, m, v0, next) == g[0] = v0 /\ \A b \in 1 .. m : g[b] = next[b][g[b - 1]]

LEMMA Recursion ==
    ASSUME NEW m \in Nat, NEW V, NEW v0 \in V, NEW next \in [1 .. m -> [V -> V]]
    PROVE  \E g \in [0 .. m -> V] : Follows(g, m, v0, next)
  <1> USE DEF Follows
  <1> DEFINE T == {n \in Nat : n <= m => \E g \in [0 .. n -> V] :
                        g[0] = v0 /\ \A b \in 1 .. n : g[b] = next[b][g[b - 1]]}
  <1>1. 0 \in T
    <2> DEFINE g == [b \in 0 .. 0 |-> v0]
    <2>1. g \in [0 .. 0 -> V] /\ g[0] = v0
            /\ \A b \in 1 .. 0 : g[b] = next[b][g[b - 1]]
      OBVIOUS
    <2> QED BY <2>1
  <1>2. ASSUME NEW n \in T PROVE n + 1 \in T
    <2> SUFFICES ASSUME n + 1 <= m
                 PROVE  \E g \in [0 .. n + 1 -> V] : g[0] = v0 /\
                            \A b \in 1 .. n + 1 : g[b] = next[b][g[b - 1]]
      OBVIOUS
    <2>1. PICK g \in [0 .. n -> V] :
                g[0] = v0 /\ \A b \in 1 .. n : g[b] = next[b][g[b - 1]]
      OBVIOUS
    <2> DEFINE h == [b \in 0 .. n + 1 |-> IF b <= n THEN g[b] ELSE next[n + 1][g[n]]]
    <2>2. n \in Nat /\ n + 1 \in 1 .. m /\ next[n + 1] \in [V -> V] /\ g[n] \in V
      <3>1. n \in Nat /\ n + 1 \in 1 .. m
        OBVIOUS
      <3> QED BY <2>1, <3>1
    <2>3. next[n + 1][g[n]] \in V
      BY <2>2
    <2>4. h \in [0 .. n + 1 -> V]
      BY <2>1, <2>2, <2>3
    <2>5. h[0] = v0
      BY <2>1, <2>2
    <2>6. ASSUME NEW b \in 1 .. n + 1 PROVE h[b] = next[b][h[b - 1]]
      <3>1. CASE b <= n
        BY <2>1, <2>2, <3>1
      <3>2. CASE b = n + 1
        <4>1. b - 1 = n /\ n \in 0 .. n + 1 /\ ~(n + 1 <= n) /\ n <= n
          BY <2>2, <3>2
        <4>2. h[n] = g[n] /\ h[n + 1] = next[n + 1][g[n]]
          BY <2>2, <4>1
        <4> HIDE DEF h
        <4> QED BY <3>2, <4>1, <4>2
      <3> QED BY <2>2, <3>1, <3>2
    <2> HIDE DEF h
    <2> WITNESS h \in [0 .. n + 1 -> V]
    <2> QED BY <2>5, <2>6
  <1>3. T = Nat
    <2> HIDE DEF T
    <2>1. T \subseteq Nat
      BY DEF T
    <2> QED BY <1>1, <1>2, <2>1, EveryNatural
  <1> QED BY <1>3

\* Every bit of the word: halving, over and over.
LEMMA Shifted ==
    ASSUME NEW w \in Nat
    PROVE  /\ shifts(w) \in [0 .. Bits -> Nat] /\ shifts(w)[0] = w
           /\ \A k \in 1 .. Bits : shifts(w)[k] = shifts(w)[k - 1] \div 2
  <1> DEFINE row(s) == [k \in 0 .. Bits |-> IF k = 0 THEN w ELSE s[k - 1] \div 2]
             s == CHOOSE s : s = row(s)
             half == [k \in 1 .. Bits |-> [x \in Nat |-> x \div 2]]
  <1>1. Bits \in Nat
    BY EconomyAssumption
  <1>2. PICK g \in [0 .. Bits -> Nat] : Follows(g, Bits, w, half)
    <2>1. half \in [1 .. Bits -> [Nat -> Nat]]
      OBVIOUS
    <2> HIDE DEF half
    <2> QED BY <1>1, <2>1, Recursion
  <1>3. g = row(g)
    <2>1. ASSUME NEW k \in 0 .. Bits
          PROVE  g[k] = IF k = 0 THEN w ELSE g[k - 1] \div 2
      <3>1. CASE k = 0
        BY <1>2, <3>1 DEF Follows
      <3>2. CASE k # 0
        <4>1. k \in 1 .. Bits /\ k - 1 \in 0 .. Bits
          BY <1>1, <3>2
        <4> QED BY <1>2, <3>2, <4>1 DEF Follows
      <3> QED BY <3>1, <3>2
    <2> QED BY <1>2, <2>1
  <1>4. s = row(s)
    <2> HIDE DEF row
    <2> QED BY <1>3
  <1>5. shifts(w) = s
    BY DEF shifts
  <1> HIDE DEF s
  <1> DEFINE T == {n \in Nat : n <= Bits => s[n] \in Nat}
  <1>6. s[0] = w /\ \A k \in 1 .. Bits : s[k] = s[k - 1] \div 2
    BY <1>1, <1>4
  <1>7. T = Nat
    <2>1. 0 \in T
      BY <1>6
    <2>2. ASSUME NEW n \in T PROVE n + 1 \in T
      BY <1>1, <1>6
    <2>3. T \subseteq Nat
      OBVIOUS
    <2> HIDE DEF T
    <2> QED BY <2>1, <2>2, <2>3, EveryNatural
  <1>8. \A k \in 0 .. Bits : s[k] \in Nat
    BY <1>1, <1>7
  <1>9. s \in [0 .. Bits -> Nat]
    BY <1>4, <1>8
  <1> QED BY <1>5, <1>6, <1>9

\* One round of the division, as in mul_div_floor: double, then add on a bit.
carried(total, q, r) ==
    IF r >= total THEN [q |-> q + 1, r |-> r - total] ELSE [q |-> q, r |-> r]

round(value, weight, total, b, s) ==
    LET d == carried(total, 2 * s.q, 2 * s.r)
        on == shifts(weight)[Bits - b] % 2 = 1
    IN  IF on THEN carried(total, d.q, d.r + (value % total)) ELSE d

Rounds(value, weight, total, f) ==
    [b \in 0 .. Bits |-> IF b = 0 THEN [q |-> 0, r |-> 0]
                         ELSE round(value, weight, total, b, f[b - 1])]

LEMMA FloorUnfold ==
    ASSUME NEW value, NEW weight, NEW total
    PROVE  mul_div_floor(value, weight, total) =
                IF total = 0 THEN 0
                ELSE (value \div total) * weight
                     + (CHOOSE f : f = Rounds(value, weight, total, f))[Bits].q
  BY DEF mul_div_floor, Rounds, round, carried

worth(s, total) == s.q * total + s.r

\* A round keeps the remainder small; a carry moves one total into the quotient.
LEMMA Carried ==
    ASSUME NEW total \in Nat \ {0}, NEW q \in Nat, NEW r \in Nat, r < 2 * total
    PROVE  /\ carried(total, q, r).q \in Nat /\ carried(total, q, r).r \in 0 .. total - 1
           /\ carried(total, q, r) \in [q : Nat, r : 0 .. total - 1]
           /\ carried(total, q, r).q * total + carried(total, q, r).r = q * total + r
  <1>1. CASE r >= total
    <2>1. carried(total, q, r) = [q |-> q + 1, r |-> r - total]
      BY <1>1 DEF carried
    <2>2. q + 1 \in Nat /\ r - total \in 0 .. total - 1
      BY <1>1
    <2>3. (q + 1) * total + (r - total) = q * total + r
      OBVIOUS
    <2> QED BY <2>1, <2>2, <2>3
  <1>2. CASE ~(r >= total)
    <2>1. carried(total, q, r) = [q |-> q, r |-> r]
      BY <1>2 DEF carried
    <2>2. r \in 0 .. total - 1
      BY <1>2
    <2> QED BY <2>1, <2>2
  <1> QED BY <1>1, <1>2

Rounded(value, weight, total, b, s) ==
    /\ round(value, weight, total, b, s) \in [q : Nat, r : 0 .. total - 1]
    /\ worth(round(value, weight, total, b, s), total) = 2 * worth(s, total)
            + (value % total) * (shifts(weight)[Bits - b] % 2)

LEMMA Round ==
    ASSUME NEW value \in Nat, NEW weight \in Nat, NEW total \in Nat \ {0},
           NEW b \in 1 .. Bits, NEW s \in [q : Nat, r : 0 .. total - 1]
    PROVE  Rounded(value, weight, total, b, s)
  <1> DEFINE rem == value % total
             bit == shifts(weight)[Bits - b] % 2
             d == carried(total, 2 * s.q, 2 * s.r)
             t == IF bit = 1 THEN carried(total, d.q, d.r + rem) ELSE d
  <1>1. rem \in Nat /\ rem < total /\ bit \in {0, 1}
    <2>1. Bits - b \in 0 .. Bits
      BY EconomyAssumption
    <2>2. shifts(weight)[Bits - b] \in Nat
      BY <2>1, Shifted
    <2> QED BY <2>2
  <1>2. s.q \in Nat /\ s.r \in Nat /\ s.r < total
    OBVIOUS
  <1>3. 2 * s.q \in Nat /\ 2 * s.r \in Nat /\ 2 * s.r < 2 * total
    BY <1>2
  <1>4. /\ d.q \in Nat /\ d.r \in 0 .. total - 1 /\ d \in [q : Nat, r : 0 .. total - 1]
        /\ d.q * total + d.r = (2 * s.q) * total + 2 * s.r
    BY <1>3, Carried
  <1>5. round(value, weight, total, b, s) = t
    BY DEF round
  <1> HIDE DEF d, rem, bit
  <1>6. d.r + rem \in Nat /\ d.r + rem < 2 * total
    BY <1>1, <1>4
  <1>7. (2 * s.q) * total + 2 * s.r = 2 * (s.q * total + s.r)
    BY <1>2
  <1>8. CASE bit = 1
    <2> DEFINE c == carried(total, d.q, d.r + rem)
    <2>1. /\ c \in [q : Nat, r : 0 .. total - 1]
          /\ c.q * total + c.r = d.q * total + (d.r + rem)
      BY <1>4, <1>6, Carried
    <2>2. t = c /\ rem * bit = rem
      BY <1>1, <1>8
    <2>3. c.q \in Nat /\ c.r \in Nat
      BY <2>1
    <2> HIDE DEF c, t
    <2>4. c.q * total + c.r = 2 * (s.q * total + s.r) + rem
      BY <1>1, <1>2, <1>4, <1>7, <2>1, <2>3
    <2> QED BY <1>5, <2>1, <2>2, <2>4 DEF rem, bit, worth, Rounded
  <1>9. CASE bit = 0
    <2>1. t = d /\ rem * bit = 0
      BY <1>1, <1>9
    <2> HIDE DEF t
    <2>2. d.q * total + d.r = 2 * (s.q * total + s.r) + 0
      BY <1>2, <1>4, <1>7
    <2> QED BY <1>4, <1>5, <2>1, <2>2 DEF rem, bit, worth, Rounded
  <1> QED BY <1>1, <1>8, <1>9

\* After b rounds the quotient and the remainder are those of the remainder
\* times the weight's first b bits, or less where the weight exceeds the word.
Divided(value, weight, total, q, r) ==
    /\ mul_div_floor(value, weight, total) = (value \div total) * weight + q
    /\ q * total + r <= (value % total) * weight
    /\ shifts(weight)[Bits] = 0 => q * total + r = (value % total) * weight

LEMMA Quotient ==
    ASSUME NEW value \in Nat, NEW weight \in Nat, NEW total \in Nat \ {0}
    PROVE  \E q \in Nat, r \in 0 .. total - 1 : Divided(value, weight, total, q, r)
  <1> DEFINE V == [q : Nat, r : 0 .. total - 1]
             g == CHOOSE f : f = Rounds(value, weight, total, f)
             rem == value % total
             sh(k) == shifts(weight)[k]
  <1>1. Bits \in Nat /\ [q |-> 0, r |-> 0] \in V
    BY EconomyAssumption
  <1>2. \E f : f = Rounds(value, weight, total, f)
    <2> DEFINE next == [b \in 1 .. Bits |-> [s \in V |-> round(value, weight, total, b, s)]]
    <2>1. next \in [1 .. Bits -> [V -> V]]
      <3>1. ASSUME NEW b \in 1 .. Bits, NEW s \in V
            PROVE  round(value, weight, total, b, s) \in V
        BY <3>1, Round DEF Rounded
      <3> HIDE DEF V
      <3> QED BY <3>1
    <2> HIDE DEF V
    <2>2. PICK f \in [0 .. Bits -> V] : Follows(f, Bits, [q |-> 0, r |-> 0], next)
      <3> HIDE DEF next
      <3> QED BY <1>1, <2>1, Recursion
    <2>3. ASSUME NEW b \in 0 .. Bits
          PROVE  f[b] = IF b = 0 THEN [q |-> 0, r |-> 0]
                        ELSE round(value, weight, total, b, f[b - 1])
      <3>1. CASE b = 0
        BY <2>2, <3>1 DEF Follows
      <3>2. CASE b # 0
        <4>1. b \in 1 .. Bits /\ b - 1 \in 0 .. Bits
          BY <1>1, <3>2
        <4>2. f[b - 1] \in V
          BY <2>2, <4>1
        <4> QED BY <2>2, <3>2, <4>1, <4>2 DEF Follows
      <3> QED BY <3>1, <3>2
    <2>4. f = Rounds(value, weight, total, f)
      BY <2>2, <2>3 DEF Rounds
    <2> QED BY <2>4
  <1>3. g = Rounds(value, weight, total, g)
    BY <1>2
  <1> HIDE DEF g
  <1>4. /\ g[0] = [q |-> 0, r |-> 0]
        /\ \A b \in 1 .. Bits : g[b] = round(value, weight, total, b, g[b - 1])
    BY <1>1, <1>3 DEF Rounds
  <1> DEFINE T == {b \in Nat : b <= Bits =>
                        /\ g[b] \in V
                        /\ worth(g[b], total) <= rem * sh(Bits - b)
                        /\ sh(Bits) = 0 => worth(g[b], total) = rem * sh(Bits - b)}
  <1>5. 0 \in T
    <2>1. Bits - 0 = Bits /\ rem \in Nat /\ sh(Bits) \in Nat
      BY <1>1, Shifted
    <2> HIDE DEF rem, sh
    <2>2. 0 * total + 0 = rem * 0 /\ 0 * total + 0 <= rem * sh(Bits)
      BY <2>1
    <2>3. worth(g[0], total) = 0 * total + 0
      BY <1>4 DEF worth
    <2> QED BY <1>1, <1>4, <2>1, <2>2, <2>3
  <1>6. ASSUME NEW b \in T PROVE b + 1 \in T
    <2> SUFFICES ASSUME b + 1 <= Bits
                 PROVE  /\ g[b + 1] \in V
                        /\ worth(g[b + 1], total) <= rem * sh(Bits - (b + 1))
                        /\ sh(Bits) = 0 =>
                            worth(g[b + 1], total) = rem * sh(Bits - (b + 1))
      OBVIOUS
    <2>1. /\ b \in Nat /\ b + 1 \in 1 .. Bits /\ b + 1 - 1 = b
          /\ Bits - (b + 1) \in 0 .. Bits /\ Bits - b \in 1 .. Bits
          /\ Bits - b - 1 = Bits - (b + 1)
      BY <1>1
    <2>2. /\ g[b] \in V /\ worth(g[b], total) <= rem * sh(Bits - b)
          /\ sh(Bits) = 0 => worth(g[b], total) = rem * sh(Bits - b)
      BY <1>1
    <2>3. g[b + 1] = round(value, weight, total, b + 1, g[b])
      BY <1>4, <2>1
    <2>4. /\ g[b + 1] \in V
          /\ worth(g[b + 1], total)
                = 2 * (worth(g[b], total)) + rem * (sh(Bits - (b + 1)) % 2)
      <3>1. ASSUME NEW c \in 1 .. Bits, NEW s \in V
            PROVE  /\ round(value, weight, total, c, s) \in V
                   /\ worth(round(value, weight, total, c, s), total)
                        = 2 * worth(s, total) + rem * (sh(Bits - c) % 2)
        <4>1. Rounded(value, weight, total, c, s)
          <5> HIDE DEF T
          <5> QED BY <3>1, Round
        <4> QED BY <4>1 DEF Rounded
      <3> HIDE DEF V, rem, sh
      <3> QED BY <2>1, <2>2, <2>3, <3>1
    <2>5. sh(Bits - b) = sh(Bits - (b + 1)) \div 2 /\ sh(Bits - (b + 1)) \in Nat
      <3>1. /\ \A k \in 1 .. Bits : sh(k) = sh(k - 1) \div 2
            /\ \A k \in 0 .. Bits : sh(k) \in Nat
        BY Shifted
      <3> HIDE DEF sh
      <3> QED BY <2>1, <3>1
    <2>6. rem \in Nat
      OBVIOUS
    <2> HIDE DEF sh, rem
    <2>7. ASSUME NEW x \in Nat, NEW y \in Nat
          PROVE  2 * (y * (x \div 2)) + y * (x % 2) = y * x
      <3>1. x = 2 * (x \div 2) + (x % 2)
        OBVIOUS
      <3> DEFINE u == x \div 2
                 z == x % 2
      <3>2. u \in Nat /\ z \in Nat /\ x = 2 * u + z
        BY <3>1
      <3> HIDE DEF u, z
      <3>3. 2 * (y * u) + y * z = y * (2 * u + z)
        BY <3>2
      <3> QED BY <3>2, <3>3 DEF u, z
    <2>8. 2 * (rem * (sh(Bits - (b + 1)) \div 2)) + rem * (sh(Bits - (b + 1)) % 2)
            = rem * sh(Bits - (b + 1))
      BY <2>5, <2>6, <2>7
    <2> DEFINE y == worth(g[b], total)
               z == rem * sh(Bits - b)
               c == rem * (sh(Bits - (b + 1)) % 2)
    <2>9. y \in Int /\ z \in Int /\ c \in Int
      <3>1. g[b].q \in Nat /\ g[b].r \in Nat
        BY <2>2
      <3> QED BY <2>5, <2>6, <3>1 DEF worth
    <2>10. /\ y <= z /\ (sh(Bits) = 0 => y = z)
           /\ worth(g[b + 1], total) = 2 * y + c
           /\ 2 * z + c = rem * sh(Bits - (b + 1))
      BY <2>2, <2>4, <2>5, <2>8
    <2> HIDE DEF y, z, c
    <2>11. 2 * y + c <= 2 * z + c /\ (y = z => 2 * y + c = 2 * z + c)
      BY <2>9, <2>10
    <2> QED BY <2>4, <2>10, <2>11
  <1>7. T = Nat
    <2>1. T \subseteq Nat
      OBVIOUS
    <2> HIDE DEF T
    <2> QED BY <1>5, <1>6, <2>1, EveryNatural
  <1>8. Bits - Bits = 0 /\ sh(0) = weight
    BY <1>1, Shifted
  <1>9. /\ g[Bits] \in V /\ worth(g[Bits], total) <= rem * weight
        /\ sh(Bits) = 0 => worth(g[Bits], total) = rem * weight
    BY <1>1, <1>7, <1>8
  <1>10. mul_div_floor(value, weight, total) = (value \div total) * weight + g[Bits].q
    BY FloorUnfold DEF g
  <1>11. g[Bits].q \in Nat /\ g[Bits].r \in 0 .. total - 1
    BY <1>9
  <1> QED BY <1>9, <1>10, <1>11 DEF worth, Divided

\* Node::mul_div_floor never pays a fraction, and with weights that fit the word
\* it is the floor of the product divided by the total, computed without the
\* product.
THEOREM FloorExact ==
    ASSUME NEW value \in Nat, NEW weight \in Nat, NEW total \in Nat
    PROVE  /\ mul_div_floor(value, weight, total) \in Nat
           /\ total # 0 =>
                mul_div_floor(value, weight, total) * total <= value * weight
           /\ total # 0 /\ shifts(weight)[Bits] = 0 =>
                mul_div_floor(value, weight, total) = (value * weight) \div total
  <1>1. CASE total = 0
    BY <1>1 DEF mul_div_floor
  <1>2. CASE total # 0
    <2>9. total \in Nat \ {0}
      BY <1>2
    <2>10. PICK q \in Nat, r \in 0 .. total - 1 : Divided(value, weight, total, q, r)
      BY <2>9, Quotient
    <2>1. /\ mul_div_floor(value, weight, total) = (value \div total) * weight + q
          /\ q * total + r <= (value % total) * weight
          /\ shifts(weight)[Bits] = 0 => q * total + r = (value % total) * weight
      BY <2>10 DEF Divided
    <2> DEFINE u == value \div total
               z == value % total
    <2>2. u \in Nat /\ z \in Nat /\ z < total /\ value = u * total + z /\ r \in Nat
      BY <1>2
    <2>3. (u * weight) \in Nat
      BY <2>2
    <2> HIDE DEF u, z
    <2>4. value * weight = (u * weight) * total + z * weight
      BY <2>2
    <2>5. (u * weight + q) * total = (u * weight) * total + q * total
      BY <2>2, <2>3
    <2>6. (u * weight + q) * total <= value * weight
      <3>1. q * total + r <= z * weight
        BY <2>1 DEF z
      <3>2. q * total \in Nat /\ z * weight \in Nat /\ (u * weight) * total \in Nat
        BY <2>2, <2>3
      <3> QED BY <2>2, <2>4, <2>5, <3>1, <3>2
    <2>7. shifts(weight)[Bits] = 0 => (value * weight) \div total = u * weight + q
      BY <1>2, <2>1 DEF u
    <2> QED BY <1>2, <2>1, <2>2, <2>3, <2>6, <2>7 DEF u
  <1> QED BY <1>1, <1>2

-----------------------------------------------------------------------------
(* The invariant: every entry was in order, and could be afforded, when it   *)
(* was written, and stays so.                                                *)

LEMMA KeptEntryOK ==
    ASSUME NEW n, Kept(n), LogSeq, LogSeq', NEW p \in 1 .. n, EntryOK(p)
    PROVE  EntryOK(p)'
  <1>1. Len(log) \in Nat /\ Len(log') \in Nat
    <2>1. LogSeq' => Len(log') \in Nat
      BY DEF LogSeq
    <2> QED BY <2>1, LogLength
  <1>2. Kept(p - 1) /\ log'[p] = log[p] /\ \A q \in 1 .. p - 1 : log'[q] = log[q]
    BY <1>1 DEF Kept
  <1>3. \A k : entries(k, p - 1)' = entries(k, p - 1)
    BY <1>2, KeptEntries
  <1>4. /\ settled_epoch_within(p - 1)' = settled_epoch_within(p - 1)
        /\ \A q : slashed(q, p - 1)' <=> slashed(q, p - 1)
    BY <1>2, KeptAttestationBonds
  <1>5. log[p].kind = "verification_slash" =>
            /\ log[p].attestation \in entries("attestation", p - 1)'
            /\ log[p].attestor = log'[log[p].attestation].attestor
            /\ ~slashed(log[p].attestation, p - 1)'
            /\ attestation_window_open(log[p].attestation, settled_epoch_within(p - 1))'
    <2> HAVE log[p].kind = "verification_slash"
    <2> PICK a : a = log[p].attestation
      OBVIOUS
    <2>1. /\ a \in entries("attestation", p - 1) /\ log[p].attestor = log[a].attestor
          /\ ~slashed(a, p - 1)
          /\ attestation_window_open(a, settled_epoch_within(p - 1))
      BY DEF EntryOK
    <2>2. log'[a] = log[a]
      BY <1>2, <2>1 DEF entries
    <2>3. attestation_window_open(a, settled_epoch_within(p - 1))'
      BY <1>2, <1>4, <2>1, <2>2 DEF attestation_window_open
    <2>4. a \in entries("attestation", p - 1)' /\ ~slashed(a, p - 1)'
      BY <1>3, <1>4, <2>1
    <2>5. log'[p].attestation = a
      BY <1>2
    <2> QED BY <2>1, <2>2, <2>3, <2>4, <2>5
  <1>6. log[p].kind = "challenge_settlement" =>
            /\ log[p].challenge \in entries("challenge", p - 1)'
            /\ \A q \in entries("challenge_settlement", p - 1)' :
                    log'[q].challenge # log[p].challenge
    <2> HAVE log[p].kind = "challenge_settlement"
    <2>1. /\ log[p].challenge \in entries("challenge", p - 1)
          /\ \A q \in entries("challenge_settlement", p - 1) :
                    log[q].challenge # log[p].challenge
      BY DEF EntryOK
    <2>2. \A q \in entries("challenge_settlement", p - 1) : log'[q] = log[q]
      BY <1>2 DEF entries
    <2> QED BY <1>3, <2>1, <2>2
  <1> QED BY <1>2, <1>5, <1>6 DEF EntryOK

LEMMA KeptAfforded ==
    ASSUME NEW n, Kept(n), LogSeq, LogSeq', NEW p \in 1 .. n, EntryOK(p), Afforded(p)
    PROVE  Afforded(p)'
  <1>1. Len(log) \in Nat /\ Len(log') \in Nat
    <2>1. LogSeq' => Len(log') \in Nat
      BY DEF LogSeq
    <2> QED BY <2>1, LogLength
  <1>2. Kept(p - 1) /\ log'[p] = log[p] /\ \A q \in 1 .. p - 1 : log'[q] = log[q]
    BY <1>1 DEF Kept
  <1>3. \A i : spendable_within(i, p - 1)' = spendable_within(i, p - 1)
    BY <1>2, KeptMoney
  <1>4. log[p].kind = "challenge_settlement" =>
            log'[log[p].challenge] = log[log[p].challenge]
    BY <1>2 DEF EntryOK, entries
  <1> QED BY <1>2, <1>3, <1>4 DEF Afforded

Stamped(p) ==
    /\ log[p].ts \in 1 .. now
    /\ log[p].kind = "availability" => log[p].undertaking \in 1 .. p - 1

EconomyInv ==
    /\ now \in Epochs
    /\ LogOK /\ AllAfforded
    /\ \A p \in 1 .. Len(log) : Stamped(p)

\* The same of the next state.
FirstDeclares == declares_supply <=> (Len(log) > 0 /\ log[1].kind = "issuance")

LEMMA GenesisDeclares == LogSeq => FirstDeclares
  BY Genesis DEF FirstDeclares

LEMMA GenesisNext == LogSeq' => FirstDeclares'
  BY GenesisDeclares, PTL

\* A log that only grows keeps its old entries in order.
LEMMA OldEntries ==
    ASSUME EconomyInv, LogSeq', Kept(Len(log)), now' \in Nat, now <= now'
    PROVE  /\ \A p \in 1 .. Len(log) : EntryOK(p)' /\ Stamped(p)'
           /\ Len(log) > 0 => (declares_supply' <=> declares_supply)
           /\ Len(log) > 0 /\ declares_supply =>
                \A p \in 1 .. Len(log) : Afforded(p)'
  <1>1. Len(log) \in Nat /\ LogSeq
    BY LogLength DEF EconomyInv, LogOK
  <1>2. ASSUME NEW p \in 1 .. Len(log)
        PROVE  EntryOK(p)' /\ Stamped(p)' /\ (Afforded(p) => Afforded(p)')
    <2>1. EntryOK(p) /\ Stamped(p) /\ now \in Nat
      BY EconomyAssumption DEF EconomyInv, LogOK, Epochs
    <2>2. EntryOK(p)' /\ (Afforded(p) => Afforded(p)')
      BY <1>1, <2>1, KeptEntryOK, KeptAfforded
    <2>3. log'[p] = log[p]
      BY DEF Kept
    <2> QED BY <2>1, <2>2, <2>3 DEF Stamped
  <1>3. Len(log) > 0 => (declares_supply' <=> declares_supply)
    <2> HAVE Len(log) > 0
    <2>1. declares_supply <=> log[1].kind = "issuance"
      BY <1>1, Genesis
    <2>2. declares_supply' <=> (Len(log') > 0 /\ log'[1].kind = "issuance")
      BY GenesisNext DEF FirstDeclares
    <2>3. Len(log') > 0 /\ log'[1] = log[1]
      <3>1. Len(log') \in Nat
        BY DEF LogSeq
      <3> QED BY <1>1, <3>1 DEF Kept
    <2> QED BY <2>1, <2>2, <2>3
  <1> QED BY <1>1, <1>2, <1>3 DEF EconomyInv, AllAfforded

\* One more entry, in order and affordable.
LEMMA OneMore ==
    ASSUME EconomyInv, NEW n, n = Len(log), NEW x, log' = Append(log, x), now' = now,
           x.ts \in 1 .. now, x.kind = "availability" => x.undertaking \in 1 .. n,
           EntryOK(n + 1)', declares_supply => Afforded(n + 1)'
    PROVE  EconomyInv'
  <1>1. LogSeq /\ n \in Nat /\ now \in Nat
    BY LogLength, EconomyAssumption DEF EconomyInv, LogOK, Epochs
  <1>2. /\ LogSeq' /\ Len(log') = n + 1 /\ log'[n + 1] = x /\ Kept(n)
    BY <1>1, Appended
  <1>3. /\ \A p \in 1 .. n : EntryOK(p)' /\ Stamped(p)'
        /\ n > 0 => (declares_supply' <=> declares_supply)
        /\ n > 0 /\ declares_supply => \A p \in 1 .. n : Afforded(p)'
    BY <1>1, <1>2, OldEntries
  <1>4. Stamped(n + 1)'
    BY <1>1, <1>2 DEF Stamped
  <1>5. \A p \in 1 .. Len(log') : p \in 1 .. n \/ p = n + 1
    BY <1>1, <1>2
  <1>6. n = 0 /\ declares_supply' => Afforded(n + 1)'
    <2> HAVE n = 0 /\ declares_supply'
    <2>1. log'[1].kind = "issuance"
      BY <1>2, GenesisNext DEF FirstDeclares
    <2>2. log'[n + 1].kind = "issuance"
      BY <2>1
    <2> QED BY <2>2 DEF Afforded
  <1>7. AllAfforded'
    <2> SUFFICES ASSUME declares_supply', NEW p \in 1 .. Len(log') PROVE Afforded(p)'
      BY DEF AllAfforded
    <2>1. CASE n = 0
      <3>1. p = n + 1
        BY <1>1, <1>5, <2>1
      <3> QED BY <1>6, <2>1, <3>1
    <2>2. CASE n > 0
      BY <1>3, <1>5, <2>2
    <2> QED BY <1>1, <2>1, <2>2
  <1>8. LogOK'
    BY <1>2, <1>3, <1>5 DEF LogOK
  <1>9. \A p \in 1 .. Len(log') : Stamped(p)'
    BY <1>3, <1>4, <1>5
  <1>10. (now \in Epochs)'
    BY DEF EconomyInv, Epochs
  <1> QED BY <1>7, <1>8, <1>9, <1>10 DEF EconomyInv

\* What the old log said is what the new log says of its first entries.
LEMMA OldMoney ==
    ASSUME LogSeq, NEW x, log' = Append(log, x), NEW n, n = Len(log)
    PROVE  /\ n \in Nat /\ n + 1 - 1 = n /\ LogSeq' /\ Kept(n)
           /\ log'[n + 1] = x
           /\ \A p \in 1 .. n : log'[p] = log[p]
           /\ \A k : entries(k, n)' = entries(k, n)
           /\ \A k : \A p \in entries(k, n) : p \in 1 .. n /\ log'[p] = log[p]
           /\ \A i : spendable_within(i, n)' = spendable_within(i, n)
           /\ settled_epoch_within(n)' = settled_epoch_within(n)
           /\ \A p : slashed(p, n)' <=> slashed(p, n)
  <1>1. /\ n \in Nat /\ LogSeq' /\ Kept(n) /\ log'[n + 1] = x
        /\ \A p \in 1 .. n : log'[p] = log[p]
    BY Appended
  <1>2. \A i : spendable_within(i, n)' = spendable_within(i, n)
    BY <1>1, KeptMoney
  <1>3. \A k : /\ entries(k, n)' = entries(k, n)
               /\ \A p \in entries(k, n) : p \in 1 .. n /\ log'[p] = log[p]
    BY <1>1, KeptEntries
  <1>4. /\ settled_epoch_within(n)' = settled_epoch_within(n)
        /\ \A p : slashed(p, n)' <=> slashed(p, n)
    BY <1>1, KeptAttestationBonds
  <1> QED BY <1>1, <1>2, <1>3, <1>4

\* What an identity can spend is a number.
LEMMA SpendableNat ==
    ASSUME LogOK, NEW i, Len(log) > 0
    PROVE  /\ balances_within(i, Len(log)) \in Nat
           /\ spendable_within(i, Len(log)) = balances_within(i, Len(log))
  <1> DEFINE m == Len(log) - 1
  <1>1. m \in Nat /\ m < Len(log) /\ m + 1 = Len(log)
    BY LogLength DEF LogOK
  <1>2. gross_paid_within(i, m + 1) \in Nat /\ committed_within(i, m + 1) \in Nat
    BY <1>1, NextGross, NextCommitted
  <1> QED BY <1>1, <1>2 DEF balances_within, spendable_within, minus

LEMMA ImageFinite ==
    ASSUME NEW S, IsFiniteSet(S), NEW f
    PROVE  IsFiniteSet({f[s] : s \in S})
  <1> DEFINE T == {f[s] : s \in S}
             g == [s \in S |-> f[s]]
  <1>1. g \in Surjection(S, T)
    BY DEF Surjection
  <1> HIDE DEF T, g
  <1>2. IsFiniteSet(T)
    BY <1>1, FS_Surjection
  <1> QED BY <1>2 DEF T

LEMMA FloorNat ==
    ASSUME NEW value \in Nat, NEW weight \in Nat, NEW total \in Nat
    PROVE  mul_div_floor(value, weight, total) \in Nat
  BY FloorExact

\* Every share of an epoch is a whole number of units.
LEMMA SharesNat ==
    ASSUME LogOK, NEW e \in Int
    PROVE  \A i \in DOMAIN availability_settlement_at(e, Len(log)).paid :
                availability_settlement_at(e, Len(log)).paid[i] \in Nat
  <1> DEFINE n        == Len(log)
             promises == eligible(e, n)
             kept     == {u \in promises : answered(u, e, n)}
             payees   == {log[u].identity : u \in kept}
             weight   == [i \in payees |->
                            sum({u \in kept : log[u].identity = i}, LAMBDA u : log[u].bond)]
             total    == sum(payees, LAMBDA i : weight[i])
             offered  == offered_within(e, boundary(e, n))
             paid     == [i \in payees |-> mul_div_floor(offered, weight[i], total)]
  <1>1. availability_settlement_at(e, n).paid = paid
    BY DEF availability_settlement_at
  <1>2. n \in Nat
    BY LogLength DEF LogOK
  <1>3. boundary(e, n) \in 0 .. n
    <2> DEFINE S == {m \in 0 .. n : \A p \in 1 .. m : log[p].ts < e}
    <2>1. S \subseteq Nat /\ 0 \in S /\ \A s \in S : s <= n
      BY <1>2
    <2>2. S \subseteq 0 .. n /\ boundary(e, n) = Max(S)
      BY DEF boundary
    <2> HIDE DEF S
    <2> QED BY <1>2, <2>1, <2>2, MaxOf
  <1>4. promises \subseteq entries("undertaking", n)
    BY <1>2, <1>3 DEF eligible, undertakings_within, entries
  <1>5. /\ kept \subseteq 1 .. n /\ IsFiniteSet(kept)
        /\ \A u \in kept : log[u].bond \in Nat
    <2>1. kept \subseteq entries("undertaking", n)
      BY <1>4
    <2>2. \A u \in entries("undertaking", n) : u \in 1 .. n /\ log[u].bond \in Nat
      BY DEF entries, LogOK, EntryOK
    <2>3. kept \in SUBSET (1 .. n) /\ \A u \in kept : log[u].bond \in Nat
      BY <2>1, <2>2
    <2> HIDE DEF kept
    <2>4. IsFiniteSet(1 .. n)
      BY <1>2, FS_Interval
    <2>5. IsFiniteSet(kept)
      BY <2>3, <2>4, FS_Subset
    <2> QED BY <2>3, <2>5
  <1> HIDE DEF kept
  <1>6. IsFiniteSet(payees)
    <2> DEFINE f == [u \in kept |-> log[u].identity]
    <2>1. payees = {f[u] : u \in kept}
      OBVIOUS
    <2> HIDE DEF f
    <2>2. IsFiniteSet({f[u] : u \in kept})
      BY <1>5, ImageFinite
    <2> QED BY <2>1, <2>2
  <1>7. \A i \in payees : weight[i] \in Nat
    <2> TAKE i \in payees
    <2> DEFINE U == {u \in kept : log[u].identity = i}
               f == [u \in U |-> log[u].bond]
    <2>1. IsFiniteSet(U)
      BY <1>5, FS_Subset
    <2>2. f \in [U -> Nat]
      BY <1>5
    <2>3. weight[i] = SumFunction(f)
      BY DEF sum
    <2> HIDE DEF U, f, weight
    <2> QED BY <2>1, <2>2, <2>3, SumNat
  <1>8. total \in Nat
    <2> DEFINE f == [i \in payees |-> weight[i]]
    <2>1. f \in [payees -> Nat]
      BY <1>7
    <2>2. total = SumFunction(f)
      BY DEF sum
    <2> HIDE DEF payees, f, total
    <2> QED BY <1>6, <2>1, <2>2, SumNat
  <1>9. offered \in Nat
    <2> DEFINE m == boundary(e, n)
               P == {p \in entries("availability_pool", m) : covers(log[p].pool, e)}
               f == [p \in P |-> Pool[log[p].pool].per_epoch]
    <2>1. m \in Nat /\ m <= n
      BY <1>2, <1>3
    <2>2. P \in SUBSET (1 .. m) /\ IsFiniteSet(P)
      <3>1. P \in SUBSET (1 .. m)
        BY DEF entries
      <3> HIDE DEF P, m
      <3>2. IsFiniteSet(1 .. m)
        BY <2>1, FS_Interval
      <3>3. IsFiniteSet(P)
        BY <3>1, <3>2, FS_Subset
      <3> QED BY <3>1, <3>3
    <2>3. f \in [P -> Nat]
      <3>1. \A p \in P : log[p].pool \in Pools
        BY <1>2, <2>1 DEF entries, LogOK, EntryOK
      <3> QED BY <3>1, EconomyAssumption
    <2>4. offered = SumFunction(f)
      BY DEF offered_within, sum
    <2> HIDE DEF P, f, offered
    <2> QED BY <2>2, <2>3, <2>4, SumNat
  <1>10. \A i \in payees : paid[i] \in Nat
    <2> TAKE i \in payees
    <2>1. paid[i] = mul_div_floor(offered, weight[i], total) /\ weight[i] \in Nat
      BY <1>7
    <2> HIDE DEF offered, weight, total, paid
    <2> QED BY <1>8, <1>9, <2>1, FloorNat
  <1> QED BY <1>1, <1>10

\* One lemma for each operation: the entry it writes is in order and affordable.
LEMMA PostIssuanceOk ==
    ASSUME EconomyInv, NEW r \in Issuances, PostIssuance(r)
    PROVE  EconomyInv'
  <1> PICK n : n = Len(log)
    OBVIOUS
  <1> PICK x : x = [kind |-> "issuance", holder |-> r.holder, units |-> r.units, ts |-> now]
    OBVIOUS
  <1>1. LogSeq /\ LogOK /\ n \in Nat /\ now \in Nat /\ now \in 1 .. now
        /\ log' = Append(log, x) /\ now' = now
    <2>1. log' = Append(log, x) /\ now' = now
      BY DEF PostIssuance, append
    <2>2. now \in Nat /\ now \in 1 .. now
      BY EconomyAssumption DEF EconomyInv, Epochs
    <2>3. LogSeq /\ LogOK
      BY DEF EconomyInv, LogOK
    <2> QED BY <2>1, <2>2, <2>3, LogLength
  <1>2. /\ n + 1 - 1 = n /\ log'[n + 1] = x
        /\ \A q \in 1 .. n : log'[q] = log[q]
        /\ \A k : entries(k, n)' = entries(k, n)
        /\ \A k : \A q \in entries(k, n) : q \in 1 .. n /\ log'[q] = log[q]
        /\ \A j : spendable_within(j, n)' = spendable_within(j, n)
        /\ settled_epoch_within(n)' = settled_epoch_within(n)
        /\ \A q : slashed(q, n)' <=> slashed(q, n)
    BY <1>1, OldMoney
  <1>3. EntryOK(n + 1)'
    BY <1>1, <1>2, EconomyAssumption DEF EntryOK, Epochs
  <1>4. declares_supply => Afforded(n + 1)'
    BY <1>2 DEF Afforded
  <1>5. x.ts \in 1 .. now /\ (x.kind = "availability" => x.undertaking \in 1 .. n)
    BY <1>1
  <1> QED BY <1>1, <1>3, <1>4, <1>5, OneMore

LEMMA PostObjectiveOk ==
    ASSUME EconomyInv, NEW o \in Objectives, NEW at \in Epochs, at <= now, PostObjective(o, at)
    PROVE  EconomyInv'
  <1> PICK n : n = Len(log)
    OBVIOUS
  <1> PICK x : x = [kind |-> "objective", objective |-> o, ts |-> at]
    OBVIOUS
  <1>1. LogSeq /\ LogOK /\ n \in Nat /\ now \in Nat /\ now \in 1 .. now
        /\ log' = Append(log, x) /\ now' = now
    <2>1. log' = Append(log, x) /\ now' = now
      BY DEF PostObjective, append
    <2>2. now \in Nat /\ now \in 1 .. now
      BY EconomyAssumption DEF EconomyInv, Epochs
    <2>3. LogSeq /\ LogOK
      BY DEF EconomyInv, LogOK
    <2> QED BY <2>1, <2>2, <2>3, LogLength
  <1>2. /\ n + 1 - 1 = n /\ log'[n + 1] = x
        /\ \A q \in 1 .. n : log'[q] = log[q]
        /\ \A k : entries(k, n)' = entries(k, n)
        /\ \A k : \A q \in entries(k, n) : q \in 1 .. n /\ log'[q] = log[q]
        /\ \A j : spendable_within(j, n)' = spendable_within(j, n)
        /\ settled_epoch_within(n)' = settled_epoch_within(n)
        /\ \A q : slashed(q, n)' <=> slashed(q, n)
    BY <1>1, OldMoney
  <1>3. EntryOK(n + 1)'
    BY <1>1, <1>2, EconomyAssumption DEF EntryOK, Epochs
  <1>4. declares_supply => Afforded(n + 1)'
    BY <1>2 DEF PostObjective, afford, Afforded
  <1>5. x.ts \in 1 .. now /\ (x.kind = "availability" => x.undertaking \in 1 .. n)
    BY <1>1, EconomyAssumption DEF Epochs
  <1> QED BY <1>1, <1>3, <1>4, <1>5, OneMore

LEMMA RevealOk ==
    ASSUME EconomyInv, NEW c \in Claims, Reveal(c)
    PROVE  EconomyInv'
  <1> PICK n : n = Len(log)
    OBVIOUS
  <1> PICK x : x = [kind |-> "claim", claim |-> c, ts |-> now]
    OBVIOUS
  <1>1. LogSeq /\ LogOK /\ n \in Nat /\ now \in Nat /\ now \in 1 .. now
        /\ log' = Append(log, x) /\ now' = now
    <2>1. log' = Append(log, x) /\ now' = now
      BY DEF Reveal, append
    <2>2. now \in Nat /\ now \in 1 .. now
      BY EconomyAssumption DEF EconomyInv, Epochs
    <2>3. LogSeq /\ LogOK
      BY DEF EconomyInv, LogOK
    <2> QED BY <2>1, <2>2, <2>3, LogLength
  <1>2. /\ n + 1 - 1 = n /\ log'[n + 1] = x
        /\ \A q \in 1 .. n : log'[q] = log[q]
        /\ \A k : entries(k, n)' = entries(k, n)
        /\ \A k : \A q \in entries(k, n) : q \in 1 .. n /\ log'[q] = log[q]
        /\ \A j : spendable_within(j, n)' = spendable_within(j, n)
        /\ settled_epoch_within(n)' = settled_epoch_within(n)
        /\ \A q : slashed(q, n)' <=> slashed(q, n)
    BY <1>1, OldMoney
  <1>3. EntryOK(n + 1)'
    BY <1>1, <1>2, EconomyAssumption DEF EntryOK, Epochs
  <1>4. declares_supply => Afforded(n + 1)'
    BY <1>2 DEF Afforded
  <1>5. x.ts \in 1 .. now /\ (x.kind = "availability" => x.undertaking \in 1 .. n)
    BY <1>1
  <1> QED BY <1>1, <1>3, <1>4, <1>5, OneMore

LEMMA RecordBeaconOk ==
    ASSUME EconomyInv, NEW e, NEW v, RecordBeacon(e, v)
    PROVE  EconomyInv'
  <1> PICK n : n = Len(log)
    OBVIOUS
  <1> PICK x : x = [kind |-> "beacon", orders |-> e, value |-> v, ts |-> now]
    OBVIOUS
  <1>1. LogSeq /\ LogOK /\ n \in Nat /\ now \in Nat /\ now \in 1 .. now
        /\ log' = Append(log, x) /\ now' = now
    <2>1. log' = Append(log, x) /\ now' = now
      BY DEF RecordBeacon, append
    <2>2. now \in Nat /\ now \in 1 .. now
      BY EconomyAssumption DEF EconomyInv, Epochs
    <2>3. LogSeq /\ LogOK
      BY DEF EconomyInv, LogOK
    <2> QED BY <2>1, <2>2, <2>3, LogLength
  <1>2. /\ n + 1 - 1 = n /\ log'[n + 1] = x
        /\ \A q \in 1 .. n : log'[q] = log[q]
        /\ \A k : entries(k, n)' = entries(k, n)
        /\ \A k : \A q \in entries(k, n) : q \in 1 .. n /\ log'[q] = log[q]
        /\ \A j : spendable_within(j, n)' = spendable_within(j, n)
        /\ settled_epoch_within(n)' = settled_epoch_within(n)
        /\ \A q : slashed(q, n)' <=> slashed(q, n)
    BY <1>1, OldMoney
  <1>3. EntryOK(n + 1)'
    BY <1>1, <1>2, EconomyAssumption DEF EntryOK, Epochs
  <1>4. declares_supply => Afforded(n + 1)'
    BY <1>2 DEF Afforded
  <1>5. x.ts \in 1 .. now /\ (x.kind = "availability" => x.undertaking \in 1 .. n)
    BY <1>1
  <1> QED BY <1>1, <1>3, <1>4, <1>5, OneMore

LEMMA PostAvailabilityPoolOk ==
    ASSUME EconomyInv, NEW a \in Pools, PostAvailabilityPool(a)
    PROVE  EconomyInv'
  <1> PICK n : n = Len(log)
    OBVIOUS
  <1> PICK x : x = [kind |-> "availability_pool", pool |-> a, ts |-> now]
    OBVIOUS
  <1>1. LogSeq /\ LogOK /\ n \in Nat /\ now \in Nat /\ now \in 1 .. now
        /\ log' = Append(log, x) /\ now' = now
    <2>1. log' = Append(log, x) /\ now' = now
      BY DEF PostAvailabilityPool, append
    <2>2. now \in Nat /\ now \in 1 .. now
      BY EconomyAssumption DEF EconomyInv, Epochs
    <2>3. LogSeq /\ LogOK
      BY DEF EconomyInv, LogOK
    <2> QED BY <2>1, <2>2, <2>3, LogLength
  <1>2. /\ n + 1 - 1 = n /\ log'[n + 1] = x
        /\ \A q \in 1 .. n : log'[q] = log[q]
        /\ \A k : entries(k, n)' = entries(k, n)
        /\ \A k : \A q \in entries(k, n) : q \in 1 .. n /\ log'[q] = log[q]
        /\ \A j : spendable_within(j, n)' = spendable_within(j, n)
        /\ settled_epoch_within(n)' = settled_epoch_within(n)
        /\ \A q : slashed(q, n)' <=> slashed(q, n)
    BY <1>1, OldMoney
  <1>3. EntryOK(n + 1)'
    BY <1>1, <1>2, EconomyAssumption DEF EntryOK, Epochs
  <1>4. declares_supply => Afforded(n + 1)'
    BY <1>2 DEF PostAvailabilityPool, afford, Afforded
  <1>5. x.ts \in 1 .. now /\ (x.kind = "availability" => x.undertaking \in 1 .. n)
    BY <1>1
  <1> QED BY <1>1, <1>3, <1>4, <1>5, OneMore

LEMMA PostUndertakingOk ==
    ASSUME EconomyInv, NEW i \in Identities, NEW b \in Bonds, PostUndertaking(i, b)
    PROVE  EconomyInv'
  <1> PICK n : n = Len(log)
    OBVIOUS
  <1> PICK x : x = [kind |-> "undertaking", identity |-> i, bond |-> b, height |-> Len(log), ts |-> now]
    OBVIOUS
  <1>1. LogSeq /\ LogOK /\ n \in Nat /\ now \in Nat /\ now \in 1 .. now
        /\ log' = Append(log, x) /\ now' = now
    <2>1. log' = Append(log, x) /\ now' = now
      BY DEF PostUndertaking, append
    <2>2. now \in Nat /\ now \in 1 .. now
      BY EconomyAssumption DEF EconomyInv, Epochs
    <2>3. LogSeq /\ LogOK
      BY DEF EconomyInv, LogOK
    <2> QED BY <2>1, <2>2, <2>3, LogLength
  <1>2. /\ n + 1 - 1 = n /\ log'[n + 1] = x
        /\ \A q \in 1 .. n : log'[q] = log[q]
        /\ \A k : entries(k, n)' = entries(k, n)
        /\ \A k : \A q \in entries(k, n) : q \in 1 .. n /\ log'[q] = log[q]
        /\ \A j : spendable_within(j, n)' = spendable_within(j, n)
        /\ settled_epoch_within(n)' = settled_epoch_within(n)
        /\ \A q : slashed(q, n)' <=> slashed(q, n)
    BY <1>1, OldMoney
  <1>3. EntryOK(n + 1)'
    BY <1>1, <1>2, EconomyAssumption DEF EntryOK, Epochs
  <1>4. declares_supply => Afforded(n + 1)'
    BY <1>2 DEF PostUndertaking, Afforded
  <1>5. x.ts \in 1 .. now /\ (x.kind = "availability" => x.undertaking \in 1 .. n)
    BY <1>1
  <1> QED BY <1>1, <1>3, <1>4, <1>5, OneMore

LEMMA PostAvailabilityOk ==
    ASSUME EconomyInv, NEW u \in entries("undertaking", Len(log)), NEW e \in Epochs, PostAvailability(u, e)
    PROVE  EconomyInv'
  <1> PICK n : n = Len(log)
    OBVIOUS
  <1> PICK x : x = [kind |-> "availability", undertaking |-> u, identity |-> log[u].identity,
                   epoch |-> e, index |-> sampled_index(u, e, Len(log)), ts |-> now]
    OBVIOUS
  <1>1. LogSeq /\ LogOK /\ n \in Nat /\ now \in Nat /\ now \in 1 .. now
        /\ log' = Append(log, x) /\ now' = now
    <2>1. log' = Append(log, x) /\ now' = now
      BY DEF PostAvailability, append
    <2>2. now \in Nat /\ now \in 1 .. now
      BY EconomyAssumption DEF EconomyInv, Epochs
    <2>3. LogSeq /\ LogOK
      BY DEF EconomyInv, LogOK
    <2> QED BY <2>1, <2>2, <2>3, LogLength
  <1>2. /\ n + 1 - 1 = n /\ log'[n + 1] = x
        /\ \A q \in 1 .. n : log'[q] = log[q]
        /\ \A k : entries(k, n)' = entries(k, n)
        /\ \A k : \A q \in entries(k, n) : q \in 1 .. n /\ log'[q] = log[q]
        /\ \A j : spendable_within(j, n)' = spendable_within(j, n)
        /\ settled_epoch_within(n)' = settled_epoch_within(n)
        /\ \A q : slashed(q, n)' <=> slashed(q, n)
    BY <1>1, OldMoney
  <1>3. EntryOK(n + 1)'
    BY <1>1, <1>2, EconomyAssumption DEF EntryOK, Epochs
  <1>4. declares_supply => Afforded(n + 1)'
    BY <1>2 DEF Afforded
  <1>5. x.ts \in 1 .. now /\ (x.kind = "availability" => x.undertaking \in 1 .. n)
    BY <1>1 DEF entries
  <1> QED BY <1>1, <1>3, <1>4, <1>5, OneMore

LEMMA SettleAvailabilityOk ==
    ASSUME EconomyInv, NEW e \in Epochs, SettleAvailability(e)
    PROVE  EconomyInv'
  <1> PICK n : n = Len(log)
    OBVIOUS
  <1> PICK x : x = [kind |-> "availability_settlement", ts |-> now, epoch |-> e,
                   paid |-> availability_settlement_at(e, Len(log)).paid,
                   silent |-> availability_settlement_at(e, Len(log)).silent,
                   unpaid |-> availability_settlement_at(e, Len(log)).unpaid]
    OBVIOUS
  <1>1. LogSeq /\ LogOK /\ n \in Nat /\ now \in Nat /\ now \in 1 .. now
        /\ log' = Append(log, x) /\ now' = now
    <2>1. log' = Append(log, x) /\ now' = now
      BY DEF SettleAvailability, append
    <2>2. now \in Nat /\ now \in 1 .. now
      BY EconomyAssumption DEF EconomyInv, Epochs
    <2>3. LogSeq /\ LogOK
      BY DEF EconomyInv, LogOK
    <2> QED BY <2>1, <2>2, <2>3, LogLength
  <1>2. /\ n + 1 - 1 = n /\ log'[n + 1] = x
        /\ \A q \in 1 .. n : log'[q] = log[q]
        /\ \A k : entries(k, n)' = entries(k, n)
        /\ \A k : \A q \in entries(k, n) : q \in 1 .. n /\ log'[q] = log[q]
        /\ \A j : spendable_within(j, n)' = spendable_within(j, n)
        /\ settled_epoch_within(n)' = settled_epoch_within(n)
        /\ \A q : slashed(q, n)' <=> slashed(q, n)
    BY <1>1, OldMoney
  <1>3. EntryOK(n + 1)'
    <2>1. \A i \in DOMAIN x.paid : x.paid[i] \in Nat
      BY <1>1, SharesNat, EconomyAssumption DEF Epochs
    <2>2. x.kind = "availability_settlement" /\ x.ts = now
      OBVIOUS
    <2> QED BY <1>1, <1>2, <2>1, <2>2, EconomyAssumption DEF EntryOK, Epochs
  <1>4. declares_supply => Afforded(n + 1)'
    BY <1>2 DEF Afforded
  <1>5. x.ts \in 1 .. now /\ (x.kind = "availability" => x.undertaking \in 1 .. n)
    BY <1>1
  <1> QED BY <1>1, <1>3, <1>4, <1>5, OneMore

LEMMA PostAttestationOk ==
    ASSUME EconomyInv, NEW i \in Identities, NEW c, NEW s, PostAttestation(i, c, s)
    PROVE  EconomyInv'
  <1> PICK n : n = Len(log)
    OBVIOUS
  <1> PICK x : x = [kind |-> "attestation", claim |-> c, attestor |-> i, status |-> s, ts |-> now]
    OBVIOUS
  <1>1. LogSeq /\ LogOK /\ n \in Nat /\ now \in Nat /\ now \in 1 .. now
        /\ log' = Append(log, x) /\ now' = now
    <2>1. log' = Append(log, x) /\ now' = now
      BY DEF PostAttestation, append
    <2>2. now \in Nat /\ now \in 1 .. now
      BY EconomyAssumption DEF EconomyInv, Epochs
    <2>3. LogSeq /\ LogOK
      BY DEF EconomyInv, LogOK
    <2> QED BY <2>1, <2>2, <2>3, LogLength
  <1>2. /\ n + 1 - 1 = n /\ log'[n + 1] = x
        /\ \A q \in 1 .. n : log'[q] = log[q]
        /\ \A k : entries(k, n)' = entries(k, n)
        /\ \A k : \A q \in entries(k, n) : q \in 1 .. n /\ log'[q] = log[q]
        /\ \A j : spendable_within(j, n)' = spendable_within(j, n)
        /\ settled_epoch_within(n)' = settled_epoch_within(n)
        /\ \A q : slashed(q, n)' <=> slashed(q, n)
    BY <1>1, OldMoney
  <1>3. EntryOK(n + 1)'
    BY <1>1, <1>2, EconomyAssumption DEF EntryOK, Epochs
  <1>4. declares_supply => Afforded(n + 1)'
    BY <1>2 DEF PostAttestation, afford, Afforded
  <1>5. x.ts \in 1 .. now /\ (x.kind = "availability" => x.undertaking \in 1 .. n)
    BY <1>1
  <1> QED BY <1>1, <1>3, <1>4, <1>5, OneMore

LEMMA SlashAttestationOk ==
    ASSUME EconomyInv, NEW p \in entries("attestation", Len(log)), NEW i, SlashAttestation(p, i)
    PROVE  EconomyInv'
  <1> PICK n : n = Len(log)
    OBVIOUS
  <1> PICK x : x = [kind |-> "verification_slash", attestation |-> p, attestor |-> log[p].attestor,
                   catcher |-> i, units |-> VerificationBond, ts |-> now]
    OBVIOUS
  <1>1. LogSeq /\ LogOK /\ n \in Nat /\ now \in Nat /\ now \in 1 .. now
        /\ log' = Append(log, x) /\ now' = now
    <2>1. log' = Append(log, x) /\ now' = now
      BY DEF SlashAttestation, append
    <2>2. now \in Nat /\ now \in 1 .. now
      BY EconomyAssumption DEF EconomyInv, Epochs
    <2>3. LogSeq /\ LogOK
      BY DEF EconomyInv, LogOK
    <2> QED BY <2>1, <2>2, <2>3, LogLength
  <1>2. /\ n + 1 - 1 = n /\ log'[n + 1] = x
        /\ \A q \in 1 .. n : log'[q] = log[q]
        /\ \A k : entries(k, n)' = entries(k, n)
        /\ \A k : \A q \in entries(k, n) : q \in 1 .. n /\ log'[q] = log[q]
        /\ \A j : spendable_within(j, n)' = spendable_within(j, n)
        /\ settled_epoch_within(n)' = settled_epoch_within(n)
        /\ \A q : slashed(q, n)' <=> slashed(q, n)
    BY <1>1, OldMoney
  <1>3. EntryOK(n + 1)'
    <2>1. /\ x.attestation \in entries("attestation", n)'
          /\ x.attestor = log'[x.attestation].attestor
          /\ ~slashed(x.attestation, n)'
      BY <1>2 DEF SlashAttestation, slashable
    <2>2. attestation_window_open(x.attestation, settled_epoch_within(n))'
      BY <1>2 DEF SlashAttestation, slashable, attestation_window_open
    <2>3. x.kind = "verification_slash" /\ x.ts = now /\ x.units = VerificationBond
      OBVIOUS
    <2> QED BY <1>1, <1>2, <2>1, <2>2, <2>3, EconomyAssumption DEF EntryOK, Epochs
  <1>4. declares_supply => Afforded(n + 1)'
    BY <1>2 DEF Afforded
  <1>5. x.ts \in 1 .. now /\ (x.kind = "availability" => x.undertaking \in 1 .. n)
    BY <1>1
  <1> QED BY <1>1, <1>3, <1>4, <1>5, OneMore

LEMMA PostChallengeOk ==
    ASSUME EconomyInv, NEW i \in Identities, NEW c \in Claims, NEW b \in ChallengeBonds, PostChallenge(i, c, b)
    PROVE  EconomyInv'
  <1> PICK n : n = Len(log)
    OBVIOUS
  <1> PICK x : x = [kind |-> "challenge", challenger |-> i, claim |-> c, bond |-> b, ts |-> now]
    OBVIOUS
  <1>1. LogSeq /\ LogOK /\ n \in Nat /\ now \in Nat /\ now \in 1 .. now
        /\ log' = Append(log, x) /\ now' = now
    <2>1. log' = Append(log, x) /\ now' = now
      BY DEF PostChallenge, append
    <2>2. now \in Nat /\ now \in 1 .. now
      BY EconomyAssumption DEF EconomyInv, Epochs
    <2>3. LogSeq /\ LogOK
      BY DEF EconomyInv, LogOK
    <2> QED BY <2>1, <2>2, <2>3, LogLength
  <1>2. /\ n + 1 - 1 = n /\ log'[n + 1] = x
        /\ \A q \in 1 .. n : log'[q] = log[q]
        /\ \A k : entries(k, n)' = entries(k, n)
        /\ \A k : \A q \in entries(k, n) : q \in 1 .. n /\ log'[q] = log[q]
        /\ \A j : spendable_within(j, n)' = spendable_within(j, n)
        /\ settled_epoch_within(n)' = settled_epoch_within(n)
        /\ \A q : slashed(q, n)' <=> slashed(q, n)
    BY <1>1, OldMoney
  <1>3. EntryOK(n + 1)'
    BY <1>1, <1>2, EconomyAssumption DEF EntryOK, Epochs
  <1>4. declares_supply => Afforded(n + 1)'
    BY <1>2 DEF PostChallenge, afford, Afforded
  <1>5. x.ts \in 1 .. now /\ (x.kind = "availability" => x.undertaking \in 1 .. n)
    BY <1>1
  <1> QED BY <1>1, <1>3, <1>4, <1>5, OneMore

LEMMA SettleChallengeOk ==
    ASSUME EconomyInv, NEW p \in entries("challenge", Len(log)), NEW d \in BOOLEAN, SettleChallenge(p, d)
    PROVE  EconomyInv'
  <1> PICK n : n = Len(log)
    OBVIOUS
  <1> PICK x : x = IF d
                  THEN [kind |-> "challenge_settlement", challenge |-> p,
                        winner |-> Claim[log[p].claim].submitter,
                        loser |-> log[p].challenger, units |-> log[p].bond, ts |-> now]
                  ELSE [kind |-> "challenge_settlement", challenge |-> p,
                        winner |-> log[p].challenger,
                        loser |-> Claim[log[p].claim].submitter,
                        units |-> defenderLoses(log[p].claim), ts |-> now]
    OBVIOUS
  <1>1. LogSeq /\ LogOK /\ n \in Nat /\ now \in Nat /\ now \in 1 .. now
        /\ log' = Append(log, x) /\ now' = now
    <2>1. log' = Append(log, x) /\ now' = now
      BY DEF SettleChallenge, append
    <2>2. now \in Nat /\ now \in 1 .. now
      BY EconomyAssumption DEF EconomyInv, Epochs
    <2>3. LogSeq /\ LogOK
      BY DEF EconomyInv, LogOK
    <2> QED BY <2>1, <2>2, <2>3, LogLength
  <1>2. /\ n + 1 - 1 = n /\ log'[n + 1] = x
        /\ \A q \in 1 .. n : log'[q] = log[q]
        /\ \A k : entries(k, n)' = entries(k, n)
        /\ \A k : \A q \in entries(k, n) : q \in 1 .. n /\ log'[q] = log[q]
        /\ \A j : spendable_within(j, n)' = spendable_within(j, n)
        /\ settled_epoch_within(n)' = settled_epoch_within(n)
        /\ \A q : slashed(q, n)' <=> slashed(q, n)
    BY <1>1, OldMoney
  <1>6. /\ p \in 1 .. n /\ log[p].bond \in Nat /\ log[p].claim \in Claims
        /\ Objective[Claim[log[p].claim].objective].reward \in Nat
    <2>1. p \in 1 .. n /\ log[p].kind = "challenge"
      BY DEF entries
    <2>2. log[p].bond \in Nat /\ log[p].claim \in Claims
      BY <1>1, <2>1 DEF LogOK, EntryOK
    <2> QED BY <2>1, <2>2, EconomyAssumption
  <1>7. x.kind = "challenge_settlement" /\ x.challenge = p /\ x.ts = now
    OBVIOUS
  <1>8. /\ x.units \in Nat
        /\ \/ x.loser = log[p].challenger /\ x.units = log[p].bond
           \/ x.units <= spendable_within(x.loser, n)
    <2>1. CASE d
      BY <1>6, <2>1
    <2>2. CASE ~d
      <3> DEFINE j == Claim[log[p].claim].submitter
      <3>1. x.loser = j /\ x.units = defenderLoses(log[p].claim)
        BY <2>2
      <3>2. balances_within(j, n) \in Nat /\ spendable_within(j, n) = balances_within(j, n)
        BY <1>1, <1>2, <1>6, SpendableNat
      <3>3. defenderLoses(log[p].claim) \in Nat
            /\ defenderLoses(log[p].claim) <= balances_within(j, n)
        BY <1>6, <3>2 DEF defenderLoses
      <3> QED BY <3>1, <3>2, <3>3
    <2> QED BY <2>1, <2>2
  <1>3. EntryOK(n + 1)'
    <2>1. /\ x.challenge \in entries("challenge", n)'
          /\ \A q \in entries("challenge_settlement", n)' : log'[q].challenge # x.challenge
      BY <1>2, <1>7 DEF SettleChallenge
    <2> QED BY <1>1, <1>2, <1>7, <1>8, <2>1, EconomyAssumption DEF EntryOK, Epochs
  <1>4. declares_supply => Afforded(n + 1)'
    <2>1. log'[p] = log[p]
      BY <1>2
    <2> QED BY <1>2, <1>7, <1>8, <2>1 DEF Afforded
  <1>5. x.ts \in 1 .. now /\ (x.kind = "availability" => x.undertaking \in 1 .. n)
    BY <1>1
  <1> QED BY <1>1, <1>3, <1>4, <1>5, OneMore

\* Node::settle_due writes payments and a batch, which charge nobody.
LEMMA SettleDueOk ==
    ASSUME EconomyInv, NEW e \in Epochs, SettleDue(e)
    PROVE  EconomyInv'
  <1> DEFINE n == Len(log)
             open == {o \in {Claim[c].objective : c \in accepted(e)} : ~settlement_of(o)}
             row(c) == [kind |-> "settlement", claim |-> c,
                        reward |-> Objective[Claim[c].objective].reward, ts |-> now]
             z == [kind |-> "batch", epoch |-> e, claims |-> accepted(e),
                   anchor |-> anchor_of_epoch_within(e, Len(log)), ts |-> now]
  <1>1. LogSeq /\ LogOK /\ n \in Nat /\ now \in Epochs /\ now' = now /\ now \in Nat
        /\ now \in 1 .. now
    <2>1. LogSeq /\ LogOK /\ now \in Epochs /\ now' = now
      BY DEF EconomyInv, LogOK, SettleDue
    <2> QED BY <2>1, LogLength, EconomyAssumption DEF Epochs
  <1>2. PICK paid \in SUBSET accepted(e) :
            \E order \in [1 .. Cardinality(paid) -> paid] :
                log' = log \o [k \in DOMAIN order |-> row(order[k])] \o <<z>>
    BY DEF SettleDue
  <1>3. PICK order \in [1 .. Cardinality(paid) -> paid] :
            log' = log \o [k \in DOMAIN order |-> row(order[k])] \o <<z>>
    BY <1>2
  <1> DEFINE m == Cardinality(paid)
             rows == [k \in 1 .. m |-> row(order[k])]
  <1>4. accepted(e) # {} /\ n > 0
    <2>1. accepted(e) # {}
      BY DEF SettleDue, due_epochs
    <2>2. entries("claim", n) # {}
      BY <2>1 DEF accepted
    <2> QED BY <1>1, <2>1, <2>2 DEF entries
  <1>5. m \in Nat
    <2> DEFINE C == {log[p].claim : p \in entries("claim", n)}
    <2>1. IsFiniteSet(entries("claim", n))
      BY <1>1, NextEntries
    <2>2. IsFiniteSet(C)
      <3> DEFINE f == [p \in entries("claim", n) |-> log[p].claim]
      <3>1. C = {f[p] : p \in entries("claim", n)}
        OBVIOUS
      <3> HIDE DEF f
      <3> QED BY <2>1, <3>1, ImageFinite
    <2>3. paid \in SUBSET C
      BY DEF accepted
    <2> HIDE DEF C
    <2> QED BY <2>2, <2>3, FS_Subset, FS_CardinalityType
  <1>6. \A k \in 1 .. m : order[k] \in Claims
    BY <1>3 DEF accepted
  <1>7. log' = (log \o rows) \o <<z>>
    BY <1>3
  <1>8. PICK S : log \in Seq(S)
    BY <1>1 DEF LogSeq
  <1> DEFINE U == S \cup {rows[k] : k \in 1 .. m} \cup {z}
  <1>9. log \in Seq(U) /\ rows \in Seq(U) /\ Len(rows) = m /\ z \in U
    <2>1. log \in Seq(U)
      BY <1>8
    <2>2. \A k \in 1 .. m : rows[k] \in U
      OBVIOUS
    <2>3. rows = [k \in 1 .. m |-> rows[k]]
      OBVIOUS
    <2>4. z \in U
      OBVIOUS
    <2> HIDE DEF rows, U, z
    <2>5. rows \in [1 .. m -> U]
      BY <2>2, <2>3
    <2>6. rows \in Seq(U) /\ Len(rows) = m
      BY <1>5, <2>5, SeqDef, LenProperties
    <2> QED BY <2>1, <2>4, <2>6
  <1>10. \A k \in 1 .. m : rows[k] = row(order[k])
    OBVIOUS
  <1> HIDE DEF rows, U, z, m, row
  <1>11. /\ log \o rows \in Seq(U) /\ Len(log \o rows) = n + m
         /\ \A p \in 1 .. n : (log \o rows)[p] = log[p]
         /\ \A p \in n + 1 .. n + m : (log \o rows)[p] = rows[p - n]
    <2>1. /\ log \o rows \in Seq(U)
          /\ Len(log \o rows) = Len(log) + Len(rows)
          /\ \A k \in 1 .. Len(log) + Len(rows) : (log \o rows)[k] =
                    IF k <= Len(log) THEN log[k] ELSE rows[k - Len(log)]
      BY <1>9, ConcatProperties
    <2> QED BY <1>1, <1>5, <1>9, <2>1
  <1>12. /\ log' \in Seq(U) /\ Len(log') = n + m + 1
         /\ \A p \in 1 .. n + m : log'[p] = (log \o rows)[p]
         /\ log'[n + m + 1] = z
    <2> DEFINE y == log \o rows
    <2>1. y \in Seq(U) /\ Len(y) = n + m /\ log' = y \o <<z>>
      BY <1>7, <1>11
    <2> HIDE DEF y
    <2>2. <<z>> \in Seq(U) /\ Len(<<z>>) = 1 /\ <<z>>[1] = z
      BY <1>9
    <2>3. /\ y \o <<z>> \in Seq(U)
          /\ Len(y \o <<z>>) = Len(y) + 1
          /\ \A k \in 1 .. Len(y) + 1 : (y \o <<z>>)[k] =
                    IF k <= Len(y) THEN y[k] ELSE <<z>>[k - Len(y)]
      BY <2>1, <2>2, ConcatProperties
    <2>4. n + m \in Nat
      BY <1>1, <1>5
    <2>5. log'[n + m + 1] = z
      BY <2>1, <2>2, <2>3, <2>4
    <2> QED BY <2>1, <2>3, <2>4, <2>5 DEF y
  <1>13. LogSeq' /\ Kept(n)
    <2>1. LogSeq'
      BY <1>12 DEF LogSeq
    <2>2. \A p \in 1 .. n : log'[p] = log[p]
      BY <1>1, <1>5, <1>11, <1>12
    <2> QED BY <1>1, <1>5, <1>12, <2>1, <2>2 DEF Kept
  <1>14. /\ \A p \in 1 .. n : EntryOK(p)' /\ Stamped(p)'
         /\ declares_supply' <=> declares_supply
         /\ declares_supply => \A p \in 1 .. n : Afforded(p)'
    BY <1>1, <1>4, <1>13, OldEntries
  <1>15. ASSUME NEW p \in n + 1 .. Len(log')
         PROVE  EntryOK(p)' /\ Stamped(p)' /\ Afforded(p)'
    <2>1. CASE p = n + m + 1
      <3>1. log'[p].kind = "batch" /\ log'[p].epoch = e /\ log'[p].ts = now
        BY <1>12, <2>1 DEF z
      <3> QED BY <1>1, <3>1 DEF EntryOK, Stamped, Afforded, Epochs
    <2>2. CASE p # n + m + 1
      <3>1. p \in n + 1 .. n + m /\ p - n \in 1 .. m
        BY <1>1, <1>5, <1>12, <2>2
      <3>2. log'[p] = row(order[p - n])
        BY <1>1, <1>5, <1>10, <1>11, <1>12, <3>1
      <3>3. order[p - n] \in Claims
        BY <1>6, <3>1 DEF m
      <3>4. Objective[Claim[order[p - n]].objective].reward \in Nat
        BY <3>3, EconomyAssumption
      <3>5. /\ log'[p].kind = "settlement" /\ log'[p].claim \in Claims
            /\ log'[p].reward \in Nat /\ log'[p].ts = now
        BY <3>2, <3>3, <3>4 DEF row
      <3> QED BY <1>1, <3>5 DEF EntryOK, Stamped, Afforded
    <2> QED BY <2>1, <2>2
  <1>16. \A p \in 1 .. Len(log') : p \in 1 .. n \/ p \in n + 1 .. Len(log')
    BY <1>1, <1>5, <1>12
  <1>17. LogOK' /\ AllAfforded' /\ \A p \in 1 .. Len(log') : Stamped(p)'
    BY <1>13, <1>14, <1>15, <1>16 DEF LogOK, AllAfforded
  <1>18. (now \in Epochs)'
    BY <1>1 DEF Epochs
  <1> QED BY <1>17, <1>18 DEF EconomyInv

LEMMA SameLog ==
    ASSUME EconomyInv, log' = log, now' \in Epochs, now <= now'
    PROVE  EconomyInv'
  <1>1. LogSeq /\ LogSeq' /\ Len(log) \in Nat /\ Len(log') = Len(log) /\ now' \in Nat
    BY LogLength, EconomyAssumption DEF EconomyInv, LogOK, LogSeq, Epochs
  <1>2. Kept(Len(log))
    BY <1>1 DEF Kept
  <1>3. declares_supply' <=> declares_supply
    BY DEF declares_supply, genesis_prefix
  <1>4. /\ \A p \in 1 .. Len(log) : EntryOK(p)' /\ Stamped(p)'
        /\ Len(log) > 0 /\ declares_supply => \A p \in 1 .. Len(log) : Afforded(p)'
    BY <1>1, <1>2, OldEntries
  <1>5. LogOK' /\ AllAfforded' /\ \A p \in 1 .. Len(log') : Stamped(p)'
    BY <1>1, <1>3, <1>4 DEF LogOK, AllAfforded
  <1>6. (now \in Epochs)'
    BY DEF Epochs
  <1> QED BY <1>5, <1>6 DEF EconomyInv

LEMMA EconomyStep ==
    ASSUME EconomyInv, [Next]_vars
    PROVE  EconomyInv'
  <1>1. CASE \E r \in Issuances : PostIssuance(r)
    BY <1>1, PostIssuanceOk
  <1>2. CASE \E o \in Objectives, at \in Epochs :
                at <= now /\ now <= at + SyncLag /\ PostObjective(o, at)
    BY <1>2, PostObjectiveOk
  <1>3. CASE \E c \in Claims : Reveal(c)
    BY <1>3, RevealOk
  <1>4. CASE \E e \in Epochs : SettleDue(e)
    BY <1>4, SettleDueOk
  <1>5. CASE \E e \in Epochs, v \in BeaconValues : RecordBeacon(e, v)
    BY <1>5, RecordBeaconOk
  <1>6. CASE \E a \in Pools : PostAvailabilityPool(a)
    BY <1>6, PostAvailabilityPoolOk
  <1>7. CASE \E i \in Identities, b \in Bonds : PostUndertaking(i, b)
    BY <1>7, PostUndertakingOk
  <1>8. CASE \E u \in entries("undertaking", Len(log)), e \in Epochs : PostAvailability(u, e)
    BY <1>8, PostAvailabilityOk
  <1>9. CASE \E e \in Epochs : SettleAvailability(e)
    BY <1>9, SettleAvailabilityOk
  <1>10. CASE \E i \in Identities, c \in Claims, s \in Statuses : PostAttestation(i, c, s)
    BY <1>10, PostAttestationOk
  <1>11. CASE \E p \in entries("attestation", Len(log)), i \in Identities :
                SlashAttestation(p, i)
    BY <1>11, SlashAttestationOk
  <1>12. CASE \E i \in Identities, c \in Claims, b \in ChallengeBonds :
                PostChallenge(i, c, b)
    BY <1>12, PostChallengeOk
  <1>13. CASE \E p \in entries("challenge", Len(log)), d \in BOOLEAN : SettleChallenge(p, d)
    BY <1>13, SettleChallengeOk
  <1>14. CASE AdvanceClock
    <2>1. log' = log /\ now' \in Epochs /\ now <= now'
      BY <1>14, EconomyAssumption DEF AdvanceClock, EconomyInv, Epochs
    <2> QED BY <2>1, SameLog
  <1>15. CASE UNCHANGED vars
    <2>1. log' = log /\ now' \in Epochs /\ now <= now'
      BY <1>15, EconomyAssumption DEF vars, EconomyInv, Epochs
    <2> QED BY <2>1, SameLog
  <1> QED BY <1>1, <1>2, <1>3, <1>4, <1>5, <1>6, <1>7, <1>8, <1>9, <1>10, <1>11,
             <1>12, <1>13, <1>14, <1>15 DEF Next

LEMMA EconomyInit == Init => EconomyInv
  <1> SUFFICES ASSUME Init PROVE EconomyInv
    OBVIOUS
  <1>1. log = <<>> /\ Len(log) = 0 /\ now = 1 /\ now \in Epochs
    BY EconomyAssumption DEF Init, Epochs
  <1>2. LogSeq
    <2>1. log \in Seq({})
      BY <1>1
    <2> QED BY <2>1 DEF LogSeq
  <1> QED BY <1>1, <1>2 DEF EconomyInv, LogOK, AllAfforded

\* Every entry of every log the node writes is in order, refers to earlier
\* entries, and on a log with a declared supply was affordable when it was
\* written, and remains so however the log grows (Node::append's rules).
THEOREM EconomyInvariant == Spec => []EconomyInv
  <1>1. EconomyInv /\ [Next]_vars => EconomyInv'
    BY EconomyStep
  <1> QED BY EconomyInit, <1>1, PTL DEF Spec

\* Entries are stamped within the clock and refer to earlier entries.
THEOREM EconomyTypes == Spec => []TypeOK
  <1>1. EconomyInv => TypeOK
    <2> SUFFICES ASSUME EconomyInv, NEW p \in 1 .. Len(log)
                 PROVE  /\ log[p].ts \in 1 .. now
                        /\ log[p].kind = "availability" => log[p].undertaking \in 1 .. p - 1
                        /\ log[p].kind = "verification_slash" =>
                                log[p].attestation \in 1 .. p - 1
                        /\ log[p].kind = "challenge_settlement" =>
                                log[p].challenge \in 1 .. p - 1
      BY DEF EconomyInv, TypeOK
    <2>1. Stamped(p) /\ EntryOK(p)
      BY DEF EconomyInv, LogOK
    <2> QED BY <2>1 DEF Stamped, EntryOK, entries
  <1> QED BY <1>1, EconomyInvariant, PTL

\* The audit's conservation rule (Node::audit): on a log that declares a supply
\* nobody ever owes more than the log issued or paid them, through every bond,
\* escrow, dispute and slash, for any number of identities and any amounts.
THEOREM MoneyConserved == Spec => []NobodyOwesMoreThanTheyHold
  <1>1. EconomyInv => NobodyOwesMoreThanTheyHold
    <2> SUFFICES ASSUME EconomyInv, declares_supply, NEW i \in Identities
                 PROVE  ~(committed_within(i, Len(log)) > gross_paid_within(i, Len(log)))
      BY DEF NobodyOwesMoreThanTheyHold, audit_conservation
    <2>1. LogOK /\ (\A p \in 1 .. Len(log) : Afforded(p)) /\ Len(log) \in Nat
      BY LogLength DEF EconomyInv, AllAfforded, LogOK
    <2>2. Len(log) \in 0 .. Len(log)
      BY <2>1
    <2>3. committed_within(i, Len(log)) <= gross_paid_within(i, Len(log))
      BY <2>1, <2>2, Conserved
    <2>4. /\ committed_within(i, Len(log)) \in Nat
          /\ gross_paid_within(i, Len(log)) \in Nat
      <3>1. Len(log) > 0
        BY <2>1, Genesis DEF LogOK
      <3> DEFINE m == Len(log) - 1
      <3>2. m \in Nat /\ m < Len(log) /\ m + 1 = Len(log)
        BY <2>1, <3>1
      <3>3. gross_paid_within(i, m + 1) \in Nat /\ committed_within(i, m + 1) \in Nat
        BY <2>1, <3>2, NextGross, NextCommitted
      <3> QED BY <3>2, <3>3
    <2> QED BY <2>3, <2>4
  <1> QED BY <1>1, EconomyInvariant, PTL

-----------------------------------------------------------------------------
(* What the rules asked of an entry is a question to the entries before it,  *)
(* so its answer stands while the log grows.                                 *)

LEMMA KeptUndertakings ==
    ASSUME LogSeq, LogSeq', NEW n, Kept(n)
    PROVE  undertakings_within(n)' = undertakings_within(n)
  <1>1. /\ entries("undertaking", n)' = entries("undertaking", n)
        /\ \A p \in entries("undertaking", n) : p \in 1 .. n /\ log'[p] = log[p]
    BY KeptEntries
  <1>2. ASSUME NEW p \in 1 .. n, NEW i
        PROVE  spendable_within(i, p - 1)' = spendable_within(i, p - 1)
    <2>1. Kept(p - 1)
      BY DEF Kept
    <2> QED BY <2>1, KeptMoney
  <1> QED BY <1>1, <1>2 DEF undertakings_within

LEMMA KeptAnchor ==
    ASSUME NEW n, Kept(n), NEW e
    PROVE  anchor_at(e, n)' = anchor_at(e, n)
  <1>1. {p \in 1 .. n : log'[p].ts < e} = {p \in 1 .. n : log[p].ts < e}
    BY DEF Kept
  <1> QED BY <1>1 DEF anchor_at

LEMMA KeptCheck ==
    ASSUME LogSeq, LogSeq', NEW n, Kept(n), NEW a
    PROVE  check_availability(a, n)' <=> check_availability(a, n)
  <1>1. undertakings_within(n)' = undertakings_within(n)
    BY KeptUndertakings
  <1>2. \A u \in undertakings_within(n) : log'[u] = log[u]
    BY KeptEntries DEF undertakings_within
  <1>3. \A e : anchor_at(e, n)' = anchor_at(e, n)
    BY KeptAnchor
  <1> QED BY <1>1, <1>2, <1>3 DEF check_availability, sampled_index

LEMMA KeptAnswers ==
    ASSUME LogSeq, LogSeq', NEW n, Kept(n)
    PROVE  /\ availability_answers_within(n)' = availability_answers_within(n)
           /\ \A u, e : answered(u, e, n)' <=> answered(u, e, n)
  <1>1. /\ entries("availability", n)' = entries("availability", n)
        /\ \A p \in entries("availability", n) : p \in 1 .. n /\ log'[p] = log[p]
    BY KeptEntries
  <1>2. ASSUME NEW p \in 1 .. n, NEW a
        PROVE  check_availability(a, p - 1)' <=> check_availability(a, p - 1)
    <2>1. Kept(p - 1)
      BY DEF Kept
    <2> QED BY <2>1, KeptCheck
  <1>3. ASSUME NEW p \in entries("availability", n)
        PROVE  check_availability(log[p], p - 1)' <=> check_availability(log[p], p - 1)
    <2> PICK a : a = log[p]
      OBVIOUS
    <2>1. check_availability(a, p - 1)' <=> check_availability(a, p - 1)
      BY <1>1, <1>2
    <2>2. log'[p] = a
      BY <1>1
    <2> QED BY <2>1, <2>2 DEF check_availability, sampled_index
  <1>4. availability_answers_within(n)' = availability_answers_within(n)
    BY <1>1, <1>3 DEF availability_answers_within
  <1>5. \A p \in availability_answers_within(n) : log'[p] = log[p]
    BY <1>1 DEF availability_answers_within
  <1> QED BY <1>4, <1>5 DEF answered

LEMMA BoundaryWithin ==
    ASSUME NEW n \in Nat, NEW e
    PROVE  /\ boundary(e, n) \in 0 .. n
           /\ \A p \in 1 .. boundary(e, n) : log[p].ts < e
  <1> DEFINE S == {m \in 0 .. n : \A p \in 1 .. m : log[p].ts < e}
  <1>1. S \subseteq Nat /\ 0 \in S /\ \A s \in S : s <= n
    OBVIOUS
  <1>2. S \subseteq 0 .. n /\ boundary(e, n) = Max(S)
        /\ \A s \in S : \A p \in 1 .. s : log[p].ts < e
    BY DEF boundary
  <1> HIDE DEF S
  <1>3. Max(S) \in S
    BY <1>1, MaxOf
  <1> QED BY <1>2, <1>3

LEMMA KeptBoundary ==
    ASSUME NEW n, Kept(n), NEW e
    PROVE  boundary(e, n)' = boundary(e, n)
  <1>1. {m \in 0 .. n : \A p \in 1 .. m : log'[p].ts < e}
            = {m \in 0 .. n : \A p \in 1 .. m : log[p].ts < e}
    BY DEF Kept
  <1> QED BY <1>1 DEF boundary

LEMMA KeptOffered ==
    ASSUME NEW n, Kept(n), NEW e
    PROVE  offered_within(e, n)' = offered_within(e, n)
  <1> DEFINE S == {p \in entries("availability_pool", n) : covers(log[p].pool, e)}
             T == {p \in entries("availability_pool", n)' : covers(log'[p].pool, e)}
  <1>1. T = S /\ \A p \in S : log'[p] = log[p]
    BY KeptEntries
  <1>2. [p \in T |-> Pool[log'[p].pool].per_epoch] = [p \in S |-> Pool[log[p].pool].per_epoch]
    BY <1>1
  <1> QED BY <1>2 DEF offered_within, sum, covers

\* The parts of an epoch's settlement, as the first n entries give them.
keptPromises(e, n) == {u \in eligible(e, n) : answered(u, e, n)}
payeesOf(e, n)     == {log[u].identity : u \in keptPromises(e, n)}
weightsOf(e, n)    ==
    [i \in payeesOf(e, n) |->
        sum({u \in keptPromises(e, n) : log[u].identity = i}, LAMBDA u : log[u].bond)]

totalOf(e, n)      == SumFunction([i \in payeesOf(e, n) |-> weightsOf(e, n)[i]])
offerOf(e, n)      == offered_within(e, boundary(e, n))
sharesOf(e, n)     ==
    [i \in payeesOf(e, n) |->
        mul_div_floor(offerOf(e, n), weightsOf(e, n)[i], totalOf(e, n))]

LEMMA SettlementParts ==
    ASSUME NEW e, NEW n
    PROVE  availability_settlement_at(e, n) =
                [epoch |-> e, paid |-> sharesOf(e, n),
                 silent |-> eligible(e, n) \ keptPromises(e, n),
                 unpaid |-> offerOf(e, n)
                    - SumFunction([i \in payeesOf(e, n) |-> sharesOf(e, n)[i]])]
  BY DEF availability_settlement_at, sharesOf, offerOf, totalOf, weightsOf, payeesOf,
         keptPromises, sum

LEMMA KeptSettlementAt ==
    ASSUME LogSeq, LogSeq', NEW n, Kept(n), NEW e
    PROVE  /\ eligible(e, n)' = eligible(e, n)
           /\ availability_settlement_at(e, n)' = availability_settlement_at(e, n)
  <1>1. n \in Nat /\ boundary(e, n)' = boundary(e, n) /\ boundary(e, n) \in 0 .. n
    BY KeptBoundary, BoundaryWithin DEF Kept
  <1>2. PICK m : m = boundary(e, n)
    OBVIOUS
  <1>3. Kept(m) /\ boundary(e, n)' = m
    BY <1>1, <1>2 DEF Kept
  <1>4. undertakings_within(m)' = undertakings_within(m)
    BY <1>3, KeptUndertakings
  <1>5. eligible(e, n)' = eligible(e, n)
    BY <1>2, <1>3, <1>4 DEF eligible
  <1>6. \A u : answered(u, e, n)' <=> answered(u, e, n)
    BY KeptAnswers
  <1>7. keptPromises(e, n)' = keptPromises(e, n)
    BY <1>5, <1>6 DEF keptPromises
  <1>8. \A u \in keptPromises(e, n) : log'[u] = log[u]
    <2>1. \A u \in eligible(e, n) : u \in 1 .. m
      BY <1>2 DEF eligible, undertakings_within, entries
    <2> QED BY <1>3, <2>1 DEF keptPromises, Kept
  <1>9. payeesOf(e, n)' = payeesOf(e, n)
    BY <1>7, <1>8 DEF payeesOf
  <1>10. weightsOf(e, n)' = weightsOf(e, n)
    <2>1. ASSUME NEW i
          PROVE  [u \in {v \in keptPromises(e, n)' : log'[v].identity = i} |-> log'[u].bond]
                    = [u \in {v \in keptPromises(e, n) : log[v].identity = i} |-> log[u].bond]
      <3>1. {v \in keptPromises(e, n)' : log'[v].identity = i}
                = {v \in keptPromises(e, n) : log[v].identity = i}
        BY <1>7, <1>8
      <3>2. \A u \in {v \in keptPromises(e, n) : log[v].identity = i} :
                log'[u].bond = log[u].bond
        BY <1>8
      <3> QED BY <3>1, <3>2
    <2> QED BY <1>9, <2>1 DEF weightsOf, sum
  <1>11. offerOf(e, n)' = offerOf(e, n)
    BY <1>2, <1>3, KeptOffered DEF offerOf
  <1>12. totalOf(e, n)' = totalOf(e, n)
    BY <1>9, <1>10 DEF totalOf
  <1>13. sharesOf(e, n)' = sharesOf(e, n)
    BY <1>9, <1>10, <1>11, <1>12 DEF sharesOf, mul_div_floor, shifts
  <1>14. availability_settlement_at(e, n)' = availability_settlement_at(e, n)
    <2>1. availability_settlement_at(e, n)' =
            [epoch |-> e, paid |-> sharesOf(e, n)',
             silent |-> eligible(e, n)' \ keptPromises(e, n)',
             unpaid |-> offerOf(e, n)'
                - SumFunction([i \in payeesOf(e, n)' |-> sharesOf(e, n)'[i]])]
      BY DEF availability_settlement_at, sharesOf, offerOf, totalOf, weightsOf, payeesOf,
             keptPromises, sum
    <2> QED BY <1>5, <1>7, <1>9, <1>11, <1>13, <2>1, SettlementParts
  <1> QED BY <1>5, <1>14

LEMMA KeptAnchorOf ==
    ASSUME NEW n, Kept(n), NEW e
    PROVE  /\ epoch_beacon_within(e, n)' = epoch_beacon_within(e, n)
           /\ anchor_of_epoch_within(e, n)' = anchor_of_epoch_within(e, n)
  <1>1. /\ entries("beacon", n)' = entries("beacon", n)
        /\ entries("batch", n)' = entries("batch", n)
        /\ \A p \in 1 .. n : log'[p] = log[p]
        /\ \A p \in entries("beacon", n) : p \in 1 .. n
        /\ \A p \in entries("batch", n) : p \in 1 .. n
    BY KeptEntries
  <1> DEFINE D == {p \in entries("beacon", n) : log[p].orders = e /\ log[p].ts = e}
             H == {q \in entries("batch", n) : \A r \in entries("batch", q) : log[r].epoch # e}
  <1>2. {p \in entries("beacon", n)' : log'[p].orders = e /\ log'[p].ts = e} = D
    BY <1>1
  <1>3. ASSUME D # {} PROVE Min(D) \in D
    <2>1. D \subseteq Nat
      BY <1>1
    <2>2. \E x \in D : \A y \in D : x <= y
      <3> HIDE DEF D
      <3> QED BY <1>3, <2>1, LeastNatural
    <2> HIDE DEF D
    <2> QED BY <2>2 DEF Min
  <1>4. epoch_beacon_within(e, n) = IF D = {} THEN {} ELSE {log[Min(D)].value}
    BY DEF epoch_beacon_within, beacon_is_in_time
  <1>5. epoch_beacon_within(e, n)' = IF D = {} THEN {} ELSE {log'[Min(D)].value}
    BY <1>2 DEF epoch_beacon_within, beacon_is_in_time
  <1>6. \A p \in D : log'[p] = log[p]
    BY <1>1
  <1>7. epoch_beacon_within(e, n)' = epoch_beacon_within(e, n)
    <2> HIDE DEF D
    <2> QED BY <1>3, <1>4, <1>5, <1>6
  <1>8. ASSUME NEW q \in 1 .. n
        PROVE  /\ entries("batch", q)' = entries("batch", q)
               /\ \A r \in entries("batch", q) : log'[r] = log[r]
    <2>1. Kept(q)
      BY DEF Kept
    <2> QED BY <2>1, KeptEntries
  <1>9. {q \in entries("batch", n)' : \A r \in entries("batch", q)' : log'[r].epoch # e} = H
    BY <1>1, <1>8
  <1>10. \A p \in H : log'[p] = log[p]
    BY <1>1
  <1>11. epoch_chain_head_before(n, e)' = epoch_chain_head_before(n, e)
    BY <1>9, <1>10 DEF epoch_chain_head_before
  <1> QED BY <1>7, <1>11 DEF anchor_of_epoch_within

LEMMA KeptAccepted ==
    ASSUME NEW n, Kept(n), NEW e
    PROVE  accepted_in_epoch_within(e, n)' = accepted_in_epoch_within(e, n)
  <1>1. /\ entries("claim", n)' = entries("claim", n)
        /\ \A p \in entries("claim", n) : log'[p] = log[p]
    BY KeptEntries
  <1>2. {q \in entries("claim", n)' :
                log'[q].ts = e /\ Claim[log'[q].claim].truth = "accept"}
            = {q \in entries("claim", n) :
                log[q].ts = e /\ Claim[log[q].claim].truth = "accept"}
    BY <1>1
  <1> QED BY <1>1, <1>2 DEF accepted_in_epoch_within

\* What i earned for work of one verifier.
earnedIn(i, t, n) ==
    sum({p \in entries("settlement", n) :
            /\ Claim[log[p].claim].submitter = i
            /\ Objective[Claim[log[p].claim].objective].tier = t},
        LAMBDA p : log[p].reward)

LEMMA KeptTier ==
    ASSUME NEW n, Kept(n), NEW i, NEW t
    PROVE  earnedIn(i, t, n)' = earnedIn(i, t, n)
  <1> DEFINE of(l, p) == /\ Claim[l[p].claim].submitter = i
                         /\ Objective[Claim[l[p].claim].objective].tier = t
             S == {p \in entries("settlement", n) : of(log, p)}
             T == {p \in entries("settlement", n)' : of(log', p)}
  <1>1. T = S /\ \A p \in S : log'[p] = log[p]
    BY KeptEntries
  <1>2. [p \in T |-> log'[p].reward] = [p \in S |-> log[p].reward]
    BY <1>1
  <1> QED BY <1>2 DEF sum, earnedIn

LEMMA TierHeld ==
    ASSUME NEW i, NEW t, NEW n
    PROVE  tier_held(i, t, n) =
                IF t = Universal
                THEN issued_within(i, n) + served_within(i, n) + challenge_won(i, n)
                     + caught_within(i, n)
                ELSE earnedIn(i, t, n)
  BY DEF tier_held, earnedIn

TierHeldIs ==
    \A i, t, n : tier_held(i, t, n) =
                IF t = Universal
                THEN issued_within(i, n) + served_within(i, n) + challenge_won(i, n)
                     + caught_within(i, n)
                ELSE earnedIn(i, t, n)

LEMMA TierHeldNext == TierHeldIs /\ TierHeldIs'
  <1>1. TierHeldIs
    BY TierHeld DEF TierHeldIs
  <1> QED BY <1>1, PTL

LEMMA KeptSpendableIn ==
    ASSUME LogSeq, LogSeq', NEW n, Kept(n), NEW i, NEW t
    PROVE  spendable_in(i, t, n)' = spendable_in(i, t, n)
  <1>1. \A s : tier_held(i, s, n)' = tier_held(i, s, n)
    <2> TAKE s
    <2>1. /\ issued_within(i, n)' = issued_within(i, n)
          /\ served_within(i, n)' = served_within(i, n)
          /\ challenge_won(i, n)' = challenge_won(i, n)
          /\ caught_within(i, n)' = caught_within(i, n)
          /\ earnedIn(i, s, n)' = earnedIn(i, s, n)
      BY KeptIssued, KeptServed, KeptWon, KeptCaught, KeptTier
    <2>2. tier_held(i, s, n)' =
                IF s = Universal
                THEN issued_within(i, n)' + served_within(i, n)' + challenge_won(i, n)'
                     + caught_within(i, n)'
                ELSE earnedIn(i, s, n)'
      BY TierHeldNext DEF TierHeldIs
    <2> QED BY <2>1, <2>2, TierHeld
  <1>2. \A s : tier_committed(i, s, n)' = tier_committed(i, s, n)
    BY KeptRewards, KeptPools, KeptLocked, KeptChallengeBonds, KeptLost,
       KeptAttestationBonds, KeptSlashed DEF tier_committed, service_charges
  <1>3. [s \in Kinds |-> minus(tier_committed(i, s, n), tier_held(i, s, n))']
            = [s \in Kinds |-> minus(tier_committed(i, s, n), tier_held(i, s, n))]
    BY <1>1, <1>2 DEF minus
  <1>4. universal_drawn(i, n)' = universal_drawn(i, n)
    BY <1>2, <1>3 DEF universal_drawn, sum
  <1> QED BY <1>1, <1>2, <1>4 DEF spendable_in, minus
-----------------------------------------------------------------------------
(* What the audit will ask of entry p: nothing that was written since can    *)
(* change the answer.                                                        *)

Known(c, n) == \E q \in entries("claim", n) : log[q].claim = c

Funded == log[1].kind = "issuance"

RecordStands(p) ==
    /\ log[p].kind = "issuance" => \A q \in 1 .. p : log[q].kind = "issuance"
    /\ log[p].kind = "objective" =>
        LET o == log[p].objective IN
        /\ Funded => Objective[o].reward
                        <= spendable_in(Objective[o].funder, Objective[o].tier, p - 1)
        /\ \A q \in entries("objective", p - 1) : log[q].objective # o
    /\ log[p].kind = "claim" =>
        /\ log[p].claim \in Claims
        /\ \E q \in entries("objective", p - 1) :
                log[q].objective = Claim[log[p].claim].objective
    /\ log[p].kind = "beacon" =>
        /\ log[p].ts = log[p].orders
        /\ \A q \in entries("beacon", p - 1) : log[q].orders # log[p].orders

BatchStands(p) ==
    /\ log[p].kind = "settlement" =>
        /\ Known(log[p].claim, p - 1) /\ Claim[log[p].claim].truth = "accept"
        /\ log[p].reward = Objective[Claim[log[p].claim].objective].reward
        /\ \A q \in entries("settlement", p - 1) :
                Claim[log[q].claim].objective # Claim[log[p].claim].objective
    /\ log[p].kind = "batch" =>
        /\ log[p].anchor = anchor_of_epoch_within(log[p].epoch, p - 1)
        /\ log[p].claims # {}
        /\ log[p].claims = accepted_in_epoch_within(log[p].epoch, p - 1)
        /\ \A q \in entries("batch", p - 1) : log[q].epoch # log[p].epoch

ServiceStands(p) ==
    /\ log[p].kind = "undertaking" =>
        /\ log[p].height = p - 1 /\ log[p].bond \in Nat \ {0}
        /\ log[p].bond <= spendable_within(log[p].identity, p - 1)
    /\ log[p].kind = "availability" =>
        /\ check_availability(log[p], p - 1)
        /\ ~answered(log[p].undertaking, log[p].epoch, p - 1)
        /\ \A q \in entries("availability_settlement", p - 1) : log[q].epoch < log[p].ts
    /\ log[p].kind = "availability_settlement" =>
        LET s == availability_settlement_at(log[p].epoch, p - 1) IN
        /\ log[p].epoch \in Epochs /\ log[p].epoch < log[p].ts
        /\ s.silent # {} \/ DOMAIN s.paid # {}
        /\ log[p].paid = s.paid /\ log[p].silent = s.silent /\ log[p].unpaid = s.unpaid
        /\ \A q \in entries("availability_settlement", p - 1) : log[q].epoch # log[p].epoch

DisputeStands(p) ==
    /\ log[p].kind = "attestation" =>
        /\ Known(log[p].claim, p - 1)
        /\ Funded => VerificationBond <= spendable_within(log[p].attestor, p - 1)
        /\ \A q \in entries("attestation", p - 1) :
                ~(log[q].claim = log[p].claim /\ log[q].attestor = log[p].attestor)
    /\ log[p].kind = "verification_slash" =>
        /\ log[p].catcher \in Identities
        /\ Claim[log[log[p].attestation].claim].truth # log[log[p].attestation].status
    /\ log[p].kind = "challenge" =>
        /\ Known(log[p].claim, p - 1) /\ Claim[log[p].claim].truth = "accept"
        /\ \A q \in entries("challenge", p - 1) :
                ~(log[q].claim = log[p].claim /\ log[q].challenger = log[p].challenger)
    /\ log[p].kind = "challenge_settlement" =>
        LET c == log[log[p].challenge] IN
        /\ {log[p].winner, log[p].loser} \subseteq {Claim[c.claim].submitter, c.challenger}
        /\ \/ log[p].winner = log[p].loser
           \/ log[p].units <= (IF log[p].loser = c.challenger THEN c.bond
                               ELSE Objective[Claim[c.claim].objective].reward)

Stands(p) == RecordStands(p) /\ BatchStands(p) /\ ServiceStands(p) /\ DisputeStands(p)

AuditInv == \A p \in 1 .. Len(log) : Stands(p)

LEMMA KeptKnown ==
    ASSUME NEW n, Kept(n), NEW c
    PROVE  Known(c, n)' <=> Known(c, n)
  BY KeptEntries DEF Known

LEMMA KeptRecord ==
    ASSUME LogSeq, LogSeq', NEW n, Kept(n), NEW p \in 1 .. n, RecordStands(p)
    PROVE  RecordStands(p)'
  <1>1. n \in Nat /\ Kept(p - 1) /\ log'[p] = log[p] /\ \A q \in 1 .. p : log'[q] = log[q]
        /\ log'[1] = log[1]
    BY DEF Kept
  <1>2. \A k : /\ entries(k, p - 1)' = entries(k, p - 1)
               /\ \A q \in entries(k, p - 1) : log'[q] = log[q]
    BY <1>1, KeptEntries
  <1>3. \A i, t : spendable_in(i, t, p - 1)' = spendable_in(i, t, p - 1)
    BY <1>1, KeptSpendableIn
  <1>4. (log[p].kind = "objective" =>
            LET o == log[p].objective IN
            /\ Funded => Objective[o].reward
                        <= spendable_in(Objective[o].funder, Objective[o].tier, p - 1)
            /\ \A q \in entries("objective", p - 1) : log[q].objective # o)'
    <2> PICK o : o = log[p].objective
      OBVIOUS
    <2>1. log'[p].objective = o /\ log'[p].kind = log[p].kind /\ (Funded' <=> Funded)
      BY <1>1 DEF Funded
    <2>2. spendable_in(Objective[o].funder, Objective[o].tier, p - 1)'
            = spendable_in(Objective[o].funder, Objective[o].tier, p - 1)
      BY <1>3
    <2>3. log[p].kind = "objective" =>
            /\ Funded => Objective[o].reward
                        <= spendable_in(Objective[o].funder, Objective[o].tier, p - 1)
            /\ \A q \in entries("objective", p - 1) : log[q].objective # o
      BY DEF RecordStands
    <2>4. log'[p].kind = "objective" =>
            /\ Funded' => Objective[o].reward
                        <= spendable_in(Objective[o].funder, Objective[o].tier, p - 1)'
            /\ \A q \in entries("objective", p - 1)' : log'[q].objective # o
      BY <1>2, <2>1, <2>2, <2>3
    <2> QED BY <2>1, <2>4
  <1> QED BY <1>1, <1>2, <1>4 DEF RecordStands

LEMMA KeptBatch ==
    ASSUME LogSeq, LogSeq', NEW n, Kept(n), NEW p \in 1 .. n, BatchStands(p)
    PROVE  BatchStands(p)'
  <1>1. n \in Nat /\ Kept(p - 1) /\ log'[p] = log[p]
    BY DEF Kept
  <1>2. \A k : /\ entries(k, p - 1)' = entries(k, p - 1)
               /\ \A q \in entries(k, p - 1) : log'[q] = log[q]
    BY <1>1, KeptEntries
  <1>3. \A e : /\ anchor_of_epoch_within(e, p - 1)' = anchor_of_epoch_within(e, p - 1)
               /\ accepted_in_epoch_within(e, p - 1)' = accepted_in_epoch_within(e, p - 1)
    BY <1>1, KeptAnchorOf, KeptAccepted
  <1>4. \A c : Known(c, p - 1)' <=> Known(c, p - 1)
    BY <1>1, KeptKnown
  <1> PICK x : x = log[p]
    OBVIOUS
  <1>5. log'[p] = x
    BY <1>1
  <1>6. /\ anchor_of_epoch_within(x.epoch, p - 1)' = anchor_of_epoch_within(x.epoch, p - 1)
        /\ accepted_in_epoch_within(x.epoch, p - 1)' = accepted_in_epoch_within(x.epoch, p - 1)
        /\ Known(x.claim, p - 1)' <=> Known(x.claim, p - 1)
    BY <1>3, <1>4
  <1>7. /\ x.kind = "settlement" =>
            /\ Known(x.claim, p - 1) /\ Claim[x.claim].truth = "accept"
            /\ x.reward = Objective[Claim[x.claim].objective].reward
            /\ \A q \in entries("settlement", p - 1) :
                    Claim[log[q].claim].objective # Claim[x.claim].objective
        /\ x.kind = "batch" =>
            /\ x.anchor = anchor_of_epoch_within(x.epoch, p - 1)
            /\ x.claims # {}
            /\ x.claims = accepted_in_epoch_within(x.epoch, p - 1)
            /\ \A q \in entries("batch", p - 1) : log[q].epoch # x.epoch
    BY DEF BatchStands
  <1>8. /\ x.kind = "settlement" =>
            /\ Known(x.claim, p - 1)' /\ Claim[x.claim].truth = "accept"
            /\ x.reward = Objective[Claim[x.claim].objective].reward
            /\ \A q \in entries("settlement", p - 1)' :
                    Claim[log'[q].claim].objective # Claim[x.claim].objective
        /\ x.kind = "batch" =>
            /\ x.anchor = anchor_of_epoch_within(x.epoch, p - 1)'
            /\ x.claims # {}
            /\ x.claims = accepted_in_epoch_within(x.epoch, p - 1)'
            /\ \A q \in entries("batch", p - 1)' : log'[q].epoch # x.epoch
    BY <1>2, <1>6, <1>7
  <1> QED BY <1>5, <1>8 DEF BatchStands, Known, anchor_of_epoch_within,
            accepted_in_epoch_within

LEMMA KeptService ==
    ASSUME LogSeq, LogSeq', NEW n, Kept(n), NEW p \in 1 .. n, ServiceStands(p)
    PROVE  ServiceStands(p)'
  <1>1. n \in Nat /\ Kept(p - 1) /\ log'[p] = log[p]
    BY DEF Kept
  <1>2. \A k : /\ entries(k, p - 1)' = entries(k, p - 1)
               /\ \A q \in entries(k, p - 1) : log'[q] = log[q]
    BY <1>1, KeptEntries
  <1> PICK x : x = log[p]
    OBVIOUS
  <1>3. log'[p] = x
    BY <1>1
  <1>4. /\ spendable_within(x.identity, p - 1)' = spendable_within(x.identity, p - 1)
        /\ check_availability(x, p - 1)' <=> check_availability(x, p - 1)
        /\ answered(x.undertaking, x.epoch, p - 1)' <=> answered(x.undertaking, x.epoch, p - 1)
    BY <1>1, KeptMoney, KeptCheck, KeptAnswers
  <1> PICK s : s = availability_settlement_at(x.epoch, p - 1)
    OBVIOUS
  <1>5. availability_settlement_at(x.epoch, p - 1)' = s
    BY <1>1, KeptSettlementAt
  <1>6. /\ x.kind = "undertaking" =>
            x.height = p - 1 /\ x.bond <= spendable_within(x.identity, p - 1)
        /\ x.kind = "availability" =>
            /\ check_availability(x, p - 1)
            /\ ~answered(x.undertaking, x.epoch, p - 1)
            /\ \A q \in entries("availability_settlement", p - 1) : log[q].epoch < x.ts
        /\ x.kind = "availability_settlement" =>
            /\ x.epoch \in Epochs /\ x.epoch < x.ts
            /\ s.silent # {} \/ DOMAIN s.paid # {}
            /\ x.paid = s.paid /\ x.silent = s.silent /\ x.unpaid = s.unpaid
            /\ \A q \in entries("availability_settlement", p - 1) : log[q].epoch # x.epoch
    BY DEF ServiceStands
  <1>7. /\ x.kind = "undertaking" =>
            x.height = p - 1 /\ x.bond <= spendable_within(x.identity, p - 1)'
        /\ x.kind = "availability" =>
            /\ check_availability(x, p - 1)'
            /\ ~answered(x.undertaking, x.epoch, p - 1)'
            /\ \A q \in entries("availability_settlement", p - 1)' : log'[q].epoch < x.ts
        /\ x.kind = "availability_settlement" =>
            \A q \in entries("availability_settlement", p - 1)' : log'[q].epoch # x.epoch
    BY <1>2, <1>4, <1>6
  <1>8. spendable_within(log[p].identity, p - 1)' = spendable_within(x.identity, p - 1)'
    BY <1>3
  <1>9. check_availability(log[p], p - 1)' <=> check_availability(x, p - 1)'
    BY <1>3
  <1>10. answered(log[p].undertaking, log[p].epoch, p - 1)'
            <=> answered(x.undertaking, x.epoch, p - 1)'
    BY <1>3
  <1>11. availability_settlement_at(log[p].epoch, p - 1)' = s
    BY <1>3, <1>5
  <1> QED BY <1>3, <1>6, <1>7, <1>8, <1>9, <1>10, <1>11 DEF ServiceStands, Epochs

LEMMA KeptDispute ==
    ASSUME LogSeq, LogSeq', NEW n, Kept(n), NEW p \in 1 .. n, DisputeStands(p), EntryOK(p)
    PROVE  DisputeStands(p)'
  <1>1. n \in Nat /\ Kept(p - 1) /\ log'[p] = log[p] /\ log'[1] = log[1]
        /\ \A q \in 1 .. p - 1 : log'[q] = log[q]
    BY DEF Kept
  <1>2. \A k : /\ entries(k, p - 1)' = entries(k, p - 1)
               /\ \A q \in entries(k, p - 1) : q \in 1 .. p - 1 /\ log'[q] = log[q]
    BY <1>1, KeptEntries
  <1> PICK x : x = log[p]
    OBVIOUS
  <1>3. log'[p] = x /\ (Funded' <=> Funded)
    BY <1>1 DEF Funded
  <1>4. /\ spendable_within(x.attestor, p - 1)' = spendable_within(x.attestor, p - 1)
        /\ Known(x.claim, p - 1)' <=> Known(x.claim, p - 1)
    BY <1>1, KeptMoney, KeptKnown
  <1>5. /\ x.kind = "verification_slash" => log'[x.attestation] = log[x.attestation]
        /\ x.kind = "challenge_settlement" => log'[x.challenge] = log[x.challenge]
    BY <1>2 DEF EntryOK
  <1>6. spendable_within(log[p].attestor, p - 1)' = spendable_within(x.attestor, p - 1)'
        /\ (Known(log[p].claim, p - 1)' <=> Known(x.claim, p - 1)')
    BY <1>3
  <1>7. (/\ log[p].kind = "attestation" =>
            /\ Known(log[p].claim, p - 1)
            /\ Funded => VerificationBond <= spendable_within(log[p].attestor, p - 1)
            /\ \A q \in entries("attestation", p - 1) :
                    ~(log[q].claim = log[p].claim /\ log[q].attestor = log[p].attestor)
         /\ log[p].kind = "challenge" =>
            /\ Known(log[p].claim, p - 1) /\ Claim[log[p].claim].truth = "accept"
            /\ \A q \in entries("challenge", p - 1) :
                ~(log[q].claim = log[p].claim /\ log[q].challenger = log[p].challenger))'
    BY <1>2, <1>3, <1>4, <1>6 DEF DisputeStands
  <1>8. x.kind = "verification_slash" =>
            /\ x.catcher \in Identities
            /\ Claim[log'[x.attestation].claim].truth # log'[x.attestation].status
    BY <1>5 DEF DisputeStands
  <1>9. x.kind = "challenge_settlement" =>
            LET c == log'[x.challenge] IN
            /\ {x.winner, x.loser} \subseteq {Claim[c.claim].submitter, c.challenger}
            /\ \/ x.winner = x.loser
               \/ x.units <= (IF x.loser = c.challenger THEN c.bond
                              ELSE Objective[Claim[c.claim].objective].reward)
    BY <1>5 DEF DisputeStands
  <1> QED BY <1>3, <1>7, <1>8, <1>9 DEF DisputeStands

LEMMA KeptStands ==
    ASSUME LogSeq, LogSeq', NEW n, Kept(n), NEW p \in 1 .. n, Stands(p), EntryOK(p)
    PROVE  Stands(p)'
  BY KeptRecord, KeptBatch, KeptService, KeptDispute DEF Stands

\* One more entry that stands.
LEMMA OneMoreStands ==
    ASSUME EconomyInv, AuditInv, NEW x, log' = Append(log, x), NEW n, n = Len(log),
           Stands(n + 1)'
    PROVE  AuditInv'
  <1>1. LogSeq /\ LogSeq' /\ n \in Nat /\ Len(log') = n + 1 /\ Kept(n)
    BY Appended DEF EconomyInv, LogOK
  <1>2. \A p \in 1 .. n : Stands(p)'
    BY <1>1, KeptStands DEF AuditInv, EconomyInv, LogOK
  <1>3. \A p \in 1 .. Len(log') : p \in 1 .. n \/ p = n + 1
    BY <1>1
  <1> QED BY <1>2, <1>3 DEF AuditInv

\* What the old log answers is what the new log answers of its first entries.
LEMMA OldAnswers ==
    ASSUME EconomyInv, NEW x, log' = Append(log, x), NEW n, n = Len(log)
    PROVE  /\ n \in Nat /\ n + 1 - 1 = n /\ log'[n + 1] = x
           /\ \A q \in 1 .. n : log'[q] = log[q]
           /\ \A k : entries(k, n)' = entries(k, n)
           /\ \A k : \A q \in entries(k, n) : q \in 1 .. n /\ log'[q] = log[q]
           /\ \A i : spendable_within(i, n)' = spendable_within(i, n)
           /\ \A i, t : spendable_in(i, t, n)' = spendable_in(i, t, n)
           /\ \A a : check_availability(a, n)' <=> check_availability(a, n)
           /\ \A u, e : answered(u, e, n)' <=> answered(u, e, n)
           /\ \A e : availability_settlement_at(e, n)' = availability_settlement_at(e, n)
           /\ \A c : Known(c, n)' <=> Known(c, n)
           /\ Funded' => x.kind = "issuance" \/ declares_supply
  <1>1. LogSeq
    BY DEF EconomyInv, LogOK
  <1>2. /\ n \in Nat /\ n + 1 - 1 = n /\ LogSeq' /\ Kept(n) /\ log'[n + 1] = x
        /\ \A q \in 1 .. n : log'[q] = log[q]
        /\ \A k : entries(k, n)' = entries(k, n)
        /\ \A k : \A q \in entries(k, n) : q \in 1 .. n /\ log'[q] = log[q]
        /\ \A i : spendable_within(i, n)' = spendable_within(i, n)
    BY <1>1, OldMoney
  <1>3. /\ \A i, t : spendable_in(i, t, n)' = spendable_in(i, t, n)
        /\ \A a : check_availability(a, n)' <=> check_availability(a, n)
        /\ \A u, e : answered(u, e, n)' <=> answered(u, e, n)
        /\ \A e : availability_settlement_at(e, n)' = availability_settlement_at(e, n)
        /\ \A c : Known(c, n)' <=> Known(c, n)
    BY <1>1, <1>2, KeptSpendableIn, KeptCheck, KeptAnswers, KeptSettlementAt, KeptKnown
  <1>4. Funded' => x.kind = "issuance" \/ declares_supply
    <2>1. CASE n = 0
      BY <1>2, <2>1 DEF Funded
    <2>2. CASE n > 0
      BY <1>1, <1>2, <2>2, Genesis DEF Funded
    <2> QED BY <1>2, <2>1, <2>2
  <1> QED BY <1>2, <1>3, <1>4

LEMMA PostIssuanceStands ==
    ASSUME EconomyInv, AuditInv, NEW r \in Issuances, PostIssuance(r)
    PROVE  AuditInv'
  <1> PICK n : n = Len(log)
    OBVIOUS
  <1> PICK x : x = [kind |-> "issuance", holder |-> r.holder, units |-> r.units, ts |-> now]
    OBVIOUS
  <1>1. log' = Append(log, x)
    BY DEF PostIssuance, append
  <1>2. /\ n \in Nat /\ n + 1 - 1 = n /\ log'[n + 1] = x
        /\ \A q \in 1 .. n : log'[q] = log[q]
        /\ \A k : entries(k, n)' = entries(k, n)
        /\ \A k : \A q \in entries(k, n) : q \in 1 .. n /\ log'[q] = log[q]
        /\ \A j : spendable_within(j, n)' = spendable_within(j, n)
        /\ \A j, t : spendable_in(j, t, n)' = spendable_in(j, t, n)
        /\ \A a : check_availability(a, n)' <=> check_availability(a, n)
        /\ \A v, f : answered(v, f, n)' <=> answered(v, f, n)
        /\ \A f : availability_settlement_at(f, n)' = availability_settlement_at(f, n)
        /\ \A c2 : Known(c2, n)' <=> Known(c2, n)
        /\ Funded' => x.kind = "issuance" \/ declares_supply
    BY <1>1, OldAnswers
  <1>3. \A q \in 1 .. n : log[q].kind = "issuance"
    <2>1. LogSeq /\ genesis_prefix = n
      BY DEF EconomyInv, LogOK, PostIssuance
    <2> QED BY <1>2, <2>1, Genesis
  <1>4. \A q \in 1 .. n + 1 : log'[q].kind = "issuance"
    BY <1>2, <1>3
  <1>9. Stands(n + 1)'
    BY <1>2, <1>4 DEF Stands, RecordStands, BatchStands, ServiceStands, DisputeStands
  <1> QED BY <1>1, <1>9, OneMoreStands

LEMMA PostObjectiveStands ==
    ASSUME EconomyInv, AuditInv, NEW o \in Objectives, NEW at \in Epochs, PostObjective(o, at)
    PROVE  AuditInv'
  <1> PICK n : n = Len(log)
    OBVIOUS
  <1> PICK x : x = [kind |-> "objective", objective |-> o, ts |-> at]
    OBVIOUS
  <1>1. log' = Append(log, x)
    BY DEF PostObjective, append
  <1>2. /\ n \in Nat /\ n + 1 - 1 = n /\ log'[n + 1] = x
        /\ \A q \in 1 .. n : log'[q] = log[q]
        /\ \A k : entries(k, n)' = entries(k, n)
        /\ \A k : \A q \in entries(k, n) : q \in 1 .. n /\ log'[q] = log[q]
        /\ \A j : spendable_within(j, n)' = spendable_within(j, n)
        /\ \A j, t : spendable_in(j, t, n)' = spendable_in(j, t, n)
        /\ \A a : check_availability(a, n)' <=> check_availability(a, n)
        /\ \A v, f : answered(v, f, n)' <=> answered(v, f, n)
        /\ \A f : availability_settlement_at(f, n)' = availability_settlement_at(f, n)
        /\ \A c2 : Known(c2, n)' <=> Known(c2, n)
        /\ Funded' => x.kind = "issuance" \/ declares_supply
    BY <1>1, OldAnswers
  <1>3. /\ Funded' => Objective[o].reward
                <= spendable_in(Objective[o].funder, Objective[o].tier, n)'
        /\ \A q \in entries("objective", n)' : log'[q].objective # o
    BY <1>2 DEF PostObjective, afford_in
  <1>4. RecordStands(n + 1)'
    BY <1>2, <1>3 DEF RecordStands
  <1>9. Stands(n + 1)'
    BY <1>2, <1>4 DEF Stands, BatchStands, ServiceStands, DisputeStands
  <1> QED BY <1>1, <1>9, OneMoreStands

LEMMA RevealStands ==
    ASSUME EconomyInv, AuditInv, NEW c \in Claims, Reveal(c)
    PROVE  AuditInv'
  <1> PICK n : n = Len(log)
    OBVIOUS
  <1> PICK x : x = [kind |-> "claim", claim |-> c, ts |-> now]
    OBVIOUS
  <1>1. log' = Append(log, x)
    BY DEF Reveal, append
  <1>2. /\ n \in Nat /\ n + 1 - 1 = n /\ log'[n + 1] = x
        /\ \A q \in 1 .. n : log'[q] = log[q]
        /\ \A k : entries(k, n)' = entries(k, n)
        /\ \A k : \A q \in entries(k, n) : q \in 1 .. n /\ log'[q] = log[q]
        /\ \A j : spendable_within(j, n)' = spendable_within(j, n)
        /\ \A j, t : spendable_in(j, t, n)' = spendable_in(j, t, n)
        /\ \A a : check_availability(a, n)' <=> check_availability(a, n)
        /\ \A v, f : answered(v, f, n)' <=> answered(v, f, n)
        /\ \A f : availability_settlement_at(f, n)' = availability_settlement_at(f, n)
        /\ \A c2 : Known(c2, n)' <=> Known(c2, n)
        /\ Funded' => x.kind = "issuance" \/ declares_supply
    BY <1>1, OldAnswers
  <1>3. \E q \in entries("objective", n)' : log'[q].objective = Claim[c].objective
    BY <1>2 DEF Reveal
  <1>9. Stands(n + 1)'
    BY <1>2, <1>3 DEF Stands, RecordStands, BatchStands, ServiceStands, DisputeStands
  <1> QED BY <1>1, <1>9, OneMoreStands

LEMMA RecordBeaconStands ==
    ASSUME EconomyInv, AuditInv, NEW e \in Epochs, NEW value, RecordBeacon(e, value)
    PROVE  AuditInv'
  <1> PICK n : n = Len(log)
    OBVIOUS
  <1> PICK x : x = [kind |-> "beacon", orders |-> e, value |-> value, ts |-> now]
    OBVIOUS
  <1>1. log' = Append(log, x)
    BY DEF RecordBeacon, append
  <1>2. /\ n \in Nat /\ n + 1 - 1 = n /\ log'[n + 1] = x
        /\ \A q \in 1 .. n : log'[q] = log[q]
        /\ \A k : entries(k, n)' = entries(k, n)
        /\ \A k : \A q \in entries(k, n) : q \in 1 .. n /\ log'[q] = log[q]
        /\ \A j : spendable_within(j, n)' = spendable_within(j, n)
        /\ \A j, t : spendable_in(j, t, n)' = spendable_in(j, t, n)
        /\ \A a : check_availability(a, n)' <=> check_availability(a, n)
        /\ \A v, f : answered(v, f, n)' <=> answered(v, f, n)
        /\ \A f : availability_settlement_at(f, n)' = availability_settlement_at(f, n)
        /\ \A c2 : Known(c2, n)' <=> Known(c2, n)
        /\ Funded' => x.kind = "issuance" \/ declares_supply
    BY <1>1, OldAnswers
  <1>3. \A q \in entries("beacon", n) : log[q].orders # e
    <2>1. \A q \in entries("beacon", n) : log[q].ts = log[q].orders
      BY DEF AuditInv, Stands, RecordStands, entries
    <2>2. {p \in entries("beacon", n) : log[p].orders = e /\ log[p].ts = e} = {}
      BY DEF RecordBeacon, epoch_beacon_within, beacon_is_in_time
    <2> QED BY <2>1, <2>2
  <1>4. \A q \in entries("beacon", n)' : log'[q].orders # e
    BY <1>2, <1>3
  <1>5. e = now
    BY DEF RecordBeacon
  <1>9. Stands(n + 1)'
    BY <1>2, <1>4, <1>5 DEF Stands, RecordStands, BatchStands, ServiceStands, DisputeStands
  <1> QED BY <1>1, <1>9, OneMoreStands

LEMMA PostAvailabilityPoolStands ==
    ASSUME EconomyInv, AuditInv, NEW a \in Pools, PostAvailabilityPool(a)
    PROVE  AuditInv'
  <1> PICK n : n = Len(log)
    OBVIOUS
  <1> PICK x : x = [kind |-> "availability_pool", pool |-> a, ts |-> now]
    OBVIOUS
  <1>1. log' = Append(log, x)
    BY DEF PostAvailabilityPool, append
  <1>2. /\ n \in Nat /\ n + 1 - 1 = n /\ log'[n + 1] = x
        /\ \A q \in 1 .. n : log'[q] = log[q]
        /\ \A k : entries(k, n)' = entries(k, n)
        /\ \A k : \A q \in entries(k, n) : q \in 1 .. n /\ log'[q] = log[q]
        /\ \A j : spendable_within(j, n)' = spendable_within(j, n)
        /\ \A j, t : spendable_in(j, t, n)' = spendable_in(j, t, n)
        /\ \A b : check_availability(b, n)' <=> check_availability(b, n)
        /\ \A v, f : answered(v, f, n)' <=> answered(v, f, n)
        /\ \A f : availability_settlement_at(f, n)' = availability_settlement_at(f, n)
        /\ \A c2 : Known(c2, n)' <=> Known(c2, n)
        /\ Funded' => x.kind = "issuance" \/ declares_supply
    BY <1>1, OldAnswers
  <1>9. Stands(n + 1)'
    BY <1>2 DEF Stands, RecordStands, BatchStands, ServiceStands, DisputeStands
  <1> QED BY <1>1, <1>9, OneMoreStands

LEMMA PostUndertakingStands ==
    ASSUME EconomyInv, AuditInv, NEW i \in Identities, NEW bond \in Bonds, PostUndertaking(i, bond)
    PROVE  AuditInv'
  <1> PICK n : n = Len(log)
    OBVIOUS
  <1> PICK x : x = [kind |-> "undertaking", identity |-> i, bond |-> bond, height |-> Len(log), ts |-> now]
    OBVIOUS
  <1>1. log' = Append(log, x)
    BY DEF PostUndertaking, append
  <1>2. /\ n \in Nat /\ n + 1 - 1 = n /\ log'[n + 1] = x
        /\ \A q \in 1 .. n : log'[q] = log[q]
        /\ \A k : entries(k, n)' = entries(k, n)
        /\ \A k : \A q \in entries(k, n) : q \in 1 .. n /\ log'[q] = log[q]
        /\ \A j : spendable_within(j, n)' = spendable_within(j, n)
        /\ \A j, t : spendable_in(j, t, n)' = spendable_in(j, t, n)
        /\ \A a : check_availability(a, n)' <=> check_availability(a, n)
        /\ \A v, f : answered(v, f, n)' <=> answered(v, f, n)
        /\ \A f : availability_settlement_at(f, n)' = availability_settlement_at(f, n)
        /\ \A c2 : Known(c2, n)' <=> Known(c2, n)
        /\ Funded' => x.kind = "issuance" \/ declares_supply
    BY <1>1, OldAnswers
  <1>3. bond <= spendable_within(i, n)' /\ bond \in Nat \ {0}
    BY <1>2, EconomyAssumption DEF PostUndertaking
  <1>9. Stands(n + 1)'
    BY <1>2, <1>3 DEF Stands, RecordStands, BatchStands, ServiceStands, DisputeStands
  <1> QED BY <1>1, <1>9, OneMoreStands

LEMMA PostAvailabilityStands ==
    ASSUME EconomyInv, AuditInv, NEW u \in entries("undertaking", Len(log)), NEW e \in Epochs, PostAvailability(u, e)
    PROVE  AuditInv'
  <1> PICK n : n = Len(log)
    OBVIOUS
  <1> PICK x : x = [kind |-> "availability", undertaking |-> u, identity |-> log[u].identity, epoch |-> e,
           index |-> sampled_index(u, e, Len(log)), ts |-> now]
    OBVIOUS
  <1>1. log' = Append(log, x)
    BY DEF PostAvailability, append
  <1>2. /\ n \in Nat /\ n + 1 - 1 = n /\ log'[n + 1] = x
        /\ \A q \in 1 .. n : log'[q] = log[q]
        /\ \A k : entries(k, n)' = entries(k, n)
        /\ \A k : \A q \in entries(k, n) : q \in 1 .. n /\ log'[q] = log[q]
        /\ \A j : spendable_within(j, n)' = spendable_within(j, n)
        /\ \A j, t : spendable_in(j, t, n)' = spendable_in(j, t, n)
        /\ \A a : check_availability(a, n)' <=> check_availability(a, n)
        /\ \A v, f : answered(v, f, n)' <=> answered(v, f, n)
        /\ \A f : availability_settlement_at(f, n)' = availability_settlement_at(f, n)
        /\ \A c2 : Known(c2, n)' <=> Known(c2, n)
        /\ Funded' => x.kind = "issuance" \/ declares_supply
    BY <1>1, OldAnswers
  <1>3. check_availability(x, n)' /\ ~answered(u, e, n)'
    BY <1>2 DEF PostAvailability
  <1>4. \A q \in entries("availability_settlement", n) : log[q].epoch < now
    <2>1. \A q \in entries("availability_settlement", n) :
                Stands(q) /\ Stamped(q) /\ log[q].kind = "availability_settlement"
      BY DEF AuditInv, EconomyInv, entries
    <2>2. now \in Nat
      BY EconomyAssumption DEF EconomyInv, Epochs
    <2>3. \A q \in entries("availability_settlement", n) :
                log[q].epoch \in Epochs /\ log[q].epoch < log[q].ts /\ log[q].ts \in 1 .. now
      BY <2>1 DEF Stands, ServiceStands, Stamped
    <2> QED BY <2>2, <2>3, EconomyAssumption DEF Epochs
  <1>5. \A q \in entries("availability_settlement", n)' : log'[q].epoch < now
    BY <1>2, <1>4
  <1>6. x.undertaking = u /\ x.epoch = e /\ x.ts = now /\ x.kind = "availability"
    OBVIOUS
  <1>7. check_availability(log[n + 1], n)' /\ ~answered(u, e, n)'
    BY <1>2, <1>3
  <1>8. ServiceStands(n + 1)'
    BY <1>2, <1>5, <1>6, <1>7 DEF ServiceStands
  <1>9. Stands(n + 1)'
    BY <1>2, <1>6, <1>8 DEF Stands, RecordStands, BatchStands, DisputeStands
  <1> QED BY <1>1, <1>9, OneMoreStands

LEMMA SettleAvailabilityStands ==
    ASSUME EconomyInv, AuditInv, NEW e \in Epochs, SettleAvailability(e)
    PROVE  AuditInv'
  <1> PICK n : n = Len(log)
    OBVIOUS
  <1> PICK x : x = [kind |-> "availability_settlement", ts |-> now, epoch |-> e,
           paid |-> availability_settlement_at(e, Len(log)).paid,
           silent |-> availability_settlement_at(e, Len(log)).silent,
           unpaid |-> availability_settlement_at(e, Len(log)).unpaid]
    OBVIOUS
  <1>1. log' = Append(log, x)
    BY DEF SettleAvailability, append
  <1>2. /\ n \in Nat /\ n + 1 - 1 = n /\ log'[n + 1] = x
        /\ \A q \in 1 .. n : log'[q] = log[q]
        /\ \A k : entries(k, n)' = entries(k, n)
        /\ \A k : \A q \in entries(k, n) : q \in 1 .. n /\ log'[q] = log[q]
        /\ \A j : spendable_within(j, n)' = spendable_within(j, n)
        /\ \A j, t : spendable_in(j, t, n)' = spendable_in(j, t, n)
        /\ \A a : check_availability(a, n)' <=> check_availability(a, n)
        /\ \A v, f : answered(v, f, n)' <=> answered(v, f, n)
        /\ \A f : availability_settlement_at(f, n)' = availability_settlement_at(f, n)
        /\ \A c2 : Known(c2, n)' <=> Known(c2, n)
        /\ Funded' => x.kind = "issuance" \/ declares_supply
    BY <1>1, OldAnswers
  <1> PICK s : s = availability_settlement_at(e, n)
    OBVIOUS
  <1>3. availability_settlement_at(e, n)' = s
    BY <1>2
  <1>4. /\ s.silent # {} \/ DOMAIN s.paid # {}
        /\ e < now
        /\ \A q \in entries("availability_settlement", n)' : log'[q].epoch # e
    BY <1>2 DEF SettleAvailability, epochClosed
  <1>5. /\ x.kind = "availability_settlement" /\ x.epoch = e /\ x.ts = now
        /\ x.paid = s.paid /\ x.silent = s.silent /\ x.unpaid = s.unpaid
    OBVIOUS
  <1>6. availability_settlement_at(log[n + 1].epoch, n)' = s
    BY <1>2, <1>3, <1>5
  <1>8. ServiceStands(n + 1)'
    BY <1>2, <1>4, <1>5, <1>6 DEF ServiceStands, Epochs
  <1>9. Stands(n + 1)'
    BY <1>2, <1>5, <1>8 DEF Stands, RecordStands, BatchStands, DisputeStands
  <1> QED BY <1>1, <1>9, OneMoreStands

LEMMA PostAttestationStands ==
    ASSUME EconomyInv, AuditInv, NEW i \in Identities, NEW c \in Claims, NEW status \in Statuses, PostAttestation(i, c, status)
    PROVE  AuditInv'
  <1> PICK n : n = Len(log)
    OBVIOUS
  <1> PICK x : x = [kind |-> "attestation", claim |-> c, attestor |-> i, status |-> status, ts |-> now]
    OBVIOUS
  <1>1. log' = Append(log, x)
    BY DEF PostAttestation, append
  <1>2. /\ n \in Nat /\ n + 1 - 1 = n /\ log'[n + 1] = x
        /\ \A q \in 1 .. n : log'[q] = log[q]
        /\ \A k : entries(k, n)' = entries(k, n)
        /\ \A k : \A q \in entries(k, n) : q \in 1 .. n /\ log'[q] = log[q]
        /\ \A j : spendable_within(j, n)' = spendable_within(j, n)
        /\ \A j, t : spendable_in(j, t, n)' = spendable_in(j, t, n)
        /\ \A a : check_availability(a, n)' <=> check_availability(a, n)
        /\ \A v, f : answered(v, f, n)' <=> answered(v, f, n)
        /\ \A f : availability_settlement_at(f, n)' = availability_settlement_at(f, n)
        /\ \A c2 : Known(c2, n)' <=> Known(c2, n)
        /\ Funded' => x.kind = "issuance" \/ declares_supply
    BY <1>1, OldAnswers
  <1>3. /\ Known(c, n)'
        /\ Funded' => VerificationBond <= spendable_within(i, n)'
        /\ \A q \in entries("attestation", n)' : ~(log'[q].claim = c /\ log'[q].attestor = i)
    <2>1. Known(c, n)
      BY DEF PostAttestation, inLog, Known
    <2> QED BY <1>2, <2>1 DEF PostAttestation, afford
  <1>4. Known(log[n + 1].claim, n)' /\ spendable_within(log[n + 1].attestor, n)'
            = spendable_within(i, n)'
    BY <1>2, <1>3
  <1>8. DisputeStands(n + 1)'
    BY <1>2, <1>3, <1>4 DEF DisputeStands
  <1>9. Stands(n + 1)'
    BY <1>2, <1>8 DEF Stands, RecordStands, BatchStands, ServiceStands
  <1> QED BY <1>1, <1>9, OneMoreStands

LEMMA SlashAttestationStands ==
    ASSUME EconomyInv, AuditInv, NEW p \in entries("attestation", Len(log)), NEW catcher \in Identities, SlashAttestation(p, catcher)
    PROVE  AuditInv'
  <1> PICK n : n = Len(log)
    OBVIOUS
  <1> PICK x : x = [kind |-> "verification_slash", attestation |-> p, attestor |-> log[p].attestor,
           catcher |-> catcher, units |-> VerificationBond, ts |-> now]
    OBVIOUS
  <1>1. log' = Append(log, x)
    BY DEF SlashAttestation, append
  <1>2. /\ n \in Nat /\ n + 1 - 1 = n /\ log'[n + 1] = x
        /\ \A q \in 1 .. n : log'[q] = log[q]
        /\ \A k : entries(k, n)' = entries(k, n)
        /\ \A k : \A q \in entries(k, n) : q \in 1 .. n /\ log'[q] = log[q]
        /\ \A j : spendable_within(j, n)' = spendable_within(j, n)
        /\ \A j, t : spendable_in(j, t, n)' = spendable_in(j, t, n)
        /\ \A a : check_availability(a, n)' <=> check_availability(a, n)
        /\ \A v, f : answered(v, f, n)' <=> answered(v, f, n)
        /\ \A f : availability_settlement_at(f, n)' = availability_settlement_at(f, n)
        /\ \A c2 : Known(c2, n)' <=> Known(c2, n)
        /\ Funded' => x.kind = "issuance" \/ declares_supply
    BY <1>1, OldAnswers
  <1>3. Claim[log'[p].claim].truth # log'[p].status
    BY <1>2 DEF SlashAttestation, slashable
  <1>8. DisputeStands(n + 1)'
    BY <1>2, <1>3 DEF DisputeStands
  <1>9. Stands(n + 1)'
    BY <1>2, <1>8 DEF Stands, RecordStands, BatchStands, ServiceStands
  <1> QED BY <1>1, <1>9, OneMoreStands

LEMMA PostChallengeStands ==
    ASSUME EconomyInv, AuditInv, NEW i \in Identities, NEW c \in Claims, NEW bond \in ChallengeBonds, PostChallenge(i, c, bond)
    PROVE  AuditInv'
  <1> PICK n : n = Len(log)
    OBVIOUS
  <1> PICK x : x = [kind |-> "challenge", challenger |-> i, claim |-> c, bond |-> bond, ts |-> now]
    OBVIOUS
  <1>1. log' = Append(log, x)
    BY DEF PostChallenge, append
  <1>2. /\ n \in Nat /\ n + 1 - 1 = n /\ log'[n + 1] = x
        /\ \A q \in 1 .. n : log'[q] = log[q]
        /\ \A k : entries(k, n)' = entries(k, n)
        /\ \A k : \A q \in entries(k, n) : q \in 1 .. n /\ log'[q] = log[q]
        /\ \A j : spendable_within(j, n)' = spendable_within(j, n)
        /\ \A j, t : spendable_in(j, t, n)' = spendable_in(j, t, n)
        /\ \A a : check_availability(a, n)' <=> check_availability(a, n)
        /\ \A v, f : answered(v, f, n)' <=> answered(v, f, n)
        /\ \A f : availability_settlement_at(f, n)' = availability_settlement_at(f, n)
        /\ \A c2 : Known(c2, n)' <=> Known(c2, n)
        /\ Funded' => x.kind = "issuance" \/ declares_supply
    BY <1>1, OldAnswers
  <1>3. /\ Known(c, n)' /\ Claim[c].truth = "accept"
        /\ \A q \in entries("challenge", n)' : ~(log'[q].claim = c /\ log'[q].challenger = i)
    <2>1. Known(c, n)
      BY DEF PostChallenge, inLog, Known
    <2> QED BY <1>2, <2>1 DEF PostChallenge
  <1>4. Known(log[n + 1].claim, n)'
    BY <1>2, <1>3
  <1>8. DisputeStands(n + 1)'
    BY <1>2, <1>3, <1>4 DEF DisputeStands
  <1>9. Stands(n + 1)'
    BY <1>2, <1>8 DEF Stands, RecordStands, BatchStands, ServiceStands
  <1> QED BY <1>1, <1>9, OneMoreStands

LEMMA SettleChallengeStands ==
    ASSUME EconomyInv, AuditInv, NEW p \in entries("challenge", Len(log)), NEW d \in BOOLEAN,
           SettleChallenge(p, d)
    PROVE  AuditInv'
  <1> PICK n : n = Len(log)
    OBVIOUS
  <1> PICK x : x = IF d
                  THEN [kind |-> "challenge_settlement", challenge |-> p,
                        winner |-> Claim[log[p].claim].submitter,
                        loser |-> log[p].challenger, units |-> log[p].bond, ts |-> now]
                  ELSE [kind |-> "challenge_settlement", challenge |-> p,
                        winner |-> log[p].challenger,
                        loser |-> Claim[log[p].claim].submitter,
                        units |-> defenderLoses(log[p].claim), ts |-> now]
    OBVIOUS
  <1>1. log' = Append(log, x)
    BY DEF SettleChallenge, append
  <1>2. /\ n \in Nat /\ n + 1 - 1 = n /\ log'[n + 1] = x
        /\ \A q \in 1 .. n : log'[q] = log[q]
        /\ \A k : \A q \in entries(k, n) : q \in 1 .. n /\ log'[q] = log[q]
    BY <1>1, OldAnswers
  <1>3. /\ p \in 1 .. n /\ log'[p] = log[p] /\ log[p].bond \in Nat /\ log[p].claim \in Claims
        /\ Claim[log[p].claim].submitter \in Identities
        /\ Objective[Claim[log[p].claim].objective].reward \in Nat
    <2>1. p \in 1 .. n /\ log[p].kind = "challenge"
      BY DEF entries
    <2>2. log[p].bond \in Nat /\ log[p].claim \in Claims
      BY <2>1 DEF EconomyInv, LogOK, EntryOK
    <2> QED BY <1>2, <2>1, <2>2, EconomyAssumption
  <1>4. x.kind = "challenge_settlement" /\ x.challenge = p
    OBVIOUS
  <1>5. defenderLoses(log[p].claim) <= Objective[Claim[log[p].claim].objective].reward
    <2>1. LogOK /\ LogSeq
      BY DEF EconomyInv, LogOK
    <2>2. balances_within(Claim[log[p].claim].submitter, Len(log)) \in Nat
      BY <1>2, <1>3, <2>1, SpendableNat
    <2> QED BY <1>3, <2>2 DEF defenderLoses
  <1>6. /\ {x.winner, x.loser} \subseteq {Claim[log[p].claim].submitter, log[p].challenger}
        /\ \/ x.winner = x.loser
           \/ x.units <= (IF x.loser = log[p].challenger THEN log[p].bond
                          ELSE Objective[Claim[log[p].claim].objective].reward)
    <2>1. CASE d
      BY <1>3, <2>1
    <2>2. CASE ~d
      BY <1>3, <1>5, <2>2
    <2> QED BY <2>1, <2>2
  <1>8. DisputeStands(n + 1)'
    BY <1>2, <1>3, <1>4, <1>6 DEF DisputeStands
  <1>9. Stands(n + 1)'
    BY <1>2, <1>4, <1>8 DEF Stands, RecordStands, BatchStands, ServiceStands
  <1> QED BY <1>1, <1>9, OneMoreStands

\* What Node::settle_due writes after the log's n entries: the payments of one
\* claim of each open objective, then the batch.
openObjectives(e) == {o \in {Claim[c].objective : c \in accepted(e)} : ~settlement_of(o)}

payment(c) == [kind |-> "settlement", claim |-> c,
               reward |-> Objective[Claim[c].objective].reward, ts |-> now]

batchOf(e) == [kind |-> "batch", epoch |-> e, claims |-> accepted(e),
               anchor |-> anchor_of_epoch_within(e, Len(log)), ts |-> now]

Written(e, paid, order, n, m) ==
    /\ n = Len(log) /\ n \in Nat /\ n > 0 /\ m \in Nat /\ m = Cardinality(paid)
    /\ paid \subseteq accepted(e)
    /\ {Claim[c].objective : c \in paid} = openObjectives(e)
    /\ Cardinality(openObjectives(e)) = m
    /\ order \in [1 .. m -> paid] /\ \A c \in paid : \E k \in 1 .. m : order[k] = c
    /\ LogSeq /\ LogSeq' /\ Kept(n) /\ Len(log') = n + m + 1
    /\ \A p \in n + 1 .. n + m : log'[p] = payment(order[p - n])
    /\ log'[n + m + 1] = batchOf(e)

LEMMA DueWritten ==
    ASSUME LogOK, NEW e \in Epochs, SettleDue(e)
    PROVE  \E paid, order, n, m : Written(e, paid, order, n, m)
  <1> DEFINE n == Len(log)
             z == batchOf(e)
  <1>1. LogSeq /\ n \in Nat
    BY LogLength DEF LogOK
  <1>2. PICK paid \in SUBSET accepted(e) :
            /\ {Claim[c].objective : c \in paid} = openObjectives(e)
            /\ Cardinality(paid) = Cardinality(openObjectives(e))
            /\ \E order \in [1 .. Cardinality(paid) -> paid] :
                /\ \A c \in paid : \E k \in DOMAIN order : order[k] = c
                /\ log' = log \o [k \in DOMAIN order |-> payment(order[k])] \o <<z>>
    BY DEF SettleDue, openObjectives, payment, batchOf
  <1>3. PICK order \in [1 .. Cardinality(paid) -> paid] :
            /\ \A c \in paid : \E k \in DOMAIN order : order[k] = c
            /\ log' = log \o [k \in DOMAIN order |-> payment(order[k])] \o <<z>>
    BY <1>2
  <1> DEFINE m == Cardinality(paid)
             rows == [k \in 1 .. m |-> payment(order[k])]
  <1>4. n > 0
    <2>1. accepted(e) # {}
      BY DEF SettleDue, due_epochs
    <2>2. entries("claim", n) # {}
      BY <2>1 DEF accepted
    <2> QED BY <1>1, <2>1, <2>2 DEF entries
  <1>5. m \in Nat
    <2> DEFINE C == {log[p].claim : p \in entries("claim", n)}
    <2>1. IsFiniteSet(entries("claim", n))
      BY <1>1, NextEntries
    <2>2. IsFiniteSet(C)
      <3> DEFINE f == [p \in entries("claim", n) |-> log[p].claim]
      <3>1. C = {f[p] : p \in entries("claim", n)}
        OBVIOUS
      <3> HIDE DEF f
      <3> QED BY <2>1, <3>1, ImageFinite
    <2>3. paid \in SUBSET C
      BY DEF accepted
    <2> HIDE DEF C
    <2> QED BY <2>2, <2>3, FS_Subset, FS_CardinalityType
  <1>7. log' = (log \o rows) \o <<z>>
    BY <1>3
  <1>8. PICK S : log \in Seq(S)
    BY <1>1 DEF LogSeq
  <1> DEFINE U == S \cup {rows[k] : k \in 1 .. m} \cup {z}
  <1>9. log \in Seq(U) /\ rows \in Seq(U) /\ Len(rows) = m /\ z \in U
    <2>1. log \in Seq(U)
      BY <1>8
    <2>2. \A k \in 1 .. m : rows[k] \in U
      OBVIOUS
    <2>3. rows = [k \in 1 .. m |-> rows[k]]
      OBVIOUS
    <2>4. z \in U
      OBVIOUS
    <2> HIDE DEF rows, U, z
    <2>5. rows \in [1 .. m -> U]
      BY <2>2, <2>3
    <2>6. rows \in Seq(U) /\ Len(rows) = m
      BY <1>5, <2>5, SeqDef, LenProperties
    <2> QED BY <2>1, <2>4, <2>6
  <1>10. \A k \in 1 .. m : rows[k] = payment(order[k])
    OBVIOUS
  <1> HIDE DEF rows, U, z, m
  <1>11. /\ log \o rows \in Seq(U) /\ Len(log \o rows) = n + m
         /\ \A p \in 1 .. n : (log \o rows)[p] = log[p]
         /\ \A p \in n + 1 .. n + m : (log \o rows)[p] = rows[p - n]
    <2>1. /\ log \o rows \in Seq(U)
          /\ Len(log \o rows) = Len(log) + Len(rows)
          /\ \A k \in 1 .. Len(log) + Len(rows) : (log \o rows)[k] =
                    IF k <= Len(log) THEN log[k] ELSE rows[k - Len(log)]
      BY <1>9, ConcatProperties
    <2> QED BY <1>1, <1>5, <1>9, <2>1
  <1>12. /\ log' \in Seq(U) /\ Len(log') = n + m + 1
         /\ \A p \in 1 .. n + m : log'[p] = (log \o rows)[p]
         /\ log'[n + m + 1] = z
    <2> DEFINE y == log \o rows
    <2>1. y \in Seq(U) /\ Len(y) = n + m /\ log' = y \o <<z>>
      BY <1>7, <1>11
    <2> HIDE DEF y
    <2>2. <<z>> \in Seq(U) /\ Len(<<z>>) = 1 /\ <<z>>[1] = z
      BY <1>9
    <2>3. /\ y \o <<z>> \in Seq(U)
          /\ Len(y \o <<z>>) = Len(y) + 1
          /\ \A k \in 1 .. Len(y) + 1 : (y \o <<z>>)[k] =
                    IF k <= Len(y) THEN y[k] ELSE <<z>>[k - Len(y)]
      BY <2>1, <2>2, ConcatProperties
    <2>4. n + m \in Nat
      BY <1>1, <1>5
    <2>5. log'[n + m + 1] = z
      BY <2>1, <2>2, <2>3, <2>4
    <2> QED BY <2>1, <2>3, <2>4, <2>5 DEF y
  <1>13. LogSeq' /\ Kept(n)
    <2>1. LogSeq'
      BY <1>12 DEF LogSeq
    <2>2. \A p \in 1 .. n : log'[p] = log[p]
      BY <1>1, <1>5, <1>11, <1>12
    <2> QED BY <1>1, <1>5, <1>12, <2>1, <2>2 DEF Kept
  <1>14. \A p \in n + 1 .. n + m : log'[p] = payment(order[p - n])
    <2> SUFFICES ASSUME NEW p \in n + 1 .. n + m PROVE log'[p] = payment(order[p - n])
      OBVIOUS
    <2>1. p - n \in 1 .. m /\ p \in 1 .. n + m
      BY <1>1, <1>5
    <2> QED BY <1>10, <1>11, <1>12, <2>1
  <1>15. order \in [1 .. m -> paid] /\ \A c \in paid : \E k \in 1 .. m : order[k] = c
    BY <1>3 DEF m
  <1>16. m = Cardinality(paid) /\ Cardinality(openObjectives(e)) = m
    BY <1>2 DEF m
  <1>17. Written(e, paid, order, n, m)
    BY <1>1, <1>2, <1>4, <1>5, <1>12, <1>13, <1>14, <1>15, <1>16 DEF Written, z
  <1> QED BY <1>17

\* No objective is paid twice by one batch: there are as many payments as open
\* objectives and every open objective is paid.
LEMMA PaidOnce ==
    ASSUME NEW e, NEW paid, NEW order, NEW n, NEW m, Written(e, paid, order, n, m)
    PROVE  \A j, k \in 1 .. m :
                Claim[order[j]].objective = Claim[order[k]].objective => j = k
  <1> DEFINE f == [k \in 1 .. m |-> Claim[order[k]].objective]
             O == openObjectives(e)
  <1>1. /\ m \in Nat /\ order \in [1 .. m -> paid] /\ Cardinality(O) = m
        /\ {Claim[c].objective : c \in paid} = O
        /\ \A c \in paid : \E k \in 1 .. m : order[k] = c
    BY DEF Written
  <1>2. f \in [1 .. m -> O]
    BY <1>1
  <1>3. \A o \in O : \E k \in 1 .. m : f[k] = o
    <2> SUFFICES ASSUME NEW o \in O PROVE \E k \in 1 .. m : f[k] = o
      OBVIOUS
    <2>1. PICK c \in paid : o = Claim[c].objective
      BY <1>1
    <2>2. PICK k \in 1 .. m : order[k] = c
      BY <1>1, <2>1
    <2> QED BY <2>1, <2>2
  <1>4. \A j \in 1 .. m : f[j] = Claim[order[j]].objective
    OBVIOUS
  <1>5. IsFiniteSet(1 .. m) /\ Cardinality(1 .. m) = m
    BY <1>1, FS_Interval
  <1> HIDE DEF f, O
  <1>6. f \in Surjection(1 .. m, O)
    BY <1>2, <1>3 DEF Surjection
  <1>7. f \in Injection(1 .. m, O)
    BY <1>1, <1>5, <1>6, FS_SurjSameCardinalityImpliesInj
  <1>8. \A j, k \in 1 .. m : f[j] = f[k] => j = k
    BY <1>2, <1>7 DEF Injection, IsInjective
  <1> QED BY <1>4, <1>8

LEMMA SettleDueStands ==
    ASSUME EconomyInv, AuditInv, NEW e \in Epochs, SettleDue(e)
    PROVE  AuditInv'
  <1>1. LogOK /\ \A q \in 1 .. Len(log) : EntryOK(q)
    BY DEF EconomyInv, LogOK
  <1>2. PICK paid, order, n, m : Written(e, paid, order, n, m)
    BY <1>1, DueWritten
  <1>3. /\ n = Len(log) /\ n \in Nat /\ n > 0 /\ m \in Nat
        /\ paid \subseteq accepted(e)
        /\ {Claim[c].objective : c \in paid} = openObjectives(e)
        /\ order \in [1 .. m -> paid]
        /\ LogSeq /\ LogSeq' /\ Kept(n) /\ Len(log') = n + m + 1
        /\ \A p \in n + 1 .. n + m : log'[p] = payment(order[p - n])
        /\ log'[n + m + 1] = batchOf(e)
    BY <1>2 DEF Written
  <1>20. \A q \in n + 1 .. n + m : log'[q].kind = "settlement" /\ log'[q].claim = order[q - n]
    <2> SUFFICES ASSUME NEW q \in n + 1 .. n + m
                 PROVE  log'[q].kind = "settlement" /\ log'[q].claim = order[q - n]
      OBVIOUS
    <2>1. log'[q] = payment(order[q - n])
      BY <1>3
    <2> QED BY <2>1 DEF payment
  <1>4. /\ \A k : entries(k, n)' = entries(k, n)
        /\ \A k : \A q \in entries(k, n) : q \in 1 .. n /\ log'[q] = log[q]
        /\ \A q \in 1 .. n : log'[q] = log[q]
    BY <1>3, KeptEntries
  <1>5. \A c \in paid : /\ Claim[c].truth = "accept"
                        /\ \E q \in entries("claim", n) : log[q].claim = c
                        /\ ~settlement_of(Claim[c].objective)
    BY <1>3 DEF accepted, openObjectives
  <1>6. \A q \in 1 .. n : Stands(q)'
    BY <1>1, <1>3, KeptStands DEF AuditInv
  <1>7. ASSUME NEW p \in n + 1 .. n + m
        PROVE  Stands(p)'
    <2> PICK c : c = order[p - n]
      OBVIOUS
    <2>1. p - n \in 1 .. m /\ p - 1 \in Nat /\ n <= p - 1
      BY <1>3
    <2>2. c \in paid /\ log'[p] = payment(c)
      BY <1>3, <2>1
    <2>3. log'[p].kind = "settlement" /\ log'[p].claim = c
          /\ log'[p].reward = Objective[Claim[c].objective].reward
      BY <2>2 DEF payment
    <2>4. Known(c, p - 1)'
      <3>1. PICK q \in entries("claim", n) : log[q].claim = c
        BY <1>5, <2>2
      <3>2. q \in 1 .. p - 1 /\ log'[q].kind = "claim" /\ log'[q].claim = c
        BY <1>3, <1>4, <2>1, <3>1 DEF entries
      <3> QED BY <3>2 DEF Known, entries
    <2>5. ASSUME NEW q \in entries("settlement", p - 1)'
          PROVE  Claim[log'[q].claim].objective # Claim[c].objective
      <3>1. q \in 1 .. p - 1 /\ log'[q].kind = "settlement"
        BY DEF entries
      <3>2. CASE q \in 1 .. n
        <4>1. q \in entries("settlement", Len(log)) /\ log'[q] = log[q]
          BY <1>3, <1>4, <3>1, <3>2 DEF entries
        <4> QED BY <1>5, <2>2, <4>1 DEF settlement_of
      <3>3. CASE q \notin 1 .. n
        <4>1. q \in n + 1 .. n + m /\ q - n \in 1 .. m /\ q - n # p - n
          BY <1>3, <2>1, <3>1, <3>3
        <4>2. log'[q].claim = order[q - n]
          BY <1>20, <4>1
        <4>3. Claim[order[q - n]].objective # Claim[order[p - n]].objective
          BY <1>2, <2>1, <4>1, PaidOnce
        <4> QED BY <4>2, <4>3
      <3> QED BY <3>2, <3>3
    <2>6. Known(log[p].claim, p - 1)'
      BY <2>3, <2>4
    <2>7. BatchStands(p)'
      BY <1>5, <2>2, <2>3, <2>5, <2>6 DEF BatchStands
    <2> QED BY <2>3, <2>7 DEF Stands, RecordStands, ServiceStands, DisputeStands
  <1> PICK z : z = n + m + 1
    OBVIOUS
  <1> PICK w : w = n + m
    OBVIOUS
  <1>8. z \in Nat /\ w \in Nat /\ z - 1 = w /\ log'[z] = batchOf(e) /\ n <= w
    BY <1>3
  <1>9. ASSUME NEW k, k # "settlement"
        PROVE  entries(k, w)' = entries(k, n)'
    <2>1. \A q \in 1 .. w : q \in 1 .. n \/ log'[q].kind = "settlement"
      BY <1>3, <1>8, <1>20
    <2>2. \A q \in 1 .. n : q \in 1 .. w
      BY <1>3, <1>8
    <2> QED BY <1>9, <2>1, <2>2 DEF entries
  <1>10. entries("beacon", w)' = entries("beacon", n)' /\ entries("batch", w)' = entries("batch", n)'
         /\ entries("claim", w)' = entries("claim", n)'
    BY <1>9
  <1>11. anchor_of_epoch_within(e, w)' = anchor_of_epoch_within(e, n)
    <2>1. anchor_of_epoch_within(e, w)' = anchor_of_epoch_within(e, n)'
      BY <1>10 DEF anchor_of_epoch_within, epoch_beacon_within, epoch_chain_head_before
    <2> QED BY <1>3, <2>1, KeptAnchorOf
  <1>12. accepted_in_epoch_within(e, w)' = accepted(e)
    <2>1. accepted_in_epoch_within(e, w)' = accepted_in_epoch_within(e, n)'
      BY <1>10 DEF accepted_in_epoch_within
    <2>2. accepted_in_epoch_within(e, n)' = accepted_in_epoch_within(e, n)
      BY <1>3, KeptAccepted
    <2>3. \A q \in entries("claim", n) : log[q].claim \in Claims
      BY <1>3 DEF AuditInv, Stands, RecordStands, entries
    <2>4. accepted_in_epoch_within(e, n) = accepted(e)
      BY <1>3, <2>3 DEF accepted_in_epoch_within, accepted
    <2> QED BY <2>1, <2>2, <2>4
  <1>13. accepted(e) # {} /\ \A q \in entries("batch", w)' : log'[q].epoch # e
    <2>1. e \in due_epochs /\ e \in Nat
      BY EconomyAssumption DEF SettleDue, Epochs
    <2>2. accepted(e) # {} /\ \A q \in entries("batch", n) : log[q].epoch < e
      BY <1>3, <2>1 DEF due_epochs
    <2>3. \A q \in entries("batch", n) : log[q].epoch # e
      BY <2>1, <2>2
    <2> QED BY <1>4, <1>10, <2>2, <2>3
  <1>14. Stands(z)'
    <2>1. /\ log'[z].kind = "batch" /\ log'[z].epoch = e /\ log'[z].claims = accepted(e)
          /\ log'[z].anchor = anchor_of_epoch_within(e, n)
      BY <1>3, <1>8 DEF batchOf
    <2>2. /\ anchor_of_epoch_within(log[z].epoch, z - 1)' = anchor_of_epoch_within(e, n)
          /\ accepted_in_epoch_within(log[z].epoch, z - 1)' = accepted(e)
      BY <1>8, <1>11, <1>12, <2>1
    <2>3. BatchStands(z)'
      BY <1>8, <1>13, <2>1, <2>2 DEF BatchStands
    <2> QED BY <2>1, <2>3 DEF Stands, RecordStands, ServiceStands, DisputeStands
  <1>15. \A p \in 1 .. Len(log') : p \in 1 .. n \/ p \in n + 1 .. n + m \/ p = z
    BY <1>3
  <1> QED BY <1>6, <1>7, <1>14, <1>15 DEF AuditInv

LEMMA SameStands ==
    ASSUME EconomyInv, AuditInv, log' = log
    PROVE  AuditInv'
  <1>1. LogSeq /\ LogSeq' /\ Len(log) \in Nat /\ Len(log') = Len(log)
    BY LogLength DEF EconomyInv, LogOK, LogSeq
  <1>2. Kept(Len(log))
    BY <1>1 DEF Kept
  <1> PICK n : n = Len(log)
    OBVIOUS
  <1>3. \A p \in 1 .. n : EntryOK(p) /\ Stands(p)
    BY DEF EconomyInv, LogOK, AuditInv
  <1>4. \A p \in 1 .. n : Stands(p)'
    BY <1>1, <1>2, <1>3, KeptStands
  <1> QED BY <1>1, <1>4 DEF AuditInv

LEMMA AuditStep ==
    ASSUME EconomyInv, AuditInv, [Next]_vars
    PROVE  AuditInv'
  <1>1. CASE \E r \in Issuances : PostIssuance(r)
    BY <1>1, PostIssuanceStands
  <1>2. CASE \E o \in Objectives, at \in Epochs :
                at <= now /\ now <= at + SyncLag /\ PostObjective(o, at)
    BY <1>2, PostObjectiveStands
  <1>3. CASE \E c \in Claims : Reveal(c)
    BY <1>3, RevealStands
  <1>4. CASE \E e \in Epochs : SettleDue(e)
    BY <1>4, SettleDueStands
  <1>5. CASE \E e \in Epochs, v \in BeaconValues : RecordBeacon(e, v)
    BY <1>5, RecordBeaconStands
  <1>6. CASE \E a \in Pools : PostAvailabilityPool(a)
    BY <1>6, PostAvailabilityPoolStands
  <1>7. CASE \E i \in Identities, b \in Bonds : PostUndertaking(i, b)
    BY <1>7, PostUndertakingStands
  <1>8. CASE \E u \in entries("undertaking", Len(log)), e \in Epochs : PostAvailability(u, e)
    BY <1>8, PostAvailabilityStands
  <1>9. CASE \E e \in Epochs : SettleAvailability(e)
    BY <1>9, SettleAvailabilityStands
  <1>10. CASE \E i \in Identities, c \in Claims, s \in Statuses : PostAttestation(i, c, s)
    BY <1>10, PostAttestationStands
  <1>11. CASE \E p \in entries("attestation", Len(log)), i \in Identities :
                SlashAttestation(p, i)
    BY <1>11, SlashAttestationStands
  <1>12. CASE \E i \in Identities, c \in Claims, b \in ChallengeBonds :
                PostChallenge(i, c, b)
    BY <1>12, PostChallengeStands
  <1>13. CASE \E p \in entries("challenge", Len(log)), d \in BOOLEAN : SettleChallenge(p, d)
    BY <1>13, SettleChallengeStands
  <1>14. CASE AdvanceClock
    BY <1>14, SameStands DEF AdvanceClock
  <1>15. CASE UNCHANGED vars
    BY <1>15, SameStands DEF vars
  <1> QED BY <1>1, <1>2, <1>3, <1>4, <1>5, <1>6, <1>7, <1>8, <1>9, <1>10, <1>11,
             <1>12, <1>13, <1>14, <1>15 DEF Next

\* What the node's rules asked of an entry when it was written can be asked of
\* it in every later log, and the answer is the same (Node::audit).
THEOREM AuditInvariant == Spec => []AuditInv
  <1>1. Init => AuditInv
    <2>1. Init => Len(log) = 0
      BY DEF Init
    <2> QED BY <2>1 DEF AuditInv
  <1>2. EconomyInv /\ AuditInv /\ [Next]_vars => AuditInv'
    BY AuditStep
  <1> QED BY <1>1, <1>2, EconomyInvariant, PTL DEF Spec
-----------------------------------------------------------------------------
(* Sums of sums. *)

\* The sum of f over a part of its domain.
sumOver(f, T) == SumFunction([s \in T |-> f[s]])

LEMMA SumOverAll ==
    ASSUME NEW S, NEW f, f = [s \in S |-> f[s]]
    PROVE  sumOver(f, S) = SumFunction(f)
  BY DEF sumOver

LEMMA SumOverNone ==
    ASSUME NEW f
    PROVE  sumOver(f, {}) = 0
  BY SumEmpty DEF sumOver

\* One element less and its value: what the induction on a sum needs.
LEMMA SumStep ==
    ASSUME NEW S, IsFiniteSet(S), NEW f \in [S -> Nat], NEW T \in SUBSET S, NEW x \in T
    PROVE  /\ f[x] \in Nat
           /\ sumOver(f, T) \in Nat /\ sumOver(f, T \ {x}) \in Nat
           /\ sumOver(f, T) = sumOver(f, T \ {x}) + f[x]
  <1> DEFINE R == T \ {x}
             low == [s \in R |-> f[s]]
             high == [s \in T |-> f[s]]
  <1>1. IsFiniteSet(T) /\ IsFiniteSet(R)
    BY FS_Subset
  <1>2. /\ low \in [R -> Nat] /\ high \in [R \cup {x} -> Nat] /\ x \notin R /\ T = R \cup {x}
        /\ f[x] \in Nat /\ high[x] = f[x] /\ \A s \in R : high[s] = low[s]
    OBVIOUS
  <1> HIDE DEF low, high, R
  <1>3. SumFunction(high) = SumFunction(low) + f[x]
    BY <1>1, <1>2, SumAdds
  <1>4. SumFunction(low) \in Nat /\ SumFunction(high) \in Nat
    BY <1>1, <1>2, SumNat
  <1> QED BY <1>2, <1>3, <1>4 DEF low, high, R, sumOver

\* A sum of sums, element by element.
LEMMA SumPlus ==
    ASSUME NEW S, IsFiniteSet(S), NEW f \in [S -> Nat], NEW g \in [S -> Nat],
           NEW h \in [S -> Nat], \A s \in S : h[s] = f[s] + g[s]
    PROVE  SumFunction(h) = SumFunction(f) + SumFunction(g)
  <1> DEFINE F(T) == sumOver(f, T)
             G(T) == sumOver(g, T)
             H(T) == sumOver(h, T)
             Q == {T \in SUBSET S : H(T) = F(T) + G(T)}
  <1>1. ASSUME NEW T \in SUBSET S, \A U \in SUBSET T : U # T => U \in Q
        PROVE  T \in Q
    <2>1. CASE T = {}
      <3>1. F(T) = 0 /\ G(T) = 0 /\ H(T) = 0
        BY <2>1, SumOverNone
      <3> QED BY <3>1
    <2>2. CASE T # {}
      <3>1. PICK x \in T : TRUE
        BY <2>2
      <3> DEFINE R == T \ {x}
      <3>2. R \in Q
        <4>1. R \in SUBSET T /\ R # T
          BY <3>1
        <4> HIDE DEF Q, R
        <4> QED BY <1>1, <4>1
      <3>3. /\ f[x] \in Nat /\ F(R) \in Nat /\ F(T) = F(R) + f[x]
            /\ g[x] \in Nat /\ G(R) \in Nat /\ G(T) = G(R) + g[x]
            /\ H(T) = H(R) + h[x]
        BY <3>1, SumStep
      <3>4. H(R) = F(R) + G(R) /\ h[x] = f[x] + g[x]
        BY <3>1, <3>2
      <3>5. H(T) = F(T) + G(T)
        <4> HIDE DEF F, G, H, R
        <4> QED BY <3>3, <3>4
      <3> QED BY <3>5
    <2> QED BY <2>1, <2>2
  <1>2. S \in Q
    <2>1. \A T \in SUBSET S : T \in Q
      <3> HIDE DEF Q
      <3> QED BY <1>1, EverySubset
    <2> QED BY <2>1
  <1>3. F(S) = SumFunction(f) /\ G(S) = SumFunction(g) /\ H(S) = SumFunction(h)
    BY SumOverAll
  <1> QED BY <1>2, <1>3

\* A sum of multiples.
LEMMA SumScale ==
    ASSUME NEW S, IsFiniteSet(S), NEW f \in [S -> Nat], NEW c \in Nat,
           NEW h \in [S -> Nat], \A s \in S : h[s] = c * f[s]
    PROVE  SumFunction(h) = c * SumFunction(f)
  <1> DEFINE F(T) == sumOver(f, T)
             H(T) == sumOver(h, T)
             Q == {T \in SUBSET S : H(T) = c * F(T)}
  <1>1. ASSUME NEW T \in SUBSET S, \A U \in SUBSET T : U # T => U \in Q
        PROVE  T \in Q
    <2>1. CASE T = {}
      <3>1. F(T) = 0 /\ H(T) = 0
        BY <2>1, SumOverNone
      <3> QED BY <3>1
    <2>2. CASE T # {}
      <3>1. PICK x \in T : TRUE
        BY <2>2
      <3> DEFINE R == T \ {x}
      <3>2. R \in Q
        <4>1. R \in SUBSET T /\ R # T
          BY <3>1
        <4> HIDE DEF Q, R
        <4> QED BY <1>1, <4>1
      <3>3. /\ f[x] \in Nat /\ F(R) \in Nat /\ F(T) = F(R) + f[x]
            /\ H(T) = H(R) + h[x]
        BY <3>1, SumStep
      <3>4. H(R) = c * F(R) /\ h[x] = c * f[x]
        BY <3>1, <3>2
      <3>5. H(T) = c * F(T)
        <4> HIDE DEF F, H, R
        <4>1. \A u, v \in Nat : c * (u + v) = c * u + c * v
          OBVIOUS
        <4> QED BY <3>3, <3>4, <4>1
      <3> QED BY <3>5
    <2> QED BY <2>1, <2>2
  <1>2. S \in Q
    <2>1. \A T \in SUBSET S : T \in Q
      <3> HIDE DEF Q
      <3> QED BY <1>1, EverySubset
    <2> QED BY <2>1
  <1>3. F(S) = SumFunction(f) /\ H(S) = SumFunction(h)
    BY SumOverAll
  <1> QED BY <1>2, <1>3

\* A sum over some elements is the sum over all with 0 for the others.
LEMMA SumFilter ==
    ASSUME NEW S, IsFiniteSet(S), NEW P \in SUBSET S, NEW f \in [P -> Nat],
           NEW h \in [S -> Nat], \A s \in S : h[s] = IF s \in P THEN f[s] ELSE 0
    PROVE  SumFunction(h) = SumFunction(f)
  <1> DEFINE F(T) == sumOver(f, T \cap P)
             H(T) == sumOver(h, T)
             Q == {T \in SUBSET S : H(T) = F(T)}
  <1>1. ASSUME NEW T \in SUBSET S, \A U \in SUBSET T : U # T => U \in Q
        PROVE  T \in Q
    <2>1. CASE T = {}
      <3>1. F(T) = 0 /\ H(T) = 0
        BY <2>1, SumOverNone
      <3> QED BY <3>1
    <2>2. CASE T # {}
      <3>1. PICK x \in T : TRUE
        BY <2>2
      <3> DEFINE R == T \ {x}
      <3>2. R \in Q
        <4>1. R \in SUBSET T /\ R # T
          BY <3>1
        <4> HIDE DEF Q, R
        <4> QED BY <1>1, <4>1
      <3>3. H(R) \in Nat /\ H(T) = H(R) + h[x] /\ H(R) = F(R)
        BY <3>1, <3>2, SumStep
      <3>4. CASE x \in P
        <4>1. x \in T \cap P /\ T \cap P \in SUBSET P /\ IsFiniteSet(P)
          BY <3>1, <3>4, FS_Subset
        <4>2. F(T) = sumOver(f, (T \cap P) \ {x}) + f[x]
          BY <4>1, SumStep
        <4>3. (T \cap P) \ {x} = R \cap P
          OBVIOUS
        <4>4. F(T) = F(R) + f[x] /\ h[x] = f[x]
          BY <3>4, <4>2, <4>3
        <4>5. H(T) = F(T)
          <5> HIDE DEF F, H, R
          <5> QED BY <3>3, <4>4
        <4> QED BY <4>5
      <3>5. CASE x \notin P
        <4>1. T \cap P = R \cap P /\ h[x] = 0
          BY <3>1, <3>5
        <4>2. F(T) = F(R)
          BY <4>1
        <4>3. H(T) = F(T)
          <5> HIDE DEF F, H, R
          <5> QED BY <3>3, <4>1, <4>2
        <4> QED BY <4>3
      <3> QED BY <3>4, <3>5
    <2> QED BY <2>1, <2>2
  <1>2. S \in Q
    <2>1. \A T \in SUBSET S : T \in Q
      <3> HIDE DEF Q
      <3> QED BY <1>1, EverySubset
    <2> QED BY <2>1
  <1>5. S \cap P = P
    OBVIOUS
  <1>3. F(S) = SumFunction(f) /\ H(S) = SumFunction(h)
    BY <1>5, SumOverAll
  <1>4. H(S) = F(S)
    BY <1>2
  <1> QED BY <1>3, <1>4

scaled(c, f, S) == [s \in S |-> c * f[s]]

LEMMA SumScaled ==
    ASSUME NEW S, IsFiniteSet(S), NEW f \in [S -> Nat], NEW c \in Nat
    PROVE  /\ scaled(c, f, S) \in [S -> Nat] /\ \A s \in S : scaled(c, f, S)[s] = c * f[s]
           /\ SumFunction(scaled(c, f, S)) = c * SumFunction(f)
  <1> DEFINE h == scaled(c, f, S)
  <1>1. \A x, y \in Nat : x * y \in Nat
    OBVIOUS
  <1>2. h \in [S -> Nat] /\ \A s \in S : h[s] = c * f[s]
    BY <1>1 DEF scaled
  <1>3. SumFunction(h) = c * SumFunction(f)
    <2> HIDE DEF h
    <2> QED BY <1>2, SumScale
  <1> QED BY <1>2, <1>3

LEMMA SumZero ==
    ASSUME NEW S, IsFiniteSet(S), NEW f \in [S -> Nat], \A s \in S : f[s] = 0
    PROVE  SumFunction(f) = 0
  <1>1. SumFunction(f) \in Nat /\ \A s \in S : f[s] = 0 * f[s]
    BY SumNat
  <1>2. SumFunction(f) = 0 * SumFunction(f)
    BY <1>1, SumScale
  <1> QED BY <1>1, <1>2

\* Adding up by rows or by columns.
columns(F, S, T) == [t \in T |-> SumFunction([s \in S |-> F[s][t]])]

LEMMA SumSwap ==
    ASSUME NEW S, NEW T, IsFiniteSet(S), IsFiniteSet(T), NEW F \in [S -> [T -> Nat]]
    PROVE  SumFunction([s \in S |-> SumFunction(F[s])]) = SumFunction(columns(F, S, T))
  <1> DEFINE rows == [s \in S |-> SumFunction(F[s])]
             Q == {U \in SUBSET S : sumOver(rows, U) = SumFunction(columns(F, U, T))}
  <1>1. \A s \in S : F[s] \in [T -> Nat] /\ SumFunction(F[s]) \in Nat
    BY SumNat
  <1>2. rows \in [S -> Nat] /\ \A s \in S : rows[s] = SumFunction(F[s])
    BY <1>1
  <1>3. ASSUME NEW U \in SUBSET S
        PROVE  /\ columns(F, U, T) \in [T -> Nat]
               /\ \A x \in U : \A t \in T :
                    columns(F, U, T)[t] = columns(F, U \ {x}, T)[t] + F[x][t]
    <2>1. ASSUME NEW t \in T, NEW x \in U
          PROVE  SumFunction([s \in U |-> F[s][t]])
                    = SumFunction([s \in U \ {x} |-> F[s][t]]) + F[x][t]
      <3> DEFINE f == [s \in S |-> F[s][t]]
      <3>1. f \in [S -> Nat] /\ f[x] = F[x][t]
        BY <1>1
      <3>2. sumOver(f, U) = sumOver(f, U \ {x}) + f[x]
        <4> HIDE DEF f
        <4> QED BY <3>1, SumStep
      <3>3. [s \in U |-> f[s]] = [s \in U |-> F[s][t]]
            /\ [s \in U \ {x} |-> f[s]] = [s \in U \ {x} |-> F[s][t]]
        OBVIOUS
      <3>4. sumOver(f, U) = SumFunction([s \in U |-> F[s][t]])
            /\ sumOver(f, U \ {x}) = SumFunction([s \in U \ {x} |-> F[s][t]])
        BY <3>3 DEF sumOver
      <3> QED BY <3>1, <3>2, <3>4
    <2>2. ASSUME NEW t \in T
          PROVE  SumFunction([s \in U |-> F[s][t]]) \in Nat
      <3> DEFINE f == [s \in U |-> F[s][t]]
      <3>1. f \in [U -> Nat] /\ IsFiniteSet(U)
        BY <1>1, FS_Subset
      <3> HIDE DEF f
      <3>2. SumFunction(f) \in Nat
        BY <3>1, SumNat
      <3> QED BY <3>2 DEF f
    <2> QED BY <2>1, <2>2 DEF columns
  <1>4. ASSUME NEW U \in SUBSET S, \A W \in SUBSET U : W # U => W \in Q
        PROVE  U \in Q
    <2>1. CASE U = {}
      <3>1. sumOver(rows, U) = 0
        <4> HIDE DEF rows
        <4> QED BY <2>1, SumOverNone
      <3>2. \A t \in T : columns(F, U, T)[t] = 0
        BY <2>1, SumEmpty DEF columns
      <3>3. SumFunction(columns(F, U, T)) = 0
        BY <1>3, <3>2, SumZero
      <3> QED BY <3>1, <3>3
    <2>2. CASE U # {}
      <3>1. PICK x \in U : TRUE
        BY <2>2
      <3> DEFINE R == U \ {x}
                 high == columns(F, U, T)
                 low == columns(F, R, T)
      <3>2. R \in Q /\ R \in SUBSET S
        <4>1. R \in SUBSET U /\ R # U
          BY <3>1
        <4> HIDE DEF Q, R
        <4> QED BY <1>4, <4>1
      <3>3. sumOver(rows, R) = SumFunction(low)
        BY <3>2
      <3>4. sumOver(rows, U) = sumOver(rows, R) + SumFunction(F[x])
        <4> HIDE DEF rows
        <4>1. sumOver(rows, U) = sumOver(rows, R) + rows[x]
          BY <1>2, <3>1, SumStep
        <4> QED BY <1>2, <3>1, <4>1
      <3>5. /\ high \in [T -> Nat] /\ low \in [T -> Nat] /\ F[x] \in [T -> Nat]
            /\ \A t \in T : high[t] = low[t] + F[x][t]
        BY <1>1, <1>3, <3>1, <3>2
      <3>6. SumFunction(high) = SumFunction(low) + SumFunction(F[x])
        <4> HIDE DEF high, low
        <4> QED BY <3>5, SumPlus
      <3>7. sumOver(rows, U) = SumFunction(high)
        <4> HIDE DEF rows, high, low, R
        <4> QED BY <3>3, <3>4, <3>6
      <3> QED BY <3>7
    <2> QED BY <2>1, <2>2
  <1>5. S \in Q
    <2>1. \A U \in SUBSET S : U \in Q
      <3> HIDE DEF Q
      <3> QED BY <1>4, EverySubset
    <2> QED BY <2>1
  <1>6. sumOver(rows, S) = SumFunction(rows)
    BY SumOverAll
  <1>7. sumOver(rows, S) = SumFunction(columns(F, S, T))
    BY <1>5
  <1> QED BY <1>6, <1>7

\* The only element that is not zero.
LEMMA SumSingle ==
    ASSUME NEW S, IsFiniteSet(S), NEW f \in [S -> Nat], NEW x \in S,
           \A s \in S : s # x => f[s] = 0
    PROVE  SumFunction(f) = f[x]
  <1> DEFINE g == [s \in {x} |-> f[s]]
  <1>1. /\ {x} \in SUBSET S /\ g \in [{x} -> Nat]
        /\ \A s \in S : f[s] = IF s \in {x} THEN g[s] ELSE 0
    OBVIOUS
  <1>2. sumOver(f, {x}) = sumOver(f, {x} \ {x}) + f[x]
    BY <1>1, SumStep
  <1>3. {x} \ {x} = {} /\ f[x] \in Nat
    OBVIOUS
  <1>4. sumOver(f, {x}) = f[x]
    BY <1>2, <1>3, SumOverNone
  <1>5. sumOver(f, {x}) = SumFunction(g)
    BY DEF sumOver
  <1> HIDE DEF g
  <1>6. SumFunction(f) = SumFunction(g)
    BY <1>1, SumFilter
  <1> QED BY <1>4, <1>5, <1>6

\* A sum by owner, over all owners, is the sum over everything owned.
fibre(v, Q, h, i) == SumFunction([q \in {r \in Q : h[r] = i} |-> v[q]])

LEMMA SumFibres ==
    ASSUME NEW I, NEW Q, IsFiniteSet(I), IsFiniteSet(Q),
           NEW h \in [Q -> I], NEW v \in [Q -> Nat]
    PROVE  /\ \A i \in I : fibre(v, Q, h, i) \in Nat
           /\ SumFunction([i \in I |-> fibre(v, Q, h, i)]) = SumFunction(v)
  <1> DEFINE F == [i \in I |-> [q \in Q |-> IF h[q] = i THEN v[q] ELSE 0]]
  <1>1. F \in [I -> [Q -> Nat]]
    OBVIOUS
  <1>2. ASSUME NEW i \in I
        PROVE  fibre(v, Q, h, i) = SumFunction(F[i]) /\ fibre(v, Q, h, i) \in Nat
    <2> DEFINE P == {r \in Q : h[r] = i}
               f == [q \in P |-> v[q]]
    <2>1. /\ P \in SUBSET Q /\ f \in [P -> Nat] /\ F[i] \in [Q -> Nat]
          /\ \A q \in Q : F[i][q] = IF q \in P THEN f[q] ELSE 0
      OBVIOUS
    <2>2. SumFunction(f) = fibre(v, Q, h, i)
      BY DEF fibre
    <2> HIDE DEF P, f, F
    <2>3. SumFunction(F[i]) = SumFunction(f) /\ SumFunction(F[i]) \in Nat
      BY <2>1, SumFilter, SumNat
    <2> QED BY <2>2, <2>3
  <1>3. columns(F, I, Q) = v
    <2>1. ASSUME NEW q \in Q
          PROVE  SumFunction([i \in I |-> F[i][q]]) = v[q]
      <3> DEFINE c == [i \in I |-> F[i][q]]
      <3>1. /\ c \in [I -> Nat] /\ h[q] \in I /\ c[h[q]] = v[q]
            /\ \A i \in I : i # h[q] => c[i] = 0
        OBVIOUS
      <3> HIDE DEF c
      <3>2. SumFunction(c) = v[q]
        BY <3>1, SumSingle
      <3> QED BY <3>2 DEF c
    <2> HIDE DEF F
    <2> QED BY <2>1 DEF columns
  <1>4. [i \in I |-> fibre(v, Q, h, i)] = [i \in I |-> SumFunction(F[i])]
    BY <1>2
  <1> HIDE DEF F
  <1>5. SumFunction([i \in I |-> SumFunction(F[i])]) = SumFunction(columns(F, I, Q))
    BY <1>1, SumSwap
  <1> QED BY <1>2, <1>3, <1>4, <1>5
-----------------------------------------------------------------------------
(* What an epoch of availability may pay. *)

LEMMA OfferNat ==
    ASSUME LogOK, NEW m \in Nat, m <= Len(log), NEW e
    PROVE  offered_within(e, m) \in Nat
  <1> DEFINE P == {p \in entries("availability_pool", m) : covers(log[p].pool, e)}
             f == [p \in P |-> Pool[log[p].pool].per_epoch]
  <1>1. Len(log) \in Nat
    BY LogLength DEF LogOK
  <1>2. P \in SUBSET (1 .. m) /\ IsFiniteSet(P)
    <2>1. P \in SUBSET (1 .. m)
      BY DEF entries
    <2> HIDE DEF P
    <2>2. IsFiniteSet(1 .. m)
      BY FS_Interval
    <2> QED BY <2>1, <2>2, FS_Subset
  <1>3. f \in [P -> Nat]
    <2>1. \A p \in P : log[p].pool \in Pools
      BY <1>1 DEF entries, LogOK, EntryOK
    <2> QED BY <2>1, EconomyAssumption
  <1>4. offered_within(e, m) = SumFunction(f)
    BY DEF offered_within, sum
  <1> HIDE DEF P, f
  <1> QED BY <1>2, <1>3, <1>4, SumNat

LEMMA PartsNat ==
    ASSUME LogOK, NEW n \in Nat, n <= Len(log), NEW e
    PROVE  /\ keptPromises(e, n) \subseteq entries("undertaking", n)
           /\ IsFiniteSet(keptPromises(e, n))
           /\ \A u \in keptPromises(e, n) : log[u].bond \in Nat
           /\ IsFiniteSet(payeesOf(e, n))
           /\ weightsOf(e, n) \in [payeesOf(e, n) -> Nat]
           /\ totalOf(e, n) \in Nat /\ totalOf(e, n) = SumFunction(weightsOf(e, n))
           /\ offerOf(e, n) \in Nat
           /\ sharesOf(e, n) \in [payeesOf(e, n) -> Nat]
  <1> DEFINE kept   == keptPromises(e, n)
             payees == payeesOf(e, n)
             weight == weightsOf(e, n)
  <1>1. Len(log) \in Nat /\ boundary(e, n) \in 0 .. n
    BY LogLength, BoundaryWithin DEF LogOK
  <1>2. kept \subseteq entries("undertaking", n)
    BY <1>1 DEF keptPromises, eligible, undertakings_within, entries
  <1>3. /\ kept \in SUBSET (1 .. n) /\ IsFiniteSet(kept)
        /\ \A u \in kept : log[u].bond \in Nat
    <2>1. \A u \in entries("undertaking", n) : u \in 1 .. n /\ log[u].bond \in Nat
      BY <1>1 DEF entries, LogOK, EntryOK
    <2>2. IsFiniteSet(1 .. n)
      BY FS_Interval
    <2> QED BY <1>2, <2>1, <2>2, FS_Subset
  <1>4. IsFiniteSet(payees)
    <2> DEFINE f == [u \in kept |-> log[u].identity]
    <2>1. payees = {f[u] : u \in kept}
      BY DEF payeesOf
    <2> HIDE DEF f, kept, payees
    <2>2. IsFiniteSet({f[u] : u \in kept})
      BY <1>3, ImageFinite
    <2> QED BY <2>1, <2>2
  <1>5. weight \in [payees -> Nat]
    <2>1. ASSUME NEW i \in payees
          PROVE  sum({u \in kept : log[u].identity = i}, LAMBDA u : log[u].bond) \in Nat
      <3> DEFINE U == {u \in kept : log[u].identity = i}
                 f == [u \in U |-> log[u].bond]
      <3>1. IsFiniteSet(U)
        BY <1>3, FS_Subset
      <3>2. f \in [U -> Nat]
        BY <1>3
      <3>3. sum({u \in kept : log[u].identity = i}, LAMBDA u : log[u].bond) = SumFunction(f)
        BY DEF sum
      <3> HIDE DEF U, f
      <3>4. SumFunction(f) \in Nat
        BY <3>1, <3>2, SumNat
      <3> QED BY <3>3, <3>4
    <2> QED BY <2>1 DEF weightsOf
  <1>6. totalOf(e, n) \in Nat /\ totalOf(e, n) = SumFunction(weight)
    <2>1. weight = [i \in payees |-> weight[i]]
      BY <1>5
    <2>2. totalOf(e, n) = SumFunction(weight)
      BY <2>1 DEF totalOf
    <2> HIDE DEF weight, payees
    <2>3. SumFunction(weight) \in Nat
      BY <1>4, <1>5, SumNat
    <2> QED BY <2>2, <2>3
  <1>7. offerOf(e, n) \in Nat
    BY <1>1, OfferNat DEF offerOf
  <1>8. sharesOf(e, n) \in [payees -> Nat]
    <2>1. ASSUME NEW i \in payees
          PROVE  mul_div_floor(offerOf(e, n), weight[i], totalOf(e, n)) \in Nat
      <3>1. weight[i] \in Nat
        BY <1>5
      <3> HIDE DEF weight
      <3> QED BY <1>6, <1>7, <3>1, FloorNat
    <2> QED BY <2>1 DEF sharesOf
  <1> QED BY <1>2, <1>3, <1>4, <1>5, <1>6, <1>7, <1>8

\* The floors of the shares add up to no more than the offer.
LEMMA SharesWithinOffer ==
    ASSUME LogOK, NEW n \in Nat, n <= Len(log), NEW e
    PROVE  SumFunction(sharesOf(e, n)) \in Nat /\ SumFunction(sharesOf(e, n)) <= offerOf(e, n)
  <1>1. PICK I, w, s, t, v : /\ I = payeesOf(e, n) /\ w = weightsOf(e, n)
                             /\ s = sharesOf(e, n) /\ t = totalOf(e, n) /\ v = offerOf(e, n)
    OBVIOUS
  <1>2. /\ IsFiniteSet(I) /\ w \in [I -> Nat] /\ s \in [I -> Nat]
        /\ t \in Nat /\ t = SumFunction(w) /\ v \in Nat
    BY <1>1, PartsNat
  <1>3. \A i \in I : s[i] = mul_div_floor(v, w[i], t)
    BY <1>1 DEF sharesOf
  <1>4. SumFunction(s) \in Nat
    BY <1>2, SumNat
  <1>5. CASE t = 0
    <2>1. \A i \in I : s[i] = 0
      BY <1>3, <1>5 DEF mul_div_floor
    <2>2. SumFunction(s) = 0
      BY <1>2, <2>1, SumZero
    <2> QED BY <1>1, <1>2, <2>2
  <1>6. CASE t # 0
    <2> DEFINE ts == scaled(t, s, I)
               vw == scaled(v, w, I)
    <2>1. \A x, y \in Nat : x * y \in Nat /\ x * y = y * x
      OBVIOUS
    <2>2. ts \in [I -> Nat] /\ (\A i \in I : ts[i] = t * s[i])
          /\ SumFunction(ts) = t * SumFunction(s)
      BY <1>2, SumScaled
    <2>9. vw \in [I -> Nat] /\ (\A i \in I : vw[i] = v * w[i])
          /\ SumFunction(vw) = v * SumFunction(w)
      BY <1>2, SumScaled
    <2>3. \A i \in I : ts[i] <= vw[i]
      <3> TAKE i \in I
      <3>1. w[i] \in Nat /\ s[i] \in Nat
        BY <1>2
      <3>2. mul_div_floor(v, w[i], t) * t <= v * w[i]
        BY <1>2, <1>6, <3>1, FloorExact
      <3>3. t * s[i] <= v * w[i]
        BY <1>2, <1>3, <2>1, <3>1, <3>2
      <3> HIDE DEF ts, vw
      <3> QED BY <2>2, <2>9, <3>3
    <2> HIDE DEF ts, vw
    <2>4. SumFunction(ts) <= SumFunction(vw)
      BY <1>2, <2>2, <2>3, <2>9, SumGrows
    <2>5. t * SumFunction(s) <= v * t
      BY <1>2, <2>2, <2>4, <2>9
    <2>7. \A a, b \in Nat : \A c \in Nat \ {0} : c * a <= b * c => a <= b
      OBVIOUS
    <2>8. SumFunction(s) <= v
      BY <1>2, <1>4, <1>6, <2>5, <2>7
    <2> QED BY <1>1, <1>4, <2>8
  <1> QED BY <1>5, <1>6

\* A sum of the same value.
LEMMA SumConstant ==
    ASSUME NEW S, IsFiniteSet(S), NEW c \in Nat, NEW f \in [S -> Nat], \A s \in S : f[s] = c
    PROVE  SumFunction(f) = c * Cardinality(S)
  <1> DEFINE Q == {T \in SUBSET S : sumOver(f, T) = c * Cardinality(T)}
  <1>1. ASSUME NEW T \in SUBSET S, \A U \in SUBSET T : U # T => U \in Q
        PROVE  T \in Q
    <2>1. CASE T = {}
      <3>1. sumOver(f, T) = 0 /\ Cardinality(T) = 0
        BY <2>1, SumOverNone, FS_EmptySet
      <3> QED BY <3>1
    <2>2. CASE T # {}
      <3>1. PICK x \in T : TRUE
        BY <2>2
      <3> DEFINE R == T \ {x}
      <3>2. R \in Q
        <4>1. R \in SUBSET T /\ R # T
          BY <3>1
        <4> HIDE DEF Q, R
        <4> QED BY <1>1, <4>1
      <3>3. sumOver(f, T) = sumOver(f, R) + f[x] /\ f[x] = c
        BY <3>1, SumStep
      <3>4. IsFiniteSet(T) /\ Cardinality(T) \in Nat
        BY FS_Subset, FS_CardinalityType
      <3>5. Cardinality(R) = Cardinality(T) - 1 /\ Cardinality(R) \in Nat
        BY <3>1, <3>4, FS_RemoveElement, FS_CardinalityType
      <3>6. sumOver(f, R) = c * Cardinality(R)
        BY <3>2
      <3>7. \A k \in Nat : c * k + c = c * (k + 1)
        OBVIOUS
      <3>8. sumOver(f, T) = c * Cardinality(T)
        <4> HIDE DEF R
        <4>1. Cardinality(R) + 1 = Cardinality(T)
          BY <3>4, <3>5
        <4> QED BY <3>3, <3>5, <3>6, <3>7, <4>1
      <3> QED BY <3>8
    <2> QED BY <2>1, <2>2
  <1>2. S \in Q
    <2>1. \A T \in SUBSET S : T \in Q
      <3> HIDE DEF Q
      <3> QED BY <1>1, EverySubset
    <2> QED BY <2>1
  <1>3. sumOver(f, S) = SumFunction(f)
    BY SumOverAll
  <1> QED BY <1>2, <1>3

\* What an availability settlement pays is at most what the pools of the whole
\* log offer its epoch.
LEMMA RewardsWithinOffer ==
    ASSUME EconomyInv, AuditInv, NEW p \in entries("availability_settlement", Len(log))
    PROVE  /\ rewards(p) \in Nat
           /\ rewards(p) <= offered_within(log[p].epoch, Len(log))
  <1>1. PICK e, n, N : e = log[p].epoch /\ n = p - 1 /\ N = Len(log)
    OBVIOUS
  <1>2. /\ LogOK /\ N \in Nat /\ p \in 1 .. N /\ n \in Nat /\ n <= N
        /\ log[p].kind = "availability_settlement" /\ Stands(p)
    BY <1>1, LogLength DEF EconomyInv, LogOK, entries, AuditInv
  <1>3. log[p].paid = sharesOf(e, n)
    BY <1>1, <1>2, SettlementParts DEF Stands, ServiceStands
  <1>4. sharesOf(e, n) \in [payeesOf(e, n) -> Nat]
    BY <1>1, <1>2, PartsNat
  <1>5. rewards(p) = SumFunction(sharesOf(e, n))
    <2>1. rewards(p) = SumFunction([i \in DOMAIN log[p].paid |-> log[p].paid[i]])
      BY DEF rewards, sum
    <2> QED BY <1>3, <1>4, <2>1
  <1>6. rewards(p) \in Nat /\ rewards(p) <= offerOf(e, n)
    BY <1>1, <1>2, <1>5, SharesWithinOffer
  <1>7. /\ offerOf(e, n) \in Nat /\ offered_within(e, N) \in Nat
        /\ offerOf(e, n) <= offered_within(e, N)
    <2>1. PICK m : m = boundary(e, n)
      OBVIOUS
    <2>2. m \in Nat /\ m <= N
      BY <1>2, <2>1, BoundaryWithin
    <2> DEFINE S == {q \in entries("availability_pool", m) : covers(log[q].pool, e)}
               T == {q \in entries("availability_pool", N) : covers(log[q].pool, e)}
               f == [q \in S |-> Pool[log[q].pool].per_epoch]
               g == [q \in T |-> Pool[log[q].pool].per_epoch]
    <2>3. offerOf(e, n) = SumFunction(f) /\ offered_within(e, N) = SumFunction(g)
      BY <2>1 DEF offerOf, offered_within, sum
    <2>4. \A q \in T : Pool[log[q].pool].per_epoch \in Nat
      <3>1. \A q \in T : log[q].pool \in Pools
        BY <1>1, <1>2 DEF entries, LogOK, EntryOK
      <3> QED BY <3>1, EconomyAssumption
    <2>5. S \subseteq T
      BY <1>2, <2>2 DEF entries
    <2>6. f \in [S -> Nat] /\ g \in [T -> Nat] /\ \A s \in S : f[s] <= g[s]
      BY <2>4, <2>5
    <2>7. IsFiniteSet(T)
      <3>1. IsFiniteSet(entries("availability_pool", N))
        BY <1>2, NextEntries
      <3> QED BY <3>1, FS_Subset
    <2>8. offerOf(e, n) \in Nat /\ offered_within(e, N) \in Nat
      BY <1>1, <1>2, OfferNat, PartsNat
    <2> HIDE DEF S, T, f, g
    <2> QED BY <2>3, <2>5, <2>6, <2>7, <2>8, SumGrows
  <1> QED BY <1>1, <1>6, <1>7

\* Each epoch settles once, so that no pool pays more than its ceiling.
LEMMA PoolPaysItsCeiling ==
    ASSUME EconomyInv, AuditInv, NEW a \in entries("availability_pool", Len(log)),
           NEW P, P = {p \in entries("availability_settlement", Len(log)) :
                            covers(log[a].pool, log[p].epoch)}
    PROVE  /\ IsFiniteSet(P) /\ Pool[log[a].pool].per_epoch \in Nat
           /\ ceiling(log[a].pool) \in Nat
           /\ Pool[log[a].pool].per_epoch * Cardinality(P) <= ceiling(log[a].pool)
  <1>1. PICK N, b, lo, hi, c : /\ N = Len(log) /\ b = log[a].pool
                               /\ lo = Pool[b].from_epoch /\ hi = Pool[b].to_epoch
                               /\ c = Pool[b].per_epoch
    OBVIOUS
  <1>2. N \in Nat /\ LogOK /\ b \in Pools
    BY <1>1, LogLength DEF EconomyInv, LogOK, EntryOK, entries
  <1>3. lo \in Nat /\ hi \in Nat /\ lo <= hi /\ c \in Nat /\ ceiling(b) \in Nat
        /\ ceiling(b) = c * (hi - lo + 1)
    BY <1>1, <1>2, EconomyAssumption, CeilingNat DEF ceiling
  <1>4. /\ IsFiniteSet(P)
        /\ \A p \in P : p \in 1 .. N /\ log[p].epoch \in lo .. hi /\ ServiceStands(p)
                        /\ log[p].kind = "availability_settlement"
    <2>1. IsFiniteSet(entries("availability_settlement", N))
      BY <1>2, NextEntries
    <2>2. \A p \in P : /\ p \in 1 .. N /\ log[p].kind = "availability_settlement"
                       /\ covers(b, log[p].epoch)
      BY <1>1 DEF entries
    <2>3. \A p \in P : ServiceStands(p)
      BY <1>1, <2>2 DEF AuditInv, Stands
    <2>4. \A p \in P : log[p].epoch \in Nat
      BY <2>2, <2>3, EconomyAssumption DEF ServiceStands, Epochs
    <2>5. \A p \in P : log[p].epoch \in lo .. hi
      BY <1>1, <1>3, <2>2, <2>4 DEF covers
    <2>6. P \in SUBSET entries("availability_settlement", N)
      BY <1>1
    <2> QED BY <2>1, <2>2, <2>3, <2>5, <2>6, FS_Subset
  <1>5. ASSUME NEW p \in P, NEW q \in P, log[p].epoch = log[q].epoch
        PROVE  p = q
    <2>1. ASSUME NEW x \in P, NEW y \in P, x < y PROVE log[x].epoch # log[y].epoch
      <3>1. x \in entries("availability_settlement", y - 1)
        BY <1>2, <1>4, <2>1 DEF entries
      <3> QED BY <1>4, <3>1 DEF ServiceStands
    <2>2. p \in Nat /\ q \in Nat
      BY <1>2, <1>4
    <2> QED BY <1>5, <2>1, <2>2
  <1> DEFINE f == [p \in P |-> log[p].epoch]
  <1>6. f \in [P -> lo .. hi] /\ \A p, q \in P : f[p] = f[q] => p = q
    BY <1>4, <1>5
  <1>7. IsFiniteSet(lo .. hi) /\ Cardinality(lo .. hi) = hi - lo + 1
    BY <1>3, FS_Interval
  <1>8. Cardinality(P) <= hi - lo + 1
    <2> HIDE DEF f
    <2>1. f \in Injection(P, lo .. hi)
      BY <1>6 DEF Injection, IsInjective
    <2> QED BY <1>7, <2>1, FS_Injection
  <1>9. Cardinality(P) \in Nat
    BY <1>4, FS_CardinalityType
  <1>10. c * Cardinality(P) <= c * (hi - lo + 1)
    <2>1. \A x, y, k \in Nat : x <= y => k * x <= k * y
      OBVIOUS
    <2> QED BY <1>3, <1>8, <1>9, <2>1
  <1> QED BY <1>1, <1>3, <1>4, <1>10

LEMMA PoolsCover ==
    ASSUME EconomyInv, AuditInv
    PROVE  ~audit_pools_overspent
  <1>1. PICK N, A, L : /\ N = Len(log) /\ A = entries("availability_settlement", N)
                       /\ L = entries("availability_pool", N)
    OBVIOUS
  <1>2. N \in Nat /\ LogOK /\ IsFiniteSet(A) /\ IsFiniteSet(L)
    BY <1>1, LogLength, NextEntries DEF EconomyInv, LogOK
  <1> DEFINE per(a) == Pool[log[a].pool].per_epoch
             F == [p \in A |-> [a \in L |->
                        IF covers(log[a].pool, log[p].epoch) THEN per(a) ELSE 0]]
             R == [p \in A |-> rewards(p)]
             C == [a \in L |-> ceiling(log[a].pool)]
             rows == [p \in A |-> SumFunction(F[p])]
             cols == columns(F, A, L)
  <1>3. \A a \in L : per(a) \in Nat /\ ceiling(log[a].pool) \in Nat
    BY <1>1, PoolPaysItsCeiling
  <1>4. F \in [A -> [L -> Nat]] /\ C \in [L -> Nat]
    BY <1>3
  <1>5. ASSUME NEW p \in A
        PROVE  SumFunction(F[p]) \in Nat /\ rewards(p) \in Nat /\ rewards(p) <= SumFunction(F[p])
    <2> DEFINE T == {q \in L : covers(log[q].pool, log[p].epoch)}
               g == [q \in T |-> Pool[log[q].pool].per_epoch]
    <2>1. /\ T \in SUBSET L /\ g \in [T -> Nat] /\ F[p] \in [L -> Nat]
          /\ \A a \in L : F[p][a] = IF a \in T THEN g[a] ELSE 0
      BY <1>3
    <2>2. offered_within(log[p].epoch, N) = SumFunction(g)
      BY <1>1 DEF offered_within, sum
    <2>3. rewards(p) \in Nat /\ rewards(p) <= offered_within(log[p].epoch, N)
      BY <1>1, RewardsWithinOffer
    <2> HIDE DEF T, g, F
    <2>4. SumFunction(F[p]) = SumFunction(g) /\ SumFunction(F[p]) \in Nat
      BY <1>2, <2>1, SumFilter, SumNat
    <2> QED BY <2>2, <2>3, <2>4
  <1>6. R \in [A -> Nat] /\ rows \in [A -> Nat] /\ \A p \in A : R[p] <= rows[p]
    <2> HIDE DEF F
    <2> QED BY <1>5
  <1>7. ASSUME NEW a \in L
        PROVE  cols[a] \in Nat /\ cols[a] <= C[a]
    <2> DEFINE col == [p \in A |-> F[p][a]]
               P == {p \in A : covers(log[a].pool, log[p].epoch)}
               k == [p \in P |-> per(a)]
    <2>1. /\ col \in [A -> Nat] /\ P \in SUBSET A /\ k \in [P -> Nat]
          /\ (\A p \in A : col[p] = IF p \in P THEN k[p] ELSE 0)
          /\ \A p \in P : k[p] = per(a)
      BY <1>3
    <2>2. cols[a] = SumFunction(col)
      <3> HIDE DEF F
      <3> QED BY DEF columns
    <2>3. IsFiniteSet(P) /\ per(a) * Cardinality(P) <= ceiling(log[a].pool)
      BY <1>1, PoolPaysItsCeiling
    <2>4. C[a] = ceiling(log[a].pool)
      OBVIOUS
    <2> HIDE DEF col, P, k, F, C
    <2>5. SumFunction(col) = SumFunction(k) /\ SumFunction(col) \in Nat
      BY <1>2, <2>1, SumFilter, SumNat
    <2>6. SumFunction(k) = per(a) * Cardinality(P)
      <3>1. per(a) \in Nat
        BY <1>3
      <3> HIDE DEF per
      <3> QED BY <2>1, <2>3, <3>1, SumConstant
    <2> HIDE DEF cols
    <2> QED BY <2>2, <2>3, <2>4, <2>5, <2>6
  <1>8. cols \in [L -> Nat]
    <2>1. cols = [a \in L |-> cols[a]]
      BY DEF columns
    <2> HIDE DEF cols
    <2> QED BY <1>7, <2>1
  <1>9. /\ sum(entries("availability_settlement", Len(log)), rewards) = SumFunction(R)
        /\ sum(entries("availability_pool", Len(log)), LAMBDA p : ceiling(log[p].pool))
            = SumFunction(C)
    BY <1>1 DEF sum
  <1> HIDE DEF F, R, C, rows, cols
  <1>10. SumFunction(R) <= SumFunction(rows)
    BY <1>2, <1>6, SumGrows
  <1>11. SumFunction(rows) = SumFunction(cols)
    BY <1>2, <1>4, SumSwap DEF rows, cols
  <1>12. SumFunction(cols) <= SumFunction(C)
    BY <1>2, <1>4, <1>7, <1>8, SumGrows
  <1>13. /\ SumFunction(R) \in Nat /\ SumFunction(rows) \in Nat /\ SumFunction(cols) \in Nat
         /\ SumFunction(C) \in Nat
    BY <1>2, <1>4, <1>6, <1>8, SumNat
  <1>14. SumFunction(R) <= SumFunction(C)
    BY <1>10, <1>11, <1>12, <1>13
  <1> QED BY <1>9, <1>13, <1>14 DEF audit_pools_overspent

LEMMA BalanceNat ==
    ASSUME LogOK, NEW m \in Nat, m < Len(log), NEW i
    PROVE  spendable_within(i, m) \in Nat
  <1>1. gross_paid_within(i, m) \in Nat /\ committed_within(i, m) \in Nat
    BY NextGross, NextCommitted
  <1> QED BY <1>1 DEF balances_within, spendable_within, minus

\* A log the node's rules wrote audits clean, and goes on doing so however it
\* grows (Node::audit over Node::append's rules): no entry, back-dated, late or
\* paid since, turns an admitted record into a fault.
THEOREM HonestLogsStayClean == Spec => []HonestLogsAuditClean
  <1>1. ASSUME EconomyInv, AuditInv PROVE HonestLogsAuditClean
    <2>1. PICK N : N = Len(log)
      OBVIOUS
    <2>2. /\ N \in Nat /\ LogSeq
          /\ \A p \in 1 .. N : /\ EntryOK(p) /\ RecordStands(p) /\ BatchStands(p)
                               /\ ServiceStands(p) /\ DisputeStands(p)
      BY <1>1, <2>1, LogLength DEF EconomyInv, LogOK, AuditInv, Stands
    <2>3. \A k : \A p \in entries(k, N) : p \in 1 .. N /\ log[p].kind = k
      BY DEF entries
    <2>4. \A c : \A p \in 1 .. N : Known(c, p - 1) => inLog(c)
      BY <2>1, <2>2 DEF Known, inLog, entries
    <2>5. audit_issuances = {}
      <3>1. \A p \in 1 .. N :
                p <= genesis_prefix <=> \A q \in 1 .. p : log[q].kind = "issuance"
        BY <2>1, <2>2, Genesis
      <3>2. genesis_prefix \in Nat
        BY <2>1, <2>2, Genesis
      <3>3. \A p \in entries("issuance", N) : ~(p > genesis_prefix)
        BY <2>2, <2>3, <3>1, <3>2 DEF RecordStands
      <3> QED BY <2>1, <3>3 DEF audit_issuances
    <2>6. audit_undertakings = {}
      <3>1. ASSUME NEW p \in entries("undertaking", N)
            PROVE  ~(\/ log[p].height # p - 1
                     \/ log[p].bond > spendable_within(log[p].identity, p - 1))
        <4>1. /\ p \in 1 .. N /\ log[p].height = p - 1 /\ log[p].bond \in Nat
              /\ log[p].bond <= spendable_within(log[p].identity, p - 1)
          BY <2>2, <2>3 DEF ServiceStands, EntryOK
        <4>2. LogOK /\ p - 1 \in Nat /\ p - 1 < Len(log)
          BY <1>1, <2>1, <2>2, <4>1 DEF EconomyInv
        <4>3. spendable_within(log[p].identity, p - 1) \in Nat
          BY <4>2, BalanceNat
        <4> QED BY <4>1, <4>3
      <3> QED BY <2>1, <3>1 DEF audit_undertakings
    <2>7. audit_availability = {} /\ audit_availability_settlements = {}
      <3>1. audit_availability = {}
        BY <2>1, <2>2, <2>3 DEF audit_availability, ServiceStands
      <3>2. ASSUME NEW p \in entries("availability_settlement", N)
            PROVE  LET s == availability_settlement_at(log[p].epoch, p - 1) IN
                   ~(\/ s.silent = {} /\ DOMAIN s.paid = {}
                     \/ rowsOf(p) # [paid |-> s.paid, silent |-> s.silent, unpaid |-> s.unpaid]
                     \/ \E q \in entries("availability_settlement", p - 1) :
                            log[q].epoch = log[p].epoch)
        BY <2>2, <2>3 DEF ServiceStands, rowsOf
      <3> QED BY <2>1, <3>1, <3>2 DEF audit_availability_settlements
    <2>8. audit_settlements = {}
      BY <2>1, <2>2, <2>3, <2>4 DEF audit_settlements, BatchStands
    <2>9. audit_batches = {}
      BY <2>1, <2>2, <2>3 DEF audit_batches, BatchStands
    <2>10. audit_beacons = {}
      BY <2>1, <2>2, <2>3 DEF audit_beacons, RecordStands, beacon_is_in_time
    <2>11. audit_challenges = {}
      BY <2>1, <2>2, <2>3, <2>4 DEF audit_challenges, DisputeStands
    <2>12. audit_slashes = {}
      BY <2>1, <2>2, <2>3 DEF audit_slashes, DisputeStands, EntryOK
    <2>13. \A p \in audit_challenge_settlements : log[p].winner = log[p].loser
      <3> SUFFICES ASSUME NEW p \in entries("challenge_settlement", N),
                          log[p].winner # log[p].loser
                   PROVE  p \notin audit_challenge_settlements
        BY <2>1 DEF audit_challenge_settlements
      <3>1. PICK c, b : /\ c = log[log[p].challenge]
                        /\ b = IF log[p].loser = c.challenger THEN c.bond
                               ELSE Objective[Claim[c.claim].objective].reward
        OBVIOUS
      <3>2. /\ log[p].challenge \in entries("challenge", p - 1)
            /\ (\A q \in entries("challenge_settlement", p - 1) :
                    log[q].challenge # log[p].challenge)
            /\ log[p].units \in Nat /\ p \in 1 .. N
        BY <2>2, <2>3 DEF EntryOK
      <3>3. /\ {log[p].winner, log[p].loser} \subseteq {Claim[c.claim].submitter, c.challenger}
            /\ log[p].units <= b
        BY <2>2, <2>3, <3>1 DEF DisputeStands
      <3>4. b \in Nat
        <4>1. log[p].challenge \in 1 .. N /\ c.kind = "challenge"
          BY <2>2, <3>1, <3>2 DEF entries
        <4>2. c.bond \in Nat /\ c.claim \in Claims
          BY <2>2, <3>1, <4>1 DEF EntryOK
        <4> QED BY <3>1, <4>2, EconomyAssumption
      <3>5. ~(log[p].units > b)
        BY <3>2, <3>3, <3>4
      <3> QED BY <3>1, <3>2, <3>3, <3>5 DEF audit_challenge_settlements
    <2>14. ASSUME declares_supply PROVE audit_attestations = {}
      <3>1. Funded
        BY <2>2, <2>14, Genesis DEF Funded
      <3>2. ASSUME NEW p \in entries("attestation", N)
            PROVE  ~(VerificationBond > spendable_within(log[p].attestor, p - 1))
        <4>1. p \in 1 .. N /\ VerificationBond <= spendable_within(log[p].attestor, p - 1)
          BY <2>2, <2>3, <3>1 DEF DisputeStands
        <4>2. LogOK /\ p - 1 \in Nat /\ p - 1 < Len(log)
          BY <1>1, <2>1, <2>2, <4>1 DEF EconomyInv
        <4>3. spendable_within(log[p].attestor, p - 1) \in Nat
          BY <4>2, BalanceNat
        <4> QED BY <4>1, <4>3, EconomyAssumption
      <3> QED BY <2>1, <2>2, <2>3, <2>4, <3>2 DEF audit_attestations, DisputeStands
    <2>15. ~audit_pools_overspent
      BY <1>1, PoolsCover
    <2> QED BY <2>5, <2>6, <2>7, <2>8, <2>9, <2>10, <2>11, <2>12, <2>13, <2>14, <2>15
            DEF HonestLogsAuditClean
  <1>2. EconomyInv /\ AuditInv => HonestLogsAuditClean
    BY <1>1
  <1> QED BY <1>2, EconomyInvariant, AuditInvariant, PTL

LEMMA SumMember ==
    ASSUME NEW S, IsFiniteSet(S), NEW f \in [S -> Nat], NEW x \in S
    PROVE  f[x] \in Nat /\ SumFunction(f) \in Nat /\ f[x] <= SumFunction(f)
  <1>1. S \in SUBSET S
    OBVIOUS
  <1>2. /\ f[x] \in Nat /\ sumOver(f, S \ {x}) \in Nat
        /\ sumOver(f, S) = sumOver(f, S \ {x}) + f[x]
    BY <1>1, SumStep
  <1>3. sumOver(f, S) = SumFunction(f)
    BY SumOverAll
  <1> QED BY <1>2, <1>3

\* Every promiser's bonds together fit the word mul_div_floor counts in.
WeightsFitTheWord ==
    \A p \in entries("availability_settlement", Len(log)) :
        \A i \in payeesOf(log[p].epoch, p - 1) :
            shifts(weightsOf(log[p].epoch, p - 1)[i])[Bits] = 0

\* Whoever is paid has put something at stake.
LEMMA StakesArePositive ==
    ASSUME EconomyInv, AuditInv, NEW n \in Nat, n <= Len(log), NEW e,
           NEW i \in payeesOf(e, n)
    PROVE  totalOf(e, n) # 0
  <1>1. PICK K, W, I, N : /\ K = keptPromises(e, n) /\ W = weightsOf(e, n)
                          /\ I = payeesOf(e, n) /\ N = Len(log)
    OBVIOUS
  <1>2. /\ K \subseteq entries("undertaking", n) /\ IsFiniteSet(K)
        /\ (\A u \in K : log[u].bond \in Nat) /\ IsFiniteSet(I)
        /\ W \in [I -> Nat] /\ totalOf(e, n) \in Nat /\ totalOf(e, n) = SumFunction(W)
    BY <1>1, PartsNat DEF EconomyInv
  <1>3. PICK u \in K : log[u].identity = i
    BY <1>1 DEF payeesOf
  <1>4. log[u].bond \in Nat \ {0}
    <2>1. u \in 1 .. N /\ log[u].kind = "undertaking"
      BY <1>1, <1>2, <1>3, LogLength DEF entries, EconomyInv, LogOK
    <2> QED BY <1>1, <2>1 DEF AuditInv, Stands, ServiceStands
  <1> DEFINE U == {x \in K : log[x].identity = i}
             f == [x \in U |-> log[x].bond]
  <1>5. W[i] = SumFunction(f)
    BY <1>1 DEF weightsOf, sum
  <1>6. IsFiniteSet(U) /\ f \in [U -> Nat] /\ u \in U /\ f[u] = log[u].bond
    <2>1. IsFiniteSet(U)
      BY <1>2, FS_Subset
    <2> QED BY <1>2, <1>3, <2>1
  <1>7. W[i] > 0
    <2> HIDE DEF f, U
    <2>1. f[u] <= SumFunction(f) /\ SumFunction(f) \in Nat
      BY <1>6, SumMember
    <2> QED BY <1>4, <1>5, <1>6, <2>1
  <1>8. W[i] \in Nat /\ W[i] <= SumFunction(W)
    BY <1>1, <1>2, SumMember
  <1> QED BY <1>2, <1>7, <1>8

\* A settlement divides the epoch's offer among the promises it does not call
\* silent, by bond, and rounds down.
LEMMA SharesAreFloors ==
    ASSUME EconomyInv, AuditInv, WeightsFitTheWord,
           NEW p \in entries("availability_settlement", Len(log)),
           NEW i \in DOMAIN log[p].paid
    PROVE  LET s == log[p]
               total == sum(DOMAIN s.paid, LAMBDA j : s.paid[j]) + s.unpaid
               kept(j) == {u \in eligible(s.epoch, p - 1) :
                            log[u].identity = j /\ u \notin s.silent}
               weight(j) == sum(kept(j), LAMBDA u : log[u].bond)
               all == sum(DOMAIN s.paid, LAMBDA j : weight(j))
           IN  s.paid[i] = (total * weight(i)) \div all
  <1>1. PICK e, n, s : e = log[p].epoch /\ n = p - 1 /\ s = log[p]
    OBVIOUS
  <1>2. /\ LogOK /\ n \in Nat /\ n <= Len(log)
        /\ log[p].kind = "availability_settlement" /\ ServiceStands(p)
    BY <1>1, LogLength DEF EconomyInv, LogOK, entries, AuditInv, Stands
  <1>3. PICK I, w, h, t, v, K, E : /\ I = payeesOf(e, n) /\ w = weightsOf(e, n)
                                   /\ h = sharesOf(e, n) /\ t = totalOf(e, n)
                                   /\ v = offerOf(e, n) /\ K = keptPromises(e, n)
                                   /\ E = eligible(e, n)
    OBVIOUS
  <1>4. /\ s.paid = h /\ s.silent = E \ K
        /\ s.unpaid = v - SumFunction([j \in I |-> h[j]])
    BY <1>1, <1>2, <1>3, SettlementParts DEF ServiceStands
  <1>5. /\ IsFiniteSet(I) /\ w \in [I -> Nat] /\ h \in [I -> Nat]
        /\ t \in Nat /\ t = SumFunction(w) /\ v \in Nat /\ SumFunction(h) \in Nat
    BY <1>1, <1>2, <1>3, PartsNat, SharesWithinOffer
  <1>6. [j \in I |-> h[j]] = h /\ DOMAIN h = I /\ i \in I
    BY <1>1, <1>4, <1>5
  <1>7. sum(DOMAIN s.paid, LAMBDA j : s.paid[j]) + s.unpaid = v
    <2>1. sum(DOMAIN s.paid, LAMBDA j : s.paid[j]) = SumFunction(h)
      BY <1>4, <1>6 DEF sum
    <2> QED BY <1>4, <1>5, <1>6, <2>1
  <1>8. \A j : {u \in E : log[u].identity = j /\ u \notin s.silent}
                = {u \in K : log[u].identity = j}
    BY <1>3, <1>4 DEF keptPromises
  <1>9. \A j \in I : sum({u \in E : log[u].identity = j /\ u \notin s.silent},
                         LAMBDA u : log[u].bond) = w[j]
    BY <1>3, <1>8 DEF weightsOf
  <1>10. sum(DOMAIN s.paid, LAMBDA j :
                sum({u \in E : log[u].identity = j /\ u \notin s.silent},
                    LAMBDA u : log[u].bond)) = t
    <2>1. [j \in DOMAIN s.paid |->
                sum({u \in E : log[u].identity = j /\ u \notin s.silent},
                    LAMBDA u : log[u].bond)] = w
      BY <1>4, <1>5, <1>6, <1>9
    <2> QED BY <1>5, <2>1 DEF sum
  <1>11. s.paid[i] = (v * w[i]) \div t
    <2>1. t # 0
      BY <1>1, <1>2, <1>3, <1>6, StakesArePositive
    <2>2. shifts(w[i])[Bits] = 0 /\ w[i] \in Nat
      BY <1>1, <1>3, <1>5, <1>6 DEF WeightsFitTheWord
    <2>3. s.paid[i] = mul_div_floor(v, w[i], t)
      BY <1>3, <1>4, <1>6 DEF sharesOf
    <2> QED BY <1>5, <2>1, <2>2, <2>3, FloorExact
  <1>12. SumFunction([j \in DOMAIN log[p].paid |-> log[p].paid[j]]) + log[p].unpaid = v
    BY <1>1, <1>7 DEF sum
  <1>13. SumFunction([u \in {u \in eligible(log[p].epoch, p - 1) :
                                log[u].identity = i /\ u \notin log[p].silent} |->
                        log[u].bond]) = w[i]
    BY <1>1, <1>3, <1>6, <1>9 DEF sum
  <1>14. SumFunction([j \in DOMAIN log[p].paid |->
            SumFunction([u \in {u \in eligible(log[p].epoch, p - 1) :
                                    log[u].identity = j /\ u \notin log[p].silent} |->
                            log[u].bond])]) = t
    BY <1>1, <1>3, <1>10 DEF sum
  <1>15. log[p].paid[i] = (v * w[i]) \div t
    BY <1>1, <1>11
  <1> QED BY <1>12, <1>13, <1>14, <1>15 DEF sum

\* An epoch's pool pays each promiser the floor of its share by bond, once, and
\* never names as silent a promise that was answered while the epoch ran
\* (Node::settle_availability, mul_div_floor), for any bonds that fit the word.
THEOREM AnsweredArePaid ==
    Spec /\ []WeightsFitTheWord => []AnsweredPromisesArePaid
  <1>1. ASSUME EconomyInv, AuditInv, WeightsFitTheWord PROVE AnsweredPromisesArePaid
    <2>1. PICK N, A : N = Len(log) /\ A = entries("availability_settlement", N)
      OBVIOUS
    <2>2. N \in Nat /\ \A p \in 1 .. N : ServiceStands(p) /\ log[p].ts \in Nat
      BY <1>1, <2>1, LogLength DEF EconomyInv, LogOK, EntryOK, AuditInv, Stands
    <2>3. \A p \in A : p \in 1 .. N /\ log[p].kind = "availability_settlement"
                       /\ log[p].epoch \in Nat
      <3>1. \A p \in A : p \in 1 .. N /\ log[p].kind = "availability_settlement"
        BY <2>1 DEF entries
      <3> QED BY <2>2, <3>1, EconomyAssumption DEF ServiceStands, Epochs
    <2>4. ASSUME NEW p \in A, NEW q \in entries("availability", N),
                 log[q].epoch = log[p].epoch, log[q].ts <= log[p].epoch
          PROVE  log[q].undertaking \notin log[p].silent
      <3>1. /\ q \in 1 .. N /\ log[q].kind = "availability" /\ ServiceStands(q)
            /\ log[q].ts \in Nat
        BY <2>2 DEF entries
      <3>2. CASE q < p
        <4>1. log[p].silent = eligible(log[p].epoch, p - 1) \ keptPromises(log[p].epoch, p - 1)
          BY <2>2, <2>3, SettlementParts DEF ServiceStands
        <4>2. q \in availability_answers_within(p - 1)
          BY <2>2, <2>3, <3>1, <3>2 DEF availability_answers_within, entries, ServiceStands
        <4>3. answered(log[q].undertaking, log[p].epoch, p - 1)
          BY <2>4, <4>2 DEF answered
        <4> QED BY <4>1, <4>3 DEF keptPromises
      <3>3. CASE p < q
        <4>1. p \in entries("availability_settlement", q - 1)
          BY <2>2, <2>3, <3>1, <3>3 DEF entries
        <4>2. log[p].epoch < log[q].ts
          BY <3>1, <4>1 DEF ServiceStands
        <4> QED BY <2>3, <2>4, <3>1, <4>2
      <3>4. p # q
        BY <2>3, <3>1
      <3> QED BY <2>2, <2>3, <3>1, <3>2, <3>3, <3>4
    <2>5. ASSUME NEW p \in A, NEW q \in A, log[q].epoch = log[p].epoch
          PROVE  q = p
      <3>1. ASSUME NEW x \in A, NEW y \in A, x < y PROVE log[x].epoch # log[y].epoch
        <4>1. x \in entries("availability_settlement", y - 1)
          BY <2>2, <2>3, <3>1 DEF entries
        <4> QED BY <2>2, <2>3, <4>1 DEF ServiceStands
      <3>2. p \in Nat /\ q \in Nat
        BY <2>2, <2>3
      <3> QED BY <2>5, <3>1, <3>2
    <2> QED BY <1>1, <2>1, <2>4, <2>5, SharesAreFloors DEF AnsweredPromisesArePaid
  <1>2. EconomyInv /\ AuditInv /\ WeightsFitTheWord => AnsweredPromisesArePaid
    BY <1>1
  <1> QED BY <1>2, EconomyInvariant, AuditInvariant, PTL
-----------------------------------------------------------------------------
(* Typed work: what each tier leans on the universal reserve for.            *)

LEMMA NextEarned ==
    ASSUME LogOK, NEW n \in Nat, n < Len(log), NEW i, NEW t
    PROVE  /\ earnedIn(i, t, n) \in Nat
           /\ earnedIn(i, t, n + 1) = earnedIn(i, t, n) +
                IF /\ log[n + 1].kind = "settlement"
                   /\ Claim[log[n + 1].claim].submitter = i
                   /\ Objective[Claim[log[n + 1].claim].objective].tier = t
                THEN log[n + 1].reward ELSE 0
  <1> DEFINE of(x) == /\ Claim[x.claim].submitter = i
                      /\ Objective[Claim[x.claim].objective].tier = t
             S == {p \in entries("settlement", n) : of(log[p])}
             T == {p \in entries("settlement", n + 1) : of(log[p])}
             v == [p \in T |-> log[p].reward]
  <1>1. Len(log) \in Nat /\ \A p \in entries("settlement", n + 1) : p \in 1 .. Len(log)
    BY LogLength DEF entries, LogOK
  <1>2. v \in [T -> Nat]
    <2>1. \A p \in entries("settlement", n + 1) : EntryOK(p) /\ log[p].kind = "settlement"
      BY <1>1 DEF LogOK, entries
    <2>2. \A p \in T : log[p].reward \in Nat
      BY <2>1 DEF EntryOK
    <2> QED BY <2>2
  <1>3. IsFiniteSet(S) /\ n + 1 \notin S
    BY NextEntries, FS_Subset
  <1>4. S \subseteq T /\ T \subseteq S \cup {n + 1}
    <2>1. /\ entries("settlement", n) \subseteq entries("settlement", n + 1)
          /\ \A p \in entries("settlement", n + 1) : p \in entries("settlement", n) \/ p = n + 1
      BY NextEntries
    <2> QED BY <2>1
  <1>8. n + 1 \in T <=> (log[n + 1].kind = "settlement" /\ of(log[n + 1]))
    <2>1. n + 1 \in entries("settlement", n + 1) <=> log[n + 1].kind = "settlement"
      BY DEF entries
    <2> QED BY <2>1
  <1>5. /\ [p \in S |-> log[p].reward] = [p \in S |-> v[p]]
        /\ n + 1 \in T => v[n + 1] = log[n + 1].reward
    BY <1>4
  <1>6. /\ SumFunction([p \in S |-> v[p]]) \in Nat
        /\ SumFunction(v) = SumFunction([p \in S |-> v[p]])
                                + IF n + 1 \in T THEN v[n + 1] ELSE 0
    <2> HIDE DEF S, T, v
    <2>1. /\ IsFiniteSet(S \cup {n + 1}) /\ T \in SUBSET T
          /\ v = [p \in T |-> v[p]] /\ S = T \ {n + 1}
      BY <1>2, <1>3, <1>4, FS_AddElement
    <2>2. IsFiniteSet(T)
      BY <1>4, <2>1, FS_Subset
    <2>3. sumOver(v, T) = SumFunction(v) /\ sumOver(v, S) = SumFunction([p \in S |-> v[p]])
      BY <2>1, SumOverAll DEF sumOver
    <2>4. CASE n + 1 \in T
      <3>1. /\ v[n + 1] \in Nat /\ sumOver(v, T \ {n + 1}) \in Nat
            /\ sumOver(v, T) = sumOver(v, T \ {n + 1}) + v[n + 1]
        BY <1>2, <2>1, <2>2, <2>4, SumStep
      <3> QED BY <2>1, <2>3, <2>4, <3>1
    <2>5. CASE n + 1 \notin T
      <3>1. S = T /\ SumFunction(v) \in Nat
        BY <1>2, <2>1, <2>2, <2>5, SumNat
      <3> QED BY <2>3, <2>5, <3>1
    <2> QED BY <2>4, <2>5
  <1>7. earnedIn(i, t, n) = SumFunction([p \in S |-> v[p]])
        /\ earnedIn(i, t, n + 1) = SumFunction(v)
    BY <1>5 DEF earnedIn, sum
  <1> HIDE DEF S, T, v
  <1> QED BY <1>5, <1>6, <1>7, <1>8

\* What tier t of an identity leans on its universal reserve for.
shortfall(i, t, n) == minus(rewards_charged(i, {t}, n), earnedIn(i, t, n))
shortfalls(i, n)   == [t \in Kinds |-> shortfall(i, t, n)]
reserve(i, n)      == issued_within(i, n) + served_within(i, n) + challenge_won(i, n)
                      + caught_within(i, n)

LEMMA DrawnIs ==
    ASSUME NEW i, NEW n
    PROVE  /\ universal_drawn(i, n) = service_charges(i, n) + SumFunction(shortfalls(i, n))
           /\ tier_held(i, Universal, n) = reserve(i, n)
  <1>1. \A t \in Kinds : /\ tier_committed(i, t, n) = rewards_charged(i, {t}, n)
                         /\ tier_held(i, t, n) = earnedIn(i, t, n)
    BY TierHeld, EconomyAssumption DEF tier_committed
  <1>2. [t \in Kinds |-> minus(tier_committed(i, t, n), tier_held(i, t, n))]
            = shortfalls(i, n)
    BY <1>1 DEF shortfalls, shortfall
  <1>3. tier_committed(i, Universal, n) = service_charges(i, n)
    BY DEF tier_committed
  <1> QED BY <1>2, <1>3, TierHeld DEF universal_drawn, sum, reserve

\* Entry n + 1 lowers the shortfalls, but of the tier of an objective it funds.
LEMMA NextShortfall ==
    ASSUME LogOK, NEW n \in Nat, n < Len(log), NEW i, NEW t
    PROVE  /\ shortfall(i, t, n) \in Nat /\ shortfall(i, t, n + 1) \in Nat
           /\ ~(/\ log[n + 1].kind = "objective"
                /\ Objective[log[n + 1].objective].funder = i
                /\ Objective[log[n + 1].objective].tier = t) =>
                    shortfall(i, t, n + 1) <= shortfall(i, t, n)
           /\ (/\ log[n + 1].kind = "objective"
               /\ Objective[log[n + 1].objective].funder = i
               /\ Objective[log[n + 1].objective].tier = t) =>
                    shortfall(i, t, n + 1) =
                        minus(rewards_charged(i, {t}, n) + Objective[log[n + 1].objective].reward,
                              earnedIn(i, t, n))
  <1> DEFINE x == log[n + 1]
             d == IF x.kind = "objective" /\ Objective[x.objective].funder = i
                     /\ Objective[x.objective].tier = t
                  THEN Objective[x.objective].reward ELSE 0
             g == IF /\ x.kind = "settlement" /\ Claim[x.claim].submitter = i
                     /\ Objective[Claim[x.claim].objective].tier = t
                  THEN x.reward ELSE 0
             c1 == rewards_charged(i, {t}, n)
             c2 == rewards_charged(i, {t}, n + 1)
             h1 == earnedIn(i, t, n)
             h2 == earnedIn(i, t, n + 1)
  <1>1. Len(log) \in Nat /\ EntryOK(n + 1)
    BY LogLength DEF LogOK
  <1>2. d \in Nat /\ g \in Nat
    BY <1>1, EconomyAssumption DEF EntryOK
  <1>3. c1 \in Nat /\ c2 = c1 + d
    BY NextRewards
  <1>4. h1 \in Nat /\ h2 = h1 + g
    BY NextEarned
  <1>5. x.kind = "objective" => g = 0
    OBVIOUS
  <1>6. /\ shortfall(i, t, n) = minus(c1, h1) /\ shortfall(i, t, n + 1) = minus(c2, h2)
    BY DEF shortfall
  <1>7. CASE /\ x.kind = "objective" /\ Objective[x.objective].funder = i
             /\ Objective[x.objective].tier = t
    <2>1. d = Objective[x.objective].reward /\ g = 0
      BY <1>5, <1>7
    <2> HIDE DEF d, g, c1, c2, h1, h2
    <2>3. h2 = h1 /\ c2 = c1 + d /\ c1 \in Nat /\ h1 \in Nat /\ d \in Nat /\ c2 \in Nat
      BY <1>2, <1>3, <1>4, <2>1
    <2>4. minus(c1, h1) \in Nat /\ minus(c2, h1) \in Nat
      BY <2>3 DEF minus
    <2>2. minus(c1, h1) \in Nat /\ minus(c2, h2) \in Nat /\ minus(c2, h2) = minus(c1 + d, h1)
      BY <2>3, <2>4
    <2> QED BY <1>6, <1>7, <2>1, <2>2 DEF c1, h1
  <1>8. CASE ~(/\ x.kind = "objective" /\ Objective[x.objective].funder = i
               /\ Objective[x.objective].tier = t)
    <2>1. d = 0
      BY <1>8
    <2> HIDE DEF d, g, c1, c2, h1, h2
    <2>2. minus(c1, h1) \in Nat /\ minus(c2, h2) \in Nat /\ minus(c2, h2) <= minus(c1, h1)
      BY <1>2, <1>3, <1>4, <2>1 DEF minus
    <2> QED BY <1>6, <1>8, <2>2
  <1> QED BY <1>7, <1>8

LEMMA NextReserve ==
    ASSUME LogOK, NEW n \in Nat, n < Len(log), NEW i
    PROVE  /\ reserve(i, n) \in Nat /\ reserve(i, n + 1) \in Nat
           /\ reserve(i, n) <= reserve(i, n + 1)
  <1> DEFINE x == log[n + 1]
             d1 == IF x.kind = "availability_settlement" /\ i \in DOMAIN x.paid
                   THEN x.paid[i] ELSE 0
             d2 == IF x.kind = "challenge_settlement" /\ x.winner = i THEN x.units ELSE 0
             d3 == IF x.kind = "verification_slash" /\ x.catcher = i THEN x.units ELSE 0
  <1>1. Len(log) \in Nat /\ EntryOK(n + 1)
    BY LogLength DEF LogOK
  <1>2. d1 \in Nat /\ d2 \in Nat /\ d3 \in Nat
    BY <1>1, EconomyAssumption DEF EntryOK
  <1>3. served_within(i, n) \in Nat /\ served_within(i, n + 1) = served_within(i, n) + d1
    BY NextServed
  <1>4. challenge_won(i, n) \in Nat /\ challenge_won(i, n + 1) = challenge_won(i, n) + d2
    BY NextWon
  <1>5. caught_within(i, n) \in Nat /\ caught_within(i, n + 1) = caught_within(i, n) + d3
    BY NextCaught
  <1>6. /\ issued_within(i, n) \in Nat /\ issued_within(i, n + 1) \in Nat
        /\ issued_within(i, n) <= issued_within(i, n + 1)
    BY NextIssued
  <1> HIDE DEF d1, d2, d3
  <1>7. PICK a \in Nat, b \in Nat, c \in Nat, s \in Nat, t \in Nat :
            /\ a = issued_within(i, n) /\ b = issued_within(i, n + 1)
            /\ c = served_within(i, n) /\ s = challenge_won(i, n) /\ t = caught_within(i, n)
    BY <1>3, <1>4, <1>5, <1>6
  <1>8. PICK u \in Nat, v \in Nat, w \in Nat : u = d1 /\ v = d2 /\ w = d3
    BY <1>2
  <1>9. /\ reserve(i, n) = a + c + s + t
        /\ reserve(i, n + 1) = b + (c + u) + (s + v) + (t + w)
        /\ a <= b
    BY <1>3, <1>4, <1>5, <1>6, <1>7, <1>8 DEF reserve
  <1> QED BY <1>9

LEMMA ServiceNat ==
    ASSUME LogOK, NEW n \in Nat, n < Len(log), NEW i
    PROVE  service_charges(i, n) \in Nat /\ service_charges(i, n + 1) \in Nat
  <1> DEFINE x == log[n + 1]
             d1 == IF x.kind = "undertaking" /\ x.identity = i THEN x.bond ELSE 0
             d2 == IF x.kind = "availability_pool" /\ Pool[x.pool].funder = i
                   THEN ceiling(x.pool) ELSE 0
             d3 == IF x.kind = "challenge_settlement" /\ x.loser = i THEN x.units ELSE 0
             d4 == IF x.kind = "verification_slash" /\ x.attestor = i THEN x.units ELSE 0
  <1>1. Len(log) \in Nat /\ EntryOK(n + 1)
    BY LogLength DEF LogOK
  <1>2. d1 \in Nat /\ d2 \in Nat /\ d3 \in Nat /\ d4 \in Nat
    BY <1>1, CeilingNat, EconomyAssumption DEF EntryOK
  <1>3. locked_within(i, n) \in Nat /\ locked_within(i, n + 1) = locked_within(i, n) + d1
    BY NextLocked
  <1>4. pools_charged(i, n) \in Nat /\ pools_charged(i, n + 1) = pools_charged(i, n) + d2
    BY NextPools
  <1>5. challenge_lost(i, n) \in Nat /\ challenge_lost(i, n + 1) = challenge_lost(i, n) + d3
    BY NextLost
  <1>6. slashed_within(i, n) \in Nat /\ slashed_within(i, n + 1) = slashed_within(i, n) + d4
    BY NextSlashed
  <1>7. /\ challenge_bonds_within(i, n) \in Nat /\ challenge_bonds_within(i, n + 1) \in Nat
        /\ attestation_bonds_within(i, n) \in Nat /\ attestation_bonds_within(i, n + 1) \in Nat
    BY NextChallengeBonds, NextAttestationBonds
  <1> HIDE DEF d1, d2, d3, d4
  <1>8. /\ locked_within(i, n + 1) \in Nat /\ pools_charged(i, n + 1) \in Nat
        /\ challenge_lost(i, n + 1) \in Nat /\ slashed_within(i, n + 1) \in Nat
    BY <1>2, <1>3, <1>4, <1>5, <1>6
  <1>9. \A a, b, c, d, e, f \in Nat : a + b + c + d + e + f \in Nat
    OBVIOUS
  <1> QED BY <1>3, <1>4, <1>5, <1>6, <1>7, <1>8, <1>9 DEF service_charges

\* A sum grows by at most what its one growing term does.
LEMMA SumGrowsAt ==
    ASSUME NEW S, IsFiniteSet(S), NEW f \in [S -> Nat], NEW g \in [S -> Nat],
           NEW x \in S, NEW d \in Nat,
           \A s \in S \ {x} : g[s] <= f[s], g[x] <= f[x] + d
    PROVE  SumFunction(g) <= SumFunction(f) + d
  <1> DEFINE R == S \ {x}
             f1 == [s \in R |-> f[s]]
             g1 == [s \in R |-> g[s]]
  <1>1. /\ R \in SUBSET S /\ S \in SUBSET S /\ f = [s \in S |-> f[s]] /\ g = [s \in S |-> g[s]]
    OBVIOUS
  <1>2. IsFiniteSet(R) /\ f1 \in [R -> Nat] /\ g1 \in [R -> Nat] /\ \A s \in R : g1[s] <= f1[s]
    BY FS_Subset
  <1>3. SumFunction(g1) <= SumFunction(f1)
    <2> HIDE DEF R, f1, g1
    <2> QED BY <1>2, SumGrows
  <1>4. sumOver(f, R) = SumFunction(f1) /\ sumOver(g, R) = SumFunction(g1)
    BY DEF sumOver
  <1>5. /\ f[x] \in Nat /\ sumOver(f, R) \in Nat /\ sumOver(f, S) = sumOver(f, R) + f[x]
    BY <1>1, SumStep
  <1>6. /\ g[x] \in Nat /\ sumOver(g, R) \in Nat /\ sumOver(g, S) = sumOver(g, R) + g[x]
    BY <1>1, SumStep
  <1>7. sumOver(f, S) = SumFunction(f) /\ sumOver(g, S) = SumFunction(g)
    BY <1>1, SumOverAll
  <1>8. PICK a \in Nat, b \in Nat, u \in Nat, v \in Nat :
            /\ a = sumOver(f, R) /\ b = sumOver(g, R) /\ u = f[x] /\ v = g[x]
    BY <1>5, <1>6
  <1>9. SumFunction(f) = a + u /\ SumFunction(g) = b + v /\ b <= a /\ v <= u + d
    BY <1>3, <1>4, <1>5, <1>6, <1>7, <1>8
  <1> QED BY <1>8, <1>9

\* Objectives are funded from their own tier or from what of the reserve no
\* other tier leans on, so the reserve covers every shortfall.
LEMMA ReserveCovers ==
    ASSUME LogOK, Funded, \A p \in 1 .. Len(log) : RecordStands(p), Len(log) > 0, NEW i
    PROVE  \A n \in 0 .. Len(log) :
                SumFunction(shortfalls(i, n)) <= reserve(i, n)
  <1> DEFINE T == {n \in Nat : n <= Len(log) =>
                        SumFunction(shortfalls(i, n)) <= reserve(i, n)}
  <1>1. Len(log) \in Nat /\ IsFiniteSet(Kinds)
    BY LogLength, EconomyAssumption DEF LogOK
  <1>2. 0 \in T
    <2>1. \A t : rewards_charged(i, {t}, 0) = 0 /\ earnedIn(i, t, 0) = 0
      <3>1. \A k : entries(k, 0) = {}
        BY DEF entries
      <3> QED BY <3>1, SumEmpty DEF rewards_charged, earnedIn, sum
    <2>2. /\ shortfalls(i, 0) \in [Kinds -> Nat]
          /\ \A t \in Kinds : shortfalls(i, 0)[t] = 0
      <3>1. \A t : shortfall(i, t, 0) = 0
        BY <2>1 DEF shortfall, minus
      <3> QED BY <3>1 DEF shortfalls
    <2>3. SumFunction(shortfalls(i, 0)) = 0
      BY <1>1, <2>2, SumZero
    <2>4. reserve(i, 0) \in Nat
      BY <1>1, NextReserve
    <2> QED BY <2>3, <2>4
  <1>3. ASSUME NEW n \in T PROVE n + 1 \in T
    <2> SUFFICES ASSUME n + 1 <= Len(log)
                 PROVE  SumFunction(shortfalls(i, n + 1)) <= reserve(i, n + 1)
      OBVIOUS
    <2>1. n \in Nat /\ n < Len(log) /\ n + 1 \in 1 .. Len(log)
      BY <1>1
    <2> DEFINE f == shortfalls(i, n)
               g == shortfalls(i, n + 1)
               x == log[n + 1]
               U == reserve(i, n)
               V == reserve(i, n + 1)
               c == service_charges(i, n)
    <2>2. SumFunction(f) <= U
      BY <1>1, <2>1
    <2>3. U \in Nat /\ V \in Nat /\ U <= V
      BY <2>1, NextReserve
    <2>4. c \in Nat
      BY <2>1, ServiceNat
    <2>5. \A t \in Kinds : f[t] = shortfall(i, t, n) /\ g[t] = shortfall(i, t, n + 1)
      BY DEF shortfalls
    <2>6. f \in [Kinds -> Nat] /\ g \in [Kinds -> Nat]
      <3>1. \A t \in Kinds : shortfall(i, t, n) \in Nat /\ shortfall(i, t, n + 1) \in Nat
        BY <2>1, NextShortfall
      <3> QED BY <3>1 DEF shortfalls
    <2>7. SumFunction(f) \in Nat /\ SumFunction(g) \in Nat
      <3> HIDE DEF f, g
      <3> QED BY <1>1, <2>6, SumNat
    <2>8. CASE ~(x.kind = "objective" /\ Objective[x.objective].funder = i)
      <3>1. \A t \in Kinds : g[t] <= f[t]
        <4>1. \A t \in Kinds : shortfall(i, t, n + 1) <= shortfall(i, t, n)
          BY <2>1, <2>8, NextShortfall
        <4> QED BY <2>5, <4>1
      <3>2. SumFunction(g) <= SumFunction(f)
        <4> HIDE DEF f, g
        <4> QED BY <1>1, <2>6, <3>1, SumGrows
      <3> HIDE DEF f, g, U, V
      <3>3. SumFunction(g) <= V
        BY <2>2, <2>3, <2>7, <3>2
      <3> QED BY <3>3 DEF g, V
    <2>9. CASE x.kind = "objective" /\ Objective[x.objective].funder = i
      <3> DEFINE s == Objective[x.objective].tier
                 r == Objective[x.objective].reward
                 com == rewards_charged(i, {s}, n)
                 own == earnedIn(i, s, n)
                 d == minus(U, c + SumFunction(f))
      <3>1. s \in Kinds /\ r \in Nat /\ s # Universal
        BY <1>1, <2>1, <2>9, EconomyAssumption DEF LogOK, EntryOK
      <3>2. r <= minus(own, com) + d
        <4>1. r <= spendable_in(i, s, n)
          <5>1. RecordStands(n + 1) /\ (n + 1) - 1 = n
            BY <2>1
          <5> QED BY <2>9, <5>1 DEF RecordStands
        <4>2. /\ tier_held(i, s, n) = own /\ tier_committed(i, s, n) = com
              /\ tier_held(i, Universal, n) = U
              /\ universal_drawn(i, n) = c + SumFunction(f)
          BY <3>1, TierHeld, DrawnIs DEF tier_committed
        <4> QED BY <4>1, <4>2 DEF spendable_in
      <3>3. com \in Nat /\ own \in Nat
        BY <2>1, NextRewards, NextEarned
      <3>4. /\ f[s] = minus(com, own) /\ g[s] = minus(com + r, own)
        <4>1. shortfall(i, s, n + 1) = minus(com + r, own)
          BY <2>1, <2>9, NextShortfall
        <4> QED BY <2>5, <3>1, <4>1 DEF shortfall
      <3>5. \A t \in Kinds \ {s} : g[t] <= f[t]
        <4>1. \A t \in Kinds \ {s} : shortfall(i, t, n + 1) <= shortfall(i, t, n)
          BY <2>1, <2>9, NextShortfall
        <4> QED BY <2>5, <4>1
      <3> HIDE DEF f, g, U, V, c, s, r, com, own, d
      <3>6. d \in Nat
        BY <2>3, <2>4, <2>7 DEF d, minus
      <3>7. g[s] <= f[s] + d
        BY <3>1, <3>2, <3>3, <3>4, <3>6 DEF minus
      <3>8. SumFunction(g) <= SumFunction(f) + d
        BY <1>1, <2>6, <3>1, <3>5, <3>6, <3>7, SumGrowsAt
      <3>9. SumFunction(f) + d <= U
        <4>1. PICK a \in Nat : a = SumFunction(f)
          BY <2>7
        <4>2. d = minus(U, c + a) /\ a <= U
          BY <2>2, <4>1 DEF d
        <4> QED BY <2>3, <2>4, <4>1, <4>2 DEF minus
      <3>10. SumFunction(g) <= V
        BY <2>3, <2>7, <3>6, <3>8, <3>9
      <3> QED BY <3>10 DEF g, V
    <2> QED BY <2>8, <2>9
  <1> HIDE DEF T
  <1>4. T = Nat
    BY <1>2, <1>3, EveryNatural DEF T
  <1> QED BY <1>1, <1>4 DEF T

\* What audit_tiers asks (Node::audit, tier.rs), of identities whose commitments
\* are all rewards: each was funded from its own tier or from a reserve no other
\* tier leans on.
THEOREM WorkIsBacked == Spec => []TypedWorkIsBacked
  <1>1. ASSUME EconomyInv, AuditInv PROVE TypedWorkIsBacked
    <2> SUFFICES ASSUME NEW i \in audit_tiers, ~(service_charges(i, Len(log)) > 0)
                 PROVE  FALSE
      BY DEF TypedWorkIsBacked
    <2>1. PICK n : n = Len(log)
      OBVIOUS
    <2>2. /\ declares_supply /\ ~solvent(i, n) /\ LogOK /\ n \in Nat
          /\ \A p \in 1 .. Len(log) : RecordStands(p)
      BY <1>1, <2>1, LogLength DEF audit_tiers, EconomyInv, LogOK, AuditInv, Stands
    <2>3. Funded /\ Len(log) > 0
      BY <2>2, GenesisDeclares DEF FirstDeclares, Funded, LogOK
    <2>4. SumFunction(shortfalls(i, n)) <= reserve(i, n)
      BY <2>1, <2>2, <2>3, ReserveCovers
    <2>5. service_charges(i, n) = 0
      <3>1. n - 1 \in Nat /\ n - 1 < Len(log) /\ (n - 1) + 1 = n
        BY <2>1, <2>2, <2>3
      <3>2. service_charges(i, (n - 1) + 1) \in Nat
        BY <2>2, <3>1, ServiceNat
      <3> QED BY <2>1, <3>1, <3>2
    <2>6. SumFunction(shortfalls(i, n)) \in Nat
      <3>1. PICK m \in Nat : m + 1 = n /\ m < Len(log)
        BY <2>1, <2>2, <2>3
      <3>2. \A t \in Kinds : shortfall(i, t, m + 1) \in Nat
        BY <2>2, <3>1, NextShortfall
      <3>3. shortfalls(i, n) \in [Kinds -> Nat]
        BY <3>1, <3>2 DEF shortfalls
      <3> QED BY <3>3, SumNat, EconomyAssumption
    <2>7. universal_drawn(i, n) <= tier_held(i, Universal, n)
      BY <2>4, <2>5, <2>6, DrawnIs
    <2> QED BY <2>2, <2>7 DEF solvent
  <1>2. EconomyInv /\ AuditInv => TypedWorkIsBacked
    BY <1>1
  <1> QED BY <1>2, EconomyInvariant, AuditInvariant, PTL
-----------------------------------------------------------------------------
(* The whole supply: sums over the identities, entry by entry.               *)

\* Every part of an identity's account is a natural number.
LEMMA AccountNat ==
    ASSUME LogOK, NEW n \in Nat \ {0}, n <= Len(log), NEW i
    PROVE  /\ issued_within(i, n) \in Nat /\ challenge_won(i, n) \in Nat
           /\ caught_within(i, n) \in Nat /\ settled_within(i, n) \in Nat
           /\ served_within(i, n) \in Nat
           /\ locked_within(i, n) \in Nat /\ rewards_charged(i, Kinds, n) \in Nat
           /\ pools_charged(i, n) \in Nat /\ challenge_bonds_within(i, n) \in Nat
           /\ challenge_lost(i, n) \in Nat /\ attestation_bonds_within(i, n) \in Nat
           /\ slashed_within(i, n) \in Nat
  <1>1. n - 1 \in Nat /\ (n - 1) + 1 = n /\ n - 1 < Len(log)
    BY LogLength DEF LogOK
  <1>2. PICK m \in Nat : m + 1 = n /\ m < Len(log)
    BY <1>1
  <1>3. Len(log) \in Nat /\ EntryOK(m + 1)
    BY <1>2, LogLength DEF LogOK
  <1> DEFINE x == log[m + 1]
             d1 == IF x.kind = "challenge_settlement" /\ x.winner = i
                   THEN x.units ELSE 0
             d2 == IF x.kind = "challenge_settlement" /\ x.loser = i
                   THEN x.units ELSE 0
             d3 == IF x.kind = "verification_slash" /\ x.catcher = i
                   THEN x.units ELSE 0
             d4 == IF x.kind = "verification_slash" /\ x.attestor = i
                   THEN x.units ELSE 0
             d5 == IF x.kind = "settlement" /\ Claim[x.claim].submitter = i
                   THEN x.reward ELSE 0
             d6 == IF x.kind = "availability_settlement" /\ i \in DOMAIN x.paid
                   THEN x.paid[i] ELSE 0
             d7 == IF x.kind = "undertaking" /\ x.identity = i
                   THEN x.bond ELSE 0
             d8 == IF x.kind = "objective" /\ Objective[x.objective].funder = i
                      /\ Objective[x.objective].tier \in Kinds
                   THEN Objective[x.objective].reward ELSE 0
             d9 == IF x.kind = "availability_pool" /\ Pool[x.pool].funder = i
                   THEN ceiling(x.pool) ELSE 0
  <1>4. /\ d1 \in Nat /\ d2 \in Nat /\ d3 \in Nat /\ d4 \in Nat /\ d5 \in Nat
        /\ d6 \in Nat /\ d7 \in Nat /\ d8 \in Nat /\ d9 \in Nat
    BY <1>3, CeilingNat, EconomyAssumption DEF EntryOK
  <1>5. challenge_won(i, m) \in Nat /\ challenge_won(i, m + 1) = challenge_won(i, m) + d1
    BY <1>2, NextWon
  <1>6. challenge_lost(i, m) \in Nat /\ challenge_lost(i, m + 1) = challenge_lost(i, m) + d2
    BY <1>2, NextLost
  <1>7. caught_within(i, m) \in Nat /\ caught_within(i, m + 1) = caught_within(i, m) + d3
    BY <1>2, NextCaught
  <1>8. slashed_within(i, m) \in Nat /\ slashed_within(i, m + 1) = slashed_within(i, m) + d4
    BY <1>2, NextSlashed
  <1>9. settled_within(i, m) \in Nat /\ settled_within(i, m + 1) = settled_within(i, m) + d5
    BY <1>2, NextSettled
  <1>10. served_within(i, m) \in Nat /\ served_within(i, m + 1) = served_within(i, m) + d6
    BY <1>2, NextServed
  <1>11. locked_within(i, m) \in Nat /\ locked_within(i, m + 1) = locked_within(i, m) + d7
    BY <1>2, NextLocked
  <1>12. rewards_charged(i, Kinds, m) \in Nat /\ rewards_charged(i, Kinds, m + 1) = rewards_charged(i, Kinds, m) + d8
    BY <1>2, NextRewards
  <1>13. pools_charged(i, m) \in Nat /\ pools_charged(i, m + 1) = pools_charged(i, m) + d9
    BY <1>2, NextPools
  <1>14. /\ issued_within(i, m + 1) \in Nat
         /\ challenge_bonds_within(i, m + 1) \in Nat
         /\ attestation_bonds_within(i, m + 1) \in Nat
    BY <1>2, NextIssued, NextChallengeBonds, NextAttestationBonds
  <1> HIDE DEF d1, d2, d3, d4, d5, d6, d7, d8, d9
  <1>15. /\ challenge_won(i, m + 1) \in Nat /\ challenge_lost(i, m + 1) \in Nat
         /\ caught_within(i, m + 1) \in Nat
    BY <1>4, <1>5, <1>6, <1>7
  <1>16. /\ slashed_within(i, m + 1) \in Nat /\ settled_within(i, m + 1) \in Nat
         /\ served_within(i, m + 1) \in Nat
    BY <1>4, <1>8, <1>9, <1>10
  <1>17. /\ locked_within(i, m + 1) \in Nat /\ pools_charged(i, m + 1) \in Nat
         /\ rewards_charged(i, Kinds, m + 1) \in Nat
    BY <1>4, <1>11, <1>12, <1>13
  <1> QED BY <1>2, <1>14, <1>15, <1>16, <1>17

\* What an identity holds, spendable or bonded.
holds(i, n) == balances_within(i, n) + locked_within(i, n)
               + challenge_bonds_within(i, n) + attestation_bonds_within(i, n)

\* An account balances exactly: nothing saturates.
LEMMA AccountBalances ==
    ASSUME EconomyInv, declares_supply, NEW n, n = Len(log), NEW i
    PROVE  /\ holds(i, n) \in Nat
           /\ holds(i, n) + rewards_charged(i, Kinds, n) + pools_charged(i, n)
                  + challenge_lost(i, n) + slashed_within(i, n)
              = issued_within(i, n) + challenge_won(i, n) + caught_within(i, n)
                  + settled_within(i, n) + served_within(i, n)
  <1>1. LogOK /\ n \in Nat \ {0} /\ n <= Len(log) /\ \A p \in 1 .. Len(log) : Afforded(p)
    BY LogLength, GenesisDeclares DEF EconomyInv, LogOK, AllAfforded, FirstDeclares
  <1>2. committed_within(i, n) <= gross_paid_within(i, n)
    BY <1>1, Conserved
  <1>9. /\ issued_within(i, n) \in Nat /\ challenge_won(i, n) \in Nat
        /\ caught_within(i, n) \in Nat /\ settled_within(i, n) \in Nat
        /\ served_within(i, n) \in Nat
        /\ locked_within(i, n) \in Nat /\ rewards_charged(i, Kinds, n) \in Nat
        /\ pools_charged(i, n) \in Nat /\ challenge_bonds_within(i, n) \in Nat
        /\ challenge_lost(i, n) \in Nat /\ attestation_bonds_within(i, n) \in Nat
        /\ slashed_within(i, n) \in Nat
    BY <1>1, AccountNat
  <1>3. PICK a \in Nat, b \in Nat, c \in Nat, d \in Nat, e \in Nat :
            /\ a = issued_within(i, n) /\ b = challenge_won(i, n) /\ c = caught_within(i, n)
            /\ d = settled_within(i, n) /\ e = served_within(i, n)
    BY <1>9
  <1>4. PICK s \in Nat, t \in Nat, u \in Nat, v \in Nat, w \in Nat, x \in Nat, y \in Nat :
            /\ s = locked_within(i, n) /\ t = rewards_charged(i, Kinds, n)
            /\ u = pools_charged(i, n) /\ v = challenge_bonds_within(i, n)
            /\ w = challenge_lost(i, n) /\ x = attestation_bonds_within(i, n)
            /\ y = slashed_within(i, n)
    BY <1>9
  <1>5. /\ gross_paid_within(i, n) = a + b + c + d + e
        /\ committed_within(i, n) = s + (t + u) + v + w + x + y
    BY <1>3, <1>4 DEF gross_paid_within, committed_within, charged_within
  <1>6. PICK g \in Nat : g = balances_within(i, n) /\ g + (s + (t + u) + v + w + x + y) = a + b + c + d + e
    <2>1. s + (t + u) + v + w + x + y <= a + b + c + d + e
      BY <1>2, <1>5
    <2> QED BY <1>5, <2>1 DEF balances_within, minus
  <1>7. holds(i, n) = g + s + v + x
    BY <1>4, <1>6 DEF holds
  <1>8. /\ g + s + v + x \in Nat
        /\ (g + s + v + x) + t + u + w + y = a + b + c + d + e
    <2>1. PICK z \in Nat : z = a + b + c + d + e
      OBVIOUS
    <2>2. g + (s + (t + u) + v + w + x + y) = z
      BY <1>6, <2>1
    <2>3. (g + s + v + x) + t + u + w + y = z
      BY <2>2
    <2> QED BY <2>1, <2>3
  <1> QED BY <1>3, <1>4, <1>7, <1>8

\* h is the sum of five functions on S.
addsFive(h, f1, f2, f3, f4, f5, S) ==
    /\ h \in [S -> Nat] /\ f1 \in [S -> Nat] /\ f2 \in [S -> Nat] /\ f3 \in [S -> Nat]
    /\ f4 \in [S -> Nat] /\ f5 \in [S -> Nat]
    /\ \A s \in S : h[s] = f1[s] + f2[s] + f3[s] + f4[s] + f5[s]

LEMMA SumFive ==
    ASSUME NEW S, IsFiniteSet(S), NEW f1, NEW f2, NEW f3, NEW f4, NEW f5, NEW h,
           addsFive(h, f1, f2, f3, f4, f5, S)
    PROVE  SumFunction(h) = SumFunction(f1) + SumFunction(f2) + SumFunction(f3)
                            + SumFunction(f4) + SumFunction(f5)
  <1>9. /\ h \in [S -> Nat] /\ f1 \in [S -> Nat] /\ f2 \in [S -> Nat] /\ f3 \in [S -> Nat]
        /\ f4 \in [S -> Nat] /\ f5 \in [S -> Nat]
    BY DEF addsFive
  <1>10. \A s \in S : h[s] = f1[s] + f2[s] + f3[s] + f4[s] + f5[s]
    BY DEF addsFive
  <1> DEFINE g2 == [s \in S |-> f1[s] + f2[s]]
             g3 == [s \in S |-> g2[s] + f3[s]]
             g4 == [s \in S |-> g3[s] + f4[s]]
  <1>1. g2 \in [S -> Nat] /\ \A s \in S : g2[s] = f1[s] + f2[s]
    BY <1>9
  <1>2. g3 \in [S -> Nat] /\ \A s \in S : g3[s] = g2[s] + f3[s]
    BY <1>1, <1>9
  <1>3. g4 \in [S -> Nat] /\ \A s \in S : g4[s] = g3[s] + f4[s]
    BY <1>2, <1>9
  <1> HIDE DEF g2, g3, g4
  <1>4. \A s \in S : h[s] = g4[s] + f5[s]
    BY <1>1, <1>2, <1>3, <1>9, <1>10
  <1>5. SumFunction(g2) = SumFunction(f1) + SumFunction(f2)
    BY <1>1, <1>9, SumPlus
  <1>6. SumFunction(g3) = SumFunction(g2) + SumFunction(f3)
    BY <1>1, <1>2, <1>9, SumPlus
  <1>7. SumFunction(g4) = SumFunction(g3) + SumFunction(f4)
    BY <1>2, <1>3, <1>9, SumPlus
  <1>8. SumFunction(h) = SumFunction(g4) + SumFunction(f5)
    BY <1>3, <1>4, <1>9, SumPlus
  <1> QED BY <1>5, <1>6, <1>7, <1>8

\* w[i] is the part of v that h assigns to i.
splits(w, v, Q, h, I) == w = [i \in I |-> fibre(v, Q, h, i)]

\* Sums by owner add up to the sum over the entries.
LEMMA SumOwners ==
    ASSUME NEW I, NEW Q, IsFiniteSet(I), IsFiniteSet(Q),
           NEW h \in [Q -> I], NEW v \in [Q -> Nat], NEW w,
           splits(w, v, Q, h, I)
    PROVE  w \in [I -> Nat] /\ SumFunction(w) = SumFunction(v)
  <1>1. \A i \in I : fibre(v, Q, h, i) \in Nat
    BY SumFibres
  <1>2. w = [i \in I |-> fibre(v, Q, h, i)]
    BY DEF splits
  <1>3. SumFunction([i \in I |-> fibre(v, Q, h, i)]) = SumFunction(v)
    BY SumFibres
  <1> QED BY <1>1, <1>2, <1>3

\* What a dispute took from one party it gave to another, and a slashed bond
\* went to whoever caught the lie.
LEMMA MovedIsKept ==
    ASSUME EconomyInv, AuditInv, NEW n, n = Len(log)
    PROVE  /\ SumFunction([i \in Identities |-> challenge_won(i, n)])
                = SumFunction([i \in Identities |-> challenge_lost(i, n)])
           /\ SumFunction([i \in Identities |-> caught_within(i, n)])
                = SumFunction([i \in Identities |-> slashed_within(i, n)])
  <1>1. PICK Q, Z : /\ Q = entries("challenge_settlement", n)
                    /\ Z = entries("verification_slash", n)
    OBVIOUS
  <1>2. /\ n \in Nat /\ IsFiniteSet(Identities) /\ IsFiniteSet(Q) /\ IsFiniteSet(Z)
    BY <1>1, LogLength, NextEntries, EconomyAssumption DEF EconomyInv, LogOK
  <1>3. ASSUME NEW p \in 1 .. n
        PROVE  EntryOK(p) /\ DisputeStands(p)
    BY DEF EconomyInv, LogOK, AuditInv, Stands
  <1>4. ASSUME NEW q \in Q
        PROVE  /\ log[q].units \in Nat
               /\ log[q].winner \in Identities /\ log[q].loser \in Identities
    <2>1. q \in 1 .. n /\ log[q].kind = "challenge_settlement"
      BY <1>1 DEF entries
    <2>2. /\ log[q].units \in Nat /\ log[q].challenge \in entries("challenge", q - 1)
          /\ {log[q].winner, log[q].loser} \subseteq
                {Claim[log[log[q].challenge].claim].submitter, log[log[q].challenge].challenger}
      BY <1>3, <2>1 DEF EntryOK, DisputeStands
    <2>3. PICK c : c = log[q].challenge
      OBVIOUS
    <2>4. c \in 1 .. n /\ log[c].kind = "challenge"
      BY <1>2, <2>1, <2>2, <2>3 DEF entries
    <2>5. log[c].claim \in Claims /\ log[c].challenger \in Identities
      BY <1>3, <2>4 DEF EntryOK
    <2>6. Claim[log[c].claim].submitter \in Identities
      BY <2>5, EconomyAssumption
    <2> QED BY <2>2, <2>3, <2>5, <2>6
  <1>5. ASSUME NEW q \in Z
        PROVE  /\ log[q].units \in Nat
               /\ log[q].catcher \in Identities /\ log[q].attestor \in Identities
    <2>1. q \in 1 .. n /\ log[q].kind = "verification_slash"
      BY <1>1 DEF entries
    <2>2. /\ log[q].units = VerificationBond /\ log[q].catcher \in Identities
          /\ log[q].attestation \in entries("attestation", q - 1)
          /\ log[q].attestor = log[log[q].attestation].attestor
      BY <1>3, <2>1 DEF EntryOK, DisputeStands
    <2>3. PICK a : a = log[q].attestation
      OBVIOUS
    <2>4. a \in 1 .. n /\ log[a].kind = "attestation"
      BY <1>2, <2>1, <2>2, <2>3 DEF entries
    <2>5. log[a].attestor \in Identities
      BY <1>3, <2>4 DEF EntryOK
    <2> QED BY <2>2, <2>3, <2>5, EconomyAssumption
  <1> DEFINE v == [q \in Q |-> log[q].units]
             h1 == [q \in Q |-> log[q].winner]
             h2 == [q \in Q |-> log[q].loser]
             w1 == [i \in Identities |-> challenge_won(i, n)]
             w2 == [i \in Identities |-> challenge_lost(i, n)]
             u == [q \in Z |-> log[q].units]
             k1 == [q \in Z |-> log[q].catcher]
             k2 == [q \in Z |-> log[q].attestor]
             x1 == [i \in Identities |-> caught_within(i, n)]
             x2 == [i \in Identities |-> slashed_within(i, n)]
  <1>6. v \in [Q -> Nat] /\ h1 \in [Q -> Identities] /\ h2 \in [Q -> Identities]
    BY <1>4
  <1>7. u \in [Z -> Nat] /\ k1 \in [Z -> Identities] /\ k2 \in [Z -> Identities]
    BY <1>5
  <1>8. \A i \in Identities : /\ w1[i] = fibre(v, Q, h1, i) /\ w2[i] = fibre(v, Q, h2, i)
    <2> TAKE i \in Identities
    <2>1. /\ {q \in entries("challenge_settlement", n) : log[q].winner = i} = {r \in Q : h1[r] = i}
          /\ {q \in entries("challenge_settlement", n) : log[q].loser = i} = {r \in Q : h2[r] = i}
      BY <1>1
    <2>2. /\ [q \in {r \in Q : h1[r] = i} |-> log[q].units] = [q \in {r \in Q : h1[r] = i} |-> v[q]]
          /\ [q \in {r \in Q : h2[r] = i} |-> log[q].units] = [q \in {r \in Q : h2[r] = i} |-> v[q]]
      OBVIOUS
    <2>3. w1[i] = challenge_won(i, n) /\ w2[i] = challenge_lost(i, n)
      OBVIOUS
    <2> HIDE DEF v, h1, h2, w1, w2
    <2> QED BY <2>1, <2>2, <2>3 DEF challenge_won, challenge_lost, sum, fibre
  <1>9. \A i \in Identities : /\ x1[i] = fibre(u, Z, k1, i) /\ x2[i] = fibre(u, Z, k2, i)
    <2> TAKE i \in Identities
    <2>1. /\ {q \in entries("verification_slash", n) : log[q].catcher = i} = {r \in Z : k1[r] = i}
          /\ {q \in entries("verification_slash", n) : log[q].attestor = i} = {r \in Z : k2[r] = i}
      BY <1>1
    <2>2. /\ [q \in {r \in Z : k1[r] = i} |-> log[q].units] = [q \in {r \in Z : k1[r] = i} |-> u[q]]
          /\ [q \in {r \in Z : k2[r] = i} |-> log[q].units] = [q \in {r \in Z : k2[r] = i} |-> u[q]]
      OBVIOUS
    <2>3. x1[i] = caught_within(i, n) /\ x2[i] = slashed_within(i, n)
      OBVIOUS
    <2> HIDE DEF u, k1, k2, x1, x2
    <2> QED BY <2>1, <2>2, <2>3 DEF caught_within, slashed_within, sum, fibre
  <1>10. /\ w1 = [i \in Identities |-> w1[i]] /\ w2 = [i \in Identities |-> w2[i]]
         /\ x1 = [i \in Identities |-> x1[i]] /\ x2 = [i \in Identities |-> x2[i]]
    OBVIOUS
  <1> HIDE DEF v, h1, h2, w1, w2, u, k1, k2, x1, x2
  <1>13. /\ splits(w1, v, Q, h1, Identities) /\ splits(w2, v, Q, h2, Identities)
    BY <1>8, <1>10 DEF splits
  <1>14. /\ splits(x1, u, Z, k1, Identities) /\ splits(x2, u, Z, k2, Identities)
    BY <1>9, <1>10 DEF splits
  <1>11. SumFunction(w1) = SumFunction(v)
    <2>1. /\ IsFiniteSet(Identities) /\ IsFiniteSet(Q) /\ h1 \in [Q -> Identities]
          /\ v \in [Q -> Nat] /\ splits(w1, v, Q, h1, Identities)
      BY <1>2, <1>6, <1>13
    <2> QED BY <2>1, SumOwners
  <1>12. SumFunction(w2) = SumFunction(v)
    <2>1. /\ IsFiniteSet(Identities) /\ IsFiniteSet(Q) /\ h2 \in [Q -> Identities]
          /\ v \in [Q -> Nat] /\ splits(w2, v, Q, h2, Identities)
      BY <1>2, <1>6, <1>13
    <2> QED BY <2>1, SumOwners
  <1>15. SumFunction(x1) = SumFunction(u)
    <2>1. /\ IsFiniteSet(Identities) /\ IsFiniteSet(Z) /\ k1 \in [Z -> Identities]
          /\ u \in [Z -> Nat] /\ splits(x1, u, Z, k1, Identities)
      BY <1>2, <1>7, <1>14
    <2> QED BY <2>1, SumOwners
  <1>16. SumFunction(x2) = SumFunction(u)
    <2>1. /\ IsFiniteSet(Identities) /\ IsFiniteSet(Z) /\ k2 \in [Z -> Identities]
          /\ u \in [Z -> Nat] /\ splits(x2, u, Z, k2, Identities)
      BY <1>2, <1>7, <1>14
    <2> QED BY <2>1, SumOwners
  <1> QED BY <1>11, <1>12, <1>15, <1>16 DEF w1, w2, x1, x2

\* What objectives charged, what settlements paid and what pools took, by the
\* entries that say so.
LEMMA PostedAndPaid ==
    ASSUME EconomyInv, AuditInv, NEW n, n = Len(log)
    PROVE  /\ SumFunction([i \in Identities |-> rewards_charged(i, Kinds, n)])
                = SumFunction([p \in entries("objective", n) |->
                                    Objective[log[p].objective].reward])
           /\ SumFunction([i \in Identities |-> settled_within(i, n)])
                = SumFunction([q \in entries("settlement", n) |-> log[q].reward])
           /\ SumFunction([i \in Identities |-> pools_charged(i, n)])
                = SumFunction([p \in entries("availability_pool", n) |-> ceiling(log[p].pool)])
  <1>1. PICK O, Q, L : /\ O = entries("objective", n) /\ Q = entries("settlement", n)
                       /\ L = entries("availability_pool", n)
    OBVIOUS
  <1>2. /\ n \in Nat /\ IsFiniteSet(Identities)
        /\ IsFiniteSet(O) /\ IsFiniteSet(Q) /\ IsFiniteSet(L)
    BY <1>1, LogLength, NextEntries, EconomyAssumption DEF EconomyInv, LogOK
  <1>3. /\ \A p \in O : log[p].objective \in Objectives
        /\ \A q \in Q : log[q].claim \in Claims /\ log[q].reward \in Nat
        /\ \A p \in L : log[p].pool \in Pools
    BY <1>1, <1>2 DEF EconomyInv, LogOK, EntryOK, entries
  <1>4. /\ \A p \in O : /\ Objective[log[p].objective].reward \in Nat
                        /\ Objective[log[p].objective].funder \in Identities
                        /\ Objective[log[p].objective].tier \in Kinds
        /\ \A q \in Q : Claim[log[q].claim].submitter \in Identities
        /\ \A p \in L : Pool[log[p].pool].funder \in Identities
    BY <1>3, EconomyAssumption
  <1>5. \A p \in L : ceiling(log[p].pool) \in Nat
    BY <1>3, CeilingNat
  <1> DEFINE v == [p \in O |-> Objective[log[p].objective].reward]
             h == [p \in O |-> Objective[log[p].objective].funder]
             w == [i \in Identities |-> rewards_charged(i, Kinds, n)]
             v2 == [q \in Q |-> log[q].reward]
             h2 == [q \in Q |-> Claim[log[q].claim].submitter]
             w2 == [i \in Identities |-> settled_within(i, n)]
             v3 == [p \in L |-> ceiling(log[p].pool)]
             h3 == [p \in L |-> Pool[log[p].pool].funder]
             w3 == [i \in Identities |-> pools_charged(i, n)]
  <1>6. /\ v \in [O -> Nat] /\ h \in [O -> Identities]
        /\ v2 \in [Q -> Nat] /\ h2 \in [Q -> Identities]
        /\ v3 \in [L -> Nat] /\ h3 \in [L -> Identities]
    BY <1>3, <1>4, <1>5
  <1>7. \A i \in Identities : w[i] = fibre(v, O, h, i)
    <2> TAKE i \in Identities
    <2> DEFINE R == {r \in O : h[r] = i}
    <2>1. {p \in entries("objective", n) :
                /\ Objective[log[p].objective].funder = i
                /\ Objective[log[p].objective].tier \in Kinds} = R
      BY <1>1, <1>4
    <2>2. [p \in R |-> Objective[log[p].objective].reward] = [p \in R |-> v[p]]
      OBVIOUS
    <2>3. w[i] = rewards_charged(i, Kinds, n) /\ fibre(v, O, h, i) = SumFunction([p \in R |-> v[p]])
      BY DEF fibre
    <2> HIDE DEF v, h, w, R
    <2> QED BY <2>1, <2>2, <2>3 DEF rewards_charged, sum
  <1>8. \A i \in Identities : w2[i] = fibre(v2, Q, h2, i)
    <2> TAKE i \in Identities
    <2> DEFINE R == {r \in Q : h2[r] = i}
    <2>1. {p \in entries("settlement", n) : Claim[log[p].claim].submitter = i} = R
      BY <1>1
    <2>2. [p \in R |-> log[p].reward] = [p \in R |-> v2[p]]
      OBVIOUS
    <2>3. w2[i] = settled_within(i, n) /\ fibre(v2, Q, h2, i) = SumFunction([p \in R |-> v2[p]])
      BY DEF fibre
    <2> HIDE DEF v2, h2, w2, R
    <2> QED BY <2>1, <2>2, <2>3 DEF settled_within, sum
  <1>9. \A i \in Identities : w3[i] = fibre(v3, L, h3, i)
    <2> TAKE i \in Identities
    <2> DEFINE R == {r \in L : h3[r] = i}
    <2>1. {p \in entries("availability_pool", n) : Pool[log[p].pool].funder = i} = R
      BY <1>1
    <2>2. [p \in R |-> ceiling(log[p].pool)] = [p \in R |-> v3[p]]
      OBVIOUS
    <2>3. w3[i] = pools_charged(i, n) /\ fibre(v3, L, h3, i) = SumFunction([p \in R |-> v3[p]])
      BY DEF fibre
    <2> HIDE DEF v3, h3, w3, R
    <2> QED BY <2>1, <2>2, <2>3 DEF pools_charged, sum
  <1>10. /\ w = [i \in Identities |-> w[i]] /\ w2 = [i \in Identities |-> w2[i]]
         /\ w3 = [i \in Identities |-> w3[i]]
    OBVIOUS
  <1> HIDE DEF v, h, w, v2, h2, w2, v3, h3, w3
  <1>14. /\ splits(w, v, O, h, Identities) /\ splits(w2, v2, Q, h2, Identities)
         /\ splits(w3, v3, L, h3, Identities)
    BY <1>7, <1>8, <1>9, <1>10 DEF splits
  <1>11. SumFunction(w) = SumFunction(v)
    <2>1. /\ IsFiniteSet(Identities) /\ IsFiniteSet(O) /\ h \in [O -> Identities]
          /\ v \in [O -> Nat] /\ splits(w, v, O, h, Identities)
      BY <1>2, <1>6, <1>14
    <2> QED BY <2>1, SumOwners
  <1>12. SumFunction(w2) = SumFunction(v2)
    <2>1. /\ IsFiniteSet(Identities) /\ IsFiniteSet(Q) /\ h2 \in [Q -> Identities]
          /\ v2 \in [Q -> Nat] /\ splits(w2, v2, Q, h2, Identities)
      BY <1>2, <1>6, <1>14
    <2> QED BY <2>1, SumOwners
  <1>13. SumFunction(w3) = SumFunction(v3)
    <2>1. /\ IsFiniteSet(Identities) /\ IsFiniteSet(L) /\ h3 \in [L -> Identities]
          /\ v3 \in [L -> Nat] /\ splits(w3, v3, L, h3, Identities)
      BY <1>2, <1>6, <1>14
    <2> QED BY <2>1, SumOwners
  <1> QED BY <1>1, <1>11, <1>12, <1>13 DEF v, w, v2, w2, v3, w3
\* What availability paid the identities is what its settlements paid out.
LEMMA ServedIsPaid ==
    ASSUME EconomyInv, AuditInv, NEW n, n = Len(log)
    PROVE  SumFunction([i \in Identities |-> served_within(i, n)])
                = SumFunction([p \in entries("availability_settlement", n) |-> rewards(p)])
  <1>1. PICK A : A = entries("availability_settlement", n)
    OBVIOUS
  <1>2. n \in Nat /\ LogOK /\ IsFiniteSet(A) /\ IsFiniteSet(Identities)
    BY <1>1, LogLength, NextEntries, EconomyAssumption DEF EconomyInv, LogOK
  <1>3. ASSUME NEW p \in A
        PROVE  /\ DOMAIN log[p].paid \subseteq Identities
               /\ \A i \in DOMAIN log[p].paid : log[p].paid[i] \in Nat
    <2>1. /\ p \in 1 .. n /\ p - 1 \in Nat /\ p - 1 <= Len(log)
          /\ log[p].kind = "availability_settlement" /\ Stands(p) /\ EntryOK(p)
      BY <1>1, <1>2 DEF LogOK, entries, AuditInv
    <2>2. PICK e, m : e = log[p].epoch /\ m = p - 1
      OBVIOUS
    <2>3. log[p].paid = sharesOf(e, m)
      BY <2>1, <2>2, SettlementParts DEF Stands, ServiceStands
    <2>4. keptPromises(e, m) \subseteq entries("undertaking", m)
      BY <1>2, <2>1, <2>2, PartsNat
    <2>5. \A u \in entries("undertaking", m) : log[u].identity \in Identities
      BY <1>2, <2>1, <2>2 DEF entries, LogOK, EntryOK
    <2>6. payeesOf(e, m) \subseteq Identities
      BY <2>4, <2>5 DEF payeesOf
    <2>7. DOMAIN sharesOf(e, m) = payeesOf(e, m)
      BY DEF sharesOf
    <2> QED BY <2>1, <2>3, <2>6, <2>7 DEF EntryOK
  <1> DEFINE F == [p \in A |-> [i \in Identities |->
                        IF i \in DOMAIN log[p].paid THEN log[p].paid[i] ELSE 0]]
             R == [p \in A |-> rewards(p)]
             rows == [p \in A |-> SumFunction(F[p])]
             cols == columns(F, A, Identities)
             W == [i \in Identities |-> served_within(i, n)]
  <1>4. F \in [A -> [Identities -> Nat]]
    BY <1>3
  <1>5. ASSUME NEW p \in A PROVE SumFunction(F[p]) = rewards(p)
    <2> DEFINE P == DOMAIN log[p].paid
               g == [i \in P |-> log[p].paid[i]]
    <2>1. /\ P \in SUBSET Identities /\ g \in [P -> Nat] /\ F[p] \in [Identities -> Nat]
          /\ \A i \in Identities : F[p][i] = IF i \in P THEN g[i] ELSE 0
      BY <1>3
    <2>2. rewards(p) = SumFunction(g)
      BY DEF rewards, sum
    <2> HIDE DEF P, g, F
    <2> QED BY <1>2, <2>1, <2>2, SumFilter
  <1>6. ASSUME NEW i \in Identities PROVE cols[i] = served_within(i, n)
    <2> DEFINE col == [p \in A |-> F[p][i]]
               P == {p \in A : i \in DOMAIN log[p].paid}
               k == [p \in P |-> log[p].paid[i]]
    <2>1. /\ col \in [A -> Nat] /\ P \in SUBSET A /\ k \in [P -> Nat]
          /\ \A p \in A : col[p] = IF p \in P THEN k[p] ELSE 0
      BY <1>3
    <2>2. cols[i] = SumFunction(col)
      <3> HIDE DEF F
      <3> QED BY DEF columns
    <2>3. served_within(i, n) = SumFunction(k)
      BY <1>1 DEF served_within, sum
    <2> HIDE DEF col, P, k, F, cols
    <2>4. SumFunction(col) = SumFunction(k)
      BY <1>2, <2>1, SumFilter
    <2> QED BY <2>2, <2>3, <2>4
  <1>7. rows = R
    <2> HIDE DEF F
    <2> QED BY <1>5
  <1>8. cols = W
    <2>1. cols = [i \in Identities |-> cols[i]]
      BY DEF columns
    <2> HIDE DEF cols
    <2> QED BY <1>6, <2>1
  <1> HIDE DEF F, R, rows, cols, W
  <1>9. SumFunction(rows) = SumFunction(cols)
    BY <1>2, <1>4, SumSwap DEF rows, cols
  <1> QED BY <1>1, <1>7, <1>8, <1>9 DEF R, W

upTo(L, m) == {p \in L : p <= m}

\* What draws of D, charged in order, leave of each of the ceilings c.
leftOf(c, L, D) == [p \in L |-> minus(c[p], minus(D, sumOver(c, {q \in L : q < p})))]

\* Draws charged against ceilings in order leave what the ceilings exceed them by.
LEMMA ChargedInOrder ==
    ASSUME NEW N \in Nat, NEW L \in SUBSET (1 .. N), NEW c \in [L -> Nat], NEW D \in Nat
    PROVE  SumFunction(leftOf(c, L, D)) = minus(SumFunction(c), D)
  <1>9. /\ \A p \in L : p \in Nat /\ 1 <= p /\ p <= N
        /\ L \subseteq 1 .. N /\ IsFiniteSet(1 .. N)
    BY FS_Interval
  <1>1. IsFiniteSet(L)
    BY <1>9, FS_Subset
  <1>10. PICK g : g = leftOf(c, L, D)
    OBVIOUS
  <1>2. \A T \in SUBSET L : sumOver(c, T) \in Nat
    <2> TAKE T \in SUBSET L
    <2>1. IsFiniteSet(T) /\ [s \in T |-> c[s]] \in [T -> Nat]
      BY <1>1, FS_Subset
    <2> QED BY <2>1, SumNat DEF sumOver
  <1>3. /\ g \in [L -> Nat] /\ c = [s \in L |-> c[s]] /\ g = [s \in L |-> g[s]]
    <2>1. ASSUME NEW p \in L PROVE g[p] \in Nat
      <3>1. PICK T \in SUBSET L : T = {q \in L : q < p}
        OBVIOUS
      <3>2. g[p] = minus(c[p], minus(D, sumOver(c, T))) /\ sumOver(c, T) \in Nat /\ c[p] \in Nat
        BY <1>2, <1>10, <3>1 DEF leftOf
      <3> QED BY <3>2 DEF minus
    <2>2. g = [s \in L |-> g[s]]
      BY <1>10 DEF leftOf
    <2> QED BY <2>1, <2>2
  <1>11. g \in [L -> Nat] /\ c \in [L -> Nat]
    BY <1>3
  <1>12. ASSUME NEW T \in SUBSET L, NEW x \in T
         PROVE  /\ c[x] \in Nat
                /\ sumOver(g, T) = sumOver(g, T \ {x}) + g[x]
                /\ sumOver(c, T) = sumOver(c, T \ {x}) + c[x]
    BY <1>1, <1>11, SumStep
  <1> DEFINE M == {m \in Nat : sumOver(g, upTo(L, m)) = minus(sumOver(c, upTo(L, m)), D)}
  <1>4. 0 \in M
    <2>1. upTo(L, 0) = {}
      <3>1. \A p \in L : ~(p <= 0)
        BY <1>9
      <3> QED BY <3>1 DEF upTo
    <2>2. sumOver(g, upTo(L, 0)) = 0 /\ sumOver(c, upTo(L, 0)) = 0
      BY <2>1, SumOverNone
    <2> QED BY <2>2 DEF minus
  <1>5. ASSUME NEW m \in M PROVE m + 1 \in M
    <2>1. m \in Nat /\ sumOver(g, upTo(L, m)) = minus(sumOver(c, upTo(L, m)), D)
      OBVIOUS
    <2>2. CASE m + 1 \notin L
      <3>1. upTo(L, m + 1) = upTo(L, m)
        <4>1. \A p \in L : p <= m + 1 <=> p <= m
          BY <1>9, <2>1, <2>2
        <4> QED BY <4>1 DEF upTo
      <3> QED BY <2>1, <3>1
    <2>3. CASE m + 1 \in L
      <3>1. PICK T \in SUBSET L, x \in L : T = upTo(L, m + 1) /\ x = m + 1
        <4>1. upTo(L, m + 1) \in SUBSET L
          BY DEF upTo
        <4> QED BY <2>3, <4>1
      <3>2. x \in T /\ T \ {x} = upTo(L, m) /\ {q \in L : q < x} = upTo(L, m)
        <4>1. \A p \in L : /\ p <= m <=> (p <= m + 1 /\ p # x)
                           /\ p < x <=> p <= m
          BY <1>9, <2>1, <3>1
        <4>2. m + 1 <= m + 1
          BY <2>1
        <4> QED BY <2>1, <3>1, <4>1, <4>2 DEF upTo
      <3>3. sumOver(g, T) = sumOver(g, T \ {x}) + g[x]
        BY <1>12, <3>2
      <3>4. c[x] \in Nat /\ sumOver(c, T) = sumOver(c, T \ {x}) + c[x]
        BY <1>12, <3>2
      <3>5. PICK a \in Nat, b \in Nat : a = sumOver(c, upTo(L, m)) /\ b = c[x]
        <4>1. upTo(L, m) \in SUBSET L
          BY DEF upTo
        <4> QED BY <1>2, <3>4, <4>1
      <3>6. g[x] = minus(b, minus(D, a))
        BY <1>10, <3>2, <3>5 DEF leftOf
      <3>7. minus(a, D) + minus(b, minus(D, a)) = minus(a + b, D)
        BY DEF minus
      <3>8. /\ sumOver(g, T) = minus(a, D) + minus(b, minus(D, a))
            /\ sumOver(c, T) = a + b
        BY <2>1, <3>2, <3>3, <3>4, <3>5, <3>6
      <3> QED BY <2>1, <3>1, <3>7, <3>8
    <2> QED BY <2>2, <2>3
  <1>6. N \in M
    <2> HIDE DEF M
    <2>1. M = Nat
      BY <1>4, <1>5, EveryNatural DEF M
    <2> QED BY <2>1
  <1>7. upTo(L, N) = L
    BY <1>9 DEF upTo
  <1>8. sumOver(g, L) = minus(sumOver(c, L), D)
    BY <1>6, <1>7
  <1> QED BY <1>3, <1>8, <1>10, SumOverAll

\* What the pools hold and what they have paid make what they took.
LEMMA PoolsEscrow ==
    ASSUME EconomyInv, AuditInv, NEW n, n = Len(log)
    PROVE  /\ escrowed_pools(n) \in Nat
           /\ SumFunction([i \in Identities |-> served_within(i, n)]) \in Nat
           /\ escrowed_pools(n) + SumFunction([i \in Identities |-> served_within(i, n)])
                = SumFunction([p \in entries("availability_pool", n) |-> ceiling(log[p].pool)])
  <1>1. PICK A, L : /\ A = entries("availability_settlement", n)
                    /\ L = entries("availability_pool", n)
    OBVIOUS
  <1>2. n \in Nat /\ LogOK /\ IsFiniteSet(A) /\ IsFiniteSet(L) /\ L \in SUBSET (1 .. n)
    <2>1. L \subseteq 1 .. n
      BY <1>1 DEF entries
    <2> QED BY <1>1, <2>1, LogLength, NextEntries DEF EconomyInv, LogOK
  <1> DEFINE c == [p \in L |-> ceiling(log[p].pool)]
             D == SumFunction([i \in Identities |-> served_within(i, n)])
             R == [p \in A |-> rewards(p)]
             g == [p \in L |-> minus(c[p], minus(D, sumOver(c, {q \in L : q < p})))]
  <1>3. c \in [L -> Nat]
    <2>1. \A p \in L : log[p].pool \in Pools
      BY <1>1, <1>2 DEF entries, LogOK, EntryOK
    <2> QED BY <2>1, CeilingNat
  <1>4. R \in [A -> Nat]
    BY <1>1, RewardsWithinOffer
  <1>5. D = SumFunction(R)
    BY <1>1, ServedIsPaid
  <1>6. /\ sum(A, rewards) = SumFunction(R)
        /\ sum(L, LAMBDA p : ceiling(log[p].pool)) = SumFunction(c)
    BY DEF sum
  <1>7. SumFunction(R) \in Nat /\ SumFunction(c) \in Nat
    <2> HIDE DEF R, c
    <2> QED BY <1>2, <1>3, <1>4, SumNat
  <1>8. ~(SumFunction(R) > SumFunction(c))
    BY <1>1, <1>6, PoolsCover DEF audit_pools_overspent
  <1>9. escrowed_pools(n) = SumFunction(g)
    <2> DEFINE before(p) == sum({q \in L : q < p}, LAMBDA q : ceiling(log[q].pool))
    <2>1. ASSUME NEW p \in L
          PROVE  before(p) = sumOver(c, {q \in L : q < p})
      <3>1. [q \in {r \in L : r < p} |-> ceiling(log[q].pool)]
                = [q \in {r \in L : r < p} |-> c[q]]
        OBVIOUS
      <3> QED BY <3>1 DEF sum, sumOver
    <2>2. g = [p \in L |-> minus(ceiling(log[p].pool), minus(D, before(p)))]
      <3> HIDE DEF before
      <3> QED BY <2>1
    <2>3. escrowed_pools(n) =
            SumFunction([p \in L |-> minus(ceiling(log[p].pool), minus(D, before(p)))])
      BY <1>1 DEF escrowed_pools, sum
    <2> QED BY <2>2, <2>3
  <1> HIDE DEF c, D, R
  <1>10. SumFunction(g) = minus(SumFunction(c), D)
    <2>1. D \in Nat
      BY <1>5, <1>7
    <2>2. g = leftOf(c, L, D)
      BY DEF leftOf
    <2> HIDE DEF g
    <2> QED BY <1>2, <1>3, <2>1, <2>2, ChargedInOrder
  <1>11. /\ D \in Nat /\ escrowed_pools(n) \in Nat
         /\ escrowed_pools(n) + D = SumFunction(c)
    BY <1>5, <1>7, <1>8, <1>9, <1>10 DEF minus
  <1> QED BY <1>1, <1>11 DEF c, D
\* What the objectives hold and what was settled make what was posted: an
\* objective is paid at most once, its whole reward.
LEMMA RewardsEscrow ==
    ASSUME EconomyInv, AuditInv, NEW n, n = Len(log)
    PROVE  /\ escrowed_rewards(n) \in Nat
           /\ SumFunction([q \in entries("settlement", n) |-> log[q].reward]) \in Nat
           /\ escrowed_rewards(n)
                + SumFunction([q \in entries("settlement", n) |-> log[q].reward])
                = SumFunction([p \in entries("objective", n) |->
                                    Objective[log[p].objective].reward])
  <1>1. PICK O, Q : O = entries("objective", n) /\ Q = entries("settlement", n)
    OBVIOUS
  <1>2. n \in Nat /\ LogOK /\ IsFiniteSet(O) /\ IsFiniteSet(Q)
    BY <1>1, LogLength, NextEntries DEF EconomyInv, LogOK
  <1>3. /\ \A p \in O : p \in 1 .. n /\ log[p].kind = "objective"
        /\ \A q \in Q : q \in 1 .. n /\ log[q].kind = "settlement"
        /\ \A p \in 1 .. n : EntryOK(p) /\ RecordStands(p) /\ BatchStands(p)
    BY <1>1, <1>2 DEF entries, LogOK, AuditInv, Stands
  <1> DEFINE obj(q) == Claim[log[q].claim].objective
             rew(p) == Objective[log[p].objective].reward
  <1>4. /\ \A p \in O : log[p].objective \in Objectives
        /\ \A q \in Q : log[q].claim \in Claims /\ log[q].reward \in Nat
    BY <1>3 DEF EntryOK
  <1>5. \A p \in O : rew(p) \in Nat
    BY <1>4, EconomyAssumption
  <1>6. \A q \in Q : \E p \in O : log[p].objective = obj(q)
    <2> TAKE q \in Q
    <2>1. Known(log[q].claim, q - 1) /\ q \in 1 .. n
      BY <1>3 DEF BatchStands
    <2>2. PICK r \in entries("claim", q - 1) : log[r].claim = log[q].claim
      BY <2>1 DEF Known
    <2>3. r \in 1 .. n /\ log[r].kind = "claim"
      BY <1>2, <2>1, <2>2 DEF entries
    <2>4. PICK p \in entries("objective", r - 1) : log[p].objective = Claim[log[r].claim].objective
      BY <1>3, <2>3 DEF RecordStands
    <2>5. p \in O
      BY <1>1, <1>2, <2>3, <2>4 DEF entries
    <2> QED BY <2>2, <2>4, <2>5
  <1>7. \A p, r \in O : log[p].objective = log[r].objective => p = r
    <2>1. \A p, r \in O : p < r => log[p].objective # log[r].objective
      <3> TAKE p, r \in O
      <3> HAVE p < r
      <3>1. p \in entries("objective", r - 1)
        BY <1>2, <1>3 DEF entries
      <3> QED BY <1>3, <3>1 DEF RecordStands
    <2>2. \A p, r \in O : p < r \/ r < p \/ p = r
      BY <1>2, <1>3
    <2> QED BY <2>1, <2>2
  <1>8. \A p, r \in Q : obj(p) = obj(r) => p = r
    <2>1. \A p, r \in Q : p < r => obj(p) # obj(r)
      <3> TAKE p, r \in Q
      <3> HAVE p < r
      <3>1. p \in entries("settlement", r - 1)
        BY <1>2, <1>3 DEF entries
      <3> QED BY <1>3, <3>1 DEF BatchStands
    <2>2. \A p, r \in Q : p < r \/ r < p \/ p = r
      BY <1>2, <1>3
    <2> QED BY <2>1, <2>2
  <1>9. \A p \in O, q \in Q : obj(q) = log[p].objective => log[q].reward = rew(p)
    BY <1>3 DEF BatchStands
  <1> DEFINE v == [q \in Q |-> log[q].reward]
             h == [q \in Q |-> CHOOSE p \in O : log[p].objective = obj(q)]
             r == [p \in O |-> rew(p)]
             w == [p \in O |-> fibre(v, Q, h, p)]
             g == [p \in O |-> minus(r[p], w[p])]
  <1>10. v \in [Q -> Nat] /\ r \in [O -> Nat]
    BY <1>4, <1>5
  <1>11. /\ h \in [Q -> O]
         /\ \A q \in Q, p \in O : h[q] = p <=> obj(q) = log[p].objective
    <2>1. \A q \in Q : h[q] \in O /\ log[h[q]].objective = obj(q)
      BY <1>6
    <2>2. h = [q \in Q |-> h[q]]
      OBVIOUS
    <2> HIDE DEF h
    <2> QED BY <1>7, <2>1, <2>2
  <1>12. splits(w, v, Q, h, O)
    BY DEF splits
  <1>13. escrowed_rewards(n) = SumFunction(g)
    <2>1. ASSUME NEW p \in O
          PROVE  w[p] = sum({q \in Q : obj(q) = log[p].objective}, LAMBDA q : log[q].reward)
      <3> DEFINE P == {q \in Q : obj(q) = log[p].objective}
      <3>1. {q \in Q : h[q] = p} = P
        <4> HIDE DEF h
        <4> QED BY <1>11
      <3>2. [q \in P |-> v[q]] = [q \in P |-> log[q].reward]
        OBVIOUS
      <3>3. w[p] = SumFunction([q \in P |-> v[q]])
        <4> HIDE DEF h, v, P
        <4> QED BY <3>1 DEF fibre
      <3> QED BY <3>2, <3>3 DEF sum
    <2>2. g = [p \in O |-> minus(rew(p),
                sum({q \in Q : obj(q) = log[p].objective}, LAMBDA q : log[q].reward))]
      <3> HIDE DEF w
      <3> QED BY <2>1
    <2> QED BY <1>1, <2>2 DEF escrowed_rewards, sum
  <1>14. w \in [O -> Nat] /\ SumFunction(w) = SumFunction(v)
    <2> HIDE DEF v, h, w
    <2> QED BY <1>2, <1>10, <1>11, <1>12, SumOwners
  <1>15. ASSUME NEW p \in O PROVE w[p] <= r[p]
    <2> DEFINE P == {q \in Q : h[q] = p}
               f == [q \in P |-> v[q]]
    <2>1. w[p] = SumFunction(f)
      <3> HIDE DEF h, v
      <3> QED BY DEF fibre
    <2>2. IsFiniteSet(P) /\ f \in [P -> Nat]
      <3> HIDE DEF h, v
      <3> QED BY <1>2, <1>10, FS_Subset
    <2>3. \A q \in P : f[q] = r[p] /\ \A s \in P : s = q
      <3>1. \A q \in P : q \in Q /\ obj(q) = log[p].objective
        <4> HIDE DEF h
        <4> QED BY <1>11
      <3>2. \A q \in P : v[q] = log[q].reward /\ r[p] = rew(p)
        <4> HIDE DEF h
        <4> QED OBVIOUS
      <3> HIDE DEF h, v, r, P
      <3> QED BY <1>8, <1>9, <3>1, <3>2
    <2>4. r[p] \in Nat
      BY <1>10
    <2> HIDE DEF P, f, r, w
    <2>5. CASE P = {}
      <3>1. SumFunction(f) = 0
        BY <2>2, <2>5, SumZero
      <3> QED BY <2>1, <2>4, <3>1
    <2>6. CASE P # {}
      <3>1. PICK q \in P : TRUE
        BY <2>6
      <3>2. \A s \in P : s # q => f[s] = 0
        BY <2>3, <3>1
      <3>3. SumFunction(f) = f[q]
        BY <2>2, <3>1, <3>2, SumSingle
      <3> QED BY <2>1, <2>3, <2>4, <3>1, <3>3
    <2> QED BY <2>5, <2>6
  <1>16. g \in [O -> Nat] /\ \A p \in O : r[p] = g[p] + w[p]
    <2> HIDE DEF r, w
    <2>1. ASSUME NEW p \in O
          PROVE  minus(r[p], w[p]) \in Nat /\ r[p] = minus(r[p], w[p]) + w[p]
      <3>1. r[p] \in Nat /\ w[p] \in Nat /\ w[p] <= r[p]
        BY <1>10, <1>14, <1>15
      <3> QED BY <3>1 DEF minus
    <2> QED BY <2>1
  <1> HIDE DEF g, r, w, v
  <1>17. SumFunction(r) = SumFunction(g) + SumFunction(w)
    <2>1. /\ IsFiniteSet(O) /\ r \in [O -> Nat] /\ g \in [O -> Nat] /\ w \in [O -> Nat]
          /\ \A p \in O : r[p] = g[p] + w[p]
      BY <1>2, <1>10, <1>14, <1>16
    <2> HIDE DEF rew, obj
    <2> QED BY <2>1, SumPlus
  <1>18. SumFunction(g) \in Nat /\ SumFunction(v) \in Nat
    BY <1>2, <1>10, <1>16, SumNat
  <1>19. /\ escrowed_rewards(n) \in Nat /\ SumFunction(v) \in Nat
         /\ escrowed_rewards(n) + SumFunction(v) = SumFunction(r)
    BY <1>13, <1>14, <1>17, <1>18
  <1> QED BY <1>1, <1>19 DEF v, r

\* Every declared unit is somewhere (Node::escrowed_within): spendable, bonded,
\* or escrowed and not yet paid out, whatever was earned, lost, slashed and
\* returned since.
THEOREM SupplyAccounted == Spec => []SupplyIsAccountedFor
  <1>1. ASSUME EconomyInv, AuditInv PROVE SupplyIsAccountedFor
    <2> SUFFICES ASSUME declares_supply
                 PROVE  LET n == Len(log) IN
                        SumFunction([i \in Identities |-> issued_within(i, n)]) =
                        escrowed_within(n) +
                        SumFunction([i \in Identities |->
                            balances_within(i, n) + locked_within(i, n)
                            + challenge_bonds_within(i, n) + attestation_bonds_within(i, n)])
      BY DEF SupplyIsAccountedFor, sum
    <2>1. PICK n : n = Len(log)
      OBVIOUS
    <2>2. LogOK /\ n \in Nat \ {0} /\ n <= Len(log) /\ IsFiniteSet(Identities)
      BY <1>1, <2>1, LogLength, GenesisDeclares, EconomyAssumption
         DEF EconomyInv, LogOK, FirstDeclares
    <2> DEFINE H == [i \in Identities |-> holds(i, n)]
               R == [i \in Identities |-> rewards_charged(i, Kinds, n)]
               P == [i \in Identities |-> pools_charged(i, n)]
               L == [i \in Identities |-> challenge_lost(i, n)]
               Z == [i \in Identities |-> slashed_within(i, n)]
               I == [i \in Identities |-> issued_within(i, n)]
               W == [i \in Identities |-> challenge_won(i, n)]
               C == [i \in Identities |-> caught_within(i, n)]
               T == [i \in Identities |-> settled_within(i, n)]
               V == [i \in Identities |-> served_within(i, n)]
               G == [i \in Identities |->
                        issued_within(i, n) + challenge_won(i, n) + caught_within(i, n)
                        + settled_within(i, n) + served_within(i, n)]
    <2>3. ASSUME NEW i \in Identities
          PROVE  /\ holds(i, n) \in Nat /\ issued_within(i, n) \in Nat
                 /\ challenge_won(i, n) \in Nat /\ caught_within(i, n) \in Nat
                 /\ settled_within(i, n) \in Nat /\ served_within(i, n) \in Nat
                 /\ rewards_charged(i, Kinds, n) \in Nat /\ pools_charged(i, n) \in Nat
                 /\ challenge_lost(i, n) \in Nat /\ slashed_within(i, n) \in Nat
      BY <1>1, <2>1, <2>2, AccountNat, AccountBalances
    <2>4. \A i \in Identities :
            holds(i, n) + rewards_charged(i, Kinds, n) + pools_charged(i, n)
                  + challenge_lost(i, n) + slashed_within(i, n)
              = issued_within(i, n) + challenge_won(i, n) + caught_within(i, n)
                  + settled_within(i, n) + served_within(i, n)
      BY <1>1, <2>1, AccountBalances
    <2>5. /\ H \in [Identities -> Nat] /\ R \in [Identities -> Nat] /\ P \in [Identities -> Nat]
          /\ L \in [Identities -> Nat] /\ Z \in [Identities -> Nat]
      BY <2>3
    <2>6. /\ I \in [Identities -> Nat] /\ W \in [Identities -> Nat] /\ C \in [Identities -> Nat]
          /\ T \in [Identities -> Nat] /\ V \in [Identities -> Nat]
      BY <2>3
    <2>7. G \in [Identities -> Nat]
      <3>1. ASSUME NEW i \in Identities
            PROVE  issued_within(i, n) + challenge_won(i, n) + caught_within(i, n)
                        + settled_within(i, n) + served_within(i, n) \in Nat
        BY <2>3
      <3> QED BY <3>1
    <2>8. addsFive(G, I, W, C, T, V, Identities)
      BY <2>6, <2>7 DEF addsFive
    <2>9. addsFive(G, H, R, P, L, Z, Identities)
      <3>1. ASSUME NEW i \in Identities
            PROVE  /\ H[i] + R[i] + P[i] + L[i] + Z[i] =
                        holds(i, n) + rewards_charged(i, Kinds, n) + pools_charged(i, n)
                            + challenge_lost(i, n) + slashed_within(i, n)
                   /\ G[i] = issued_within(i, n) + challenge_won(i, n) + caught_within(i, n)
                                + settled_within(i, n) + served_within(i, n)
        OBVIOUS
      <3> HIDE DEF H, R, P, L, Z, G
      <3> QED BY <2>4, <2>5, <2>7, <3>1 DEF addsFive
    <2>10. SumFunction(W) = SumFunction(L) /\ SumFunction(C) = SumFunction(Z)
      BY <1>1, <2>1, MovedIsKept
    <2>11. /\ escrowed_rewards(n) \in Nat /\ SumFunction(T) \in Nat
           /\ escrowed_rewards(n) + SumFunction(T) = SumFunction(R)
      BY <1>1, <2>1, RewardsEscrow, PostedAndPaid
    <2>12. /\ escrowed_pools(n) \in Nat /\ SumFunction(V) \in Nat
           /\ escrowed_pools(n) + SumFunction(V) = SumFunction(P)
      BY <1>1, <2>1, PoolsEscrow, PostedAndPaid
    <2> HIDE DEF H, R, P, L, Z, I, W, C, T, V, G
    <2>13. SumFunction(G) = SumFunction(I) + SumFunction(W) + SumFunction(C)
                            + SumFunction(T) + SumFunction(V)
      BY <2>2, <2>8, SumFive
    <2>14. SumFunction(G) = SumFunction(H) + SumFunction(R) + SumFunction(P)
                            + SumFunction(L) + SumFunction(Z)
      BY <2>2, <2>9, SumFive
    <2>15. PICK sH \in Nat, sL \in Nat, sZ \in Nat, sI \in Nat :
                /\ sH = SumFunction(H) /\ sL = SumFunction(L) /\ sZ = SumFunction(Z)
                /\ sI = SumFunction(I)
      <3>1. /\ SumFunction(H) \in Nat /\ SumFunction(L) \in Nat /\ SumFunction(Z) \in Nat
            /\ SumFunction(I) \in Nat
        BY <2>2, <2>5, <2>6, SumNat
      <3> QED BY <3>1
    <2>16. PICK a \in Nat, b \in Nat, s \in Nat, t \in Nat :
                /\ a = escrowed_rewards(n) /\ b = escrowed_pools(n)
                /\ s = SumFunction(T) /\ t = SumFunction(V)
      BY <2>11, <2>12
    <2>17. sI + sL + sZ + s + t = sH + (a + s) + (b + t) + sL + sZ
      BY <2>10, <2>11, <2>12, <2>13, <2>14, <2>15, <2>16
    <2>18. sI = (a + b) + sH
      BY <2>17
    <2>19. SumFunction(I) = escrowed_within(n) + SumFunction(H)
      BY <2>15, <2>16, <2>18 DEF escrowed_within
    <2>20. H = [i \in Identities |-> balances_within(i, n) + locked_within(i, n)
                    + challenge_bonds_within(i, n) + attestation_bonds_within(i, n)]
      BY DEF H, holds
    <2> QED BY <2>1, <2>19, <2>20 DEF I
  <1>2. EconomyInv /\ AuditInv => SupplyIsAccountedFor
    BY <1>1
  <1> QED BY <1>2, EconomyInvariant, AuditInvariant, PTL
-----------------------------------------------------------------------------
(* Committees (Sealed): a committee is drawn from the entries before a       *)
(* position, so it is the same for every reader of a longer log.             *)

\* Seats go by settlement_rank and then by transport, and identities have
\* transports of their own: no two of them tie.
RanksDiffer ==
    \A e \in Epochs, a \in Nat : \A r, s \in PeerRecords :
        /\ Rank(e, a, r.transport) \in Nat
        /\ r.identity # s.identity => Rank(e, a, r.transport) # Rank(e, a, s.transport)

\* How many of P rank no higher than p.
place(r, P, p) == Cardinality({q \in P : r[q] <= r[p]})

\* Distinct ranks are places: somebody has each.
LEMMA Ranked ==
    ASSUME NEW P, IsFiniteSet(P), NEW r \in [P -> Nat],
           \A p, q \in P : r[p] = r[q] => p = q
    PROVE  \A k \in 1 .. Cardinality(P) :
                \E p \in P : place(r, P, p) = k
  <1> DEFINE below(p) == {q \in P : r[q] <= r[p]}
             f == [p \in P |-> Cardinality(below(p))]
             N == Cardinality(P)
  <1>1. N \in Nat
    BY FS_CardinalityType
  <1>2. ASSUME NEW p \in P
        PROVE  /\ below(p) \in SUBSET P /\ p \in below(p) /\ IsFiniteSet(below(p))
               /\ Cardinality(below(p)) \in 1 .. N
    <2>1. below(p) \in SUBSET P /\ p \in below(p)
      OBVIOUS
    <2>2. IsFiniteSet(below(p)) /\ Cardinality(below(p)) <= N
      BY <2>1, FS_Subset
    <2>3. Cardinality(below(p)) \in Nat /\ Cardinality(below(p)) # 0
      BY <2>1, <2>2, FS_CardinalityType, FS_EmptySet
    <2> QED BY <1>1, <2>1, <2>2, <2>3
  <1>3. ASSUME NEW p \in P, NEW q \in P, r[p] < r[q]
        PROVE  Cardinality(below(p)) # Cardinality(below(q))
    <2>1. below(p) \in SUBSET below(q) /\ q \in below(q) /\ q \notin below(p)
      BY <1>3
    <2>2. IsFiniteSet(below(q))
      BY <1>2
    <2> HIDE DEF below
    <2> QED BY <2>1, <2>2, FS_Subset
  <1>4. f \in [P -> 1 .. N]
    BY <1>2
  <1>5. \A p, q \in P : f[p] = f[q] => p = q
    <2> SUFFICES ASSUME NEW p \in P, NEW q \in P, f[p] = f[q], p # q PROVE FALSE
      OBVIOUS
    <2>1. r[p] < r[q] \/ r[q] < r[p]
      OBVIOUS
    <2> QED BY <1>3, <2>1
  <1>6. f \in Injection(P, 1 .. N)
    <2> HIDE DEF f
    <2> QED BY <1>4, <1>5 DEF Injection, IsInjective
  <1>7. IsFiniteSet(1 .. N) /\ Cardinality(1 .. N) = N
    BY <1>1, FS_Interval
  <1>8. f \in Surjection(P, 1 .. N)
    <2> HIDE DEF f
    <2> QED BY <1>6, <1>7, FS_Injection
  <1>9. \A k \in 1 .. N : \E p \in P : f[p] = k
    <2> HIDE DEF f
    <2> QED BY <1>8 DEF Surjection
  <1> QED BY <1>9 DEF place

LEMMA AnchorWithin ==
    ASSUME NEW n \in Nat, NEW e
    PROVE  anchor_at(e, n) \in 0 .. n
  <1> DEFINE S == {p \in 1 .. n : log[p].ts < e} \cup {0}
  <1>1. S \subseteq Nat /\ S # {} /\ (\A s \in S : s <= n) /\ S \subseteq 0 .. n
    OBVIOUS
  <1>2. anchor_at(e, n) = Max(S)
    BY DEF anchor_at
  <1> HIDE DEF S
  <1> QED BY <1>1, <1>2, MaxOf

\* A peer entry carries a record that none of its identity's other entries
\* before it outdates.
PeerStands(p) ==
    log[p].kind = "peer" =>
        /\ \E r \in PeerRecords :
                /\ log[p].identity = r.identity /\ log[p].seq = r.seq
                /\ log[p].transport = r.transport
        /\ \A q \in entries("peer", p - 1) :
                log[q].identity = log[p].identity => log[q].seq < log[p].seq

PeersStand == LogSeq /\ \A p \in 1 .. Len(log) : PeerStands(p)

seatRank(e, n) == [p \in peers_within(n) |-> Rank(e, anchor_at(e, n), log[p].transport)]

\* The peers in force rank apart and are different identities, so that a
\* committee seats as many identities as it has seats.
LEMMA PeersRank ==
    ASSUME RanksDiffer, PeersStand, NEW n \in Nat, n <= Len(log), NEW e \in Epochs
    PROVE  /\ IsFiniteSet(peers_within(n)) /\ peers_within(n) \subseteq entries("peer", n)
           /\ seatRank(e, n) \in [peers_within(n) -> Nat]
           /\ \A p, q \in peers_within(n) : seatRank(e, n)[p] = seatRank(e, n)[q] => p = q
           /\ \A p, q \in peers_within(n) : log[p].identity = log[q].identity => p = q
  <1>1. PICK P : P = peers_within(n)
    OBVIOUS
  <1>2. /\ P \subseteq entries("peer", n)
        /\ \A p \in P : p \in 1 .. n /\ p \in 1 .. Len(log) /\ log[p].kind = "peer"
        /\ Len(log) \in Nat
    BY <1>1, LogLength DEF PeersStand, peers_within, entries
  <1>3. IsFiniteSet(P)
    <2>1. IsFiniteSet(entries("peer", n))
      BY NextEntries DEF PeersStand
    <2> QED BY <1>2, <2>1, FS_Subset
  <1>4. anchor_at(e, n) \in Nat
    BY AnchorWithin
  <1>5. \A p \in P : \E r \in PeerRecords :
                /\ log[p].identity = r.identity /\ log[p].seq = r.seq
                /\ log[p].transport = r.transport
    BY <1>2 DEF PeersStand, PeerStands
  <1>6. \A p \in P : log[p].seq \in Nat
    BY <1>5, SealedAssumption
  <1>7. \A p, q \in P : log[p].identity = log[q].identity => p = q
    <2> SUFFICES ASSUME NEW p \in P, NEW q \in P, log[p].identity = log[q].identity
                 PROVE  p = q
      OBVIOUS
    <2>1. p \in entries("peer", n) /\ q \in entries("peer", n)
      BY <1>2
    <2>2. /\ log[q].seq < log[p].seq \/ (log[q].seq = log[p].seq /\ q <= p)
          /\ log[p].seq < log[q].seq \/ (log[p].seq = log[q].seq /\ p <= q)
      BY <1>1, <2>1 DEF peers_within
    <2> QED BY <1>2, <1>6, <2>2
  <1>8. seatRank(e, n) = [p \in P |-> Rank(e, anchor_at(e, n), log[p].transport)]
    BY <1>1 DEF seatRank
  <1>9. seatRank(e, n) \in [P -> Nat]
    <2>1. \A p \in P : Rank(e, anchor_at(e, n), log[p].transport) \in Nat
      BY <1>4, <1>5 DEF RanksDiffer
    <2> QED BY <1>8, <2>1
  <1>10. \A p, q \in P : seatRank(e, n)[p] = seatRank(e, n)[q] => p = q
    <2> SUFFICES ASSUME NEW p \in P, NEW q \in P,
                        Rank(e, anchor_at(e, n), log[p].transport)
                            = Rank(e, anchor_at(e, n), log[q].transport)
                 PROVE  p = q
      BY <1>8
    <2>1. PICK r \in PeerRecords : log[p].identity = r.identity /\ log[p].transport = r.transport
      BY <1>5
    <2>2. PICK s \in PeerRecords : log[q].identity = s.identity /\ log[q].transport = s.transport
      BY <1>5
    <2>3. r.identity = s.identity
      BY <1>4, <2>1, <2>2 DEF RanksDiffer
    <2> QED BY <1>7, <2>1, <2>2, <2>3
  <1> QED BY <1>1, <1>2, <1>3, <1>7, <1>9, <1>10

\* A committee as a function of its seats.
LEMMA Seated ==
    ASSUME RanksDiffer, PeersStand, NEW n \in Nat, n <= Len(log), NEW e \in Epochs,
           NEW size \in Nat, NEW c, c = committee_of_size(e, size, n)
    PROVE  /\ Len(c) \in Nat /\ Len(c) <= size /\ DOMAIN c = 1 .. Len(c)
           /\ \A k \in DOMAIN c : c[k] \in peers_within(n)
           /\ \A j, k \in DOMAIN c : c[j] = c[k] => j = k
  <1> DEFINE P == peers_within(n)
             r == seatRank(e, n)
             m == Min({size, Cardinality(P)})
             at(k, p) == place(r, P, p) = k
  <1>1. /\ IsFiniteSet(P) /\ r \in [P -> Nat] /\ \A p, q \in P : r[p] = r[q] => p = q
    BY PeersRank
  <1>2. Cardinality(P) \in Nat
    BY <1>1, FS_CardinalityType
  <1>3. m \in Nat /\ m <= size /\ m <= Cardinality(P)
    <2>1. m = IF size <= Cardinality(P) THEN size ELSE Cardinality(P)
      BY <1>2, MinOfTwo
    <2> HIDE DEF m, P
    <2> QED BY <1>2, <2>1
  <1>4. c = [k \in 1 .. m |-> CHOOSE p \in P : at(k, p)]
    BY DEF committee_of_size, seatRank, place
  <1>5. \A k \in 1 .. m : \E p \in P : at(k, p)
    <2>1. \A k \in 1 .. Cardinality(P) : \E p \in P : at(k, p)
      <3> HIDE DEF P, r
      <3> QED BY <1>1, Ranked
    <2>2. \A k \in 1 .. m : k \in 1 .. Cardinality(P)
      <3> HIDE DEF m, P
      <3> QED BY <1>2, <1>3
    <2> QED BY <2>1, <2>2
  <1> HIDE DEF P, r, m, at
  <1>6. \A k \in 1 .. m : c[k] \in P /\ at(k, c[k])
    BY <1>4, <1>5
  <1>7. c \in [1 .. m -> P]
    BY <1>4, <1>6
  <1>8. Len(c) = m /\ DOMAIN c = 1 .. m
    <2>1. c \in Seq(P)
      BY <1>3, <1>7
    <2> QED BY <1>3, <1>7, <2>1
  <1>9. \A j, k \in 1 .. m : c[j] = c[k] => j = k
    BY <1>6 DEF at
  <1> QED BY <1>3, <1>6, <1>8, <1>9 DEF P

LEMMA KeptPeers ==
    ASSUME NEW n, Kept(n)
    PROVE  /\ peers_within(n)' = peers_within(n)
           /\ \A p \in peers_within(n) : p \in 1 .. n /\ log'[p] = log[p]
  <1>1. /\ entries("peer", n)' = entries("peer", n)
        /\ \A p \in entries("peer", n) : p \in 1 .. n /\ log'[p] = log[p]
    BY KeptEntries
  <1> QED BY <1>1 DEF peers_within

LEMMA KeptCommittee ==
    ASSUME NEW n, Kept(n), NEW e, NEW size
    PROVE  committee_of_size(e, size, n)' = committee_of_size(e, size, n)
  <1> DEFINE P == peers_within(n)
             Q == peers_within(n)'
             r == [p \in P |-> Rank(e, anchor_at(e, n), log[p].transport)]
             s == [p \in Q |-> Rank(e, anchor_at(e, n)', log'[p].transport)]
  <1>1. P = Q /\ \A p \in P : log'[p] = log[p]
    BY KeptPeers
  <1>2. anchor_at(e, n)' = anchor_at(e, n)
    BY KeptAnchor
  <1>3. r = s
    BY <1>1, <1>2
  <1>4. committee_of_size(e, size, n) = [k \in 1 .. Min({size, Cardinality(P)}) |->
            CHOOSE p \in P : Cardinality({q \in P : r[q] <= r[p]}) = k]
    BY DEF committee_of_size
  <1>5. committee_of_size(e, size, n)' = [k \in 1 .. Min({size, Cardinality(Q)}) |->
            CHOOSE p \in Q : Cardinality({q \in Q : s[q] <= s[p]}) = k]
    BY DEF committee_of_size
  <1> HIDE DEF P, Q, r, s
  <1> QED BY <1>1, <1>3, <1>4, <1>5

LEMMA KeptSealedValue ==
    ASSUME NEW n, Kept(n), NEW e
    PROVE  sealed_value_in(e, n)' = sealed_value_in(e, n)
  <1> DEFINE S == {p \in entries("commitment", n) : log[p].created = e}
             T == {p \in entries("commitment", n)' : log'[p].created = e}
  <1>1. T = S /\ \A p \in S : log'[p] = log[p]
    BY KeptEntries
  <1>2. [p \in T |-> Objective[Seal[log'[p].seal].objective].reward]
            = [p \in S |-> Objective[Seal[log[p].seal].objective].reward]
    BY <1>1
  <1> QED BY <1>2 DEF sealed_value_in, sum

LEMMA KeptGuard ==
    ASSUME RanksDiffer, PeersStand, LogSeq', NEW n, Kept(n), NEW e \in Epochs, NEW size \in Nat
    PROVE  custody_guard(e, size, n)' = custody_guard(e, size, n)
  <1>1. PICK b, c : b = anchor_at(e, n) /\ c = committee_of_size(e, size, n)
    OBVIOUS
  <1>2. /\ n \in Nat /\ n <= Len(log) /\ b \in 0 .. n /\ LogSeq
        /\ anchor_at(e, n)' = b /\ committee_of_size(e, size, n)' = c
    BY <1>1, AnchorWithin, KeptAnchor, KeptCommittee DEF Kept, PeersStand
  <1>3. Kept(b)
    BY <1>2 DEF Kept
  <1>4. \A k \in DOMAIN c : c[k] \in peers_within(n)
    BY <1>1, <1>2, Seated
  <1>5. \A k \in DOMAIN c : log'[c[k]] = log[c[k]]
    BY <1>4, KeptPeers
  <1>6. \A i : spendable_within(i, b)' = spendable_within(i, b)
    BY <1>2, <1>3, KeptMoney
  <1> DEFINE f == [k \in DOMAIN c |-> spendable_within(log[c[k]].identity, b)]
             g == [k \in DOMAIN c |-> spendable_within(log[c[k]].identity, b)']
  <1>7. f = g
    BY <1>5, <1>6
  <1>8. custody_guard(e, size, n) =
            IF Len(c) < size THEN 0
            ELSE Min({SumFunction([k \in cheapest |-> f[k]]) :
                    cheapest \in kSubset(threshold_for(size), 1 .. size)}) \div 2
    BY <1>1 DEF custody_guard, epoch_boundary, sum
  <1>9. custody_guard(e, size, n)' =
            IF Len(c) < size THEN 0
            ELSE Min({SumFunction([k \in cheapest |-> g[k]]) :
                    cheapest \in kSubset(threshold_for(size), 1 .. size)}) \div 2
    BY <1>2 DEF custody_guard, epoch_boundary, sum
  <1> HIDE DEF f, g
  <1> QED BY <1>7, <1>8, <1>9

LEMMA KeptSize ==
    ASSUME RanksDiffer, PeersStand, LogSeq', NEW n, Kept(n), NEW e \in Epochs
    PROVE  /\ committee_size_at(e, n)' = committee_size_at(e, n)
           /\ committee_for(e, n)' = committee_for(e, n)
  <1>1. PICK b : b = anchor_at(e, n)
    OBVIOUS
  <1>2. n \in Nat /\ b \in 0 .. n /\ anchor_at(e, n)' = b
    BY <1>1, AnchorWithin, KeptAnchor DEF Kept
  <1>3. Kept(b)
    BY <1>2 DEF Kept
  <1>4. /\ peers_within(b)' = peers_within(b)
        /\ sealed_value_in(e - 1, b)' = sealed_value_in(e - 1, b)
    BY <1>3, KeptPeers, KeptSealedValue
  <1>5. \A size \in Nat : custody_guard(e, size, n)' = custody_guard(e, size, n)
    BY KeptGuard
  <1> DEFINE top == Min({MaxCommitteeSize, Cardinality(peers_within(b))})
             v == sealed_value_in(e - 1, b)
  <1>6. \A size \in CommitteeSize .. top : size \in Nat
    BY SealedAssumption
  <1>7. {size \in CommitteeSize .. top : size = top \/ custody_guard(e, size, n)' >= v}
            = {size \in CommitteeSize .. top : size = top \/ custody_guard(e, size, n) >= v}
    <2> HIDE DEF top, v
    <2> QED BY <1>5, <1>6
  <1>8. committee_size_at(e, n)' = committee_size_at(e, n)
    BY <1>1, <1>2, <1>4, <1>7 DEF committee_size_at, epoch_boundary
  <1> QED BY <1>8, KeptCommittee DEF committee_for

LEMMA MinOf ==
    ASSUME NEW S, S \subseteq Nat, S # {}
    PROVE  Min(S) \in S /\ \A s \in S : Min(S) <= s
  <1>1. \E x \in S : \A y \in S : x <= y
    BY LeastNatural
  <1> QED BY <1>1 DEF Min

LEMMA SizeNat ==
    ASSUME LogSeq, NEW n \in Nat, n <= Len(log), NEW e
    PROVE  /\ committee_size_at(e, n) \in Nat
           /\ committee_size_at(e, n) \in CommitteeSize .. MaxCommitteeSize
  <1>1. PICK b, t : /\ b = anchor_at(e, n)
                    /\ t = Min({MaxCommitteeSize, Cardinality(peers_within(b))})
    OBVIOUS
  <1>2. b \in Nat /\ b <= Len(log)
    BY <1>1, AnchorWithin, LogLength
  <1>3. Cardinality(peers_within(b)) \in Nat
    <2>1. IsFiniteSet(entries("peer", b)) /\ peers_within(b) \in SUBSET entries("peer", b)
      BY <1>2, NextEntries DEF peers_within
    <2> QED BY <2>1, FS_Subset, FS_CardinalityType
  <1>4. t = IF MaxCommitteeSize <= Cardinality(peers_within(b)) THEN MaxCommitteeSize
            ELSE Cardinality(peers_within(b))
    BY <1>1, <1>3, MinOfTwo, SealedAssumption
  <1>5. CASE \/ Cardinality(peers_within(b)) <= CommitteeSize
             \/ sealed_value_in(e - 1, b) = 0
    BY <1>1, <1>5, SealedAssumption DEF committee_size_at, epoch_boundary
  <1>6. CASE ~(\/ Cardinality(peers_within(b)) <= CommitteeSize
               \/ sealed_value_in(e - 1, b) = 0)
    <2> DEFINE S == {size \in CommitteeSize .. t :
                        size = t \/ custody_guard(e, size, n) >= sealed_value_in(e - 1, b)}
    <2>1. t \in CommitteeSize .. t
      BY <1>3, <1>4, <1>6, SealedAssumption
    <2>2. S \subseteq Nat /\ t \in S /\ S \subseteq CommitteeSize .. MaxCommitteeSize
      BY <1>3, <1>4, <2>1, SealedAssumption
    <2>3. committee_size_at(e, n) = Min(S)
      BY <1>1, <1>6 DEF committee_size_at, epoch_boundary
    <2> HIDE DEF S
    <2> QED BY <2>2, <2>3, MinOf
  <1> QED BY <1>5, <1>6

\* A share answered its seat in time when it landed, was the seat's first, and
\* is right exactly when its author is honest.
ShareStands(p) ==
    log[p].kind = "committee_share" =>
        /\ check_committee_share(log[p], p - 1)
        /\ log[p].ts = log[p].created
        /\ (log[p].identity \in Liars <=> ~log[p].right)
        /\ \A r \in entries("committee_share", p - 1) :
                ~(log[r].commitment = log[p].commitment /\ log[r].seat = log[p].seat)

\* A commitment has as many keys as seats were drawn, which guarded its epoch.
CommitmentStands(p) ==
    log[p].kind = "commitment" =>
        /\ log[p].seal \in Seals /\ log[p].created \in Epochs
        /\ Len(log[p].keys) \in CommitteeSize .. MaxCommitteeSize
        /\ Len(log[p].keys) = Len(committee_of_commitment(p))
        /\ Funded =>
            sealed_value_in(log[p].created, p - 1) + Objective[Seal[log[p].seal].objective].reward
                <= custody_guard(log[p].created, Len(log[p].keys), p - 1)

\* What the committee opened, a threshold of right shares opened.
ClaimStands(p) ==
    log[p].kind = "claim" =>
        /\ log[p].commitment \in entries("commitment", p - 1)
        /\ log[p].by = "committee" =>
            \E shares \in kSubset(threshold_for(Len(log[log[p].commitment].keys)),
                                  entries("committee_share", p - 1)) :
                \A q \in shares : log[q].commitment = log[p].commitment /\ log[q].right

SealStands(p) == PeerStands(p) /\ ShareStands(p) /\ CommitmentStands(p) /\ ClaimStands(p)

SealedInv == EconomyInv /\ \A p \in 1 .. Len(log) : SealStands(p)

LEMMA PeersDoStand ==
    ASSUME SealedInv
    PROVE  PeersStand
  BY DEF SealedInv, EconomyInv, SealStands, PeersStand, LogOK

\* Where a commitment's committee sits.
LEMMA SeatsOf ==
    ASSUME RanksDiffer, SealedInv, NEW c \in entries("commitment", Len(log)),
           NEW seats, seats = committee_of_commitment(c)
    PROVE  /\ c \in 1 .. Len(log) /\ c - 1 \in Nat /\ c - 1 <= Len(log)
           /\ log[c].created \in Epochs
           /\ DOMAIN seats = 1 .. Len(seats)
           /\ \A k \in DOMAIN seats : seats[k] \in peers_within(c - 1)
           /\ \A j, k \in DOMAIN seats :
                log[seats[j]].identity = log[seats[k]].identity => j = k
  <1>1. LogSeq /\ PeersStand /\ Len(log) \in Nat
    BY PeersDoStand, LogLength DEF SealedInv, EconomyInv, LogOK
  <1>2. /\ c \in 1 .. Len(log) /\ c - 1 \in Nat /\ c - 1 <= Len(log)
        /\ log[c].created \in Epochs
    BY <1>1 DEF entries, SealedInv, SealStands, CommitmentStands
  <1>3. PICK size, n, e :
            /\ size \in Nat /\ n = c - 1 /\ e = log[c].created /\ seats = committee_of_size(e, size, n)
    BY <1>1, <1>2, SizeNat DEF committee_of_commitment, committee_for
  <1>4. /\ DOMAIN seats = 1 .. Len(seats)
        /\ \A k \in DOMAIN seats : seats[k] \in peers_within(n)
        /\ \A j, k \in DOMAIN seats : seats[j] = seats[k] => j = k
    BY <1>1, <1>2, <1>3, Seated
  <1>5. \A p, q \in peers_within(n) : log[p].identity = log[q].identity => p = q
    BY <1>1, <1>2, <1>3, PeersRank
  <1> QED BY <1>2, <1>3, <1>4, <1>5

LEMMA KeptSeats ==
    ASSUME RanksDiffer, SealedInv, LogSeq', NEW n, Kept(n), NEW c \in entries("commitment", n)
    PROVE  /\ committee_of_commitment(c)' = committee_of_commitment(c)
           /\ \A k \in DOMAIN committee_of_commitment(c) :
                log'[committee_of_commitment(c)[k]] = log[committee_of_commitment(c)[k]]
           /\ opens_at(c)' = opens_at(c)
  <1>1. /\ c \in 1 .. n /\ log'[c] = log[c] /\ c \in entries("commitment", Len(log))
        /\ n \in Nat
    BY KeptEntries, LogLength DEF Kept, entries, SealedInv, EconomyInv, LogOK
  <1>2. /\ log[c].created \in Epochs /\ c - 1 \in Nat
        /\ \A k \in DOMAIN committee_of_commitment(c) :
                committee_of_commitment(c)[k] \in peers_within(c - 1)
    BY <1>1, SeatsOf
  <1>3. Kept(c - 1)
    BY <1>1, <1>2 DEF Kept
  <1>4. committee_for(log[c].created, c - 1)' = committee_for(log[c].created, c - 1)
    <2>1. PICK e \in Epochs : e = log[c].created
      BY <1>2
    <2>2. committee_for(e, c - 1)' = committee_for(e, c - 1)
      BY <1>3, KeptSize, PeersDoStand
    <2> QED BY <1>1, <2>1, <2>2
  <1> QED BY <1>1, <1>2, <1>3, <1>4, KeptPeers DEF committee_of_commitment, opens_at

LEMMA KeptShareCheck ==
    ASSUME RanksDiffer, SealedInv, LogSeq', NEW n, Kept(n), NEW share
    PROVE  check_committee_share(share, n)' <=> check_committee_share(share, n)
  <1>1. entries("commitment", n)' = entries("commitment", n)
    BY KeptEntries
  <1>2. CASE share.commitment \notin entries("commitment", n)
    BY <1>1, <1>2 DEF check_committee_share
  <1>3. CASE share.commitment \in entries("commitment", n)
    <2>1. PICK c : c = share.commitment
      OBVIOUS
    <2>2. /\ committee_of_commitment(c)' = committee_of_commitment(c)
          /\ \A k \in DOMAIN committee_of_commitment(c) :
                log'[committee_of_commitment(c)[k]] = log[committee_of_commitment(c)[k]]
          /\ opens_at(c)' = opens_at(c)
      BY <1>3, <2>1, KeptSeats
    <2>3. check_committee_share(share, n) <=>
            /\ share.created > opens_at(c) /\ share.seat \in DOMAIN committee_of_commitment(c)
            /\ log[committee_of_commitment(c)[share.seat]].identity = share.identity
      BY <1>3, <2>1 DEF check_committee_share
    <2>4. check_committee_share(share, n)' <=>
            /\ share.created > opens_at(c)'
            /\ share.seat \in DOMAIN committee_of_commitment(c)'
            /\ log'[committee_of_commitment(c)'[share.seat]].identity = share.identity
      BY <1>1, <1>3, <2>1 DEF check_committee_share
    <2> QED BY <2>2, <2>3, <2>4
  <1> QED BY <1>2, <1>3
\* What entry p was asked when it landed, a longer log answers the same.
LEMMA KeptSealStands ==
    ASSUME RanksDiffer, SealedInv, LogSeq', NEW n, Kept(n), NEW p \in 1 .. n
    PROVE  SealStands(p)'
  <1>1. /\ LogSeq /\ PeersStand /\ Len(log) \in Nat /\ SealStands(p)
        /\ p \in 1 .. Len(log) /\ p - 1 \in Nat /\ p - 1 <= Len(log)
    <2>1. LogSeq /\ PeersStand /\ Len(log) \in Nat
      BY PeersDoStand, LogLength DEF SealedInv, EconomyInv, LogOK
    <2> QED BY <2>1 DEF Kept, SealedInv
  <1>2. Kept(p - 1) /\ log'[p] = log[p] /\ log'[1] = log[1]
        /\ \A q \in 1 .. p - 1 : log'[q] = log[q]
    BY <1>1 DEF Kept
  <1>3. /\ \A k : entries(k, p - 1)' = entries(k, p - 1)
        /\ \A k : \A q \in entries(k, p - 1) : log'[q] = log[q]
    BY <1>2, KeptEntries
  <1>4. PeerStands(p)'
    BY <1>1, <1>2, <1>3 DEF SealStands, PeerStands
  <1>5. ShareStands(p)'
    <2> SUFFICES ASSUME log[p].kind = "committee_share" PROVE ShareStands(p)'
      BY <1>2 DEF ShareStands
    <2>1. PICK share : share = log[p]
      OBVIOUS
    <2>2. check_committee_share(share, p - 1)' <=> check_committee_share(share, p - 1)
      BY <1>2, KeptShareCheck
    <2>3. check_committee_share(share, p - 1)'
      BY <1>1, <2>1, <2>2 DEF SealStands, ShareStands
    <2>4. check_committee_share(log[p], p - 1)'
      BY <1>2, <2>1, <2>3 DEF check_committee_share
    <2> QED BY <1>1, <1>2, <1>3, <2>4 DEF SealStands, ShareStands
  <1>6. CommitmentStands(p)'
    <2> SUFFICES ASSUME log[p].kind = "commitment" PROVE CommitmentStands(p)'
      BY <1>2 DEF CommitmentStands
    <2>1. PICK e, m : e = log[p].created /\ m = Len(log[p].keys)
      OBVIOUS
    <2>2. CommitmentStands(p) /\ e \in Epochs /\ m \in Nat
      BY <1>1, <2>1, SealedAssumption DEF SealStands, CommitmentStands
    <2>3. committee_for(e, p - 1)' = committee_for(e, p - 1)
      BY <1>1, <1>2, <2>2, KeptSize
    <2>4. /\ sealed_value_in(e, p - 1)' = sealed_value_in(e, p - 1)
          /\ custody_guard(e, m, p - 1)' = custody_guard(e, m, p - 1)
      BY <1>1, <1>2, <2>2, KeptSealedValue, KeptGuard
    <2>5. committee_of_commitment(p)' = committee_of_commitment(p)
      BY <1>2, <2>1, <2>3 DEF committee_of_commitment
    <2>6. e = log'[p].created /\ m = Len(log'[p].keys) /\ (Funded' <=> Funded)
      BY <1>2, <2>1 DEF Funded
    <2> QED BY <1>2, <2>1, <2>2, <2>4, <2>5, <2>6 DEF CommitmentStands
  <1>7. ClaimStands(p)'
    <2> SUFFICES ASSUME log[p].kind = "claim" PROVE ClaimStands(p)'
      BY <1>2 DEF ClaimStands
    <2>1. PICK c : c = log[p].commitment
      OBVIOUS
    <2>2. ClaimStands(p) /\ c \in entries("commitment", p - 1)
      BY <1>1, <2>1 DEF SealStands, ClaimStands
    <2>3. log'[c] = log[c] /\ c = log'[p].commitment
      BY <1>2, <1>3, <2>1, <2>2
    <2>4. PICK S : S = kSubset(threshold_for(Len(log[c].keys)), entries("committee_share", p - 1))
      OBVIOUS
    <2>5. \A shares \in S : \A q \in shares : log'[q] = log[q]
      BY <1>3, <2>4 DEF kSubset
    <2>6. S = kSubset(threshold_for(Len(log'[c].keys)), entries("committee_share", p - 1)')
      BY <1>3, <2>3, <2>4
    <2>7. log[p].by = "committee" => \E shares \in S :
                \A q \in shares : log[q].commitment = c /\ log[q].right
      BY <2>1, <2>2, <2>4 DEF ClaimStands
    <2>8. log'[p].by = "committee" => \E shares \in S :
                \A q \in shares : log'[q].commitment = c /\ log'[q].right
      BY <1>2, <2>5, <2>7
    <2> QED BY <1>3, <2>2, <2>3, <2>6, <2>8 DEF ClaimStands
  <1> QED BY <1>4, <1>5, <1>6, <1>7 DEF SealStands

LEMMA OneMoreSealed ==
    ASSUME RanksDiffer, SealedInv, EconomyInv', NEW x, log' = Append(log, x),
           NEW n, n = Len(log), SealStands(n + 1)'
    PROVE  SealedInv'
  <1>1. LogSeq /\ LogSeq' /\ n \in Nat /\ Len(log') = n + 1 /\ Kept(n)
    BY Appended DEF SealedInv, EconomyInv, LogOK
  <1>2. \A p \in 1 .. n : SealStands(p)'
    BY <1>1, KeptSealStands
  <1>3. \A p \in 1 .. Len(log') : p \in 1 .. n \/ p = n + 1
    BY <1>1
  <1> QED BY <1>2, <1>3 DEF SealedInv

LEMMA SameSealed ==
    ASSUME RanksDiffer, SealedInv, log' = log, now' \in Epochs, now <= now'
    PROVE  SealedInv'
  <1>1. LogSeq /\ Len(log) \in Nat /\ EconomyInv
    BY LogLength DEF SealedInv, EconomyInv, LogOK
  <1>2. EconomyInv'
    BY <1>1, SameLog
  <1>3. LogSeq' /\ Kept(Len(log)) /\ Len(log') = Len(log)
    BY <1>1 DEF LogSeq, Kept
  <1>4. \A p \in 1 .. Len(log) : SealStands(p)'
    BY <1>3, KeptSealStands
  <1> QED BY <1>2, <1>3, <1>4 DEF SealedInv

\* An entry that moves no money keeps the accounts in order.
LEMMA MoneyUntouched ==
    ASSUME EconomyInv, NEW x, log' = Append(log, x), now' = now, x.ts \in 1 .. now,
           x.kind \in {"peer", "commitment", "committee_share", "claim"}
    PROVE  EconomyInv'
  <1>1. LogSeq /\ now \in Nat
    BY EconomyAssumption DEF EconomyInv, LogOK, Epochs
  <1>2. PICK n : n = Len(log)
    OBVIOUS
  <1>3. n \in Nat /\ log'[n + 1] = x
    BY <1>1, <1>2, Appended
  <1>4. EntryOK(n + 1)' /\ Afforded(n + 1)'
    BY <1>1, <1>3 DEF EntryOK, Afforded
  <1>5. x.kind = "availability" => x.undertaking \in 1 .. n
    OBVIOUS
  <1> QED BY <1>2, <1>4, <1>5, OneMore
\* Every share that landed is among the ones its commitment is opened with.
LEMMA SharesCount ==
    ASSUME SealedInv, NEW q \in entries("committee_share", Len(log)), NEW c, c = log[q].commitment
    PROVE  q \in committee_shares_for(c)
  <1>1. q \in 1 .. Len(log) /\ ShareStands(q) /\ log[q].kind = "committee_share"
    BY DEF entries, SealedInv, SealStands
  <1> QED BY <1>1 DEF ShareStands, committee_shares_for

\* What the log answered before an entry, it answers of its first entries after.
LEMMA OldSealed ==
    ASSUME RanksDiffer, SealedInv, NEW x, log' = Append(log, x), NEW n, n = Len(log)
    PROVE  /\ n \in Nat /\ n + 1 - 1 = n /\ log'[n + 1] = x
           /\ \A k : entries(k, n)' = entries(k, n)
           /\ \A k : \A q \in entries(k, n) : q \in 1 .. n /\ log'[q] = log[q]
           /\ \A share : check_committee_share(share, n)' <=> check_committee_share(share, n)
           /\ \A e \in Epochs : committee_for(e, n)' = committee_for(e, n)
           /\ \A e \in Epochs : sealed_value_in(e, n)' = sealed_value_in(e, n)
           /\ \A e \in Epochs, m \in Nat : custody_guard(e, m, n)' = custody_guard(e, m, n)
           /\ \A e : /\ committee_size_at(e, n) \in Nat
                     /\ committee_size_at(e, n) \in CommitteeSize .. MaxCommitteeSize
           /\ Funded' => x.kind = "issuance" \/ declares_supply
  <1>1. EconomyInv /\ LogSeq /\ PeersStand
    BY PeersDoStand DEF SealedInv, EconomyInv, LogOK
  <1>2. /\ n \in Nat /\ n + 1 - 1 = n /\ log'[n + 1] = x
        /\ \A k : entries(k, n)' = entries(k, n)
        /\ \A k : \A q \in entries(k, n) : q \in 1 .. n /\ log'[q] = log[q]
        /\ Funded' => x.kind = "issuance" \/ declares_supply
    BY <1>1, OldAnswers
  <1>3. LogSeq' /\ Kept(n)
    BY <1>1, Appended
  <1>4. /\ \A share : check_committee_share(share, n)' <=> check_committee_share(share, n)
        /\ \A e \in Epochs : committee_for(e, n)' = committee_for(e, n)
        /\ \A e \in Epochs : sealed_value_in(e, n)' = sealed_value_in(e, n)
        /\ \A e \in Epochs, m \in Nat : custody_guard(e, m, n)' = custody_guard(e, m, n)
    BY <1>1, <1>3, KeptShareCheck, KeptSize, KeptSealedValue, KeptGuard
  <1>5. \A e : /\ committee_size_at(e, n) \in Nat
               /\ committee_size_at(e, n) \in CommitteeSize .. MaxCommitteeSize
    BY <1>1, <1>2, SizeNat
  <1> QED BY <1>2, <1>4, <1>5

LEMMA PostPeerSealed ==
    ASSUME RanksDiffer, SealedInv, NEW r \in PeerRecords, PostPeer(r)
    PROVE  SealedInv'
  <1>1. PICK n, x : n = Len(log)
            /\ x = [kind |-> "peer", identity |-> r.identity, seq |-> r.seq,
                    transport |-> r.transport, ts |-> now]
    OBVIOUS
  <1>2. log' = Append(log, x) /\ now' = now /\ x.ts \in 1 .. now
    BY <1>1, EconomyAssumption DEF PostPeer, append, SealedInv, EconomyInv, Epochs
  <1>3. EconomyInv'
    BY <1>1, <1>2, MoneyUntouched DEF SealedInv
  <1>4. /\ n \in Nat /\ n + 1 - 1 = n /\ log'[n + 1] = x
        /\ \A k : entries(k, n)' = entries(k, n)
        /\ \A k : \A q \in entries(k, n) : q \in 1 .. n /\ log'[q] = log[q]
    BY <1>1, <1>2, OldSealed
  <1>5. PeerStands(n + 1)'
    BY <1>1, <1>4 DEF PostPeer, PeerStands
  <1>6. SealStands(n + 1)'
    BY <1>1, <1>4, <1>5 DEF SealStands, ShareStands, CommitmentStands, ClaimStands
  <1> QED BY <1>1, <1>2, <1>3, <1>6, OneMoreSealed

LEMMA CommitSealedSealed ==
    ASSUME RanksDiffer, SealedInv, NEW s \in Seals, NEW at \in Epochs, at <= now,
           CommitSealed(s, at)
    PROVE  SealedInv'
  <1>1. PICK n, x : n = Len(log)
            /\ x = [kind |-> "commitment", seal |-> s, created |-> at,
                    keys |-> envelope[s].keys, ts |-> at]
    OBVIOUS
  <1>2. log' = Append(log, x) /\ now' = now /\ x.ts \in 1 .. now
    BY <1>1, EconomyAssumption DEF CommitSealed, append, SealedInv, EconomyInv, Epochs
  <1>3. EconomyInv'
    BY <1>1, <1>2, MoneyUntouched DEF SealedInv
  <1>4. PICK m : m = Len(envelope[s].keys)
    OBVIOUS
  <1>5. /\ n \in Nat /\ n + 1 - 1 = n /\ log'[n + 1] = x
        /\ committee_for(at, n)' = committee_for(at, n)
        /\ sealed_value_in(at, n)' = sealed_value_in(at, n)
        /\ committee_size_at(at, n) \in Nat
        /\ committee_size_at(at, n) \in CommitteeSize .. MaxCommitteeSize
        /\ Funded' => x.kind = "issuance" \/ declares_supply
        /\ \A k \in Nat : custody_guard(at, k, n)' = custody_guard(at, k, n)
    BY <1>1, <1>2, OldSealed
  <1>6. /\ m \in Nat /\ m \in CommitteeSize .. MaxCommitteeSize /\ m = Len(committee_for(at, n))
        /\ declares_supply => sealed_value_in(at, n) + Objective[Seal[s].objective].reward
                                <= custody_guard(at, m, n)
    BY <1>1, <1>4, <1>5 DEF CommitSealed, drawn, withinCustody
  <1>7. CommitmentStands(n + 1)'
    <2>1. PICK p : p = n + 1
      OBVIOUS
    <2>2. p - 1 = n /\ log'[p] = x
      BY <1>5, <2>1
    <2>3. committee_of_commitment(p)' = committee_for(at, n)'
      BY <1>1, <2>2 DEF committee_of_commitment
    <2>4. /\ x.seal = s /\ x.created = at /\ x.kind = "commitment"
          /\ Len(x.keys) = m /\ x.kind # "issuance"
      BY <1>1, <1>4
    <2>5. Funded' => sealed_value_in(at, n)' + Objective[Seal[s].objective].reward
                        <= custody_guard(at, m, n)'
      BY <1>5, <1>6, <2>4
    <2>6. m = Len(committee_of_commitment(p)')
      BY <1>5, <1>6, <2>3
    <2>7. CommitmentStands(p)'
      BY <1>6, <2>2, <2>4, <2>5, <2>6 DEF CommitmentStands
    <2> QED BY <2>1, <2>7
  <1>8. SealStands(n + 1)'
    BY <1>1, <1>5, <1>7 DEF SealStands, ShareStands, PeerStands, ClaimStands
  <1> QED BY <1>1, <1>2, <1>3, <1>8, OneMoreSealed

LEMMA PostCommitteeShareSealed ==
    ASSUME RanksDiffer, SealedInv, NEW c, NEW i, NEW k, PostCommitteeShare(i, c, k)
    PROVE  SealedInv'
  <1>1. PICK n, x : n = Len(log)
            /\ x = [kind |-> "committee_share", commitment |-> c, seat |-> k,
                    identity |-> i, created |-> now, ts |-> now,
                    right |-> rightShare(i, c, k)]
    OBVIOUS
  <1>2. log' = Append(log, x) /\ now' = now /\ x.ts \in 1 .. now
    BY <1>1, EconomyAssumption DEF PostCommitteeShare, append, SealedInv, EconomyInv, Epochs
  <1>3. EconomyInv'
    BY <1>1, <1>2, MoneyUntouched DEF SealedInv
  <1>4. /\ n \in Nat /\ n + 1 - 1 = n /\ log'[n + 1] = x
        /\ \A j : entries(j, n)' = entries(j, n)
        /\ \A j : \A q \in entries(j, n) : q \in 1 .. n /\ log'[q] = log[q]
        /\ check_committee_share(x, n)' <=> check_committee_share(x, n)
    BY <1>1, <1>2, OldSealed
  <1>5. check_committee_share(x, n)' /\ (i \in Liars <=> ~x.right)
    BY <1>1, <1>4 DEF PostCommitteeShare, rightShare
  <1>6. check_committee_share(log[n + 1], n)'
    BY <1>4, <1>5 DEF check_committee_share
  <1>7. \A r \in entries("committee_share", n) :
            ~(log[r].commitment = c /\ log[r].seat = k)
    BY <1>1, SharesCount DEF PostCommitteeShare
  <1>8. ShareStands(n + 1)'
    BY <1>1, <1>4, <1>5, <1>6, <1>7 DEF ShareStands
  <1>9. SealStands(n + 1)'
    BY <1>1, <1>4, <1>8 DEF SealStands, CommitmentStands, PeerStands, ClaimStands
  <1> QED BY <1>1, <1>2, <1>3, <1>9, OneMoreSealed

LEMMA OpenSealedSealed ==
    ASSUME RanksDiffer, SealedInv, NEW c \in entries("commitment", Len(log)),
           OpenSealed(c) \/ RevealOwn(c)
    PROVE  SealedInv'
  <1>1. PICK n, x : n = Len(log) /\ log' = Append(log, x) /\ now' = now
            /\ x.kind = "claim" /\ x.commitment = c /\ x.ts = now
            /\ (x.by = "committee" => open_with_any_subset(c))
    <2>1. CASE OpenSealed(c)
      <3>1. PICK x : x = [kind |-> "claim", commitment |-> c, by |-> "committee", ts |-> now]
        OBVIOUS
      <3> QED BY <2>1, <3>1 DEF OpenSealed, append
    <2>2. CASE RevealOwn(c)
      <3>1. PICK x : x = [kind |-> "claim", commitment |-> c, by |-> "submitter", ts |-> now]
        OBVIOUS
      <3> QED BY <2>2, <3>1 DEF RevealOwn, append
    <2> QED BY <2>1, <2>2
  <1>2. x.ts \in 1 .. now
    BY <1>1, EconomyAssumption DEF SealedInv, EconomyInv, Epochs
  <1>3. EconomyInv'
    BY <1>1, <1>2, MoneyUntouched DEF SealedInv
  <1>4. /\ n \in Nat /\ n + 1 - 1 = n /\ log'[n + 1] = x
        /\ \A j : entries(j, n)' = entries(j, n)
        /\ \A j : \A q \in entries(j, n) : q \in 1 .. n /\ log'[q] = log[q]
    BY <1>1, OldSealed
  <1>5. PICK S : S = kSubset(threshold_for(Len(log[c].keys)), entries("committee_share", n))
    OBVIOUS
  <1>6. x.by = "committee" =>
            \E shares \in S : \A q \in shares : log[q].commitment = c /\ log[q].right
    BY <1>1, <1>5 DEF open_with_any_subset, committee_shares_for, kSubset
  <1>7. \A shares \in S : \A q \in shares : log'[q] = log[q]
    BY <1>4, <1>5 DEF kSubset
  <1>8. x.by = "committee" =>
            \E shares \in S : \A q \in shares : log'[q].commitment = c /\ log'[q].right
    BY <1>6, <1>7
  <1>9. S = kSubset(threshold_for(Len(log'[c].keys)), entries("committee_share", n)')
    BY <1>1, <1>4, <1>5
  <1>10. ClaimStands(n + 1)'
    <2>1. PICK p : p = n + 1
      OBVIOUS
    <2>2. p - 1 = n /\ log'[p] = x /\ c \in entries("commitment", n)'
      BY <1>1, <1>4, <2>1
    <2>3. log'[p].commitment = c /\ log'[p].by = x.by
      BY <1>1, <2>2
    <2>4. S = kSubset(threshold_for(Len(log'[log'[p].commitment].keys)),
                      entries("committee_share", p - 1)')
      BY <1>9, <2>2, <2>3
    <2>5. log'[p].commitment \in entries("commitment", p - 1)'
      BY <2>2, <2>3
    <2>6. log'[p].by = "committee" => \E shares \in S :
            \A q \in shares : log'[q].commitment = log'[p].commitment /\ log'[q].right
      BY <1>8, <2>3
    <2>7. ClaimStands(p)'
      BY <2>4, <2>5, <2>6 DEF ClaimStands
    <2> QED BY <2>1, <2>7
  <1>11. SealStands(n + 1)'
    BY <1>1, <1>4, <1>10 DEF SealStands, CommitmentStands, PeerStands, ShareStands
  <1> QED BY <1>1, <1>3, <1>11, OneMoreSealed
LEMMA SealedStep ==
    ASSUME RanksDiffer, SealedInv, [SealedNext]_sealedVars
    PROVE  SealedInv'
  <1>1. EconomyInv /\ now \in Epochs /\ now \in Nat
    BY EconomyAssumption DEF SealedInv, EconomyInv, Epochs
  <1>2. ASSUME NEW r \in Issuances, PostIssuance(r) PROVE SealedInv'
    <2>1. PICK n, x : n = Len(log) /\ x.kind = "issuance" /\ log' = Append(log, x)
      <3>1. PICK x : x = [kind |-> "issuance", holder |-> r.holder, units |-> r.units, ts |-> now]
        OBVIOUS
      <3> QED BY <1>2, <3>1 DEF PostIssuance, append
    <2>2. log'[n + 1].kind = "issuance"
      BY <2>1, OldSealed
    <2>3. SealStands(n + 1)'
      BY <2>2 DEF SealStands, PeerStands, ShareStands, CommitmentStands, ClaimStands
    <2> QED BY <1>1, <1>2, <2>1, <2>3, PostIssuanceOk, OneMoreSealed
  <1>3. ASSUME NEW o \in Objectives, NEW at \in Epochs, at <= now, PostObjective(o, at)
        PROVE  SealedInv'
    <2>1. PICK n, x : n = Len(log) /\ x.kind = "objective" /\ log' = Append(log, x)
      <3>1. PICK x : x = [kind |-> "objective", objective |-> o, ts |-> at]
        OBVIOUS
      <3> QED BY <1>3, <3>1 DEF PostObjective, append
    <2>2. log'[n + 1].kind = "objective"
      BY <2>1, OldSealed
    <2>3. SealStands(n + 1)'
      BY <2>2 DEF SealStands, PeerStands, ShareStands, CommitmentStands, ClaimStands
    <2> QED BY <1>1, <1>3, <2>1, <2>3, PostObjectiveOk, OneMoreSealed
  <1>4. ASSUME NEW s \in Seals, SealSubmission(s) PROVE SealedInv'
    <2>1. log' = log /\ now' = now
      BY <1>4 DEF SealSubmission
    <2> QED BY <1>1, <2>1, SameSealed
  <1>5. ASSUME AdvanceClock PROVE SealedInv'
    <2>1. log' = log /\ now' \in Epochs /\ now <= now'
      BY <1>1, <1>5, EconomyAssumption DEF AdvanceClock, Epochs
    <2> QED BY <2>1, SameSealed
  <1>6. ASSUME UNCHANGED sealedVars PROVE SealedInv'
    <2>1. log' = log /\ now' = now
      BY <1>6 DEF sealedVars
    <2> QED BY <1>1, <2>1, SameSealed
  <1>7. CASE SealedNext
    BY <1>2, <1>3, <1>4, <1>5, <1>7, PostPeerSealed, CommitSealedSealed,
       PostCommitteeShareSealed, OpenSealedSealed DEF SealedNext
  <1> QED BY <1>6, <1>7

\* What each record of a committee was asked when it landed (Node::post_peer,
\* commit, post_committee_share and open_sealed), the log goes on answering.
THEOREM SealedInvariant ==
    ASSUME RanksDiffer
    PROVE  SealedSpec => []SealedInv
  <1>1. SealedInit => SealedInv
    <2> SUFFICES ASSUME SealedInit PROVE SealedInv
      OBVIOUS
    <2>1. Init /\ EconomyInv
      BY EconomyInit DEF SealedInit
    <2>2. Len(log) = 0
      BY <2>1 DEF Init
    <2> QED BY <2>1, <2>2 DEF SealedInv
  <1>2. SealedInv /\ [SealedNext]_sealedVars => SealedInv'
    BY SealedStep
  <1> QED BY <1>1, <1>2, PTL DEF SealedSpec

\* Every share a committee posted stays its seat's answer, and every peer
\* record in force: neither later peers nor entries unseat its author, date it
\* too early or make it a fault of the audit (Node::audit_peers and
\* audit_committee_shares over committee_of_commitment).
THEOREM PostedSharesStand ==
    ASSUME RanksDiffer
    PROVE  SealedSpec => []SharesStayValid
  <1>1. ASSUME SealedInv PROVE SharesStayValid
    <2>1. PICK N : N = Len(log) /\ N \in Nat
      BY <1>1, LogLength DEF SealedInv, EconomyInv, LogOK
    <2>2. \A p \in 1 .. N : p \in 1 .. Len(log) /\ PeerStands(p) /\ ShareStands(p)
      BY <1>1, <2>1 DEF SealedInv, SealStands
    <2>3. audit_peers = {}
      <3> SUFFICES ASSUME NEW p \in audit_peers PROVE FALSE
        OBVIOUS
      <3>1. PICK q \in entries("peer", p - 1) :
                log[q].identity = log[p].identity /\ log[q].seq >= log[p].seq
        BY DEF audit_peers
      <3>2. p \in 1 .. N /\ log[p].kind = "peer"
        BY <2>1 DEF audit_peers, entries
      <3>3. log[q].seq < log[p].seq
        BY <2>2, <3>1, <3>2 DEF PeerStands
      <3>4. q \in 1 .. N /\ log[q].kind = "peer"
        BY <2>1, <3>1, <3>2 DEF entries
      <3>5. log[p].seq \in Nat /\ log[q].seq \in Nat
        BY <2>2, <3>2, <3>4, SealedAssumption DEF PeerStands
      <3> QED BY <3>1, <3>3, <3>5
    <2>4. audit_committee_shares = {}
      <3> SUFFICES ASSUME NEW q \in audit_committee_shares PROVE FALSE
        OBVIOUS
      <3>1. q \in 1 .. N /\ log[q].kind = "committee_share"
        BY <2>1 DEF audit_committee_shares, entries
      <3> QED BY <2>2, <3>1 DEF audit_committee_shares, ShareStands
    <2> QED BY <1>1, <2>3, <2>4, SharesCount DEF SharesStayValid
  <1> QED BY <1>1, SealedInvariant, PTL
\* An injection keeps the number of elements.
LEMMA CountedOnce ==
    ASSUME NEW S, IsFiniteSet(S), NEW f, \A s, t \in S : f[s] = f[t] => s = t
    PROVE  /\ IsFiniteSet({f[s] : s \in S})
           /\ Cardinality({f[s] : s \in S}) = Cardinality(S)
  <1> DEFINE T == {f[s] : s \in S}
             g == [s \in S |-> f[s]]
  <1>1. g \in Surjection(S, T) /\ g \in Injection(S, T)
    BY DEF Surjection, Injection, IsInjective
  <1> HIDE DEF T, g
  <1>2. IsFiniteSet(T) /\ Cardinality(T) = Cardinality(S)
    BY <1>1, FS_Surjection
  <1> QED BY <1>2 DEF T

LEMMA FirstNaturals ==
    ASSUME NEW N \in Nat
    PROVE  IsFiniteSet(1 .. N) /\ Cardinality(1 .. N) = N
  <1>1. /\ IsFiniteSet(1 .. N)
        /\ Cardinality(1 .. N) = IF 1 > N THEN 0 ELSE N - 1 + 1
    BY FS_Interval
  <1> QED BY <1>1

\* A set has subsets of every size up to its own.
LEMMA SubsetOfSize ==
    ASSUME NEW S, IsFiniteSet(S), NEW k \in Nat, k <= Cardinality(S)
    PROVE  kSubset(k, S) # {}
  <1>1. PICK N \in Nat : N = Cardinality(S) /\ k <= N
    BY FS_CardinalityType
  <1>2. IsFiniteSet(1 .. N) /\ Cardinality(1 .. N) = N /\ IsFiniteSet(1 .. k) /\ Cardinality(1 .. k) = k
    BY FirstNaturals
  <1>3. PICK f : f \in Bijection(1 .. N, S)
    <2>1. ExistsBijection(1 .. N, S)
      BY <1>1, <1>2, FS_SameCardinalityBij
    <2> QED BY <2>1 DEF ExistsBijection
  <1>4. f \in [1 .. N -> S] /\ \A i, j \in 1 .. N : f[i] = f[j] => i = j
    BY <1>3 DEF Bijection, Injection, IsInjective
  <1>5. \A i \in 1 .. k : i \in 1 .. N
    BY <1>1
  <1>6. Cardinality({f[i] : i \in 1 .. k}) = k
    <2>1. \A i, j \in 1 .. k : f[i] = f[j] => i = j
      BY <1>4, <1>5
    <2>2. PICK D : D = 1 .. k
      OBVIOUS
    <2>3. Cardinality({f[i] : i \in D}) = Cardinality(D)
      BY <1>2, <2>1, <2>2, CountedOnce
    <2> QED BY <1>2, <2>2, <2>3
  <1>7. {f[i] : i \in 1 .. k} \in SUBSET S
    BY <1>4, <1>5
  <1> QED BY <1>6, <1>7 DEF kSubset

LEMMA ThresholdNat ==
    ASSUME NEW size \in Nat \ {0}
    PROVE  threshold_for(size) \in Nat /\ threshold_for(size) <= size
  BY DEF threshold_for

\* A committee's guard is an amount of money.
LEMMA GuardNat ==
    ASSUME RanksDiffer, SealedInv, NEW n \in Nat, n < Len(log), NEW e \in Epochs,
           NEW size \in Nat \ {0}
    PROVE  custody_guard(e, size, n) \in Nat
  <1>1. PICK b, c : b = anchor_at(e, n) /\ c = committee_of_size(e, size, n)
    OBVIOUS
  <1>2. LogOK /\ PeersStand /\ Len(log) \in Nat
    BY PeersDoStand, LogLength DEF SealedInv, EconomyInv, LogOK
  <1>3. b \in Nat /\ b < Len(log)
    BY <1>1, <1>2, AnchorWithin
  <1>4. Len(c) \in Nat /\ Len(c) <= size /\ DOMAIN c = 1 .. Len(c)
    BY <1>1, <1>2, Seated
  <1>5. \A i : spendable_within(i, b) \in Nat
    BY <1>2, <1>3, BalanceNat
  <1> DEFINE f == [k \in DOMAIN c |-> spendable_within(log[c[k]].identity, b)]
             K == kSubset(threshold_for(size), 1 .. size)
             M == {SumFunction([k \in cheapest |-> f[k]]) : cheapest \in K}
  <1>6. f \in [DOMAIN c -> Nat]
    BY <1>5
  <1>7. custody_guard(e, size, n) = IF Len(c) < size THEN 0 ELSE Min(M) \div 2
    BY <1>1 DEF custody_guard, epoch_boundary, sum
  <1> HIDE DEF f
  <1>8. CASE Len(c) < size
    BY <1>7, <1>8
  <1>9. CASE ~(Len(c) < size)
    <2>1. DOMAIN c = 1 .. size /\ IsFiniteSet(1 .. size) /\ Cardinality(1 .. size) = size
      <3>1. size \in Nat /\ Len(c) = size
        <4>1. \A l, m \in Nat : l <= m /\ ~(l < m) => l = m
          OBVIOUS
        <4>2. size \in Nat
          OBVIOUS
        <4> QED BY <1>4, <1>9, <4>1, <4>2
      <3>2. DOMAIN c = 1 .. size
        BY <1>4, <3>1
      <3>3. IsFiniteSet(1 .. size) /\ Cardinality(1 .. size) = size
        BY <3>1, FirstNaturals
      <3> QED BY <3>2, <3>3
    <2>2. K # {}
      BY <2>1, ThresholdNat, SubsetOfSize
    <2>3. ASSUME NEW S \in K PROVE SumFunction([k \in S |-> f[k]]) \in Nat
      <3>1. S \in SUBSET (1 .. size)
        BY DEF kSubset
      <3>2. IsFiniteSet(S)
        BY <2>1, <3>1, FS_Subset
      <3>3. [k \in S |-> f[k]] \in [S -> Nat]
        BY <1>6, <2>1, <3>1
      <3> QED BY <3>2, <3>3, SumNat
    <2>4. M \subseteq Nat /\ M # {}
      BY <2>2, <2>3
    <2>5. Min(M) \in Nat
      <3> HIDE DEF M
      <3> QED BY <2>4, MinOf
    <2> HIDE DEF M
    <2> QED BY <1>7, <1>9, <2>5
  <1> QED BY <1>8, <1>9

prizeOf(p) == Objective[Seal[log[p].seal].objective].reward

\* All that one committee can open is worth no more than its cheapest quorum
\* risks, as of the last submission it was drawn for (Node::commit against
\* custody_guard).
THEOREM ExposureStaysCovered ==
    ASSUME RanksDiffer
    PROVE  SealedSpec => []ExposureIsCovered
  <1>1. ASSUME SealedInv PROVE ExposureIsCovered
    <2> SUFFICES ASSUME declares_supply, NEW p \in entries("commitment", Len(log)), NEW shared,
                        shared = {q \in entries("commitment", Len(log)) :
                            /\ log[q].created = log[p].created
                            /\ committee_of_commitment(q) = committee_of_commitment(p)}
                 PROVE  SumFunction([q \in shared |-> prizeOf(q)])
                            <= custody_guard(log[p].created, Len(log[p].keys), Max(shared) - 1)
      BY DEF ExposureIsCovered, sum, prizeOf
    <2>1. LogSeq /\ Len(log) \in Nat
      BY <1>1, LogLength DEF SealedInv, EconomyInv, LogOK
    <2>2. \A q \in entries("commitment", Len(log)) :
            /\ q \in 1 .. Len(log) /\ CommitmentStands(q) /\ log[q].kind = "commitment"
            /\ prizeOf(q) \in Nat
      <3>1. \A q \in entries("commitment", Len(log)) :
                q \in 1 .. Len(log) /\ CommitmentStands(q) /\ log[q].kind = "commitment"
        BY <1>1 DEF SealedInv, SealStands, entries
      <3> QED BY <3>1, SealedAssumption, EconomyAssumption DEF CommitmentStands, prizeOf
    <2>3. Funded
      BY <2>1, Genesis DEF Funded, declares_supply
    <2>4. PICK m : m = Max(shared)
      OBVIOUS
    <2>5. m \in shared /\ \A q \in shared : q <= m
      <3>1. shared \subseteq Nat /\ p \in shared /\ \A q \in shared : q <= Len(log)
        BY <2>1, <2>2
      <3> QED BY <2>1, <2>4, <3>1, MaxOf
    <2>6. PICK e, size : e = log[p].created /\ size = Len(log[p].keys)
      OBVIOUS
    <2>7. /\ m \in entries("commitment", Len(log)) /\ log[m].created = e
          /\ committee_of_commitment(m) = committee_of_commitment(p)
      BY <2>5, <2>6
    <2>8. /\ e \in Epochs /\ size \in Nat \ {0} /\ Len(log[m].keys) = size
          /\ m \in Nat /\ m <= Len(log) /\ m - 1 \in Nat /\ m - 1 < Len(log)
      BY <2>1, <2>2, <2>6, <2>7, SealedAssumption DEF CommitmentStands
    <2>9. sealed_value_in(e, m - 1) + prizeOf(m) <= custody_guard(e, size, m - 1)
      BY <2>2, <2>3, <2>7, <2>8 DEF CommitmentStands, prizeOf
    <2>10. custody_guard(e, size, m - 1) \in Nat
      BY <1>1, <2>8, GuardNat
    <2> DEFINE S == {q \in entries("commitment", m - 1) : log[q].created = e}
               T == {q \in entries("commitment", m) : log[q].created = e}
               v == [q \in T |-> prizeOf(q)]
               w == [q \in shared |-> prizeOf(q)]
    <2>11. /\ IsFiniteSet(entries("commitment", m - 1)) /\ IsFiniteSet(entries("commitment", m))
           /\ m \notin entries("commitment", m - 1)
           /\ entries("commitment", m - 1) \subseteq entries("commitment", m)
           /\ \A q \in entries("commitment", m) : q \in entries("commitment", m - 1) \/ q = m
      <3>1. PICK n \in Nat : n = m - 1 /\ n + 1 = m
        BY <2>8
      <3>2. IsFiniteSet(entries("commitment", m))
        BY <2>8, NextEntries
      <3>3. /\ IsFiniteSet(entries("commitment", n)) /\ n + 1 \notin entries("commitment", n)
            /\ entries("commitment", n) \subseteq entries("commitment", n + 1)
            /\ \A q \in entries("commitment", n + 1) : q \in entries("commitment", n) \/ q = n + 1
        BY NextEntries
      <3> QED BY <3>1, <3>2, <3>3
    <2>12. \A q \in entries("commitment", m) : q \in entries("commitment", Len(log))
      BY <2>1, <2>8 DEF entries
    <2>13. IsFiniteSet(S) /\ IsFiniteSet(T) /\ S \subseteq T /\ T \subseteq S \cup {m} /\ m \notin S
      BY <2>11, FS_Subset
    <2>14. m \in T /\ shared \subseteq T
      BY <2>1, <2>5, <2>6, <2>7, <2>8 DEF entries
    <2>15. v \in [T -> Nat] /\ w \in [shared -> Nat]
      BY <2>2, <2>12
    <2>16. SumFunction([q \in S |-> v[q]]) = sealed_value_in(e, m - 1)
      <3>1. [q \in S |-> v[q]] = [q \in S |-> prizeOf(q)]
        BY <2>13
      <3> QED BY <3>1 DEF sealed_value_in, sum, prizeOf
    <2>17. \A q \in shared : w[q] <= v[q]
      BY <2>14, <2>15
    <2>18. v[m] = prizeOf(m) /\ prizeOf(m) \in Nat
      BY <2>2, <2>7, <2>14
    <2> HIDE DEF S, T, v, w
    <2>19. /\ SumFunction([q \in S |-> v[q]]) \in Nat
           /\ SumFunction(v) = SumFunction([q \in S |-> v[q]]) + v[m]
      BY <2>13, <2>14, <2>15, NextSum
    <2>20. SumFunction(w) <= SumFunction(v)
      BY <2>13, <2>14, <2>15, <2>17, SumGrows
    <2>21. SumFunction(w) \in Nat
      <3>1. IsFiniteSet(shared)
        BY <2>13, <2>14, FS_Subset
      <3> QED BY <2>15, <3>1, SumNat
    <2>22. SumFunction(w) <= custody_guard(e, size, m - 1)
      BY <2>9, <2>10, <2>16, <2>18, <2>19, <2>20, <2>21
    <2> QED BY <2>4, <2>6, <2>22 DEF w
  <1> QED BY <1>1, SealedInvariant, PTL
honestShares(c, n) ==
    {q \in entries("committee_share", n) :
        /\ log[q].commitment = c /\ log[q].identity \notin Liars
        /\ log[q].ts > opens_at(c)}

\* Two shares of one commitment come from two members.
LEMMA SharesDiffer ==
    ASSUME RanksDiffer, SealedInv, NEW c \in entries("commitment", Len(log)),
           NEW q \in entries("committee_share", Len(log)),
           NEW r \in entries("committee_share", Len(log)),
           log[q].commitment = c, log[r].commitment = c, log[q].identity = log[r].identity
    PROVE  q = r
  <1>1. PICK seats : seats = committee_of_commitment(c)
    OBVIOUS
  <1>2. \A j, k \in DOMAIN seats : log[seats[j]].identity = log[seats[k]].identity => j = k
    BY <1>1, SeatsOf
  <1>3. /\ q \in 1 .. Len(log) /\ r \in 1 .. Len(log) /\ Len(log) \in Nat
        /\ log[q].kind = "committee_share" /\ log[r].kind = "committee_share"
        /\ ShareStands(q) /\ ShareStands(r)
    BY LogLength DEF entries, SealedInv, EconomyInv, LogOK, SealStands
  <1>4. /\ log[q].seat \in DOMAIN seats /\ log[seats[log[q].seat]].identity = log[q].identity
        /\ log[r].seat \in DOMAIN seats /\ log[seats[log[r].seat]].identity = log[r].identity
    BY <1>1, <1>3 DEF ShareStands, check_committee_share
  <1>5. log[q].seat = log[r].seat
    BY <1>2, <1>4
  <1>6. ~(q < r) /\ ~(r < q)
    <2>1. q < r => q \in entries("committee_share", r - 1)
      BY <1>3 DEF entries
    <2>2. r < q => r \in entries("committee_share", q - 1)
      BY <1>3 DEF entries
    <2> QED BY <1>3, <1>5, <2>1, <2>2 DEF ShareStands
  <1> QED BY <1>3, <1>6

\* What the committee opened, a threshold of its members opened, each honest
\* and none before the embargo was over; and that many honest shares open it
\* whatever the others published (Node::open_sealed and open_with_any_subset
\* over check_committee_share).
THEOREM QuorumDoesOpen ==
    ASSUME RanksDiffer
    PROVE  SealedSpec => []QuorumOpens
  <1>1. ASSUME SealedInv PROVE QuorumOpens
    <2>1. LogSeq /\ Len(log) \in Nat
      BY <1>1, LogLength DEF SealedInv, EconomyInv, LogOK
    <2> SUFFICES ASSUME NEW p \in entries("commitment", Len(log)), NEW needed,
                        needed = threshold_for(Len(log[p].keys))
                 PROVE  /\ \A c \in entries("claim", Len(log)) :
                            log[c].commitment = p /\ log[c].by = "committee" =>
                                Cardinality({log[q].identity : q \in honestShares(p, c)}) >= needed
                        /\ Cardinality(honestShares(p, Len(log))) >= needed
                                => open_with_any_subset(p)
      BY DEF QuorumOpens, honestShares
    <2>2. needed \in Nat
      <3>1. p \in 1 .. Len(log) /\ log[p].kind = "commitment" /\ CommitmentStands(p)
        BY <1>1 DEF entries, SealedInv, SealStands
      <3>2. Len(log[p].keys) \in Nat \ {0}
        BY <3>1, SealedAssumption DEF CommitmentStands
      <3> QED BY <3>2, ThresholdNat
    <2>3. \A q \in entries("committee_share", Len(log)) :
            /\ q \in 1 .. Len(log) /\ log[q].kind = "committee_share" /\ ShareStands(q)
      BY <1>1 DEF entries, SealedInv, SealStands
    <2>4. ASSUME NEW c \in entries("claim", Len(log)),
                 log[c].commitment = p, log[c].by = "committee"
          PROVE  Cardinality({log[q].identity : q \in honestShares(p, c)}) >= needed
      <3>1. c \in 1 .. Len(log) /\ log[c].kind = "claim" /\ ClaimStands(c)
        BY <1>1 DEF entries, SealedInv, SealStands
      <3>2. PICK T \in kSubset(needed, entries("committee_share", c - 1)) :
                \A q \in T : log[q].commitment = p /\ log[q].right
        BY <2>4, <3>1 DEF ClaimStands
      <3>3. T \subseteq entries("committee_share", c - 1) /\ Cardinality(T) = needed
        BY <3>2 DEF kSubset
      <3>4. \A q \in T : q \in entries("committee_share", c) /\ q \in entries("committee_share", Len(log))
        BY <2>1, <3>1, <3>3 DEF entries
      <3>5. T \subseteq honestShares(p, c)
        <4> SUFFICES ASSUME NEW q \in T PROVE q \in honestShares(p, c)
          OBVIOUS
        <4>1. log[q].commitment = p /\ log[q].right /\ ShareStands(q) /\ log[q].kind = "committee_share"
          BY <2>3, <3>2, <3>4
        <4>2. log[q].identity \notin Liars /\ log[q].ts > opens_at(p)
          BY <4>1 DEF ShareStands, check_committee_share
        <4> QED BY <3>4, <4>1, <4>2 DEF honestShares
      <3>6. IsFiniteSet(honestShares(p, c)) /\ IsFiniteSet(T)
        <4>0. c \in Nat
          BY <2>1, <3>1
        <4>1. IsFiniteSet(entries("committee_share", c))
          BY <4>0, NextEntries
        <4>2. honestShares(p, c) \subseteq entries("committee_share", c)
          BY DEF honestShares
        <4> QED BY <3>5, <4>1, <4>2, FS_Subset
      <3> DEFINE f == [q \in honestShares(p, c) |-> log[q].identity]
      <3>7. \A q, r \in T : f[q] = f[r] => q = r
        BY <1>1, <3>2, <3>4, <3>5, SharesDiffer
      <3>8. {log[q].identity : q \in honestShares(p, c)} = {f[q] : q \in honestShares(p, c)}
        OBVIOUS
      <3> HIDE DEF f
      <3>9. IsFiniteSet({f[q] : q \in honestShares(p, c)})
        BY <3>6, ImageFinite
      <3>10. {f[q] : q \in T} \subseteq {f[q] : q \in honestShares(p, c)}
        BY <3>5
      <3>11. Cardinality({f[q] : q \in T}) = needed
        BY <3>3, <3>6, <3>7, CountedOnce
      <3>12. PICK A, B : A = {f[q] : q \in T} /\ B = {f[q] : q \in honestShares(p, c)}
        OBVIOUS
      <3>13. Cardinality(A) <= Cardinality(B) /\ Cardinality(B) \in Nat
        BY <3>9, <3>10, <3>12, FS_Subset, FS_CardinalityType
      <3> QED BY <2>2, <3>8, <3>11, <3>12, <3>13
    <2>5. ASSUME Cardinality(honestShares(p, Len(log))) >= needed
          PROVE  open_with_any_subset(p)
      <3>1. PICK H : H = honestShares(p, Len(log))
        OBVIOUS
      <3>2. H \subseteq committee_shares_for(p)
        BY <1>1, <3>1, SharesCount DEF honestShares
      <3>3. \A q \in H : log[q].right
        BY <2>3, <3>1 DEF honestShares, ShareStands
      <3>4. IsFiniteSet(H)
        <4>1. IsFiniteSet(entries("committee_share", Len(log)))
          BY <2>1, NextEntries
        <4>2. H \subseteq entries("committee_share", Len(log))
          BY <3>1 DEF honestShares
        <4> QED BY <4>1, <4>2, FS_Subset
      <3>5. needed <= Cardinality(H)
        BY <2>2, <2>5, <3>1, <3>4, FS_CardinalityType
      <3>6. PICK T : T \in kSubset(needed, H)
        BY <2>2, <3>4, <3>5, SubsetOfSize
      <3>7. T \in kSubset(needed, committee_shares_for(p)) /\ \A q \in T : log[q].right
        BY <3>2, <3>3, <3>6 DEF kSubset
      <3> QED BY <3>7 DEF open_with_any_subset
    <2> QED BY <2>4, <2>5
  <1> QED BY <1>1, SealedInvariant, PTL
EnvelopesOK ==
    DOMAIN envelope = Seals /\ \A s \in Seals :
        /\ envelope[s].height \in 0 .. Len(log) /\ envelope[s].epoch \in 0 .. now
        /\ envelope[s] = Unsealed
           \/ Len(envelope[s].keys) \in CommitteeSize .. MaxCommitteeSize

\* A committee of the right size has a key for each seat.
LEMMA KeysOfSeats ==
    ASSUME NEW c, DOMAIN c = 1 .. Len(c), Len(c) \in Nat
    PROVE  Len(keysOf(c)) = Len(c)
  <1> DEFINE f == [k \in 1 .. Len(c) |-> log[c[k]].transport]
  <1>1. keysOf(c) = f
    BY DEF keysOf
  <1>2. f \in Seq({f[k] : k \in 1 .. Len(c)})
    OBVIOUS
  <1>3. DOMAIN f = 1 .. Len(c) /\ DOMAIN f = 1 .. Len(f) /\ Len(f) \in Nat
    <2>1. DOMAIN f = 1 .. Len(c)
      OBVIOUS
    <2> HIDE DEF f
    <2> QED BY <1>2, <2>1, LenProperties
  <1> HIDE DEF f
  <1> QED BY <1>1, <1>3

LEMMA EnvelopesStep ==
    ASSUME RanksDiffer, SealedInv, SealedInv', EnvelopesOK, [SealedNext]_sealedVars
    PROVE  EnvelopesOK'
  <1>1. /\ LogSeq /\ PeersStand /\ Len(log) \in Nat /\ now \in Epochs /\ now \in Nat
        /\ Len(log') \in Nat /\ now' \in Nat
    <2>1. LogSeq /\ PeersStand /\ now \in Epochs /\ now \in Nat
      BY PeersDoStand, EconomyAssumption DEF SealedInv, EconomyInv, LogOK, Epochs
    <2>2. LogSeq' /\ now' \in Nat
      BY EconomyAssumption DEF SealedInv, EconomyInv, LogOK, Epochs
    <2> QED BY <2>1, <2>2, LogLength DEF LogSeq
  <1>2. Len(log) <= Len(log') /\ now <= now'
    <2>1. (\E x : log' = Append(log, x)) \/ log' = log
      BY DEF SealedNext, sealedVars, PostIssuance, PostObjective, PostPeer, SealSubmission,
             CommitSealed, PostCommitteeShare, OpenSealed, RevealOwn, AdvanceClock, append
    <2>2. now <= now'
      <3>1. now' = now \/ AdvanceClock
        BY DEF SealedNext, sealedVars, PostIssuance, PostObjective, PostPeer, SealSubmission,
               CommitSealed, PostCommitteeShare, OpenSealed, RevealOwn, append
      <3> QED BY <1>1, <3>1 DEF AdvanceClock
    <2>3. ASSUME NEW x, log' = Append(log, x) PROVE Len(log) <= Len(log')
      BY <1>1, <2>3, Appended
    <2> QED BY <1>1, <2>1, <2>2, <2>3
  <1>3. CASE UNCHANGED envelope
    BY <1>1, <1>2, <1>3 DEF EnvelopesOK
  <1>4. ASSUME NEW t \in Seals, SealSubmission(t) PROVE EnvelopesOK'
    <2>1. PICK c, m : c = committee_for(now, Len(log)) /\ m = committee_size_at(now, Len(log))
      OBVIOUS
    <2>2. m \in Nat /\ m \in CommitteeSize .. MaxCommitteeSize
      BY <1>1, <2>1, SizeNat
    <2>3. Len(c) = m /\ c = committee_of_size(now, m, Len(log))
      BY <1>4, <2>1 DEF SealSubmission, drawn, committee_for
    <2>4. DOMAIN c = 1 .. Len(c) /\ Len(c) \in Nat
      BY <1>1, <2>2, <2>3, Seated
    <2>5. Len(keysOf(c)) = m
      BY <2>3, <2>4, KeysOfSeats
    <2>6. PICK v : v = [height |-> Len(log), epoch |-> now, keys |-> keysOf(c)]
      OBVIOUS
    <2>7. envelope' = [envelope EXCEPT ![t] = v] /\ log' = log /\ now' = now
      BY <1>4, <2>1, <2>6 DEF SealSubmission
    <2>8. v.height = Len(log) /\ v.epoch = now /\ Len(v.keys) \in CommitteeSize .. MaxCommitteeSize
      BY <2>2, <2>5, <2>6
    <2>9. ASSUME NEW s \in Seals
          PROVE  /\ envelope'[s].height \in 0 .. Len(log') /\ envelope'[s].epoch \in 0 .. now'
                 /\ envelope'[s] = Unsealed
                    \/ Len(envelope'[s].keys) \in CommitteeSize .. MaxCommitteeSize
      <3>1. CASE s = t
        <4>1. envelope'[s] = v
          BY <2>7, <3>1 DEF EnvelopesOK
        <4> QED BY <1>1, <2>7, <2>8, <4>1
      <3>2. CASE s # t
        <4>1. envelope'[s] = envelope[s]
          BY <2>7, <3>2 DEF EnvelopesOK
        <4> QED BY <2>7, <4>1 DEF EnvelopesOK
      <3> QED BY <3>1, <3>2
    <2>10. DOMAIN envelope' = Seals
      BY <2>7 DEF EnvelopesOK
    <2> QED BY <2>9, <2>10 DEF EnvelopesOK, Unsealed
  <1> QED
    BY <1>3, <1>4 DEF SealedNext, sealedVars, PostPeer, CommitSealed, PostCommitteeShare,
                      OpenSealed, RevealOwn

\* Envelopes are addressed to a committee's worth of keys, and shares and
\* openings refer to earlier commitments (SealedSubmission::seal, commit,
\* post_committee_share and open_sealed).
THEOREM SealedTypes ==
    ASSUME RanksDiffer
    PROVE  SealedSpec => []SealedTypeOK
  <1>1. SealedInit => EnvelopesOK
    <2> SUFFICES ASSUME SealedInit PROVE EnvelopesOK
      OBVIOUS
    <2>1. Len(log) = 0 /\ now = 1 /\ envelope = [s \in Seals |-> Unsealed]
      BY DEF SealedInit, Init
    <2>2. Unsealed.height = 0 /\ Unsealed.epoch = 0
      BY DEF Unsealed
    <2>3. \A s \in Seals : envelope[s] = Unsealed
      BY <2>1
    <2>4. DOMAIN envelope = Seals
      BY <2>1
    <2> QED BY <2>1, <2>2, <2>3, <2>4 DEF EnvelopesOK
  <1>2. SealedInv /\ SealedInv' /\ EnvelopesOK /\ [SealedNext]_sealedVars => EnvelopesOK'
    BY EnvelopesStep
  <1>3. ASSUME SealedInv, EnvelopesOK PROVE SealedTypeOK
    <2>1. ASSUME NEW p \in 1 .. Len(log)
          PROVE  /\ log[p].ts \in 1 .. now
                 /\ log[p].kind \in {"committee_share", "claim"} =>
                        log[p].commitment \in entries("commitment", p - 1)
      <3>1. Stamped(p) /\ SealStands(p)
        BY <1>3 DEF SealedInv, EconomyInv
      <3> QED BY <3>1 DEF Stamped, SealStands, ShareStands, ClaimStands, check_committee_share
    <2>2. now \in Epochs
      BY <1>3 DEF SealedInv, EconomyInv
    <2> QED BY <1>3, <2>1, <2>2 DEF SealedTypeOK, EnvelopesOK
  <1> QED BY <1>1, <1>2, <1>3, SealedInvariant, PTL DEF SealedSpec
==============================================================================
