-------------------------- MODULE Selection_proofs --------------------------
(***************************************************************************)
(* Theorems about the module Selection: the list of a week keeps every     *)
(* limit, gives no rank away and is as long as the limit per sector        *)
(* allows.  They hold for every pool, so they are about what the ranking   *)
(* and the greedy pass compute, and the pass is a recursive function: the  *)
(* first section gives the induction they need, over sets of numbers.      *)
(***************************************************************************)
EXTENDS Selection, FiniteSetTheorems, WellFoundedInduction, TLAPS

-----------------------------------------------------------------------------
(* Induction over a bounded range                                          *)

\* A set of numbers that is not empty has a least one.
LEMMA LeastNumber ==
    ASSUME NEW S \in SUBSET Nat, S # {}
    PROVE  \E m \in S : \A k \in S : m <= k
<1> DEFINE Below(m) == {k \in Nat : k < m}
           T == {Below(m) : m \in S}
<1>1. T \subseteq FiniteSubsetsOf(Nat) /\ T # {}
  <2>1. ASSUME NEW m \in S
        PROVE  Below(m) \in SUBSET Nat /\ IsFiniteSet(Below(m))
    <3>1. \A k \in Below(m) : k <= m
      OBVIOUS
    <3> QED
      BY <3>1, FS_BoundedSetOfNaturals
  <2> QED
    BY <2>1 DEF FiniteSubsetsOf
<1>2. PICK x \in T : \A y \in T : <<y, x>> \notin StrictSubsetOrdering(Nat)
  <2> HIDE DEF T
  <2> QED
    BY <1>1, FS_StrictSubsetOrderingWellFounded, WFMin
<1>3. PICK m \in S : x = Below(m)
  OBVIOUS
<1>4. ASSUME NEW k \in S, k < m
      PROVE  FALSE
  <2>1. \A j \in Nat : j < k => j < m
    BY <1>4
  <2>2. k \in Below(m) /\ k \notin Below(k) /\ Below(k) \subseteq Below(m)
    BY <1>4, <2>1
  <2>3. <<Below(k), Below(m)>> \in StrictSubsetOrdering(Nat)
    BY <2>2 DEF StrictSubsetOrdering
  <2> QED
    BY <1>2, <1>3, <2>3
<1>5. \A k \in S : m <= k
  BY <1>4
<1> QED
  BY <1>5

\* A set of numbers up to n that holds 0, and the successor of each of its
\* members below n, holds them all.
LEMMA UpTo ==
    ASSUME NEW n \in Nat, NEW S, 0 \in S,
           \A i \in 1 .. n : i - 1 \in S => i \in S
    PROVE  \A i \in 0 .. n : i \in S
<1> DEFINE Left == {i \in 0 .. n : i \notin S}
<1>1. SUFFICES ASSUME Left # {} PROVE FALSE
  OBVIOUS
<1>2. PICK m \in Left : \A k \in Left : m <= k
  <2>1. Left \in SUBSET Nat
    OBVIOUS
  <2> HIDE DEF Left
  <2> QED
    BY <1>1, <2>1, LeastNumber
<1>3. m \in 1 .. n /\ m - 1 \notin Left
  BY <1>2
<1> QED
  BY <1>2, <1>3

-----------------------------------------------------------------------------
(* Sets of stocks                                                          *)

\* The stocks of a week are finitely many, and have the features of a kind.
LEMMA StockFacts ==
    ASSUME pool \in Seq(Kinds)
    PROVE  /\ IsFiniteSet(Stocks) /\ Eligible \subseteq Stocks
           /\ \A c \in Stocks : pool[c] \in Kinds /\ pool[c].points \in Nat
           /\ \A c \in Stocks : pool[c].domain \in Domains
<1>1. Len(pool) \in Nat /\ \A c \in Stocks : pool[c] \in Kinds
  BY DEF Stocks
<1>2. IsFiniteSet(Stocks)
  BY <1>1, FS_Interval DEF Stocks
<1> QED
  BY <1>1, <1>2, SelectionAssumption DEF Eligible

\* Sets of stocks are finite, and so are their parts.
LEMMA Sizes ==
    ASSUME pool \in Seq(Kinds), NEW S \in SUBSET Stocks
    PROVE  /\ IsFiniteSet(S) /\ Cardinality(S) \in Nat
           /\ \A T \in SUBSET S : /\ IsFiniteSet(T) /\ Cardinality(T) \in Nat
                                  /\ Cardinality(T) <= Cardinality(S)
                                  /\ T # S => Cardinality(T) < Cardinality(S)
<1>1. IsFiniteSet(S) /\ Cardinality(S) \in Nat
  BY StockFacts, FS_Subset, FS_CardinalityType
<1>2. ASSUME NEW T \in SUBSET S
      PROVE  /\ IsFiniteSet(T) /\ Cardinality(T) \in Nat
             /\ Cardinality(T) <= Cardinality(S)
             /\ T # S => Cardinality(T) < Cardinality(S)
  BY <1>1, FS_Subset, FS_CardinalityType
<1> QED
  BY <1>1, <1>2

\* The parts of a set of stocks that the rules count.
LEMMA Parts ==
    ASSUME NEW S
    PROVE  /\ \A c : InSector(S, c) \subseteq S
           /\ \A f : {c \in S : f \in pool[c].flags} \subseteq S
           /\ {c \in S : pool[c].domain # "main"} \subseteq S
           /\ {c \in S : pool[c].domain = "external"} \subseteq S
BY DEF InSector

\* What the rules count is a number, and of a greater set not less.
LEMMA CountsGrow ==
    ASSUME pool \in Seq(Kinds), NEW T \in SUBSET Stocks, NEW S \in SUBSET T
    PROVE  /\ \A c : /\ Cardinality(InSector(S, c)) \in Nat
                     /\ Cardinality(InSector(S, c)) <= Cardinality(InSector(T, c))
           /\ \A f : Flagged(S, f) \in Nat /\ Flagged(S, f) <= Flagged(T, f)
           /\ Outside(S) \in Nat /\ Outside(S) <= Outside(T)
           /\ External(S) \in Nat /\ External(S) <= External(T)
           /\ Outside(S) <= Cardinality(S)
<1>1. /\ \A c : InSector(S, c) \subseteq InSector(T, c) /\ InSector(T, c) \in SUBSET Stocks
      /\ \A f : /\ {c \in S : f \in pool[c].flags} \subseteq {c \in T : f \in pool[c].flags}
                /\ {c \in T : f \in pool[c].flags} \in SUBSET Stocks
  BY DEF InSector
<1>2. \A c : /\ Cardinality(InSector(S, c)) \in Nat
             /\ Cardinality(InSector(S, c)) <= Cardinality(InSector(T, c))
  BY <1>1, Sizes
<1>3. \A f : Flagged(S, f) \in Nat /\ Flagged(S, f) <= Flagged(T, f)
  BY <1>1, Sizes DEF Flagged
<1>4. Outside(S) \in Nat /\ Outside(S) <= Outside(T) /\ Outside(S) <= Cardinality(S)
  <2>1. /\ {c \in S : pool[c].domain # "main"} \subseteq {c \in T : pool[c].domain # "main"}
        /\ {c \in S : pool[c].domain # "main"} \subseteq S
        /\ {c \in T : pool[c].domain # "main"} \in SUBSET Stocks /\ S \in SUBSET Stocks
    OBVIOUS
  <2> QED
    BY <2>1, Sizes DEF Outside
<1>5. External(S) \in Nat /\ External(S) <= External(T)
  <2>1. /\ {c \in S : pool[c].domain = "external"} \subseteq {c \in T : pool[c].domain = "external"}
        /\ {c \in T : pool[c].domain = "external"} \in SUBSET Stocks
    OBVIOUS
  <2> QED
    BY <2>1, Sizes DEF External
<1> QED
  BY <1>2, <1>3, <1>4, <1>5

\* What the rules count of a set of stocks is a number.
LEMMA Counts ==
    ASSUME pool \in Seq(Kinds), NEW S \in SUBSET Stocks
    PROVE  /\ Cardinality(S) \in Nat /\ \A c : Cardinality(InSector(S, c)) \in Nat
           /\ \A f : Flagged(S, f) \in Nat
           /\ Outside(S) \in Nat /\ External(S) \in Nat /\ Outside(S) <= Cardinality(S)
<1>1. S \in SUBSET S
  OBVIOUS
<1> QED
  BY <1>1, Sizes, CountsGrow

\* One more stock: what the rules count grows by one where they see it.
LEMMA CountsAdd ==
    ASSUME pool \in Seq(Kinds), NEW S \in SUBSET Stocks, NEW c \in Stocks, c \notin S
    PROVE  /\ Cardinality(S \cup {c}) = Cardinality(S) + 1
           /\ \A d : Cardinality(InSector(S \cup {c}, d)) =
                     Cardinality(InSector(S, d)) + (IF pool[c].sector = pool[d].sector THEN 1 ELSE 0)
           /\ \A f : Flagged(S \cup {c}, f) =
                     Flagged(S, f) + (IF f \in pool[c].flags THEN 1 ELSE 0)
           /\ Outside(S \cup {c}) = Outside(S) + (IF pool[c].domain # "main" THEN 1 ELSE 0)
           /\ External(S \cup {c}) = External(S) + (IF pool[c].domain = "external" THEN 1 ELSE 0)
<1>1. ASSUME NEW A \in SUBSET S, NEW B, NEW p \in BOOLEAN,
             B = IF p THEN A \cup {c} ELSE A
      PROVE  Cardinality(B) = Cardinality(A) + (IF p THEN 1 ELSE 0)
  <2>1. IsFiniteSet(A) /\ Cardinality(A) \in Nat /\ c \notin A
    BY Sizes
  <2>2. CASE p
    BY <1>1, <2>1, <2>2, FS_AddElement
  <2>3. CASE ~ p
    BY <1>1, <2>1, <2>3
  <2> QED
    BY <2>2, <2>3
<1>2. Cardinality(S \cup {c}) = Cardinality(S) + 1
  BY <1>1
<1>3. ASSUME NEW d
      PROVE  Cardinality(InSector(S \cup {c}, d)) =
             Cardinality(InSector(S, d)) + (IF pool[c].sector = pool[d].sector THEN 1 ELSE 0)
  <2> DEFINE p == pool[c].sector = pool[d].sector
  <2>1. InSector(S \cup {c}, d) = IF p THEN InSector(S, d) \cup {c} ELSE InSector(S, d)
    BY DEF InSector
  <2>2. InSector(S, d) \in SUBSET S /\ p \in BOOLEAN
    BY DEF InSector
  <2> QED
    BY <1>1, <2>1, <2>2
<1>4. ASSUME NEW f
      PROVE  Flagged(S \cup {c}, f) = Flagged(S, f) + (IF f \in pool[c].flags THEN 1 ELSE 0)
  <2> DEFINE p == f \in pool[c].flags
             A == {d \in S : f \in pool[d].flags}
             B == {d \in S \cup {c} : f \in pool[d].flags}
  <2>1. B = (IF p THEN A \cup {c} ELSE A) /\ A \in SUBSET S /\ p \in BOOLEAN
    OBVIOUS
  <2>2. Cardinality(B) = Cardinality(A) + (IF p THEN 1 ELSE 0)
    <3> HIDE DEF A, B, p
    <3> QED
      BY <1>1, <2>1
  <2> QED
    BY <2>2 DEF Flagged
<1>5. Outside(S \cup {c}) = Outside(S) + (IF pool[c].domain # "main" THEN 1 ELSE 0)
  <2> DEFINE p == pool[c].domain # "main"
             A == {d \in S : pool[d].domain # "main"}
             B == {d \in S \cup {c} : pool[d].domain # "main"}
  <2>1. B = (IF p THEN A \cup {c} ELSE A) /\ A \in SUBSET S /\ p \in BOOLEAN
    OBVIOUS
  <2>2. Cardinality(B) = Cardinality(A) + (IF p THEN 1 ELSE 0)
    <3> HIDE DEF A, B, p
    <3> QED
      BY <1>1, <2>1
  <2> QED
    BY <2>2 DEF Outside
<1>6. External(S \cup {c}) = External(S) + (IF pool[c].domain = "external" THEN 1 ELSE 0)
  <2> DEFINE p == pool[c].domain = "external"
             A == {d \in S : pool[d].domain = "external"}
             B == {d \in S \cup {c} : pool[d].domain = "external"}
  <2>1. B = (IF p THEN A \cup {c} ELSE A) /\ A \in SUBSET S /\ p \in BOOLEAN
    OBVIOUS
  <2>2. Cardinality(B) = Cardinality(A) + (IF p THEN 1 ELSE 0)
    <3> HIDE DEF A, B, p
    <3> QED
      BY <1>1, <2>1
  <2> QED
    BY <2>2 DEF External
<1> QED
  BY <1>2, <1>3, <1>4, <1>5, <1>6

\* A greater set has no more flagged stocks than the smaller one and the stocks
\* it has besides.
LEMMA FlaggedBound ==
    ASSUME pool \in Seq(Kinds), NEW T \in SUBSET Stocks, NEW S \in SUBSET T, NEW f
    PROVE  Flagged(T, f) <= Flagged(S, f) + Cardinality(T) - Cardinality(S)
<1> DEFINE A == {d \in S : f \in pool[d].flags}
           B == {d \in T : f \in pool[d].flags}
<1>1. IsFiniteSet(A) /\ IsFiniteSet(B) /\ IsFiniteSet(T) /\ IsFiniteSet(S)
  BY Sizes
<1>2. B \subseteq A \cup (T \ S) /\ A \cap (T \ S) = {} /\ T \cap S = S
  OBVIOUS
<1>3. IsFiniteSet(T \ S) /\ Cardinality(T \ S) = Cardinality(T) - Cardinality(S)
  BY <1>1, <1>2, FS_Difference
<1>4. /\ IsFiniteSet(A \cup (T \ S))
      /\ Cardinality(A \cup (T \ S)) = Cardinality(A) + Cardinality(T \ S) - Cardinality({})
  <2> HIDE DEF A, B
  <2> QED
    BY <1>1, <1>2, <1>3, FS_Union
<1>5. /\ Cardinality(B) <= Cardinality(A \cup (T \ S))
      /\ Cardinality({}) = 0
  <2> HIDE DEF A, B
  <2> QED
    BY <1>2, <1>4, FS_Subset, FS_EmptySet
<1>6. Cardinality(A) \in Nat /\ Cardinality(B) \in Nat /\ Cardinality(T) \in Nat /\ Cardinality(S) \in Nat
  BY <1>1, FS_CardinalityType
<1>7. Cardinality(B) <= Cardinality(A) + Cardinality(T) - Cardinality(S)
  BY <1>3, <1>4, <1>5, <1>6
<1> QED
  BY <1>7 DEF Flagged

-----------------------------------------------------------------------------
(* The ranking                                                             *)

Rows == [code : Eligible, score : Nat]

\* Every eligible stock is in R, once, behind those that precede it.
IsRanking(R) ==
    /\ R \in Seq(Rows)
    /\ \A c \in Eligible : \E i \in 1 .. Len(R) : R[i].code = c
    /\ \A i \in 1 .. Len(R) : \A j \in 1 .. i - 1 :
          R[j].code # R[i].code /\ Precedes(R[j], R[i])

\* Of two rows one precedes the other.
LEMMA PrecedesIsTotal ==
    ASSUME NEW x \in Rows, NEW y \in Rows
    PROVE  /\ ~ Precedes(x, x)
           /\ x # y => Precedes(x, y) \/ Precedes(y, x)
           /\ \A z \in Rows : Precedes(x, y) /\ Precedes(y, z) => Precedes(x, z)
<1>1. ASSUME NEW z \in Rows
      PROVE  z.score \in Nat /\ z.code \in Nat /\ z = [code |-> z.code, score |-> z.score]
  BY DEF Rows, Eligible, Stocks
<1>2. x # y => x.score # y.score \/ x.code # y.code
  BY <1>1, Zenon
<1> QED
  BY <1>1, <1>2 DEF Precedes

\* The places that RankBy gives: each row stands behind those that precede it.
LEMMA RankByRanks ==
    ASSUME pool \in Seq(Kinds), NEW score, \A c \in Eligible : score[c] \in Nat
    PROVE  IsRanking(RankBy(score))
<1> DEFINE rows == {[code |-> c, score |-> score[c]] : c \in Eligible}
           n == Cardinality(rows)
           R == RankBy(score)
           place == [x \in rows |-> Cardinality(Before(rows, x))]
<1>1. /\ rows \subseteq Rows
      /\ \A c \in Eligible : \E x \in rows : x.code = c
      /\ \A x, y \in rows : x.code = y.code => x = y
  <2>1. \A c \in Eligible : [code |-> c, score |-> score[c]] \in rows
    OBVIOUS
  <2>2. \A x \in rows : x \in Rows
    BY DEF Rows
  <2>3. \A x \in rows : x = [code |-> x.code, score |-> score[x.code]]
    OBVIOUS
  <2>4. \A x, y \in rows : x.code = y.code => x = y
    <3> HIDE DEF rows
    <3> QED
      BY <2>3, Zenon
  <2>5. \A c \in Eligible : \E x \in rows : x.code = c
    <3> TAKE c \in Eligible
    <3> WITNESS [code |-> c, score |-> score[c]] \in rows
    <3> QED
      OBVIOUS
  <2> QED
    BY <2>2, <2>4, <2>5
<1>2. IsFiniteSet(rows) /\ n \in Nat
  <2> DEFINE f == [x \in rows |-> x.code]
  <2>1. f \in Injection(rows, Eligible)
    <3>1. f \in [rows -> Eligible] /\ \A x, y \in rows : f[x] = f[y] => x = y
      BY <1>1 DEF Rows
    <3> HIDE DEF rows
    <3> QED
      BY <3>1 DEF Injection, IsInjective
  <2>2. IsFiniteSet(Eligible)
    BY StockFacts, Sizes
  <2> HIDE DEF rows, f
  <2> QED
    BY <2>1, <2>2, FS_Injection, FS_CardinalityType
<1>3. R = [i \in 1 .. n |-> CHOOSE x \in rows : Cardinality(Before(rows, x)) = i - 1]
  BY DEF RankBy
<1> HIDE DEF rows, R
<1>4. ASSUME NEW x \in rows
      PROVE  /\ Before(rows, x) \subseteq rows /\ IsFiniteSet(Before(rows, x))
             /\ place[x] \in 0 .. n - 1 /\ place[x] = Cardinality(Before(rows, x))
  <2>1. Before(rows, x) \subseteq rows /\ x \notin Before(rows, x)
    BY <1>1, PrecedesIsTotal DEF Before
  <2>2. IsFiniteSet(Before(rows, x)) /\ Cardinality(Before(rows, x)) < n
    BY <1>2, <2>1, FS_Subset, FS_CardinalityType
  <2>3. Cardinality(Before(rows, x)) \in Nat
    BY <2>2, FS_CardinalityType
  <2> QED
    BY <1>2, <2>1, <2>2, <2>3
<1>5. ASSUME NEW x \in rows, NEW y \in rows, Precedes(x, y)
      PROVE  place[x] < place[y]
  <2>1. Before(rows, x) \subseteq Before(rows, y)
    BY <1>1, <1>5, PrecedesIsTotal DEF Before
  <2>2. x \in Before(rows, y) /\ x \notin Before(rows, x)
    BY <1>1, <1>5, PrecedesIsTotal DEF Before
  <2>3. Cardinality(Before(rows, x)) < Cardinality(Before(rows, y))
    <3>1. IsFiniteSet(Before(rows, x)) /\ IsFiniteSet(Before(rows, y))
      BY <1>4
    <3>2. /\ Cardinality(Before(rows, x)) <= Cardinality(Before(rows, y))
          /\ Cardinality(Before(rows, x)) # Cardinality(Before(rows, y))
      BY <2>1, <2>2, <3>1, FS_Subset
    <3> QED
      BY <3>1, <3>2, FS_CardinalityType
  <2> QED
    BY <1>4, <2>3
<1>6. ASSUME NEW x \in rows, NEW y \in rows, x # y
      PROVE  place[x] # place[y] /\ (place[x] < place[y] => Precedes(x, y))
  <2>1. Precedes(x, y) \/ Precedes(y, x)
    BY <1>1, <1>6, PrecedesIsTotal
  <2>2. place[x] \in Nat /\ place[y] \in Nat
    BY <1>2, <1>4
  <2> QED
    BY <1>5, <2>1, <2>2
<1>7. ASSUME NEW k \in 0 .. n - 1
      PROVE  \E x \in rows : place[x] = k
  <2>1. place \in Injection(rows, 0 .. n - 1)
    <3>1. place \in [rows -> 0 .. n - 1]
      BY <1>4
    <3> HIDE DEF place
    <3> QED
      BY <1>6, <3>1 DEF Injection, IsInjective
  <2>2. IsFiniteSet(0 .. n - 1) /\ Cardinality(0 .. n - 1) = n
    BY <1>2, FS_Interval
  <2>3. place \in Surjection(rows, 0 .. n - 1)
    <3> HIDE DEF place
    <3> QED
      BY <2>1, <2>2, FS_Injection
  <2> HIDE DEF place
  <2> QED
    BY <2>3 DEF Surjection
<1>8. ASSUME NEW i \in 1 .. n
      PROVE  R[i] \in rows /\ place[R[i]] = i - 1
  <2>1. i - 1 \in 0 .. n - 1
    BY <1>2
  <2>2. \E x \in rows : Cardinality(Before(rows, x)) = i - 1
    BY <1>4, <1>7, <2>1
  <2>3. R[i] \in rows /\ Cardinality(Before(rows, R[i])) = i - 1
    BY <1>3, <2>2
  <2> QED
    BY <1>4, <2>3
<1>9. R \in Seq(Rows) /\ Len(R) = n
  <2>1. R \in [1 .. n -> Rows]
    <3>1. \A i \in 1 .. n : R[i] \in Rows
      BY <1>1, <1>8
    <3> QED
      BY <1>3, <3>1
  <2> QED
    BY <1>2, <2>1
<1>10. ASSUME NEW c \in Eligible
       PROVE  \E i \in 1 .. Len(R) : R[i].code = c
  <2>1. PICK x \in rows : x.code = c
    BY <1>1
  <2> DEFINE i == place[x] + 1
  <2>2. i \in 1 .. n /\ i - 1 = place[x]
    BY <1>2, <1>4
  <2> HIDE DEF i
  <2>3. R[i] \in rows /\ place[R[i]] = place[x]
    BY <1>8, <2>2
  <2>4. R[i] = x
    BY <1>6, <2>3
  <2> QED
    BY <1>9, <2>1, <2>2, <2>4
<1>11. ASSUME NEW i \in 1 .. Len(R), NEW j \in 1 .. i - 1
       PROVE  R[j].code # R[i].code /\ Precedes(R[j], R[i])
  <2>1. i \in 1 .. n /\ j \in 1 .. n /\ j - 1 < i - 1
    BY <1>2, <1>9
  <2>2. R[i] \in rows /\ R[j] \in rows /\ place[R[i]] = i - 1 /\ place[R[j]] = j - 1
    BY <1>8, <2>1
  <2>3. R[i] # R[j] /\ place[R[j]] < place[R[i]]
    BY <2>1, <2>2
  <2> QED
    BY <1>1, <1>6, <2>2, <2>3
<1> QED
  BY <1>9, <1>10, <1>11 DEF IsRanking, R

\* The scores of calculate_scores are numbers, so the week's list of eligible
\* stocks is a ranking.
LEMMA RankedRanks ==
    ASSUME pool \in Seq(Kinds)
    PROVE  IsRanking(Ranked)
<1> DEFINE top == TopFifth
           score == [c \in Stocks |->
                     FirstScore(c) + (IF Cardinality(InSector(top, c)) >= 2 THEN 2 ELSE 0)]
<1>1. \A c \in Stocks : FirstScore(c) \in Nat
  BY StockFacts DEF FirstScore
<1>2. \A c \in Eligible : score[c] \in Nat
  <2> HIDE DEF top
  <2> QED
    BY <1>1, StockFacts
<1>3. Ranked = RankBy(score)
  BY DEF Ranked
<1> HIDE DEF score
<1> QED
  BY <1>2, <1>3, RankByRanks

\* Where a ranking has its stocks.
LEMMA RankingPlaces ==
    ASSUME NEW R, IsRanking(R)
    PROVE  /\ Len(R) \in Nat
           /\ \A i \in 1 .. Len(R) : R[i].code \in Eligible /\ R[i].score \in Nat
           /\ \A i, j \in 1 .. Len(R) : R[i].code = R[j].code => i = j
           /\ \A i, j \in 1 .. Len(R) : R[i].score > R[j].score => i < j
<1>1. Len(R) \in Nat /\ \A i \in 1 .. Len(R) : R[i] \in Rows
  BY DEF IsRanking
<1>2. \A i \in 1 .. Len(R) : R[i].code \in Eligible /\ R[i].score \in Nat
  BY <1>1 DEF Rows
<1>3. ASSUME NEW i \in 1 .. Len(R), NEW j \in 1 .. Len(R), j < i
      PROVE  R[j].code # R[i].code /\ R[j].score >= R[i].score
  <2>1. j \in 1 .. i - 1
    BY <1>1, <1>3
  <2>2. R[j].code # R[i].code /\ Precedes(R[j], R[i])
    BY <2>1 DEF IsRanking
  <2> QED
    BY <1>2, <2>2 DEF Precedes
<1>4. \A i, j \in 1 .. Len(R) : i < j \/ j < i \/ i = j
  BY <1>1
<1>5. ASSUME NEW i \in 1 .. Len(R), NEW j \in 1 .. Len(R), R[i].code = R[j].code
      PROVE  i = j
  BY <1>3, <1>4, <1>5
<1>6. ASSUME NEW i \in 1 .. Len(R), NEW j \in 1 .. Len(R), R[i].score > R[j].score
      PROVE  i < j
  BY <1>2, <1>3, <1>4, <1>6
<1> QED
  BY <1>1, <1>2, <1>5, <1>6

-----------------------------------------------------------------------------
(* The pass                                                                *)

\* The loop of the pass, place by place: the recursive function exists, since
\* each of its prefixes does, and is what its definition says.
LEMMA PassSteps ==
    ASSUME NEW R, NEW size, Len(R) \in Nat
    PROVE  /\ Chosen(R, size)[0] = {}
           /\ \A i \in 1 .. Len(R) :
                 Chosen(R, size)[i] =
                    IF Takes(Chosen(R, size)[i - 1], R[i].code, size)
                    THEN Chosen(R, size)[i - 1] \cup {R[i].code} ELSE Chosen(R, size)[i - 1]
<1> DEFINE m == Len(R)
           Step(S, i) == IF Takes(S, R[i].code, size) THEN S \cup {R[i].code} ELSE S
           IsPrefix(g, k) == /\ g = [i \in 0 .. k |-> g[i]] /\ g[0] = {}
                             /\ \A i \in 1 .. k : g[i] = Step(g[i - 1], i)
           Has == {k \in 0 .. m : \E g : IsPrefix(g, k)}
<1> HIDE DEF Step
<1>1. 0 \in Has
  <2>1. IsPrefix([i \in 0 .. 0 |-> {}], 0)
    OBVIOUS
  <2> HIDE DEF IsPrefix
  <2> QED
    BY <2>1
<1>2. ASSUME NEW k \in 1 .. m, k - 1 \in Has
      PROVE  k \in Has
  <2>1. PICK g : IsPrefix(g, k - 1)
    BY <1>2
  <2> DEFINE h == [i \in 0 .. k |-> IF i = k THEN Step(g[k - 1], k) ELSE g[i]]
  <2>2. h = [i \in 0 .. k |-> h[i]] /\ h[0] = {}
    <3>1. h = [i \in 0 .. k |-> h[i]]
      OBVIOUS
    <3>2. 0 \in 0 .. k /\ 0 # k
      OBVIOUS
    <3>3. h[0] = g[0]
      BY <3>2
    <3> QED
      BY <2>1, <3>1, <3>3
  <2>3. ASSUME NEW i \in 1 .. k
        PROVE  h[i] = Step(h[i - 1], i)
    <3>1. h[i - 1] = g[i - 1]
      OBVIOUS
    <3>2. CASE i = k
      BY <3>1, <3>2
    <3>3. CASE i # k
      <4>1. i \in 1 .. k - 1 /\ h[i] = g[i]
        BY <3>3
      <4> QED
        BY <2>1, <3>1, <4>1
    <3> QED
      BY <3>2, <3>3
  <2>4. IsPrefix(h, k)
    BY <2>2, <2>3
  <2> HIDE DEF IsPrefix
  <2> QED
    BY <2>4
<1>3. PICK g : IsPrefix(g, m)
  <2>1. m \in Has
    <3>1. m \in 0 .. m
      OBVIOUS
    <3> HIDE DEF Has
    <3> QED
      BY <1>1, <1>2, <3>1, UpTo
  <2> QED
    BY <2>1
<1> DEFINE Body(f) == [i \in 0 .. m |-> IF i = 0 THEN {} ELSE Step(f[i - 1], i)]
<1>4. g = Body(g)
  <2>1. ASSUME NEW i \in 0 .. m
        PROVE  g[i] = IF i = 0 THEN {} ELSE Step(g[i - 1], i)
    <3>1. i = 0 \/ i \in 1 .. m
      OBVIOUS
    <3> QED
      BY <1>3, <3>1
  <2> QED
    BY <1>3, <2>1
<1>5. Chosen(R, size) = CHOOSE f : f = Body(f)
  BY DEF Chosen, Step
<1>6. Chosen(R, size) = Body(Chosen(R, size))
  <2> HIDE DEF Body
  <2> QED
    BY <1>4, <1>5
<1>7. \A i \in 1 .. m : Chosen(R, size)[i] = Step(Chosen(R, size)[i - 1], i)
  <2> DEFINE C == Chosen(R, size)
  <2> SUFFICES ASSUME NEW i \in 1 .. m PROVE C[i] = Step(C[i - 1], i)
    OBVIOUS
  <2>1. Body(C)[i] = Step(C[i - 1], i)
    <3> HIDE DEF C
    <3> QED
      OBVIOUS
  <2> HIDE DEF Body
  <2> QED
    BY <1>6, <2>1
<1>8. Chosen(R, size)[0] = {}
  <2>1. Body(Chosen(R, size))[0] = {}
    OBVIOUS
  <2> HIDE DEF Body
  <2> QED
    BY <1>6, <2>1
<1> QED
  BY <1>7, <1>8 DEF Step

\* The stocks in the first places of a ranking.
First(R, i) == {R[j].code : j \in 1 .. i}

\* After each place only stocks passed by are chosen, and what is chosen stays.
LEMMA PassGrows ==
    ASSUME NEW R, IsRanking(R), NEW size
    PROVE  /\ Pass(R, size) \subseteq Eligible
           /\ \A i \in 0 .. Len(R) : /\ Chosen(R, size)[i] \subseteq First(R, i)
                                     /\ Chosen(R, size)[i] \subseteq Eligible
                                     /\ Chosen(R, size)[i] \subseteq Pass(R, size)
<1> DEFINE m == Len(R)
           ch == Chosen(R, size)
<1>1. m \in Nat /\ \A i \in 1 .. m : R[i].code \in Eligible
  BY RankingPlaces
<1>2. /\ ch[0] = {}
      /\ \A i \in 1 .. m : ch[i] \subseteq ch[i - 1] \cup {R[i].code} /\ ch[i - 1] \subseteq ch[i]
  <2>1. ch[0] = {} /\ \A i \in 1 .. m : ch[i] = IF Takes(ch[i - 1], R[i].code, size)
                                                THEN ch[i - 1] \cup {R[i].code} ELSE ch[i - 1]
    BY <1>1, PassSteps
  <2> HIDE DEF ch
  <2> QED
    BY <2>1
<1> HIDE DEF ch
<1>3. \A i \in 0 .. m : ch[i] \subseteq First(R, i)
  <2> DEFINE Ok == {i \in 0 .. m : ch[i] \subseteq First(R, i)}
  <2>1. 0 \in Ok
    BY <1>1, <1>2
  <2>2. ASSUME NEW i \in 1 .. m, i - 1 \in Ok
        PROVE  i \in Ok
    <3>1. First(R, i) = First(R, i - 1) \cup {R[i].code}
      BY DEF First
    <3> QED
      BY <1>2, <2>2, <3>1
  <2>3. \A i \in 0 .. m : i \in Ok
    <3> HIDE DEF Ok
    <3> QED
      BY <1>1, <2>1, <2>2, UpTo
  <2> QED
    BY <2>3
<1>4. ASSUME NEW i \in 0 .. m
      PROVE  ch[i] \subseteq ch[m]
  <2> DEFINE Ok == {k \in 0 .. m : k >= i => ch[i] \subseteq ch[k]}
  <2>1. 0 \in Ok
    BY <1>1, <1>2
  <2>2. ASSUME NEW k \in 1 .. m, k - 1 \in Ok
        PROVE  k \in Ok
    <3>1. CASE k - 1 >= i
      BY <1>2, <2>2, <3>1
    <3>2. CASE k = i
      BY <1>1, <3>2
    <3>3. CASE k < i
      BY <1>1, <3>3
    <3> QED
      BY <1>1, <3>1, <3>2, <3>3
  <2>3. m \in Ok
    <3>1. m \in 0 .. m
      BY <1>1
    <3> HIDE DEF Ok
    <3> QED
      BY <1>1, <3>1, <2>1, <2>2, UpTo
  <2> QED
    BY <1>1, <2>3
<1>5. \A i \in 0 .. m : First(R, i) \subseteq Eligible
  BY <1>1 DEF First
<1>6. m \in 0 .. m /\ Pass(R, size) = ch[m]
  BY <1>1 DEF Pass, ch
<1> QED
  BY <1>3, <1>4, <1>5, <1>6 DEF ch

\* The limits that a pass for a list of some size keeps all along.
WithinLimits(S, size) ==
    /\ S \subseteq Eligible
    /\ Cardinality(S) <= size
    /\ \A c \in S : Cardinality(InSector(S, c)) <= PerSector
    /\ Outside(S) <= 2 /\ External(S) <= 1
    /\ Retreat => Flagged(S, "elastic") <= 1 /\ Flagged(S, "hot") <= 2

\* One more stock that the pass takes keeps them.
LEMMA TakesKeepsLimits ==
    ASSUME pool \in Seq(Kinds), NEW size \in Nat, NEW S, WithinLimits(S, size),
           NEW c \in Eligible, c \notin S, Takes(S, c, size)
    PROVE  WithinLimits(S \cup {c}, size)
<1> DEFINE T == S \cup {c}
<1>1. S \in SUBSET Stocks /\ c \in Stocks /\ S \subseteq Eligible /\ T \in SUBSET Stocks
  BY StockFacts DEF WithinLimits
<1>0. /\ \A d : Cardinality(InSector(T, d)) =
                  Cardinality(InSector(S, d)) + (IF pool[c].sector = pool[d].sector THEN 1 ELSE 0)
      /\ \A f : Flagged(T, f) = Flagged(S, f) + (IF f \in pool[c].flags THEN 1 ELSE 0)
  BY <1>1, CountsAdd
<1>2. Cardinality(S) \in Nat /\ Cardinality(T) = Cardinality(S) + 1
  BY <1>1, Sizes, CountsAdd
<1>3. Cardinality(T) <= size
  BY <1>2 DEF Takes
<1>4. ASSUME NEW d \in T
      PROVE  Cardinality(InSector(T, d)) <= PerSector
  <2>1. /\ Cardinality(InSector(S, d)) \in Nat
        /\ Cardinality(InSector(T, d)) =
           Cardinality(InSector(S, d)) + (IF pool[c].sector = pool[d].sector THEN 1 ELSE 0)
    BY <1>1, <1>0, Counts
  <2>2. CASE pool[c].sector = pool[d].sector
    <3>1. InSector(S, d) = InSector(S, c)
      BY <2>2 DEF InSector
    <3>2. Cardinality(InSector(S, c)) < PerSector
      BY DEF Takes, FitsCaps
    <3> QED
      BY <2>1, <2>2, <3>1, <3>2, SelectionAssumption
  <2>3. CASE pool[c].sector # pool[d].sector
    <3>1. d \in S
      BY <2>3
    <3> QED
      BY <2>1, <2>3, <3>1, SelectionAssumption DEF WithinLimits
  <2> QED
    BY <2>2, <2>3
<1>5. Outside(T) <= 2 /\ External(T) <= 1
  <2>1. /\ Outside(S) \in Nat /\ External(S) \in Nat
        /\ Outside(T) = Outside(S) + (IF pool[c].domain # "main" THEN 1 ELSE 0)
        /\ External(T) = External(S) + (IF pool[c].domain = "external" THEN 1 ELSE 0)
    BY <1>1, CountsGrow, CountsAdd
  <2>2. /\ pool[c].domain # "main" => Outside(S) < 2
        /\ pool[c].domain = "external" => External(S) < 1
    <3>1. RequiredMain(size) \in Nat /\ Missing(size, RequiredMain(size)) \in Nat
      BY DEF RequiredMain, Missing
    <3>2. Outside(S) < Lesser(2, Missing(size, RequiredMain(size))) => Outside(S) < 2
      BY <2>1, <3>1 DEF Lesser
    <3> QED
      BY <3>2 DEF Takes, FitsCaps
  <2> QED
    BY <2>1, <2>2 DEF WithinLimits
<1>6. Retreat => Flagged(T, "elastic") <= 1 /\ Flagged(T, "hot") <= 2
  <2>1. /\ Flagged(S, "elastic") \in Nat /\ Flagged(S, "hot") \in Nat
        /\ Flagged(T, "elastic") = Flagged(S, "elastic") + (IF "elastic" \in pool[c].flags THEN 1 ELSE 0)
        /\ Flagged(T, "hot") = Flagged(S, "hot") + (IF "hot" \in pool[c].flags THEN 1 ELSE 0)
    BY <1>1, <1>0, Counts
  <2>2. Retreat => /\ "elastic" \in pool[c].flags => Flagged(S, "elastic") < 1
                   /\ "hot" \in pool[c].flags => Flagged(S, "hot") < 2
    BY DEF Takes, FitsCaps
  <2> QED
    BY <2>1, <2>2 DEF WithinLimits
<1> QED
  BY <1>1, <1>3, <1>4, <1>5, <1>6 DEF WithinLimits

\* The pass keeps them at every place.
LEMMA PassKeepsLimits ==
    ASSUME pool \in Seq(Kinds), NEW R, IsRanking(R), NEW size \in Nat
    PROVE  WithinLimits(Pass(R, size), size)
<1> DEFINE m == Len(R)
           ch == Chosen(R, size)
           Ok == {i \in 0 .. m : WithinLimits(ch[i], size)}
<1>1. m \in Nat /\ \A i \in 1 .. m : R[i].code \in Eligible
  BY RankingPlaces
<1>2. ch[0] = {} /\ \A i \in 1 .. m : ch[i] = IF Takes(ch[i - 1], R[i].code, size)
                                              THEN ch[i - 1] \cup {R[i].code} ELSE ch[i - 1]
  BY <1>1, PassSteps
<1> HIDE DEF ch
<1>3. 0 \in Ok
  <2>2. /\ InSector({}, 1) = {} /\ Cardinality({}) = 0
        /\ \A f : Flagged({}, f) = 0
        /\ Outside({}) = 0 /\ External({}) = 0
    BY FS_EmptySet DEF InSector, Flagged, Outside, External
  <2>3. WithinLimits({}, size)
    BY <2>2 DEF WithinLimits
  <2>4. 0 \in 0 .. m /\ ch[0] = {}
    BY <1>1, <1>2
  <2> QED
    BY <2>3, <2>4
<1>4. ASSUME NEW i \in 1 .. m, i - 1 \in Ok
      PROVE  i \in Ok
  <2>1. CASE R[i].code \notin ch[i - 1] /\ Takes(ch[i - 1], R[i].code, size)
    <3>1. WithinLimits(ch[i - 1] \cup {R[i].code}, size)
      BY <1>1, <1>4, <2>1, TakesKeepsLimits
    <3>2. ch[i] = ch[i - 1] \cup {R[i].code}
      BY <1>2, <2>1, Zenon
    <3>3. i \in 0 .. m
      BY <1>1
    <3> QED
      BY <3>1, <3>2, <3>3
  <2>2. CASE R[i].code \in ch[i - 1] \/ ~ Takes(ch[i - 1], R[i].code, size)
    <3>1. ch[i] = ch[i - 1]
      BY <1>2, <2>2
    <3> QED
      BY <1>4, <3>1
  <2> QED
    BY <2>1, <2>2
<1>5. \A i \in 0 .. m : i \in Ok
  <2> HIDE DEF Ok
  <2> QED
    BY <1>1, <1>3, <1>4, UpTo
<1>6. m \in 0 .. m /\ Pass(R, size) = ch[m]
  BY <1>1 DEF Pass, ch
<1> QED
  BY <1>5, <1>6

-----------------------------------------------------------------------------
(* The portfolio                                                           *)

\* The portfolio is that of the greatest size whose pass is accepted, if any is.
LEMMA PortfolioFacts ==
    ASSUME NEW R
    PROVE  \/ /\ Portfolio(R) = {}
              /\ \A n \in 1 .. TargetSize : ~ Accepted(Pass(R, n), n)
           \/ \E n \in 1 .. TargetSize :
                 /\ Portfolio(R) = Pass(R, n) /\ Accepted(Pass(R, n), n)
                 /\ \A m \in 1 .. TargetSize : Accepted(Pass(R, m), m) => m <= n
<1> DEFINE good == {m \in 1 .. TargetSize : Accepted(Pass(R, m), m)}
           accepted == {Pass(R, n) : n \in good}
           Largest(p) == p \in accepted /\ \A q \in accepted : Cardinality(q) <= Cardinality(p)
<1>1. TargetSize \in Nat
  BY SelectionAssumption
<1>2. Portfolio(R) = IF accepted = {} THEN {} ELSE CHOOSE p : Largest(p)
  BY DEF Portfolio
<1>3. CASE good = {}
  <2>1. accepted = {}
    BY <1>3
  <2>2. \A n \in 1 .. TargetSize : ~ Accepted(Pass(R, n), n)
    BY <1>3
  <2> HIDE DEF accepted
  <2> QED
    BY <1>2, <2>1, <2>2
<1>4. CASE good # {}
  <2> DEFINE Left == {TargetSize - n : n \in good}
  <2>1. PICK k \in Left : \A j \in Left : k <= j
    <3>1. Left \in SUBSET Nat /\ Left # {}
      BY <1>1, <1>4
    <3> HIDE DEF Left
    <3> QED
      BY <3>1, LeastNumber
  <2>2. PICK n \in good : k = TargetSize - n
    BY <2>1
  <2>3. \A m \in good : m <= n
    BY <1>1, <2>1, <2>2
  <2>4. \A m \in good : Cardinality(Pass(R, m)) = m
    BY DEF Accepted
  <2>5. Largest(Pass(R, n))
    <3>1. ASSUME NEW q \in accepted
          PROVE  Cardinality(q) <= Cardinality(Pass(R, n))
      <4>1. PICK m \in good : q = Pass(R, m)
        OBVIOUS
      <4> HIDE DEF good
      <4> QED
        BY <2>3, <2>4, <4>1
    <3> QED
      BY <3>1
  <2>6. accepted # {} /\ Largest(Portfolio(R))
    <3>1. accepted # {}
      BY <1>4
    <3> HIDE DEF Largest, accepted
    <3> QED
      BY <1>2, <2>5, <3>1
  <2>7. PICK m \in good : Portfolio(R) = Pass(R, m)
    BY <2>6
  <2>8. n <= m
    <3>1. Cardinality(Pass(R, n)) <= Cardinality(Pass(R, m))
      BY <2>6, <2>7
    <3> HIDE DEF good
    <3> QED
      BY <2>4, <3>1
  <2>9. \A i \in 1 .. TargetSize : Accepted(Pass(R, i), i) => i <= m
    BY <1>1, <2>3, <2>8
  <2> QED
    BY <2>7, <2>9
<1> QED
  BY <1>3, <1>4

\* An accepted list of some size is lawful: the caps were kept all along, and the
\* quotas are what was looked at in the end.
LEMMA AcceptedIsLawful ==
    ASSUME pool \in Seq(Kinds), NEW R, IsRanking(R),
           NEW n \in 1 .. TargetSize, Accepted(Pass(R, n), n)
    PROVE  Lawful(Pass(R, n))
<1> DEFINE p == Pass(R, n)
<1>1. n \in Nat /\ n <= TargetSize /\ Cardinality(p) = n
  BY SelectionAssumption DEF Accepted
<1>2. WithinLimits(p, n)
  BY <1>1, PassKeepsLimits
<1> HIDE DEF p
<1>3. ASSUME NEW c \in p
      PROVE  /\ pool[c].gate /\ ~ pool[c].star /\ pool[c].heat = "no"
             /\ pool[c].domain = "external" => pool[c].evidence
             /\ Cardinality(InSector(p, c)) <= PerSector
  <2>1. c \in Eligible /\ Cardinality(InSector(p, c)) <= PerSector
    BY <1>2 DEF WithinLimits
  <2>2. Bucket(pool[c]) = "eligible" /\ pool[c] \in Kinds
    BY <2>1, StockFacts DEF Eligible
  <2>3. pool[c].heat \in {"no", "repaired", "over"}
    BY <2>2, SelectionAssumption
  <2>4. /\ pool[c].gate /\ ~ pool[c].star /\ pool[c].heat = "no"
        /\ pool[c].domain = "external" => pool[c].evidence
    BY <2>2, <2>3 DEF Bucket
  <2> QED
    BY <2>1, <2>4
<1>4. Accepted(p, n)
  BY DEF p
<1>5. Overheated => Flagged(p, "unexhausted") >= Lesser(2, n)
  BY <1>4 DEF Accepted, RequiredUnexhausted
<1>6. /\ n - Outside(p) >= RequiredMain(n)
      /\ BreadthRecovery => Flagged(p, "promotion") = 2 /\ Flagged(p, "exploration") >= 1
  BY <1>1, <1>4 DEF Accepted
<1>7. Lawful(p)
  BY <1>1, <1>2, <1>3, <1>5, <1>6 DEF Lawful, WithinLimits
<1> QED
  BY <1>7 DEF p

\* A stock that the pass does not take is in no lawful list of that size with the
\* stocks chosen before it: the rules of the pass are those of the list.
LEMMA RejectedIsUnlawful ==
    ASSUME pool \in Seq(Kinds), ~ BreadthRecovery,
           NEW S \in SUBSET Stocks, NEW A \in SUBSET S, NEW c \in S, c \notin A,
           ~ Takes(A, c, Cardinality(S))
    PROVE  ~ Lawful(S)
<1> DEFINE n == Cardinality(S)
           B == A \cup {c}
<1> SUFFICES ASSUME Lawful(S) PROVE FALSE
  OBVIOUS
<1>1. A \in SUBSET Stocks /\ c \in Stocks /\ B \in SUBSET S /\ B \in SUBSET Stocks
  OBVIOUS
<1>2. n \in Nat /\ Cardinality(A) \in Nat /\ Cardinality(B) = Cardinality(A) + 1 /\ Cardinality(B) <= n
  BY <1>1, Counts, CountsAdd, Sizes
<1>3. /\ Cardinality(InSector(B, c)) = Cardinality(InSector(A, c)) + 1
      /\ Cardinality(InSector(B, c)) <= Cardinality(InSector(S, c))
      /\ Cardinality(InSector(A, c)) \in Nat /\ Cardinality(InSector(S, c)) \in Nat
  BY <1>1, Counts, CountsAdd, CountsGrow
<1>4. ASSUME NEW f \in Flags
      PROVE  /\ Flagged(B, f) = Flagged(A, f) + (IF f \in pool[c].flags THEN 1 ELSE 0)
             /\ Flagged(B, f) <= Flagged(S, f) /\ Flagged(S, f) <= Flagged(B, f) + n - Cardinality(B)
             /\ Flagged(A, f) \in Nat /\ Flagged(B, f) \in Nat /\ Flagged(S, f) \in Nat
  <2>1. Flagged(A, f) \in Nat /\ Flagged(B, f) \in Nat /\ Flagged(S, f) \in Nat
    BY <1>1, Counts
  <2>2. Flagged(B, f) = Flagged(A, f) + (IF f \in pool[c].flags THEN 1 ELSE 0)
    BY <1>1, CountsAdd
  <2>3. Flagged(B, f) <= Flagged(S, f)
    BY <1>1, CountsGrow
  <2>4. Flagged(S, f) <= Flagged(B, f) + n - Cardinality(B)
    BY <1>1, FlaggedBound
  <2> QED
    BY <2>1, <2>2, <2>3, <2>4
<1>5. /\ Outside(B) = Outside(A) + (IF pool[c].domain # "main" THEN 1 ELSE 0)
      /\ External(B) = External(A) + (IF pool[c].domain = "external" THEN 1 ELSE 0)
      /\ Outside(B) <= Outside(S) /\ External(B) <= External(S)
      /\ Outside(A) \in Nat /\ External(A) \in Nat /\ Outside(S) \in Nat /\ External(S) \in Nat
  BY <1>1, Counts, CountsAdd, CountsGrow
<1>6. Cardinality(A) < n
  BY <1>2
<1>7. FitsCaps(A, c, n)
  <2>1. Cardinality(InSector(A, c)) < PerSector
    <3>1. Cardinality(InSector(S, c)) <= PerSector
      BY DEF Lawful
    <3> QED
      BY <1>3, <3>1, SelectionAssumption
  <2>2. pool[c].domain # "main" => Outside(A) < Lesser(2, Missing(n, RequiredMain(n)))
    <3>1. Outside(S) <= 2 /\ n - Outside(S) >= RequiredMain(n)
      BY DEF Lawful
    <3>2. Outside(S) <= Missing(n, RequiredMain(n))
      BY <1>2, <1>5, <3>1 DEF Missing, RequiredMain
    <3>3. Missing(n, RequiredMain(n)) \in Nat
      BY <1>2 DEF Missing, RequiredMain
    <3> QED
      BY <1>5, <3>1, <3>2, <3>3 DEF Lesser
  <2>3. pool[c].domain = "external" => External(A) < 1
    <3>1. External(S) <= 1
      BY DEF Lawful
    <3> QED
      BY <1>5, <3>1
  <2>4. Retreat => /\ "elastic" \in pool[c].flags => Flagged(A, "elastic") < 1
                   /\ "hot" \in pool[c].flags => Flagged(A, "hot") < 2
    <3>1. Retreat => Flagged(S, "elastic") <= 1 /\ Flagged(S, "hot") <= 2
      BY DEF Lawful
    <3>2. "elastic" \in Flags /\ "hot" \in Flags
      BY DEF Flags
    <3> QED
      BY <1>4, <3>1, <3>2
  <2> QED
    BY <2>1, <2>2, <2>3, <2>4 DEF FitsCaps
<1>8. LeavesSlots(A, c, n)
  <2> DEFINE req == RequiredUnexhausted(n)
             has == Flagged(B, "unexhausted")
  <2>1. "unexhausted" \in Flags
    BY DEF Flags
  <2>2. has \in Nat /\ Flagged(S, "unexhausted") \in Nat
        /\ Flagged(S, "unexhausted") <= has + n - Cardinality(B)
    BY <1>4, <2>1
  <2>3. req \in Nat /\ req <= Flagged(S, "unexhausted")
    <3>1. Overheated => Flagged(S, "unexhausted") >= Lesser(2, n)
      BY DEF Lawful
    <3> QED
      BY <1>2, <2>2, <3>1 DEF RequiredUnexhausted, Lesser
  <2> HIDE DEF req, has
  <2>4. Missing(req, has) <= n - Cardinality(B)
    BY <1>2, <2>2, <2>3 DEF Missing
  <2> QED
    BY <2>4 DEF LeavesSlots, req, has
<1> QED
  BY <1>6, <1>7, <1>8 DEF Takes

\* No stock that was left out could take the place of one further down: it was
\* rejected with what was chosen before it, and all of that is still in the list.
LEMMA NoRankGivenAway ==
    ASSUME pool \in Seq(Kinds), ~ BreadthRecovery, NEW R, IsRanking(R),
           NEW n \in 1 .. TargetSize, Cardinality(Pass(R, n)) = n,
           NEW i \in 1 .. Len(R), NEW j \in 1 .. Len(R), R[i].score > R[j].score,
           R[i].code \notin Pass(R, n), R[j].code \in Pass(R, n)
    PROVE  ~ Lawful((Pass(R, n) \ {R[j].code}) \cup {R[i].code})
<1> DEFINE p == Pass(R, n)
           x == R[i].code
           y == R[j].code
           A == Chosen(R, n)[i - 1]
           rest == p \ {y}
           S == rest \cup {x}
<1>1. Len(R) \in Nat /\ x \in Eligible /\ y \in Eligible /\ i < j
  BY RankingPlaces
<1>2. i - 1 \in 0 .. Len(R) /\ i \in 0 .. Len(R)
  BY <1>1
<1>3. p \subseteq Eligible /\ A \subseteq p /\ A \subseteq First(R, i - 1)
  BY <1>2, PassGrows
<1>4. y \notin A
  <2>1. \A k \in 1 .. i - 1 : R[k].code # y
    <3>1. \A k \in 1 .. i - 1 : k \in 1 .. Len(R) /\ k # j
      BY <1>1
    <3> QED
      BY <3>1, RankingPlaces
  <2> QED
    BY <1>3, <2>1 DEF First
<1>5. ~ Takes(A, x, n)
  <2>1. Chosen(R, n)[i] \subseteq p
    BY <1>2, PassGrows
  <2>2. \A k \in 1 .. Len(R) :
          Chosen(R, n)[k] = IF Takes(Chosen(R, n)[k - 1], R[k].code, n)
                            THEN Chosen(R, n)[k - 1] \cup {R[k].code} ELSE Chosen(R, n)[k - 1]
    BY <1>1, PassSteps
  <2> QED
    BY <2>1, <2>2
<1> HIDE DEF p, x, y, A
<1>6. /\ S \in SUBSET Stocks /\ rest \in SUBSET Stocks /\ p \in SUBSET Stocks
      /\ A \in SUBSET S /\ x \in S /\ x \notin A /\ x \in Stocks /\ x \notin rest
      /\ y \in Stocks /\ y \notin rest /\ rest \cup {y} = p
  BY <1>1, <1>3, <1>4, StockFacts DEF p, x, y
<1>7. Cardinality(S) = n
  <2>1. Cardinality(rest \cup {x}) = Cardinality(rest) + 1
    BY <1>6, CountsAdd
  <2>2. Cardinality(rest \cup {y}) = Cardinality(rest) + 1
    BY <1>6, CountsAdd
  <2> QED
    BY <1>6, <2>1, <2>2 DEF p
<1>8. ~ Lawful(S)
  <2>1. ~ Takes(A, x, Cardinality(S))
    BY <1>5, <1>7
  <2> HIDE DEF S
  <2> QED
    BY <1>6, <2>1, RejectedIsUnlawful
<1> QED
  BY <1>8 DEF p, x, y

\* When every sector that a set P of stocks leaves something out of is full in P,
\* no set that keeps the limit per sector is larger: one by one its stocks outside
\* P are exchanged for stocks of the same sector in P.
LEMMA FullSectorsAreMost ==
    ASSUME pool \in Seq(Kinds), NEW P \in SUBSET Eligible,
           \A c \in Eligible \ P : Cardinality(InSector(P, c)) >= PerSector,
           NEW other \in SUBSET Eligible,
           \A c \in other : Cardinality(InSector(other, c)) <= PerSector
    PROVE  Cardinality(other) <= Cardinality(P)
<1> DEFINE Fits == {X \in SUBSET Eligible :
                      /\ \A c \in X : Cardinality(InSector(X, c)) <= PerSector
                      /\ Cardinality(X) = Cardinality(other)}
           Far == {Cardinality(X \ P) : X \in Fits}
<1>1. \A X \in SUBSET Eligible : /\ X \in SUBSET Stocks /\ X \ P \in SUBSET Stocks
                                 /\ Cardinality(X) \in Nat /\ Cardinality(X \ P) \in Nat
  BY StockFacts, Counts
<1>2. PICK k \in Far : \A l \in Far : k <= l
  <2>1. Far \in SUBSET Nat /\ Far # {}
    BY <1>1
  <2> HIDE DEF Far
  <2> QED
    BY <2>1, LeastNumber
<1>3. PICK X \in Fits : k = Cardinality(X \ P)
  OBVIOUS
<1>4. X \in SUBSET Eligible /\ X \in SUBSET Stocks /\ P \in SUBSET Stocks
  BY <1>1
<1>5. CASE X \ P = {}
  <2>1. X \in SUBSET P
    BY <1>5
  <2>2. Cardinality(X) <= Cardinality(P)
    BY <1>4, <2>1, Sizes
  <2> QED
    BY <2>2
<1>6. ASSUME NEW c \in X \ P
      PROVE  FALSE
  <2>1. /\ c \in Eligible /\ c \in Stocks /\ Cardinality(InSector(P, c)) >= PerSector
        /\ Cardinality(InSector(X, c)) <= PerSector
    BY <1>4
  <2>2. PICK d \in InSector(P, c) : d \notin X
    <3>1. SUFFICES ASSUME InSector(P, c) \subseteq X PROVE FALSE
      OBVIOUS
    <3>2. InSector(P, c) \subseteq InSector(X, c) /\ c \in InSector(X, c) /\ c \notin InSector(P, c)
      BY <3>1 DEF InSector
    <3>3. InSector(X, c) \in SUBSET Stocks
      BY <1>4 DEF InSector
    <3>4. Cardinality(InSector(P, c)) < Cardinality(InSector(X, c))
      BY <3>2, <3>3, Sizes
    <3>5. Cardinality(InSector(P, c)) \in Nat /\ Cardinality(InSector(X, c)) \in Nat
      BY <1>4, Counts
    <3> QED
      BY <2>1, <3>4, <3>5, SelectionAssumption
  <2> DEFINE rest == X \ {c}
             Y == rest \cup {d}
  <2>3. d \in P /\ d \in Eligible /\ d \in Stocks /\ pool[d].sector = pool[c].sector
    BY <1>4, <2>2 DEF InSector
  <2>4. /\ rest \in SUBSET Stocks /\ c \notin rest /\ d \notin rest /\ rest \cup {c} = X
        /\ Y \in SUBSET Eligible
    BY <1>4, <2>1, <2>2, <2>3
  <2>5. Cardinality(rest \cup {d}) = Cardinality(rest \cup {c})
    <3>1. Cardinality(rest \cup {d}) = Cardinality(rest) + 1
      BY <2>3, <2>4, CountsAdd
    <3>2. Cardinality(rest \cup {c}) = Cardinality(rest) + 1
      BY <2>1, <2>4, CountsAdd
    <3> QED
      BY <3>1, <3>2
  <2>6. \A e : Cardinality(InSector(rest \cup {d}, e)) = Cardinality(InSector(rest \cup {c}, e))
    <3> HIDE DEF rest
    <3>1. \A e : Cardinality(InSector(rest \cup {d}, e)) =
                 Cardinality(InSector(rest, e)) + (IF pool[d].sector = pool[e].sector THEN 1 ELSE 0)
      BY <2>3, <2>4, CountsAdd
    <3>2. \A e : Cardinality(InSector(rest \cup {c}, e)) =
                 Cardinality(InSector(rest, e)) + (IF pool[c].sector = pool[e].sector THEN 1 ELSE 0)
      BY <2>1, <2>4, CountsAdd
    <3> QED
      BY <2>3, <3>1, <3>2
  <2>7. ASSUME NEW e \in Y
        PROVE  Cardinality(InSector(Y, e)) <= PerSector
    <3>1. Cardinality(InSector(Y, e)) = Cardinality(InSector(X, e))
      BY <2>4, <2>6
    <3>2. CASE e = d
      <4>1. InSector(X, d) = InSector(X, c)
        BY <2>3 DEF InSector
      <4> QED
        BY <2>1, <3>1, <3>2, <4>1
    <3>3. CASE e # d
      <4>1. e \in X
        BY <2>4, <3>3
      <4> QED
        BY <3>1, <4>1
    <3> QED
      BY <3>2, <3>3
  <2>8. Y \in Fits
    BY <2>4, <2>5, <2>7
  <2>9. Cardinality(Y \ P) < Cardinality(X \ P)
    <3>1. Y \ P \in SUBSET (X \ P) /\ Y \ P # X \ P
      BY <1>6, <2>3, <2>4
    <3>2. X \ P \in SUBSET Stocks
      BY <1>4
    <3> HIDE DEF Y
    <3> QED
      BY <3>1, <3>2, Sizes
  <2>10. Cardinality(Y \ P) \in Far /\ Cardinality(Y \ P) \in Nat /\ k \in Nat
    BY <1>1, <1>3, <2>4, <2>8
  <2> HIDE DEF Far, Y
  <2>11. k <= Cardinality(Y \ P)
    BY <1>2, <2>10
  <2>12. Cardinality(Y \ P) < k
    BY <1>3, <2>9
  <2> QED
    BY <2>10, <2>11, <2>12
<1> QED
  BY <1>5, <1>6

\* With nothing but the limit per sector at work, the pass for the size of a lawful
\* list fills it: it leaves a stock out only when its sector is full.
LEMMA PassFillsLawfulSize ==
    ASSUME pool \in Seq(Kinds), NEW R, IsRanking(R),
           ~ BreadthRecovery, ~ Retreat, ~ Overheated,
           \A c \in Eligible : pool[c].domain = "main",
           NEW other \in SUBSET Eligible, Lawful(other)
    PROVE  Accepted(Pass(R, Cardinality(other)), Cardinality(other))
<1> DEFINE n == Cardinality(other)
           p == Pass(R, n)
<1>1. n \in Nat
  BY StockFacts, Counts
<1>2. WithinLimits(p, n)
  BY <1>1, PassKeepsLimits
<1>3. p \in SUBSET Eligible /\ p \in SUBSET Stocks /\ Cardinality(p) \in Nat /\ Cardinality(p) <= n
  BY <1>2, StockFacts, Counts DEF WithinLimits
<1>4. ASSUME Cardinality(p) < n, NEW c \in Eligible \ p
      PROVE  Cardinality(InSector(p, c)) >= PerSector
  <2>1. PICK i \in 1 .. Len(R) : R[i].code = c
    BY DEF IsRanking
  <2> DEFINE A == Chosen(R, n)[i - 1]
  <2>2. i - 1 \in 0 .. Len(R) /\ i \in 0 .. Len(R) /\ Len(R) \in Nat
    BY RankingPlaces
  <2>3. A \subseteq p /\ Chosen(R, n)[i] \subseteq p
    BY <2>2, PassGrows
  <2>4. ~ Takes(A, c, n)
    <3>1. Chosen(R, n)[i] = IF Takes(A, c, n) THEN A \cup {c} ELSE A
      BY <2>1, <2>2, PassSteps
    <3> QED
      BY <1>4, <2>3, <3>1
  <2> HIDE DEF A, p
  <2>5. A \in SUBSET p /\ A \in SUBSET Stocks /\ c \in Stocks /\ c \notin A
    BY <1>3, <1>4, <2>3, StockFacts
  <2>6. Cardinality(A) \in Nat /\ Cardinality(A) < n /\ Cardinality(A \cup {c}) = Cardinality(A) + 1
    <3>1. Cardinality(A) \in Nat /\ Cardinality(A) <= Cardinality(p)
      BY <1>3, <2>5, Sizes
    <3>2. Cardinality(A \cup {c}) = Cardinality(A) + 1
      BY <2>5, CountsAdd
    <3> QED
      BY <1>1, <1>3, <1>4, <3>1, <3>2
  <2>7. LeavesSlots(A, c, n)
    <3>1. A \cup {c} \in SUBSET Stocks
      BY <2>5
    <3>2. Flagged(A \cup {c}, "unexhausted") \in Nat
      BY <3>1, Counts
    <3> QED
      BY <1>1, <2>6, <3>2 DEF LeavesSlots, RequiredUnexhausted, Missing
  <2>8. Cardinality(InSector(A, c)) >= PerSector
    <3>1. ~ FitsCaps(A, c, n)
      BY <2>4, <2>6, <2>7 DEF Takes
    <3>2. pool[c].domain = "main"
      BY <1>4
    <3>3. Cardinality(InSector(A, c)) \in Nat
      BY <2>5, Counts
    <3> QED
      BY <3>1, <3>2, <3>3, SelectionAssumption DEF FitsCaps
  <2>9. /\ Cardinality(InSector(A, c)) <= Cardinality(InSector(p, c))
        /\ Cardinality(InSector(A, c)) \in Nat /\ Cardinality(InSector(p, c)) \in Nat
    BY <1>3, <2>5, Counts, CountsGrow
  <2> QED
    BY <2>8, <2>9, SelectionAssumption
<1>5. Cardinality(p) = n
  <2>1. SUFFICES ASSUME Cardinality(p) < n PROVE FALSE
    BY <1>1, <1>3
  <2>2. \A c \in other : Cardinality(InSector(other, c)) <= PerSector
    BY DEF Lawful
  <2>3. \A c \in Eligible \ p : Cardinality(InSector(p, c)) >= PerSector
    BY <1>4, <2>1
  <2>4. n <= Cardinality(p)
    <3> HIDE DEF p
    <3> QED
      BY <1>3, <2>2, <2>3, FullSectorsAreMost
  <2> QED
    BY <1>1, <1>3, <2>1, <2>4
<1>6. Outside(p) = 0
  <2>1. {c \in p : pool[c].domain # "main"} = {}
    BY <1>3
  <2> QED
    BY <2>1, FS_EmptySet DEF Outside
<1>7. Flagged(p, "unexhausted") \in Nat
  BY <1>3, Counts
<1> HIDE DEF p
<1>8. Accepted(p, n)
  BY <1>1, <1>5, <1>6, <1>7 DEF Accepted, RequiredMain, RequiredUnexhausted
<1> QED
  BY <1>8 DEF p

-----------------------------------------------------------------------------
(* The weeks                                                               *)

\* The invariant: stocks are of the kinds there are, and once they are ranked, the
\* list is the portfolio of that ranking of these stocks, in this market state.
WeekOK ==
    /\ pool \in Seq(Kinds) /\ market \in MarketStates
    /\ \/ ranked = <<>> /\ list = {}
       \/ ranked = Ranked /\ list = Portfolio(ranked)

\* Nothing is chosen from an empty ranking.
LEMMA EmptyPortfolio ==
    ASSUME NEW R, R = <<>>
    PROVE  Portfolio(R) = {}
<1>1. \A n : Pass(R, n) = {}
  <2> TAKE n
  <2>1. Len(R) = 0
    OBVIOUS
  <2>2. Chosen(R, n)[0] = {}
    BY <2>1, PassSteps
  <2> QED
    BY <2>1, <2>2 DEF Pass
<1>2. \A n \in 1 .. TargetSize : ~ Accepted(Pass(R, n), n)
  BY <1>1, FS_EmptySet, SelectionAssumption DEF Accepted
<1> QED
  BY <1>2, PortfolioFacts

\* Neither ranking nor portfolio changes while the stocks and the market state stay.
LEMMA SameWeek ==
    UNCHANGED <<pool, market>>
    => Ranked' = Ranked /\ Portfolio(ranked)' = Portfolio(ranked')
<1>1. UNCHANGED pool => Ranked' = Ranked
  BY DEF Ranked, TopFifth, RankBy, Before, Precedes, FirstScore, Eligible, InSector, Bucket, Stocks
<1>2. UNCHANGED <<pool, market>> => Portfolio(ranked)' = Portfolio(ranked')
  BY DEF Portfolio, Pass, Chosen, Accepted, Takes, FitsCaps, LeavesSlots, Retreat, BreadthRecovery,
         Overheated, Flagged, External, Outside, RequiredUnexhausted, InSector, Stocks
<1> QED
  BY <1>1, <1>2

\* Whatever the weeks bring, the list on record is the one that build_portfolio
\* makes of the ranking on record, and that ranking is the one of the week's
\* stocks (run_v9_rules).
THEOREM WeekInvariant == Spec => []WeekOK
<1>1. Init => WeekOK
  BY DEF Init, WeekOK, MarketStates
<1>2. WeekOK /\ [Next]_vars => WeekOK'
  <2> SUFFICES ASSUME WeekOK, [Next]_vars PROVE WeekOK'
    OBVIOUS
  <2>1. ASSUME NEW k \in Kinds, Observe(k)
        PROVE  WeekOK'
    <3>1. list = {}
      BY <2>1, EmptyPortfolio DEF Observe, WeekOK
    <3>2. pool' \in Seq(Kinds) /\ market' \in MarketStates /\ ranked' = <<>> /\ list' = {}
      BY <2>1, <3>1 DEF Observe, WeekOK
    <3> QED
      BY <3>2 DEF WeekOK
  <2>2. CASE Run
    <3>1. ranked' = Ranked /\ UNCHANGED <<pool, market>> /\ list' = Portfolio(ranked')
      BY <2>2 DEF Run
    <3>2. Ranked' = Ranked /\ Portfolio(ranked)' = Portfolio(ranked')
      BY <3>1, SameWeek
    <3>3. pool' \in Seq(Kinds) /\ market' \in MarketStates
      BY <3>1 DEF WeekOK
    <3> QED
      BY <3>1, <3>2, <3>3 DEF WeekOK
  <2>3. ASSUME NEW m \in Metrics, NextWeek(m)
        PROVE  WeekOK'
    <3>1. NextState(market, m) \in MarketStates
      BY DEF NextState, MarketStates, WeekOK
    <3> QED
      BY <2>3, <3>1 DEF NextWeek, WeekOK
  <2>4. CASE UNCHANGED vars
    <3>1. UNCHANGED <<pool, market, ranked, list>>
      BY <2>4 DEF vars
    <3> QED
      BY <3>1, SameWeek DEF WeekOK
  <2> QED
    BY <2>1, <2>2, <2>3, <2>4 DEF Next
<1> QED
  BY <1>1, <1>2, PTL DEF Spec

\* A list that is not empty is the pass of some size, accepted, and the ranking is
\* one of the week's eligible stocks.
LEMMA ListFacts ==
    ASSUME WeekOK, ranked # <<>>
    PROVE  /\ pool \in Seq(Kinds) /\ IsRanking(ranked) /\ list = Portfolio(ranked)
           /\ list # {} => \E n \in 1 .. TargetSize :
                              list = Pass(ranked, n) /\ Accepted(Pass(ranked, n), n)
<1>1. pool \in Seq(Kinds) /\ ranked = Ranked /\ list = Portfolio(ranked)
  BY DEF WeekOK
<1>2. IsRanking(ranked)
  BY <1>1, RankedRanks
<1> QED
  BY <1>1, <1>2, PortfolioFacts

\* The week's ranking holds each eligible stock once, best first (build_portfolio).
THEOREM RankingIsComplete == Spec => [](ranked # <<>> => IsRanking(ranked))
<1>1. WeekOK => (ranked # <<>> => IsRanking(ranked))
  BY ListFacts
<1> QED
  BY <1>1, WeekInvariant, PTL

\* For every pool of stocks, market state, target size and limit per sector, the
\* list keeps every limit and fills every quota of its own size, or is empty.
THEOREM PortfolioLawful == Spec => []PortfolioIsLawful
<1>1. WeekOK => PortfolioIsLawful
  <2> SUFFICES ASSUME WeekOK, list # {} PROVE Lawful(list)
    BY DEF PortfolioIsLawful
  <2>1. ranked # <<>>
    BY EmptyPortfolio DEF WeekOK
  <2>2. PICK n \in 1 .. TargetSize : list = Pass(ranked, n) /\ Accepted(Pass(ranked, n), n)
    BY <2>1, ListFacts
  <2>3. PICK R : R = ranked
    OBVIOUS
  <2>4. Lawful(Pass(R, n))
    BY <2>1, <2>2, <2>3, ListFacts, AcceptedIsLawful
  <2> QED
    BY <2>2, <2>3, <2>4
<1> QED
  BY <1>1, WeekInvariant, PTL

\* Outside a breadth recovery the single pass gives no rank away: a stock it left
\* out could not lawfully take the place of any stock with a lower score.
THEOREM BetterRanks == Spec => []BetterRanksPrevail
<1>1. WeekOK => BetterRanksPrevail
  <2> SUFFICES ASSUME WeekOK, ~ BreadthRecovery,
                      NEW i \in DOMAIN ranked, NEW j \in DOMAIN ranked,
                      ranked[i].score > ranked[j].score,
                      ranked[i].code \notin list, ranked[j].code \in list
               PROVE  ~ Lawful((list \ {ranked[j].code}) \cup {ranked[i].code})
    BY DEF BetterRanksPrevail
  <2>1. ranked # <<>>
    BY EmptyPortfolio DEF WeekOK
  <2>2. pool \in Seq(Kinds) /\ IsRanking(ranked)
    BY <2>1, ListFacts
  <2>3. PICK n \in 1 .. TargetSize : list = Pass(ranked, n) /\ Accepted(Pass(ranked, n), n)
    BY <2>1, ListFacts
  <2>4. PICK R : R = ranked
    OBVIOUS
  <2>5. i \in 1 .. Len(R) /\ j \in 1 .. Len(R)
    BY <2>2, <2>4 DEF IsRanking
  <2>6. Cardinality(Pass(R, n)) = n
    BY <2>3, <2>4 DEF Accepted
  <2>7. ~ Lawful((Pass(R, n) \ {R[j].code}) \cup {R[i].code})
    BY <2>2, <2>3, <2>4, <2>5, <2>6, NoRankGivenAway
  <2> QED
    BY <2>3, <2>4, <2>7
<1> QED
  BY <1>1, WeekInvariant, PTL

\* When only the limit per sector is at work, the shortage that build_portfolio
\* reports is real: no lawful list of eligible stocks is longer.
THEOREM MainShortage == Spec => []MainShortageIsReal
<1>1. WeekOK => MainShortageIsReal
  <2> SUFFICES ASSUME WeekOK, ranked # <<>>, ~ BreadthRecovery, ~ Retreat, ~ Overheated,
                      \A c \in Eligible : pool[c].domain = "main",
                      NEW other \in SUBSET Eligible, Lawful(other)
               PROVE  Cardinality(other) <= Cardinality(list)
    BY DEF MainShortageIsReal
  <2> DEFINE k == Cardinality(other)
  <2>1. pool \in Seq(Kinds) /\ IsRanking(ranked) /\ list = Portfolio(ranked)
    BY ListFacts
  <2>2. PICK R : R = ranked
    OBVIOUS
  <2>3. Accepted(Pass(R, k), k)
    BY <2>1, <2>2, PassFillsLawfulSize
  <2>4. k \in Nat /\ k <= TargetSize /\ Cardinality(list) \in Nat
    <3>1. other \in SUBSET Stocks /\ list \in SUBSET Stocks
      <4>1. \A n : Pass(R, n) \subseteq Eligible
        BY <2>1, <2>2, PassGrows
      <4>2. list \subseteq Eligible
        BY <2>1, <2>2, <4>1, PortfolioFacts
      <4> QED
        BY <2>1, <4>2, StockFacts
    <3> QED
      BY <2>1, <3>1, Counts DEF Lawful
  <2> HIDE DEF k
  <2>5. CASE k = 0
    BY <2>4, <2>5 DEF k
  <2>6. CASE k # 0
    <3>1. k \in 1 .. TargetSize
      BY <2>4, <2>6, SelectionAssumption
    <3>2. PICK n \in 1 .. TargetSize :
             /\ Portfolio(R) = Pass(R, n) /\ Accepted(Pass(R, n), n)
             /\ \A m \in 1 .. TargetSize : Accepted(Pass(R, m), m) => m <= n
      BY <2>3, <3>1, PortfolioFacts
    <3>3. k <= n /\ Cardinality(list) = n
      BY <2>1, <2>2, <2>3, <3>1, <3>2 DEF Accepted
    <3> QED
      BY <3>3 DEF k
  <2> QED
    BY <2>5, <2>6
<1> QED
  BY <1>1, WeekInvariant, PTL

=============================================================================
