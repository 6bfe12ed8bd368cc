-------------------------- MODULE SubsequenceProofs -------------------------
(***************************************************************************)
(* Facts about Subsequences, and the induction they rest on: every set of  *)
(* natural numbers has a least element, which is a theorem about sets and  *)
(* needs no operator to be instantiated.                                   *)
(***************************************************************************)
EXTENDS Subsequences, Integers, WellFoundedInduction, FiniteSetTheorems, TLAPS

\* A set of natural numbers that is not empty has a least element.
LEMMA Least ==
    ASSUME NEW T \in SUBSET Nat, T # {}
    PROVE  \E m \in T : \A n \in T : m <= n
<1>1. IsWellFoundedOn(OpToRel(<, Nat), Nat)
    BY NatLessThanWellFounded
<1>2. PICK m \in T : \A n \in T : ~ (<<n, m>> \in OpToRel(<, Nat))
    BY <1>1, WFMin
<1>3. \A n \in T : ~ (n < m)
    BY <1>2 DEF OpToRel
<1> QED
    BY <1>3

\* Induction over the natural numbers, stated of a set.
LEMMA Induction ==
    ASSUME NEW T, 0 \in T, \A n \in Nat : n \in T => n + 1 \in T
    PROVE  Nat \subseteq T
<1> SUFFICES ASSUME Nat \ T # {} PROVE FALSE
    OBVIOUS
<1>1. PICK m \in Nat \ T : \A n \in Nat \ T : m <= n
    BY Least
<1>2. m - 1 \in Nat
    BY <1>1
<1>3. m - 1 \in T
    BY <1>1, <1>2
<1> QED
    BY <1>1, <1>2, <1>3

-----------------------------------------------------------------------------
\* The places of a sequence.
LEMMA PlacesFinite ==
    ASSUME NEW n \in Nat, NEW I \in SUBSET (1 .. n)
    PROVE  /\ IsFiniteSet(I)
           /\ Cardinality(I) \in 0 .. n
           /\ \A J \in SUBSET I : /\ IsFiniteSet(J) /\ Cardinality(J) \in Nat
                                  /\ Cardinality(J) <= Cardinality(I)
<1>1. IsFiniteSet(1 .. n) /\ Cardinality(1 .. n) = n
    BY FS_Interval
<1>2. IsFiniteSet(I) /\ Cardinality(I) <= n
    BY <1>1, FS_Subset
<1>3. Cardinality(I) \in Nat
    BY <1>2, FS_CardinalityType
<1>4. ASSUME NEW J \in SUBSET I
      PROVE  /\ IsFiniteSet(J) /\ Cardinality(J) \in Nat
             /\ Cardinality(J) <= Cardinality(I)
    BY <1>2, FS_Subset, FS_CardinalityType
<1> QED
    BY <1>2, <1>3, <1>4

\* The places up to i.
LEMMA UptoFinite ==
    ASSUME NEW n \in Nat, NEW I \in SUBSET (1 .. n), NEW i
    PROVE  /\ Upto(I, i) \in SUBSET I
           /\ IsFiniteSet(Upto(I, i))
           /\ Rank(I, i) \in 0 .. Cardinality(I)
<1>1. Upto(I, i) \in SUBSET I
    BY DEF Upto
<1>2. /\ IsFiniteSet(Upto(I, i)) /\ Cardinality(Upto(I, i)) \in Nat
      /\ Cardinality(Upto(I, i)) <= Cardinality(I) /\ Cardinality(I) \in Nat
    BY <1>1, PlacesFinite
<1> QED
    BY <1>1, <1>2 DEF Rank

\* From one place to the next, the rank grows by one, if at all.
LEMMA RankStep ==
    ASSUME NEW n \in Nat, NEW I \in SUBSET (1 .. n)
    PROVE  /\ Rank(I, 0) = 0
           /\ Rank(I, n) = Cardinality(I)
           /\ \A i \in Nat \ {0} :
                Rank(I, i) = IF i \in I THEN Rank(I, i - 1) + 1 ELSE Rank(I, i - 1)
<1>1. \A j \in I : j \in Nat /\ ~ (j <= 0) /\ j <= n
    OBVIOUS
<1>2. Upto(I, 0) = {} /\ Upto(I, n) = I
    BY <1>1, Zenon DEF Upto
<1>3. ASSUME NEW i \in Nat \ {0}
      PROVE  Rank(I, i) = IF i \in I THEN Rank(I, i - 1) + 1 ELSE Rank(I, i - 1)
    <2>1. IsFiniteSet(Upto(I, i - 1))
        BY UptoFinite
    <2>2. CASE i \in I
        <3>1. \A j \in I : j <= i <=> j <= i - 1 \/ j = i
            BY <1>1
        <3>2. Upto(I, i) = Upto(I, i - 1) \cup {i}
            BY <2>2, <3>1, Zenon DEF Upto
        <3>3. i \notin Upto(I, i - 1)
            BY DEF Upto
        <3>4. Cardinality(Upto(I, i - 1) \cup {i}) = Cardinality(Upto(I, i - 1)) + 1
            BY <2>1, <3>3, FS_AddElement
        <3> QED
            BY <2>2, <3>2, <3>4 DEF Rank
    <2>3. CASE i \notin I
        <3>1. \A j \in I : j <= i <=> j <= i - 1
            BY <1>1, <2>3
        <3>2. Upto(I, i) = Upto(I, i - 1)
            BY <3>1, Zenon DEF Upto
        <3> QED
            BY <2>3, <3>2 DEF Rank
    <2> QED
        BY <2>2, <2>3
<1> QED
    BY <1>2, <1>3, FS_EmptySet DEF Rank

\* A later place has a higher rank.
LEMMA RankLess ==
    ASSUME NEW n \in Nat, NEW I \in SUBSET (1 .. n), NEW i \in I, NEW j \in I, i < j
    PROVE  Rank(I, i) < Rank(I, j)
<1>1. \A k \in I : k \in Nat
    OBVIOUS
<1>2. (\A k \in I : k <= i => k <= j) /\ j <= j /\ ~ (j <= i)
    BY <1>1
<1>3. Upto(I, i) \subseteq Upto(I, j) /\ j \in Upto(I, j) /\ j \notin Upto(I, i)
    BY <1>2, Zenon DEF Upto
<1>4. /\ IsFiniteSet(Upto(I, i)) /\ IsFiniteSet(Upto(I, j))
      /\ Rank(I, i) \in 0 .. Cardinality(I) /\ Rank(I, j) \in 0 .. Cardinality(I)
    BY UptoFinite
<1>5. Cardinality(I) \in Nat
    BY PlacesFinite
<1>6. Rank(I, i) <= Rank(I, j) /\ Rank(I, i) # Rank(I, j)
    BY <1>3, <1>4, FS_Subset DEF Rank
<1> QED
    BY <1>4, <1>5, <1>6

LEMMA RankGrows ==
    ASSUME NEW n \in Nat, NEW I \in SUBSET (1 .. n), NEW i \in I, NEW j \in I
    PROVE  /\ Rank(I, i) \in 1 .. Cardinality(I)
           /\ i < j <=> Rank(I, i) < Rank(I, j)
           /\ i = j <=> Rank(I, i) = Rank(I, j)
<1>1. i \in Nat \ {0} /\ j \in Nat
    OBVIOUS
<1>2. /\ Rank(I, i) \in 0 .. Cardinality(I) /\ Rank(I, i - 1) \in 0 .. Cardinality(I)
      /\ Rank(I, j) \in 0 .. Cardinality(I) /\ Cardinality(I) \in Nat
    BY UptoFinite, PlacesFinite
<1>3. Rank(I, i) = Rank(I, i - 1) + 1
    BY <1>1, RankStep
<1>4. (i < j => Rank(I, i) < Rank(I, j)) /\ (j < i => Rank(I, j) < Rank(I, i))
    BY RankLess
<1> QED
    BY <1>1, <1>2, <1>3, <1>4

\* Nth and Rank are the inverse of each other, and Nth follows the order.
LEMMA NthRank ==
    ASSUME NEW n \in Nat, NEW I \in SUBSET (1 .. n)
    PROVE  /\ \A k \in 1 .. Cardinality(I) : Nth(I, k) \in I /\ Rank(I, Nth(I, k)) = k
           /\ \A i \in I : Rank(I, i) \in 1 .. Cardinality(I) /\ Nth(I, Rank(I, i)) = i
           /\ \A j, k \in 1 .. Cardinality(I) : j < k <=> Nth(I, j) < Nth(I, k)
<1>1. Cardinality(I) \in Nat
    BY PlacesFinite
<1>2. ASSUME NEW k \in 1 .. Cardinality(I)
      PROVE  Nth(I, k) \in I /\ Rank(I, Nth(I, k)) = k
    <2> DEFINE T == {i \in Nat : Rank(I, i) >= k}
    <2>1. n \in T
        BY <1>1, RankStep
    <2>2. T \in SUBSET Nat /\ T # {}
        BY <2>1
    <2>3. PICK m \in T : \A i \in T : m <= i
        <3> HIDE DEF T
        <3> QED
            BY <2>2, Least
    <2>4. m \in Nat \ {0} /\ Rank(I, m) >= k
        <3>1. Rank(I, 0) = 0 /\ k > 0
            BY RankStep
        <3> QED
            BY <2>3, <3>1
    <2>5. m - 1 \in Nat /\ m - 1 \notin T
        BY <2>3, <2>4
    <2>6. /\ Rank(I, m) \in 0 .. Cardinality(I) /\ Rank(I, m - 1) \in 0 .. Cardinality(I)
          /\ Rank(I, m) = IF m \in I THEN Rank(I, m - 1) + 1 ELSE Rank(I, m - 1)
        BY ZenonT(60), <2>4, RankStep, UptoFinite
    <2>7. ~ (Rank(I, m - 1) >= k)
        BY <2>5
    <2>8. m \in I /\ Rank(I, m) = k
        BY <1>1, <2>4, <2>6, <2>7
    <2> QED
        BY <2>8 DEF Nth
<1>3. \A i, j \in I : /\ Rank(I, i) \in 1 .. Cardinality(I)
                      /\ i < j <=> Rank(I, i) < Rank(I, j)
                      /\ i = j <=> Rank(I, i) = Rank(I, j)
    BY RankGrows
<1>4. ASSUME NEW i \in I
      PROVE  Rank(I, i) \in 1 .. Cardinality(I) /\ Nth(I, Rank(I, i)) = i
    <2>1. Rank(I, i) \in 1 .. Cardinality(I)
        BY <1>3
    <2>2. Nth(I, Rank(I, i)) \in I /\ Rank(I, Nth(I, Rank(I, i))) = Rank(I, i)
        BY <1>2, <2>1
    <2> QED
        BY <1>3, <2>1, <2>2
<1>5. ASSUME NEW j \in 1 .. Cardinality(I), NEW k \in 1 .. Cardinality(I)
      PROVE  j < k <=> Nth(I, j) < Nth(I, k)
    <2> DEFINE a == Nth(I, j)
               b == Nth(I, k)
    <2>1. a \in I /\ Rank(I, a) = j /\ b \in I /\ Rank(I, b) = k
        BY <1>2
    <2> HIDE DEF a, b
    <2>2. a < b <=> Rank(I, a) < Rank(I, b)
        BY <1>3, <2>1
    <2>3. j < k <=> a < b
        BY <2>1, <2>2
    <2> QED
        BY <2>3 DEF a, b
<1> QED
    BY <1>2, <1>4, <1>5

\* What a subsequence is: the elements at the places, in their order.
LEMMA SubsequenceElements ==
    ASSUME NEW S, NEW s \in Seq(S), NEW I \in SUBSET (1 .. Len(s))
    PROVE  LET t == Subsequence(s, I)
           IN  /\ t \in Seq(S)
               /\ Len(t) = Cardinality(I) /\ Len(t) \in 0 .. Len(s)
               /\ DOMAIN t = 1 .. Cardinality(I)
               /\ \A k \in 1 .. Cardinality(I) : Nth(I, k) \in I /\ t[k] = s[Nth(I, k)]
<1>1. Len(s) \in Nat /\ Cardinality(I) \in 0 .. Len(s)
    BY PlacesFinite
<1>2. \A k \in 1 .. Cardinality(I) : Nth(I, k) \in I
    <2> DEFINE n == Len(s)
    <2>1. n \in Nat /\ I \in SUBSET (1 .. n)
        BY <1>1
    <2> HIDE DEF n
    <2> QED
        BY <2>1, NthRank
<1>3. \A k \in 1 .. Cardinality(I) : s[Nth(I, k)] \in S
    <2>1. \A i \in I : s[i] \in S
        <3>1. \A i \in I : i \in 1 .. Len(s)
            OBVIOUS
        <3>2. \A i \in 1 .. Len(s) : s[i] \in S
            OBVIOUS
        <3> QED
            BY <3>1, <3>2
    <2> QED
        BY <1>2, <2>1
<1>4. Subsequence(s, I) \in [1 .. Cardinality(I) -> S]
    BY <1>3 DEF Subsequence
<1>5. Subsequence(s, I) \in Seq(S)
    BY <1>1, <1>4
<1> QED
    BY <1>1, <1>2, <1>4, <1>5 DEF Subsequence

=============================================================================
