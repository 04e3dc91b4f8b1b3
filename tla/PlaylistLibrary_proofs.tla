----------------------- MODULE PlaylistLibrary_proofs -----------------------
(***************************************************************************)
(* Proofs about PlaylistLibrary, for any number of entries and any plans:  *)
(* playlists of any length and any number of calls.                        *)
(***************************************************************************)
EXTENDS PlaylistLibrary, FiniteSetTheorems, SequenceTheorems, TLAPS

-----------------------------------------------------------------------------
(* The order of a finite set of indices *)

\* The rank of a member of a finite set of integers is below the size of the set, and
\* grows with the member.
LEMMA RankGrows ==
    ASSUME NEW S \in SUBSET Int, IsFiniteSet(S)
    PROVE  /\ \A i \in Int : Before(S, i) \in 0 .. Cardinality(S)
           /\ \A i \in S : Before(S, i) \in 0 .. Cardinality(S) - 1
           /\ \A i, j \in S : i < j => Before(S, i) < Before(S, j)
<1>. DEFINE below(i) == {j \in S : j < i}
<1>1. ASSUME NEW i \in Int
      PROVE  IsFiniteSet(below(i)) /\ Cardinality(below(i)) \in Nat
             /\ Cardinality(below(i)) <= Cardinality(S)
  BY below(i) \in SUBSET S, FS_Subset, FS_CardinalityType
<1>2. Cardinality(S) \in Nat
  BY FS_CardinalityType
<1>3. \A i \in Int : Before(S, i) = Cardinality(below(i))
  BY DEF Before
<1>4. ASSUME NEW i \in S PROVE Cardinality(below(i)) <= Cardinality(S) - 1
  <2>1. below(i) \in SUBSET (S \ {i})
    OBVIOUS
  <2>2. IsFiniteSet(S \ {i}) /\ Cardinality(S \ {i}) = Cardinality(S) - 1
    BY FS_RemoveElement
  <2>. HIDE DEF below
  <2>. QED
    BY <2>1, <2>2, FS_Subset
<1>5. ASSUME NEW i \in S, NEW j \in S, i < j
      PROVE  Cardinality(below(i)) < Cardinality(below(j))
  <2>1. below(i) \in SUBSET (below(j) \ {i}) /\ i \in below(j)
    <3>1. i \in below(j)
      BY <1>5
    <3>2. i \in Int /\ j \in Int
      OBVIOUS
    <3>3. ASSUME NEW k \in below(i) PROVE k \in below(j) /\ k # i
      BY <1>5, <3>2, k \in Int
    <3>. HIDE DEF below
    <3>. QED
      BY <3>1, <3>3
  <2>2. IsFiniteSet(below(j)) /\ Cardinality(below(j)) \in Nat
    BY <1>1
  <2>. HIDE DEF below
  <2>3. /\ IsFiniteSet(below(j) \ {i})
        /\ Cardinality(below(j) \ {i}) = Cardinality(below(j)) - 1
    BY <2>1, <2>2, FS_RemoveElement
  <2>4. Cardinality(below(i)) <= Cardinality(below(j) \ {i})
    BY <2>1, <2>3, FS_Subset
  <2>5. Cardinality(below(i)) \in Nat
    BY <1>1
  <2>. QED
    BY <2>2, <2>3, <2>4, <2>5
<1>. HIDE DEF below
<1>6. \A i \in Int : Before(S, i) \in 0 .. Cardinality(S)
  BY <1>1, <1>2, <1>3
<1>7. \A i \in S : Before(S, i) \in 0 .. Cardinality(S) - 1
  BY <1>1, <1>2, <1>3, <1>4
<1>8. \A i, j \in S : i < j => Before(S, i) < Before(S, j)
  BY <1>3, <1>5
<1>. QED
  BY <1>6, <1>7, <1>8

\* Every rank below the size of the set is that of one member: Nth and the rank are
\* inverse to each other.
LEMMA NthHasRank ==
    ASSUME NEW S \in SUBSET Int, IsFiniteSet(S)
    PROVE  /\ Cardinality(S) \in Nat
           /\ \A k \in 1 .. Cardinality(S) : Nth(S, k) \in S /\ Before(S, Nth(S, k)) = k - 1
           /\ \A i \in S : Nth(S, Before(S, i) + 1) = i
<1>. DEFINE n == Cardinality(S)
            rank == [i \in S |-> Before(S, i)]
<1>1. n \in Nat
  BY FS_CardinalityType
<1>2. rank \in [S -> 0 .. n - 1]
  BY RankGrows
<1>3. \A i, j \in S : Before(S, i) = Before(S, j) => i = j
  <2>1. SUFFICES ASSUME NEW i \in S, NEW j \in S, Before(S, i) = Before(S, j), i # j
                 PROVE  FALSE
    OBVIOUS
  <2>2. i < j \/ j < i
    BY <2>1
  <2>3. Before(S, i) \in Int
    BY <1>1, RankGrows
  <2>. QED
    BY <2>1, <2>2, <2>3, RankGrows
<1>4. IsInjective(rank)
  BY <1>3 DEF IsInjective
<1>5. rank \in Injection(S, 0 .. n - 1)
  <2>. HIDE DEF rank
  <2>. QED
    BY <1>2, <1>4 DEF Injection
<1>6. IsFiniteSet(0 .. n - 1) /\ Cardinality(0 .. n - 1) = n
  <2>. HIDE DEF n
  <2>. QED
    BY <1>1, FS_Interval
<1>7. rank \in Surjection(S, 0 .. n - 1)
  <2>. HIDE DEF rank
  <2>. QED
    BY <1>5, <1>6, FS_Injection
<1>8. ASSUME NEW k \in 1 .. n PROVE \E i \in S : Before(S, i) = k - 1
  <2>1. k - 1 \in 0 .. n - 1
    BY <1>1
  <2>2. \E i \in S : rank[i] = k - 1
    <3>. HIDE DEF rank
    <3>. QED
      BY <1>7, <2>1 DEF Surjection
  <2>. QED
    BY <2>2
<1>9. \A k \in 1 .. n : Nth(S, k) \in S /\ Before(S, Nth(S, k)) = k - 1
  BY <1>8 DEF Nth
<1>10. ASSUME NEW i \in S PROVE Nth(S, Before(S, i) + 1) = i
  <2>1. Before(S, i) \in 0 .. n - 1
    BY RankGrows
  <2>2. Before(S, i) + 1 \in 1 .. n /\ (Before(S, i) + 1) - 1 = Before(S, i)
    BY <1>1, <2>1
  <2>3. /\ Nth(S, Before(S, i) + 1) \in S
        /\ Before(S, Nth(S, Before(S, i) + 1)) = Before(S, i)
    BY <1>9, <2>2
  <2>. QED
    BY <1>3, <2>3
<1>. QED
  BY <1>1, <1>9, <1>10

\* A member is the k-th one as soon as its rank is k - 1.
LEMMA RankIsNth ==
    ASSUME NEW S \in SUBSET Int, IsFiniteSet(S), NEW i \in S, NEW k \in Int,
           Before(S, i) = k - 1
    PROVE  Nth(S, k) = i
<1>1. Nth(S, Before(S, i) + 1) = i
  BY NthHasRank
<1>2. Before(S, i) + 1 = k
  OBVIOUS
<1>. QED
  BY <1>1, <1>2

\* A finite set of integers that has a member has a greatest one.
LEMMA GreatestExists ==
    ASSUME NEW S \in SUBSET Int, IsFiniteSet(S), S # {}
    PROVE  \E k \in S : \A j \in S : j <= k
<1>. DEFINE n == Cardinality(S)
<1>1. n \in Nat /\ n # 0
  BY FS_CardinalityType, FS_EmptySet
<1>2. Nth(S, n) \in S /\ Before(S, Nth(S, n)) = n - 1
  BY <1>1, NthHasRank
<1>3. ASSUME NEW j \in S, Nth(S, n) < j PROVE FALSE
  <2>1. Before(S, Nth(S, n)) < Before(S, j) /\ Before(S, j) \in 0 .. n - 1
    BY <1>2, <1>3, RankGrows
  <2>. HIDE DEF n
  <2>. QED
    BY <1>1, <1>2, <2>1
<1>4. \A j \in S : j <= Nth(S, n)
  <2>1. SUFFICES ASSUME NEW j \in S PROVE j <= Nth(S, n)
    OBVIOUS
  <2>2. j \in Int /\ Nth(S, n) \in Int
    BY <1>2
  <2>. QED
    BY <1>3, <2>2
<1>. QED
  BY <1>2, <1>4

-----------------------------------------------------------------------------
(* The items at a set of indices *)

\* The indices of a list, and the sets of them.
Indices(items) == 0 .. Len(items) - 1

\* The items at S are as many as S, each at the rank of its index.
LEMMA ItemsByRank ==
    ASSUME NEW items \in Seq(Entries), NEW S \in SUBSET Indices(items)
    PROVE  /\ IsFiniteSet(S) /\ Cardinality(S) \in Nat
           /\ ItemsAt(items, S) \in Seq(Entries)
           /\ Len(ItemsAt(items, S)) = Cardinality(S)
           /\ \A i \in S : /\ Before(S, i) \in 0 .. Cardinality(S) - 1
                           /\ ItemsAt(items, S)[Before(S, i) + 1] = At(items, i)
           /\ \A k \in 1 .. Cardinality(S) :
                 /\ Nth(S, k) \in S
                 /\ ItemsAt(items, S)[k] = At(items, Nth(S, k))
<1>1. Len(items) \in Nat /\ S \in SUBSET Int
  BY LenProperties DEF Indices
<1>2. IsFiniteSet(S)
  <2>1. Len(items) - 1 \in Int
    BY <1>1
  <2>2. IsFiniteSet(Indices(items))
    BY <2>1, FS_Interval DEF Indices
  <2>. QED
    BY <2>2, FS_Subset
<1>3. Cardinality(S) \in Nat
  BY <1>2, FS_CardinalityType
<1>4. \A k \in 1 .. Cardinality(S) : Nth(S, k) \in S /\ ItemsAt(items, S)[k] = At(items, Nth(S, k))
  BY <1>1, <1>2, NthHasRank DEF ItemsAt
<1>5. \A i \in S : At(items, i) \in Entries
  <2>1. SUFFICES ASSUME NEW i \in S PROVE i + 1 \in 1 .. Len(items)
    BY ElementOfSeq DEF At
  <2>. QED
    BY <1>1 DEF Indices
<1>6. ItemsAt(items, S) \in Seq(Entries) /\ Len(ItemsAt(items, S)) = Cardinality(S)
  <2>1. ItemsAt(items, S) \in [1 .. Cardinality(S) -> Entries]
    BY <1>4, <1>5 DEF ItemsAt
  <2>. QED
    BY <1>3, <2>1, IsASeq, LenProperties
<1>7. ASSUME NEW i \in S
      PROVE  /\ Before(S, i) \in 0 .. Cardinality(S) - 1
             /\ ItemsAt(items, S)[Before(S, i) + 1] = At(items, i)
  <2>1. Before(S, i) \in 0 .. Cardinality(S) - 1 /\ Nth(S, Before(S, i) + 1) = i
    BY <1>1, <1>2, RankGrows, NthHasRank
  <2>2. Before(S, i) + 1 \in 1 .. Cardinality(S)
    BY <1>3, <2>1
  <2>. QED
    BY <2>1, <2>2, <1>4
<1>. QED
  BY <1>2, <1>3, <1>4, <1>6, <1>7

\* Two disjoint finite sets together count as many as both.
LEMMA DisjointUnion ==
    ASSUME NEW A, NEW B, IsFiniteSet(A), IsFiniteSet(B), A \cap B = {}
    PROVE  /\ Cardinality(A) \in Nat /\ Cardinality(B) \in Nat
           /\ IsFiniteSet(A \cup B)
           /\ Cardinality(A \cup B) = Cardinality(A) + Cardinality(B)
<1>1. /\ IsFiniteSet(A \cup B)
      /\ Cardinality(A \cup B) = Cardinality(A) + Cardinality(B) - Cardinality(A \cap B)
  BY FS_Union
<1>2. Cardinality(A \cap B) = 0
  BY FS_EmptySet
<1>3. Cardinality(A) \in Nat /\ Cardinality(B) \in Nat
  BY FS_CardinalityType
<1>. QED
  BY <1>1, <1>2, <1>3

\* The indices below i, of a set and of the others: together they are i.
LEMMA RanksAddUp ==
    ASSUME NEW n \in Nat, NEW S \in SUBSET (0 .. n - 1), NEW i \in 0 .. n
    PROVE  /\ Before(S, i) \in Nat /\ Before((0 .. n - 1) \ S, i) \in Nat
           /\ Before((0 .. n - 1) \ S, i) + Before(S, i) = i
           /\ Cardinality(S) \in Nat /\ Cardinality((0 .. n - 1) \ S) \in Nat
           /\ Cardinality((0 .. n - 1) \ S) + Cardinality(S) = n
<1>. DEFINE R == (0 .. n - 1) \ S
            A == {j \in R : j < i}
            B == {j \in S : j < i}
<1>1. IsFiniteSet(0 .. n - 1) /\ Cardinality(0 .. n - 1) = n
  BY FS_Interval
<1>2. IsFiniteSet(0 .. i - 1) /\ Cardinality(0 .. i - 1) = i
  BY FS_Interval
<1>3. A \cup B = 0 .. i - 1 /\ A \cap B = {}
  <2>1. A \cup B = {j \in 0 .. n - 1 : j < i} /\ A \cap B = {}
    OBVIOUS
  <2>2. {j \in 0 .. n - 1 : j < i} = 0 .. i - 1
    OBVIOUS
  <2>. QED
    BY <2>1, <2>2
<1>4. R \cup S = 0 .. n - 1 /\ R \cap S = {}
  OBVIOUS
<1>5. IsFiniteSet(R) /\ IsFiniteSet(S)
  BY <1>1, FS_Subset
<1>6. IsFiniteSet(A) /\ IsFiniteSet(B)
  BY <1>5, FS_Subset
<1>7. Before(R, i) = Cardinality(A) /\ Before(S, i) = Cardinality(B)
  BY DEF Before
<1>. HIDE DEF A, B, R
<1>8. Cardinality(A) \in Nat /\ Cardinality(B) \in Nat /\ Cardinality(A) + Cardinality(B) = i
  BY <1>2, <1>3, <1>6, DisjointUnion
<1>9. Cardinality(R) \in Nat /\ Cardinality(S) \in Nat /\ Cardinality(R) + Cardinality(S) = n
  BY <1>1, <1>4, <1>5, DisjointUnion
<1>. QED
  BY <1>7, <1>8, <1>9 DEF R

\* Split at a gap, the lower part is as many as the rank of the gap; a member keeps its
\* rank in the lower part, and in the upper one has it less that many.
LEMMA RanksSplit ==
    ASSUME NEW R \in SUBSET Int, IsFiniteSet(R), NEW g \in Int
    PROVE  LET low == {i \in R : i < g}
               high == {i \in R : i >= g}
           IN  /\ Cardinality(low) = Before(R, g)
               /\ Cardinality(low) \in Nat /\ Cardinality(high) \in Nat
               /\ Cardinality(low) + Cardinality(high) = Cardinality(R)
               /\ \A i \in low : Before(R, i) = Before(low, i)
               /\ \A i \in high : /\ Before(high, i) \in Nat
                                  /\ Before(R, i) = Cardinality(low) + Before(high, i)
<1>. DEFINE low == {i \in R : i < g}
            high == {i \in R : i >= g}
<1>1. IsFiniteSet(low) /\ IsFiniteSet(high)
  BY FS_Subset
<1>2. low \cup high = R /\ low \cap high = {}
  <2>1. \A i \in R : (i < g) <=> ~ (i >= g)
    OBVIOUS
  <2>. QED
    BY <2>1
<1>3. Before(R, g) = Cardinality(low)
  BY DEF Before
<1>4. ASSUME NEW i \in low PROVE Before(R, i) = Before(low, i)
  <2>1. {j \in R : j < i} = {j \in low : j < i}
    <3>1. ASSUME NEW j \in R, j < i PROVE j \in low
      BY <3>1, i \in Int, j \in Int, i < g
    <3>. QED
      BY <3>1
  <2>. QED
    BY <2>1 DEF Before
<1>5. ASSUME NEW i \in high
      PROVE  Before(high, i) \in Nat /\ Before(R, i) = Cardinality(low) + Before(high, i)
  <2>. DEFINE hi == {j \in high : j < i}
  <2>1. {j \in R : j < i} = low \cup hi
    <3>1. ASSUME NEW j \in low PROVE j < i
      BY j \in Int, j < g, i >= g, i \in Int
    <3>. QED
      BY <3>1, <1>2
  <2>2. low \cap hi = {} /\ IsFiniteSet(hi)
    BY <1>1, <1>2, FS_Subset
  <2>3. Before(R, i) = Cardinality(low \cup hi) /\ Before(high, i) = Cardinality(hi)
    BY <2>1 DEF Before
  <2>. HIDE DEF low, high, hi
  <2>. QED
    BY <1>1, <2>2, <2>3, DisjointUnion
<1>. HIDE DEF low, high
<1>6. /\ Cardinality(low) \in Nat /\ Cardinality(high) \in Nat
      /\ Cardinality(low) + Cardinality(high) = Cardinality(R)
  BY <1>1, <1>2, DisjointUnion
<1>7. /\ Cardinality(low) = Before(R, g)
      /\ \A i \in low : Before(R, i) = Before(low, i)
      /\ \A i \in high : /\ Before(high, i) \in Nat
                         /\ Before(R, i) = Cardinality(low) + Before(high, i)
  BY <1>3, <1>4, <1>5
<1>. QED
  BY <1>6, <1>7 DEF low, high

\* Split at a gap, the items at R are those at the lower part then those at the upper.
LEMMA ItemsSplit ==
    ASSUME NEW items \in Seq(Entries), NEW R \in SUBSET Indices(items), NEW g \in Int
    PROVE  LET low == {i \in R : i < g}
               high == {i \in R : i >= g}
           IN  /\ SubSeq(ItemsAt(items, R), 1, Before(R, g)) = ItemsAt(items, low)
               /\ SubSeq(ItemsAt(items, R), Before(R, g) + 1, Len(ItemsAt(items, R)))
                      = ItemsAt(items, high)
<1>. DEFINE low == {i \in R : i < g}
            high == {i \in R : i >= g}
            all == ItemsAt(items, R)
            m == Before(R, g)
<1>1. R \in SUBSET Int /\ IsFiniteSet(R)
  BY LenProperties, ItemsByRank DEF Indices
<1>2. low \in SUBSET Indices(items) /\ high \in SUBSET Indices(items)
  OBVIOUS
<1>3. /\ Cardinality(low) = m /\ m \in Nat /\ Cardinality(high) \in Nat
      /\ m + Cardinality(high) = Cardinality(R)
      /\ \A i \in low : Before(R, i) = Before(low, i)
      /\ \A i \in high : /\ Before(high, i) \in Nat
                         /\ Before(R, i) = m + Before(high, i)
  BY <1>1, RanksSplit
<1>4. low \in SUBSET Int /\ high \in SUBSET Int /\ IsFiniteSet(low) /\ IsFiniteSet(high)
  BY <1>1, <1>2, ItemsByRank
<1>5. all \in Seq(Entries) /\ Len(all) = Cardinality(R) /\ Len(all) = m + Cardinality(high)
  BY <1>3, ItemsByRank
<1>6. \A k \in 1 .. m : Nth(low, k) \in low /\ Nth(R, k) = Nth(low, k)
  <2>1. SUFFICES ASSUME NEW k \in 1 .. m PROVE Nth(low, k) \in low /\ Nth(R, k) = Nth(low, k)
    OBVIOUS
  <2>. HIDE DEF low
  <2>2. Nth(low, k) \in low /\ Before(low, Nth(low, k)) = k - 1
    BY <1>3, <1>4, NthHasRank
  <2>3. Nth(low, k) \in R
    BY <2>2 DEF low
  <2>4. Before(R, Nth(low, k)) = k - 1 /\ k \in Int
    BY <1>3, <2>2
  <2>. HIDE DEF m
  <2>. QED
    BY <1>1, <2>2, <2>3, <2>4, RankIsNth
<1>7. \A k \in 1 .. Cardinality(high) : Nth(high, k) \in high /\ Nth(R, m + k) = Nth(high, k)
  <2>1. SUFFICES ASSUME NEW k \in 1 .. Cardinality(high)
                 PROVE  Nth(high, k) \in high /\ Nth(R, m + k) = Nth(high, k)
    OBVIOUS
  <2>. HIDE DEF high
  <2>2. Nth(high, k) \in high /\ Before(high, Nth(high, k)) = k - 1
    BY <1>4, NthHasRank
  <2>3. Nth(high, k) \in R
    BY <2>2 DEF high
  <2>. HIDE DEF m
  <2>4. Before(R, Nth(high, k)) = (m + k) - 1 /\ m + k \in Int
    BY <1>3, <2>2
  <2>. QED
    BY <1>1, <2>2, <2>3, <2>4, RankIsNth
<1>8. SubSeq(all, 1, m) = ItemsAt(items, low)
  <2>1. /\ ItemsAt(items, low) \in Seq(Entries) /\ Len(ItemsAt(items, low)) = m
        /\ \A k \in 1 .. m : ItemsAt(items, low)[k] = At(items, Nth(low, k))
    <3>. HIDE DEF low
    <3>. QED
      BY <1>2, <1>3, ItemsByRank
  <2>2. \A k \in 1 .. m : all[k] = At(items, Nth(R, k))
    <3>. HIDE DEF m
    <3>. QED
      BY <1>3, ItemsByRank
  <2>. HIDE DEF low, high, all, m
  <2>3. /\ SubSeq(all, 1, m) \in Seq(Entries) /\ Len(SubSeq(all, 1, m)) = m
        /\ \A k \in 1 .. m : SubSeq(all, 1, m)[k] = all[k]
    BY <1>3, <1>5
  <2>. QED
    BY <1>6, <2>1, <2>2, <2>3, SeqEqual
<1>9. SubSeq(all, m + 1, Len(all)) = ItemsAt(items, high)
  <2>1. /\ ItemsAt(items, high) \in Seq(Entries) /\ Len(ItemsAt(items, high)) = Cardinality(high)
        /\ \A k \in 1 .. Cardinality(high) : ItemsAt(items, high)[k] = At(items, Nth(high, k))
    <3>. HIDE DEF high
    <3>. QED
      BY <1>2, <1>3, ItemsByRank
  <2>2. \A k \in 1 .. Cardinality(high) : all[m + k] = At(items, Nth(R, m + k))
    <3>. HIDE DEF m, high
    <3>. QED
      BY <1>3, ItemsByRank
  <2>. HIDE DEF low, high, all, m
  <2>3. /\ SubSeq(all, m + 1, Len(all)) \in Seq(Entries)
        /\ Len(SubSeq(all, m + 1, Len(all))) = Cardinality(high)
        /\ \A k \in 1 .. Cardinality(high) : SubSeq(all, m + 1, Len(all))[k] = all[m + k]
    BY <1>3, <1>5
  <2>. QED
    BY <1>7, <2>1, <2>2, <2>3, SeqEqual
<1>. QED
  BY <1>8, <1>9

-----------------------------------------------------------------------------
(* Moving *)

\* The gap that movePlaylistItems() inserts at, what does not move, and where it then is.
Gap(items, to) == IF to < 0 THEN 0 ELSE Least(to, Len(items))
Rest(items, S) == Indices(items) \ S
RestBelow(items, S, to) == {i \in Rest(items, S) : i < Gap(items, to)}
RestAbove(items, S, to) == {i \in Rest(items, S) : i >= Gap(items, to)}
Place(items, S, to) ==
    Least(Gap(items, to) - Before(S, Gap(items, to)), Len(items) - Cardinality(S))

\* The moved items land after as many of the others as are below the gap.
LEMMA PlaceOfGroup ==
    ASSUME NEW items \in Seq(Entries), NEW S \in SUBSET Indices(items), NEW to \in Int
    PROVE  /\ Len(items) \in Nat /\ Gap(items, to) \in 0 .. Len(items)
           /\ S \in SUBSET Int /\ IsFiniteSet(S) /\ Cardinality(S) \in Nat
           /\ Rest(items, S) \in SUBSET Indices(items)
           /\ Rest(items, S) \in SUBSET Int /\ IsFiniteSet(Rest(items, S))
           /\ Cardinality(Rest(items, S)) \in Nat
           /\ Cardinality(Rest(items, S)) + Cardinality(S) = Len(items)
           /\ Place(items, S, to) = Before(Rest(items, S), Gap(items, to))
           /\ Place(items, S, to) = Cardinality(RestBelow(items, S, to))
           /\ Place(items, S, to) \in 0 .. Cardinality(Rest(items, S))
<1>. DEFINE n == Len(items)
            g == Gap(items, to)
            R == Rest(items, S)
<1>1. n \in Nat
  BY LenProperties
<1>2. g \in 0 .. n
  BY <1>1 DEF Gap, Least
<1>3. S \in SUBSET (0 .. n - 1) /\ R = (0 .. n - 1) \ S
  BY DEF Rest, Indices
<1>4. R \in SUBSET Indices(items)
  BY DEF Rest
<1>5. /\ S \in SUBSET Int /\ IsFiniteSet(S) /\ Cardinality(S) \in Nat
      /\ R \in SUBSET Int /\ IsFiniteSet(R) /\ Cardinality(R) \in Nat
  <2>. HIDE DEF R
  <2>. QED
    BY <1>1, <1>3, <1>4, ItemsByRank
<1>. HIDE DEF n, g, R
<1>6. /\ Before(S, g) \in Nat /\ Before(R, g) \in Nat
      /\ Before(R, g) + Before(S, g) = g
      /\ Cardinality(R) + Cardinality(S) = n
  <2>1. LET Q == (0 .. n - 1) \ S IN
        /\ Before(S, g) \in Nat /\ Before(Q, g) \in Nat
        /\ Before(Q, g) + Before(S, g) = g
        /\ Cardinality(Q) + Cardinality(S) = n
    BY <1>1, <1>2, <1>3, RanksAddUp
  <2>. QED
    BY <1>3, <2>1
<1>7. Before(R, g) \in 0 .. Cardinality(R)
  BY <1>2, <1>5, RankGrows
<1>8. Place(items, S, to) = Before(R, g)
  <2>1. Place(items, S, to) = Least(g - Before(S, g), n - Cardinality(S))
    BY DEF Place, g, n
  <2>2. g - Before(S, g) = Before(R, g) /\ n - Cardinality(S) = Cardinality(R)
    BY <1>1, <1>2, <1>5, <1>6
  <2>. QED
    BY <1>5, <1>6, <1>7, <2>1, <2>2 DEF Least
<1>9. Cardinality(RestBelow(items, S, to)) = Before(R, g)
  BY DEF RestBelow, Before, R, g
<1>. QED
  BY <1>1, <1>2, <1>4, <1>5, <1>6, <1>7, <1>8, <1>9 DEF n, g, R

\* movePlaylistItems() splices: the others below the gap, the group, the others above.
LEMMA MovedGroupSplices ==
    ASSUME NEW items \in Seq(Entries), NEW S \in SUBSET Indices(items), NEW to \in Int
    PROVE  MovedGroup(items, S, to) =
               ItemsAt(items, RestBelow(items, S, to)) \o ItemsAt(items, S)
                   \o ItemsAt(items, RestAbove(items, S, to))
<1>. DEFINE left == ItemsAt(items, Rest(items, S))
            p == Place(items, S, to)
<1>1. Len(left) = Cardinality(Rest(items, S)) /\ Rest(items, S) \in SUBSET Indices(items)
  BY PlaceOfGroup, ItemsByRank
<1>2. /\ Len(left) = Len(items) - Cardinality(S)
      /\ p = Before(Rest(items, S), Gap(items, to)) /\ Gap(items, to) \in Int
  <2>1. /\ Len(items) \in Nat /\ Cardinality(S) \in Nat
        /\ Cardinality(Rest(items, S)) \in Nat
        /\ Cardinality(Rest(items, S)) + Cardinality(S) = Len(items)
        /\ Gap(items, to) \in 0 .. Len(items)
        /\ p = Before(Rest(items, S), Gap(items, to))
    BY PlaceOfGroup
  <2>. HIDE DEF p
  <2>2. Gap(items, to) \in Int
    BY <2>1
  <2>3. Len(left) = Len(items) - Cardinality(S)
    BY <1>1, <2>1
  <2>. QED
    BY <2>1, <2>2, <2>3
<1>3. MovedGroup(items, S, to) =
          SubSeq(left, 1, p) \o ItemsAt(items, S) \o SubSeq(left, p + 1, Len(left))
  BY <1>2 DEF MovedGroup, Place, Gap, Rest, Indices
<1>4. /\ SubSeq(left, 1, p) = ItemsAt(items, RestBelow(items, S, to))
      /\ SubSeq(left, p + 1, Len(left)) = ItemsAt(items, RestAbove(items, S, to))
  BY <1>1, <1>2, ItemsSplit DEF RestBelow, RestAbove
<1>. QED
  BY <1>3, <1>4

\* Three sequences one after the other, and what is at each place.
LEMMA ThreeParts ==
    ASSUME NEW a \in Seq(Entries), NEW b \in Seq(Entries), NEW c \in Seq(Entries)
    PROVE  LET all == a \o b \o c IN
           /\ all \in Seq(Entries) /\ Len(all) = Len(a) + Len(b) + Len(c)
           /\ \A k \in 1 .. Len(a) : all[k] = a[k]
           /\ \A k \in 1 .. Len(b) : all[Len(a) + k] = b[k]
           /\ \A k \in 1 .. Len(c) : all[Len(a) + Len(b) + k] = c[k]
<1>1. /\ a \o b \in Seq(Entries) /\ Len(a \o b) = Len(a) + Len(b)
      /\ Len(a) \in Nat /\ Len(b) \in Nat /\ Len(c) \in Nat
      /\ \A k \in 1 .. Len(a) : (a \o b)[k] = a[k]
      /\ \A k \in 1 .. Len(b) : (a \o b)[Len(a) + k] = b[k]
  OBVIOUS
<1>2. /\ (a \o b) \o c \in Seq(Entries) /\ Len((a \o b) \o c) = Len(a \o b) + Len(c)
      /\ \A k \in 1 .. Len(a \o b) : ((a \o b) \o c)[k] = (a \o b)[k]
      /\ \A k \in 1 .. Len(c) : ((a \o b) \o c)[Len(a \o b) + k] = c[k]
  BY <1>1
<1>. QED
  BY <1>1, <1>2

\* The current index follows its item: wherever it is, the index computed for it is where
\* its item now is.
LEMMA GroupIndexFollows ==
    ASSUME NEW items \in Seq(Entries), NEW S \in SUBSET Indices(items), NEW to \in Int,
           NEW c \in Indices(items)
    PROVE  LET after == MovedGroup(items, S, to)
               i == IndexMovedGroup(items, c, S, to)
           IN  /\ after \in Seq(Entries) /\ Len(after) = Len(items)
               /\ i \in Indices(after) /\ At(after, i) = At(items, c)
<1>. DEFINE low == RestBelow(items, S, to)
            high == RestAbove(items, S, to)
            R == Rest(items, S)
            g == Gap(items, to)
            p == Place(items, S, to)
            a == ItemsAt(items, low)
            b == ItemsAt(items, S)
            h == ItemsAt(items, high)
            after == MovedGroup(items, S, to)
            i == IndexMovedGroup(items, c, S, to)
<1>1. /\ low \in SUBSET Indices(items) /\ high \in SUBSET Indices(items)
      /\ low \cup high \cup S = Indices(items)
  <2>1. /\ low \in SUBSET R /\ high \in SUBSET R /\ R \in SUBSET Indices(items)
        /\ R \cup S = Indices(items)
    BY DEF RestBelow, RestAbove, Rest
  <2>2. low \cup high = R
    <3>1. g \in Int /\ R \in SUBSET Int
      BY PlaceOfGroup
    <3>2. \A k \in R : k < g \/ k >= g
      BY <3>1
    <3>. QED
      BY <3>2 DEF RestBelow, RestAbove
  <2>. QED
    BY <2>1, <2>2
<1>2. /\ Len(items) \in Nat /\ c \in Int /\ c >= 0 /\ c <= Len(items) - 1
      /\ g \in Int /\ R \in SUBSET Int /\ IsFiniteSet(R) /\ Cardinality(R) \in Nat
      /\ Cardinality(S) \in Nat /\ Cardinality(R) + Cardinality(S) = Len(items)
      /\ p = Cardinality(low) /\ p \in Nat
  <2>1. /\ Len(items) \in Nat /\ g \in 0 .. Len(items)
        /\ R \in SUBSET Int /\ IsFiniteSet(R) /\ Cardinality(R) \in Nat
        /\ Cardinality(S) \in Nat /\ Cardinality(R) + Cardinality(S) = Len(items)
        /\ p = Cardinality(low) /\ p \in 0 .. Cardinality(R)
    BY PlaceOfGroup
  <2>. HIDE DEF g, R, low, p
  <2>2. c \in 0 .. Len(items) - 1
    BY DEF Indices
  <2>. QED
    BY <2>1, <2>2
<1>3. /\ Cardinality(high) \in Nat /\ p + Cardinality(high) = Cardinality(R)
      /\ \A k \in low : Before(R, k) = Before(low, k)
      /\ \A k \in high : /\ Before(high, k) \in Nat
                         /\ Before(R, k) = p + Before(high, k)
  <2>1. low = {k \in R : k < g} /\ high = {k \in R : k >= g}
    BY DEF RestBelow, RestAbove
  <2>. HIDE DEF low, high, R, g, p
  <2>. QED
    BY <1>2, <2>1, RanksSplit
<1>. HIDE DEF low, high, R, g, p
<1>4. /\ a \in Seq(Entries) /\ b \in Seq(Entries) /\ h \in Seq(Entries)
      /\ Len(a) = p /\ Len(b) = Cardinality(S) /\ Len(h) = Cardinality(high)
  BY <1>1, <1>2, ItemsByRank
<1>5. after = a \o b \o h
  BY MovedGroupSplices DEF low, high
<1>. DEFINE s == Cardinality(S)
<1>6. /\ after \in Seq(Entries) /\ Len(after) = Len(items)
      /\ \A k \in 1 .. p : after[k] = a[k]
      /\ \A k \in 1 .. s : after[p + k] = b[k]
      /\ \A k \in 1 .. Cardinality(high) : after[p + s + k] = h[k]
  <2>. HIDE DEF a, b, h, after
  <2>1. /\ after \in Seq(Entries) /\ Len(after) = Len(a) + Len(b) + Len(h)
        /\ \A k \in 1 .. Len(a) : after[k] = a[k]
        /\ \A k \in 1 .. Len(b) : after[Len(a) + k] = b[k]
        /\ \A k \in 1 .. Len(h) : after[Len(a) + Len(b) + k] = h[k]
    <3>1. LET all == a \o b \o h IN
          /\ all \in Seq(Entries) /\ Len(all) = Len(a) + Len(b) + Len(h)
          /\ \A k \in 1 .. Len(a) : all[k] = a[k]
          /\ \A k \in 1 .. Len(b) : all[Len(a) + k] = b[k]
          /\ \A k \in 1 .. Len(h) : all[Len(a) + Len(b) + k] = h[k]
      BY <1>4, ThreeParts
    <3>. QED
      BY <1>5, <3>1
  <2>2. Len(after) = Len(items)
    BY <2>1, <1>2, <1>3, <1>4
  <2>. QED
    BY <2>1, <2>2, <1>4
<1>10. /\ s \in Nat /\ p \in Nat /\ Cardinality(high) \in Nat
       /\ p + s + Cardinality(high) = Len(items)
  BY <1>2, <1>3
<1>7. i = IF c \in S THEN p + Before(S, c)
          ELSE IF c - Before(S, c) >= p THEN c - Before(S, c) + s ELSE c - Before(S, c)
  BY <1>2 DEF IndexMovedGroup, Place, Gap, p
<1>8. Before(S, c) \in Nat /\ Before(R, c) \in Nat /\ c - Before(S, c) = Before(R, c)
  <2>1. c \in 0 .. Len(items)
    BY <1>2
  <2>2. S \in SUBSET (0 .. Len(items) - 1) /\ R = (0 .. Len(items) - 1) \ S
    BY DEF Indices, Rest, R
  <2>3. /\ Before(S, c) \in Nat /\ Before(R, c) \in Nat
        /\ Before(R, c) + Before(S, c) = c
    BY <1>2, <2>1, <2>2, RanksAddUp
  <2>. QED
    BY <2>3, <1>2
<1>9. i \in 0 .. Len(items) - 1 /\ after[i + 1] = At(items, c)
  <2>1. CASE c \in S
    <3>1. Before(S, c) \in 0 .. s - 1 /\ b[Before(S, c) + 1] = At(items, c)
      BY <2>1, ItemsByRank
    <3>. HIDE DEF a, b, h, after, i
    <3>2. i = p + Before(S, c) /\ Before(S, c) + 1 \in 1 .. s
      BY <2>1, <3>1, <1>2, <1>7
    <3>3. i + 1 = p + (Before(S, c) + 1)
      BY <3>2, <1>2, <1>8
    <3>4. after[i + 1] = b[Before(S, c) + 1]
      BY <1>6, <3>2, <3>3
    <3>5. i \in 0 .. Len(items) - 1
      <4>. HIDE DEF s
      <4>. QED
        BY <3>1, <3>2, <1>10
    <3>. QED
      BY <3>1, <3>4, <3>5
  <2>2. CASE c \in low
    <3>0. c \notin S
      BY <2>2 DEF low, RestBelow, Rest
    <3>1. Before(low, c) \in 0 .. p - 1 /\ a[Before(low, c) + 1] = At(items, c)
      BY <2>2, <1>1, <1>2, ItemsByRank
    <3>. HIDE DEF a, b, h, after, i
    <3>a. c - Before(S, c) = Before(low, c)
      BY <2>2, <1>3, <1>8
    <3>b. ~ (Before(low, c) >= p) /\ Before(low, c) + 1 \in 1 .. p
      BY <3>1, <1>10
    <3>c. i = Before(low, c)
      BY <3>0, <3>a, <3>b, <1>7
    <3>2. i = Before(low, c) /\ Before(low, c) + 1 \in 1 .. p
      BY <3>b, <3>c
    <3>3. after[i + 1] = a[Before(low, c) + 1]
      BY <1>6, <3>2
    <3>4. i \in 0 .. Len(items) - 1
      <4>. HIDE DEF s
      <4>. QED
        BY <3>1, <3>2, <1>10
    <3>. QED
      BY <3>1, <3>3, <3>4
  <2>3. CASE c \in high
    <3>0. c \notin S
      BY <2>3 DEF high, RestAbove, Rest
    <3>1. /\ Before(high, c) \in 0 .. Cardinality(high) - 1
          /\ h[Before(high, c) + 1] = At(items, c)
      BY <2>3, <1>1, ItemsByRank
    <3>. HIDE DEF a, b, h, after, i
    <3>2. c - Before(S, c) = p + Before(high, c)
      BY <2>3, <1>3, <1>8
    <3>a. Before(high, c) \in Nat /\ s \in Nat /\ s + Cardinality(R) = Len(items)
      BY <2>3, <1>2, <1>3
    <3>. HIDE DEF s
    <3>b. p + Before(high, c) >= p
      BY <3>a, <1>2
    <3>c. i = p + Before(high, c) + s
      BY <3>0, <3>2, <3>b, <1>7
    <3>3. i = p + Before(high, c) + s /\ Before(high, c) + 1 \in 1 .. Cardinality(high)
      BY <3>1, <3>a, <3>c, <1>3
    <3>4. i + 1 = p + s + (Before(high, c) + 1)
      BY <3>3, <3>a, <1>10
    <3>5. after[i + 1] = h[Before(high, c) + 1]
      BY <1>6, <3>3, <3>4
    <3>6. i \in 0 .. Len(items) - 1
      BY <3>1, <3>a, <3>c, <1>10
    <3>. QED
      BY <3>1, <3>5, <3>6
  <2>. QED
    BY <2>1, <2>2, <2>3, <1>1
<1>. QED
  BY <1>6, <1>9 DEF At, Indices

\* Of one index, one is below what is above it.
LEMMA SingleRank ==
    ASSUME NEW f \in Int, NEW x \in Int
    PROVE  /\ Before({f}, x) = IF f < x THEN 1 ELSE 0
           /\ Cardinality({f}) = 1 /\ IsFiniteSet({f})
<1>1. IsFiniteSet({f}) /\ Cardinality({f}) = 1
  BY FS_Singleton
<1>2. CASE f < x
  <2>1. {j \in {f} : j < x} = {f}
    BY <1>2
  <2>. QED
    BY <1>1, <1>2, <2>1 DEF Before
<1>3. CASE ~ (f < x)
  <2>1. {j \in {f} : j < x} = {}
    BY <1>3
  <2>. QED
    BY <1>1, <1>3, <2>1, FS_EmptySet DEF Before
<1>. QED
  BY <1>2, <1>3

\* Two sequences one after the other, and what is at each place.
LEMMA TwoParts ==
    ASSUME NEW a \in Seq(Entries), NEW b \in Seq(Entries)
    PROVE  LET both == a \o b IN
           /\ both \in Seq(Entries) /\ Len(both) = Len(a) + Len(b)
           /\ \A k \in 1 .. Len(a) : both[k] = a[k]
           /\ \A k \in 1 .. Len(b) : both[Len(a) + k] = b[k]
OBVIOUS

\* The items at every index but one are what is left when its item is removed.
LEMMA AllButOne ==
    ASSUME NEW items \in Seq(Entries), NEW f \in Indices(items)
    PROVE  /\ ItemsAt(items, Rest(items, {f})) = RemoveAt(items, f + 1)
           /\ RemoveAt(items, f + 1) \in Seq(Entries)
           /\ Len(RemoveAt(items, f + 1)) = Len(items) - 1
           /\ \A k \in 1 .. Len(items) - 1 :
                 RemoveAt(items, f + 1)[k] = IF k <= f THEN items[k] ELSE items[k + 1]
<1>. DEFINE n == Len(items)
            R == Rest(items, {f})
            left == RemoveAt(items, f + 1)
<1>1. n \in Nat /\ f \in 0 .. n - 1
  BY LenProperties DEF Indices
<1>2. /\ left \in Seq(Entries) /\ Len(left) = n - 1
      /\ \A k \in 1 .. n - 1 : left[k] = IF k <= f THEN items[k] ELSE items[k + 1]
  <2>1. f \in Int /\ f + 1 \in Int /\ (f + 1) - 1 = f /\ (f + 1) + 1 = f + 2
    BY <1>1
  <2>2. left = SubSeq(items, 1, f) \o SubSeq(items, f + 2, n)
    BY <2>1 DEF RemoveAt
  <2>3. /\ SubSeq(items, 1, f) \in Seq(Entries) /\ Len(SubSeq(items, 1, f)) = f
        /\ \A k \in 1 .. f : SubSeq(items, 1, f)[k] = items[k]
    BY <1>1
  <2>4. /\ SubSeq(items, f + 2, n) \in Seq(Entries) /\ Len(SubSeq(items, f + 2, n)) = n - 1 - f
        /\ \A k \in 1 .. n - 1 - f : SubSeq(items, f + 2, n)[k] = items[f + 1 + k]
    BY <1>1
  <2>. DEFINE a == SubSeq(items, 1, f)
              b == SubSeq(items, f + 2, n)
  <2>. HIDE DEF a, b, left, n
  <2>5. /\ left \in Seq(Entries) /\ Len(left) = Len(a) + Len(b)
        /\ \A k \in 1 .. Len(a) : left[k] = a[k]
        /\ \A k \in 1 .. Len(b) : left[Len(a) + k] = b[k]
    <3>1. a \in Seq(Entries) /\ b \in Seq(Entries) /\ left = a \o b
      BY <2>2, <2>3, <2>4 DEF a, b
    <3>2. LET both == a \o b IN
          /\ both \in Seq(Entries) /\ Len(both) = Len(a) + Len(b)
          /\ \A k \in 1 .. Len(a) : both[k] = a[k]
          /\ \A k \in 1 .. Len(b) : both[Len(a) + k] = b[k]
      BY <3>1, TwoParts
    <3>. QED
      BY <3>1, <3>2
  <2>8. Len(a) = f /\ Len(b) = n - 1 - f
    BY <2>3, <2>4 DEF a, b
  <2>6. left \in Seq(Entries) /\ Len(left) = n - 1
    BY <2>5, <2>8, <1>1
  <2>7. ASSUME NEW k \in 1 .. n - 1 PROVE left[k] = IF k <= f THEN items[k] ELSE items[k + 1]
    <3>2. CASE k <= f
      <4>1. k \in 1 .. f
        BY <3>2, <1>1
      <4>2. left[k] = a[k] /\ a[k] = items[k]
        BY <4>1, <2>3, <2>5, <2>8 DEF a
      <4>. QED
        BY <4>2, <3>2
    <3>3. CASE ~ (k <= f)
      <4>1. k - f \in 1 .. n - 1 - f /\ f + 1 + (k - f) = k + 1 /\ f + (k - f) = k
        BY <3>3, <1>1
      <4>2. left[f + (k - f)] = b[k - f]
        BY <4>1, <2>5, <2>8
      <4>3. b[k - f] = items[f + 1 + (k - f)]
        BY <4>1, <2>4 DEF b
      <4>. QED
        BY <3>3, <4>1, <4>2, <4>3
    <3>. QED
      BY <3>2, <3>3
  <2>. QED
    BY <2>6, <2>7
<1>3. ASSUME NEW k \in 1 .. n - 1
      PROVE  Nth(R, k) = IF k <= f THEN k - 1 ELSE k
  <2>. DEFINE i == IF k <= f THEN k - 1 ELSE k
  <2>1. i \in 0 .. n - 1 /\ i # f /\ i \in Int /\ i \in 0 .. n
    BY <1>1
  <2>2. {f} \in SUBSET (0 .. n - 1) /\ R = (0 .. n - 1) \ {f}
    BY <1>1 DEF Rest, Indices
  <2>3. i \in R
    BY <2>1, <2>2
  <2>4. R \in SUBSET Int /\ IsFiniteSet(R)
    BY PlaceOfGroup, 0 \in Int, {f} \in SUBSET Indices(items)
  <2>5. Before(R, i) \in Nat /\ Before(R, i) + Before({f}, i) = i
    <3>1. LET Q == (0 .. n - 1) \ {f} IN Before(Q, i) \in Nat /\ Before(Q, i) + Before({f}, i) = i
      <4>. DEFINE T == {f}
      <4>1. T \in SUBSET (0 .. n - 1)
        BY <2>2
      <4>. HIDE DEF i, n, T
      <4>2. LET Q == (0 .. n - 1) \ T IN Before(Q, i) \in Nat /\ Before(Q, i) + Before(T, i) = i
        BY <1>1, <2>1, <4>1, RanksAddUp
      <4>. QED
        BY <4>2 DEF T
    <3>. QED
      BY <3>1, <2>2
  <2>6. Before({f}, i) = IF k <= f THEN 0 ELSE 1
    <3>1. Before({f}, i) = IF f < i THEN 1 ELSE 0
      <4>. HIDE DEF i
      <4>1. f \in Int
        BY <1>1
      <4>. QED
        BY <4>1, <2>1, SingleRank
    <3>2. (f < i) <=> ~ (k <= f)
      BY <1>1
    <3>. QED
      BY <3>1, <3>2
  <2>7. Before(R, i) = k - 1
    <3>. HIDE DEF R
    <3>. QED
      BY <2>5, <2>6
  <2>8. k \in Int
    OBVIOUS
  <2>. HIDE DEF i, R
  <2>9. Nth(R, k) = i
    BY <2>3, <2>4, <2>7, <2>8, RankIsNth
  <2>. QED
    BY <2>9 DEF i
<1>4. ItemsAt(items, R) = left
  <2>1. {f} \in SUBSET Indices(items)
    OBVIOUS
  <2>2. /\ R \in SUBSET Indices(items) /\ Cardinality(R) \in Nat
        /\ Cardinality(R) + Cardinality({f}) = n
    BY <2>1, PlaceOfGroup
  <2>. HIDE DEF R
  <2>3. Cardinality(R) = n - 1
    BY <2>2, <1>1, SingleRank
  <2>4. /\ ItemsAt(items, R) \in Seq(Entries) /\ Len(ItemsAt(items, R)) = n - 1
        /\ \A k \in 1 .. n - 1 : ItemsAt(items, R)[k] = At(items, Nth(R, k))
    BY <2>2, <2>3, ItemsByRank
  <2>5. ASSUME NEW k \in 1 .. n - 1 PROVE ItemsAt(items, R)[k] = left[k]
    <3>. HIDE DEF left
    <3>1. ItemsAt(items, R)[k] = items[Nth(R, k) + 1]
      BY <2>4 DEF At
    <3>2. CASE k <= f
      BY <3>1, <3>2, <1>2, <1>3, (k - 1) + 1 = k
    <3>3. CASE ~ (k <= f)
      BY <3>1, <3>3, <1>2, <1>3
    <3>. QED
      BY <3>2, <3>3
  <2>. HIDE DEF left
  <2>. QED
    BY <1>2, <2>4, <2>5, SeqEqual
<1>. QED
  BY <1>2, <1>4

\* Moving one item is moving a group of one, and the current index follows alike.
LEMMA OneIsAGroup ==
    ASSUME NEW items \in Seq(Entries), NEW f \in Indices(items), NEW to \in Nat
    PROVE  /\ MovedOne(items, f, to) = MovedGroup(items, {f}, to)
           /\ \A c \in Indices(items) \cup {NoIndex} :
                 IndexMovedOne(items, c, f, to) = IndexMovedGroup(items, c, {f}, to)
<1>. DEFINE n == Len(items)
            g == Least(to, n)
            p == IF f < g THEN g - 1 ELSE g
            left == RemoveAt(items, f + 1)
            x == At(items, f)
<1>1. n \in Nat /\ f \in 0 .. n - 1 /\ HasIndex(items, f) /\ ~ (to < 0) /\ {f} \in SUBSET Indices(items)
  BY LenProperties DEF Indices, HasIndex
<1>2. g \in 0 .. n /\ Gap(items, to) = g
  BY <1>1 DEF Gap, Least
<1>3. /\ left \in Seq(Entries) /\ Len(left) = n - 1
      /\ \A k \in 1 .. n - 1 : left[k] = IF k <= f THEN items[k] ELSE items[k + 1]
      /\ ItemsAt(items, Rest(items, {f})) = left
  BY AllButOne
<1>4. \A c \in Int : Before({f}, c) = (IF f < c THEN 1 ELSE 0)
  <2>1. f \in Int
    BY <1>1
  <2>. QED
    BY <2>1, SingleRank
<1>4a. Cardinality({f}) = 1
  BY FS_Singleton
<1>5. p \in 0 .. n - 1
  BY <1>1, <1>2
<1>6. Place(items, {f}, to) = p
  <2>1. Place(items, {f}, to) = Least(g - Before({f}, g), n - 1)
    BY <1>2, <1>4a DEF Place
  <2>2. g - Before({f}, g) = p
    <3>. HIDE DEF g, n
    <3>1. g \in Int
      BY <1>1, <1>2
    <3>2. CASE f < g
      <4>1. Before({f}, g) = 1
        BY <3>1, <3>2, <1>4
      <4>. QED
        BY <3>1, <3>2, <4>1
    <3>3. CASE ~ (f < g)
      <4>1. Before({f}, g) = 0
        BY <3>1, <3>3, <1>4
      <4>. QED
        BY <3>1, <3>3, <4>1
    <3>. QED
      BY <3>2, <3>3
  <2>. HIDE DEF p, g, n
  <2>. QED
    BY <1>1, <1>5, <2>1, <2>2 DEF Least
<1>7. ItemsAt(items, {f}) = << x >>
  <2>1. /\ ItemsAt(items, {f}) \in Seq(Entries) /\ Len(ItemsAt(items, {f})) = 1
        /\ Nth({f}, 1) \in {f} /\ ItemsAt(items, {f})[1] = At(items, Nth({f}, 1))
    <3>1. 1 \in 1 .. Cardinality({f})
      BY <1>4a
    <3>. QED
      BY <1>1, <1>4a, <3>1, ItemsByRank
  <2>. HIDE DEF x
  <2>2. ItemsAt(items, {f})[1] = x
    BY <2>1 DEF x
  <2>. QED
    BY <2>1, <2>2
<1>8. MovedGroup(items, {f}, to) = SubSeq(left, 1, p) \o << x >> \o SubSeq(left, p + 1, Len(left))
  <2>1. MovedGroup(items, {f}, to) =
            LET others == ItemsAt(items, Indices(items) \ {f})
                place == Least(Gap(items, to) - Before({f}, Gap(items, to)), Len(others))
            IN  SubSeq(others, 1, place) \o ItemsAt(items, {f})
                    \o SubSeq(others, place + 1, Len(others))
    BY DEF MovedGroup, Gap, Indices
  <2>2. ItemsAt(items, Indices(items) \ {f}) = left
    BY <1>3 DEF Rest
  <2>3. Least(Gap(items, to) - Before({f}, Gap(items, to)), Len(left)) = p
    BY <1>3, <1>4a, <1>6 DEF Place
  <2>. HIDE DEF left, p, x
  <2>. QED
    BY <2>1, <2>2, <2>3, <1>7
<1>. DEFINE still == g \in {f, f + 1}
            isGroup == MovedOne(items, f, to) = MovedGroup(items, {f}, to)
<1>9. ASSUME ~ still PROVE isGroup
  <2>1. MovedOne(items, f, to) = InsertAt(left, p + 1, x)
    BY <1>1, <1>9 DEF MovedOne
  <2>2. InsertAt(left, p + 1, x) = SubSeq(left, 1, p) \o << x >> \o SubSeq(left, p + 1, Len(left))
    <3>1. (p + 1) - 1 = p
      BY <1>5
    <3>. HIDE DEF p, left, x
    <3>. QED
      BY <3>1 DEF InsertAt
  <2>. HIDE DEF p, left, x
  <2>. QED
    BY <1>8, <2>1, <2>2
<1>10. ASSUME still PROVE isGroup
  <2>1. MovedOne(items, f, to) = items
    BY <1>10 DEF MovedOne
  <2>2. p = f
    BY <1>10, <1>1
  <2>. DEFINE a == SubSeq(left, 1, f)
              b == << x >>
              c == SubSeq(left, f + 1, Len(left))
              all == a \o b \o c
  <2>3. x \in Entries /\ x = items[f + 1]
    <3>1. f + 1 \in 1 .. Len(items)
      BY <1>1
    <3>. QED
      BY <3>1, ElementOfSeq DEF At
  <2>. HIDE DEF left, x
  <2>4. /\ a \in Seq(Entries) /\ Len(a) = f
        /\ \A k \in 1 .. f : a[k] = left[k]
    BY <1>1, <1>3
  <2>5. b \in Seq(Entries) /\ Len(b) = 1 /\ b[1] = x
    BY <2>3
  <2>6. /\ c \in Seq(Entries) /\ Len(c) = n - 1 - f
        /\ \A k \in 1 .. n - 1 - f : c[k] = left[f + k]
    BY <1>1, <1>3
  <2>. HIDE DEF a, b, c
  <2>7. /\ all \in Seq(Entries) /\ Len(all) = Len(a) + Len(b) + Len(c)
        /\ \A k \in 1 .. Len(a) : all[k] = a[k]
        /\ \A k \in 1 .. Len(b) : all[Len(a) + k] = b[k]
        /\ \A k \in 1 .. Len(c) : all[Len(a) + Len(b) + k] = c[k]
    BY <2>4, <2>5, <2>6, ThreeParts
  <2>. HIDE DEF all
  <2>8. Len(all) = n
    BY <1>1, <2>4, <2>5, <2>6, <2>7
  <2>9. ASSUME NEW k \in 1 .. n PROVE all[k] = items[k]
    <3>1. CASE k <= f
      <4>1. all[k] = a[k] /\ a[k] = left[k]
        BY <3>1, <1>1, <2>4, <2>7
      <4>2. left[k] = items[k]
        BY <3>1, <1>1, <1>3
      <4>. QED
        BY <4>1, <4>2
    <3>2. CASE k = f + 1
      BY <3>2, <1>1, <2>3, <2>4, <2>5, <2>7
    <3>3. CASE k > f + 1
      <4>1. k - f - 1 \in 1 .. n - 1 - f /\ f + 1 + (k - f - 1) = k /\ f + (k - f - 1) = k - 1
        BY <3>3, <1>1
      <4>2. all[k] = c[k - f - 1]
        <5>1. k - f - 1 \in 1 .. Len(c) /\ Len(a) + Len(b) + (k - f - 1) = k
          BY <4>1, <2>4, <2>5, <2>6
        <5>. QED
          BY <5>1, <2>7
      <4>3. c[k - f - 1] = left[k - 1]
        BY <4>1, <2>6
      <4>4. k - 1 \in 1 .. n - 1 /\ ~ (k - 1 <= f) /\ (k - 1) + 1 = k
        BY <3>3, <1>1
      <4>5. left[k - 1] = items[k]
        BY <4>4, <1>3
      <4>. QED
        BY <4>2, <4>3, <4>5
    <3>. QED
      BY <3>1, <3>2, <3>3, <1>1
  <2>10. all = items
    BY <2>7, <2>8, <2>9, SeqEqual
  <2>. QED
    BY <1>8, <2>1, <2>2, <2>10 DEF all, a, b, c
<1>11. ASSUME NEW c \in Indices(items) \cup {NoIndex}
       PROVE  IndexMovedOne(items, c, f, to) = IndexMovedGroup(items, c, {f}, to)
  <2>1. c \in -1 .. n - 1 /\ c \in Int
    BY <1>1 DEF Indices, NoIndex
  <2>2. IndexMovedGroup(items, c, {f}, to) =
            IF c < 0 THEN c
            ELSE IF c = f THEN p + Before({f}, c)
            ELSE IF c - Before({f}, c) >= p THEN c - Before({f}, c) + 1 ELSE c - Before({f}, c)
    <3>1. IndexMovedGroup(items, c, {f}, to) =
            IF c < 0 THEN c
            ELSE IF c \in {f} THEN Place(items, {f}, to) + Before({f}, c)
            ELSE IF c - Before({f}, c) >= Place(items, {f}, to)
                 THEN c - Before({f}, c) + Cardinality({f}) ELSE c - Before({f}, c)
      BY DEF IndexMovedGroup, Place, Gap
    <3>. HIDE DEF p
    <3>. QED
      BY <3>1, <1>4a, <1>6
  <2>3. Before({f}, c) = IF f < c THEN 1 ELSE 0
    BY <1>4, <2>1
  <2>4. IndexMovedOne(items, c, f, to) =
            IF still THEN c
            ELSE IF c = f THEN p
            ELSE IF f < c /\ c <= p THEN c - 1
            ELSE IF p <= c /\ c < f THEN c + 1 ELSE c
    BY <1>1 DEF IndexMovedOne
  <2>5. g \in Int /\ f \in Int /\ f >= 0
    BY <1>1, <1>2
  <2>. HIDE DEF g, n
  <2>6. CASE c < 0
    BY <2>1, <2>2, <2>4, <2>5, <2>6, <1>5
  <2>7. CASE c >= 0 /\ c = f
    BY <2>1, <2>2, <2>3, <2>4, <2>5, <2>7
  <2>8. CASE c >= 0 /\ f < c
    BY <2>1, <2>2, <2>3, <2>4, <2>5, <2>8
  <2>9. CASE c >= 0 /\ c < f
    BY <2>1, <2>2, <2>3, <2>4, <2>5, <2>9
  <2>. QED
    BY <2>1, <2>5, <2>6, <2>7, <2>8, <2>9
<1>. QED
  BY <1>8, <1>9, <1>10, <1>11

\* Every move is a splice, and moving one item is moving a group of one.
LEMMA SplicesAlways ==
    ASSUME playlist \in Seq(Entries), currentIndex \in Indices(playlist) \cup {NoIndex}
    PROVE  MovesAreSplices
<1>1. Len(playlist) \in Nat /\ 0 .. Len(playlist) - 1 = Indices(playlist)
  BY LenProperties DEF Indices
<1>2. ASSUME NEW to \in 0 .. Len(playlist) + 1, NEW S \in SUBSET Indices(playlist)
      PROVE  MovedGroup(playlist, S, to) =
                 ItemsAt(playlist, {i \in Indices(playlist) \ S : i < to})
                     \o ItemsAt(playlist, S)
                     \o ItemsAt(playlist, {i \in Indices(playlist) \ S : i >= to})
  <2>1. to \in Int /\ to >= 0
    OBVIOUS
  <2>2. \A i \in Rest(playlist, S) : /\ (i < Gap(playlist, to)) <=> (i < to)
                                     /\ (i >= Gap(playlist, to)) <=> (i >= to)
    BY <1>1, <2>1 DEF Gap, Least, Rest, Indices
  <2>3. /\ RestBelow(playlist, S, to) = {i \in Indices(playlist) \ S : i < to}
        /\ RestAbove(playlist, S, to) = {i \in Indices(playlist) \ S : i >= to}
    BY <2>2 DEF RestBelow, RestAbove, Rest
  <2>4. MovedGroup(playlist, S, to) =
            ItemsAt(playlist, RestBelow(playlist, S, to)) \o ItemsAt(playlist, S)
                \o ItemsAt(playlist, RestAbove(playlist, S, to))
    BY <2>1, MovedGroupSplices
  <2>. QED
    BY <2>3, <2>4
<1>3. ASSUME NEW to \in 0 .. Len(playlist) + 1, NEW i \in Indices(playlist)
      PROVE  /\ MovedOne(playlist, i, to) = MovedGroup(playlist, {i}, to)
             /\ IndexMovedOne(playlist, currentIndex, i, to) =
                    IndexMovedGroup(playlist, currentIndex, {i}, to)
  <2>1. to \in Nat
    BY <1>1
  <2>. QED
    BY <2>1, OneIsAGroup
<1>. QED
  BY <1>1, <1>2, <1>3 DEF MovesAreSplices

\* A list without repetition is as long as it has items, at most one for each entry.
LEMMA DistinctItems ==
    ASSUME NEW items \in Seq(Entries), IsInjective(items)
    PROVE  /\ IsFiniteSet(Range(items)) /\ Cardinality(Range(items)) = Len(items)
           /\ Range(items) \in SUBSET Entries /\ Len(items) <= Size
<1>1. /\ Len(items) \in Nat /\ items \in [1 .. Len(items) -> Range(items)]
      /\ DOMAIN items = 1 .. Len(items) /\ items \in [1 .. Len(items) -> Entries]
      /\ Range(items) \in SUBSET Entries
  BY LenProperties DEF Range
<1>2. /\ items \in Injection(1 .. Len(items), Entries)
      /\ items \in Surjection(1 .. Len(items), Range(items))
      /\ items \in Injection(1 .. Len(items), Range(items))
  BY <1>1 DEF Injection, Surjection, Range
<1>3. IsFiniteSet(1 .. Len(items)) /\ Cardinality(1 .. Len(items)) = Len(items)
  BY <1>1, FS_Interval
<1>4. IsFiniteSet(Entries) /\ Cardinality(Entries) = Size
  <2>1. Size \in Nat /\ 1 \in Int
    BY PlaylistAssumption
  <2>. QED
    BY <2>1, FS_Interval DEF Entries
<1>5. IsFiniteSet(Range(items)) /\ Cardinality(Range(items)) = Len(items)
  BY <1>2, <1>3, FS_Surjection
<1>6. Len(items) <= Size
  BY <1>2, <1>3, <1>4, FS_Injection
<1>. QED
  BY <1>1, <1>5, <1>6

\* A list as long as one without repetition, that has all its items, has no others and
\* repeats none.
LEMMA SameItemsDistinct ==
    ASSUME NEW items \in Seq(Entries), IsInjective(items),
           NEW after \in Seq(Entries), Len(after) = Len(items),
           \A i \in Indices(items) : \E j \in Indices(after) : At(after, j) = At(items, i)
    PROVE  IsInjective(after) /\ Range(after) = Range(items)
<1>1. /\ Len(items) \in Nat /\ DOMAIN items = 1 .. Len(items)
      /\ Len(after) \in Nat /\ DOMAIN after = 1 .. Len(after)
      /\ after \in [1 .. Len(after) -> Range(after)]
  BY LenProperties DEF Range
<1>2. Range(items) \in SUBSET Range(after)
  <2>1. SUFFICES ASSUME NEW k \in 1 .. Len(items) PROVE items[k] \in Range(after)
    BY <1>1 DEF Range
  <2>2. k - 1 \in Indices(items) /\ (k - 1) + 1 = k
    BY <1>1 DEF Indices
  <2>3. PICK j \in Indices(after) : At(after, j) = At(items, k - 1)
    BY <2>2
  <2>4. j + 1 \in 1 .. Len(after) /\ after[j + 1] = items[k]
    BY <1>1, <2>2, <2>3 DEF At, Indices
  <2>. QED
    BY <1>1, <2>4 DEF Range
<1>3. after \in Surjection(1 .. Len(after), Range(after))
  BY <1>1 DEF Surjection, Range
<1>4. IsFiniteSet(1 .. Len(after)) /\ Cardinality(1 .. Len(after)) = Len(after)
  <2>1. \A n \in Nat : IsFiniteSet(1 .. n) /\ Cardinality(1 .. n) = n
    BY FS_Interval
  <2>. QED
    BY <1>1, <2>1
<1>5. /\ IsFiniteSet(Range(after)) /\ Cardinality(Range(after)) <= Len(after)
      /\ Cardinality(Range(after)) = Len(after) => after \in Injection(1 .. Len(after), Range(after))
  <2>1. LET n == 1 .. Len(after) IN
        /\ IsFiniteSet(Range(after)) /\ Cardinality(Range(after)) <= Cardinality(n)
        /\ (Cardinality(Range(after)) = Cardinality(n)) <=> (after \in Injection(n, Range(after)))
    BY <1>3, <1>4, FS_Surjection
  <2>. QED
    BY <1>4, <2>1
<1>6. Cardinality(Range(items)) = Len(after)
  BY DistinctItems
<1>7. /\ Cardinality(Range(items)) <= Cardinality(Range(after))
      /\ Cardinality(Range(after)) = Cardinality(Range(items)) => Range(after) = Range(items)
  BY <1>2, <1>5, FS_Subset
<1>8. Cardinality(Range(after)) \in Nat
  BY <1>5, FS_CardinalityType
<1>9. Cardinality(Range(after)) = Len(after)
  BY <1>1, <1>5, <1>6, <1>7, <1>8
<1>. QED
  BY <1>5, <1>6, <1>7, <1>9 DEF Injection

\* What the moves do to a list without repetition: the same items, none repeated, and the
\* current index on the same item.
Follows(before, i, after, j) ==
    /\ after \in Seq(Entries) /\ IsInjective(after) /\ Range(after) = Range(before)
    /\ Len(after) = Len(before)
    /\ IF i = NoIndex THEN j = NoIndex
       ELSE j \in Indices(after) /\ At(after, j) = At(before, i)

\* Moving a group.
LEMMA GroupFollows ==
    ASSUME NEW items \in Seq(Entries), IsInjective(items),
           NEW c \in Indices(items) \cup {NoIndex},
           NEW S \in SUBSET Indices(items), NEW to \in Int, NEW at \in Indices(items)
    PROVE  Follows(items, c, MovedGroup(items, S, to), IndexMovedGroup(items, c, S, to))
<1>. DEFINE after == MovedGroup(items, S, to)
            j(k) == IndexMovedGroup(items, k, S, to)
<1>1. \A k \in Indices(items) :
         /\ after \in Seq(Entries) /\ Len(after) = Len(items)
         /\ j(k) \in Indices(after) /\ At(after, j(k)) = At(items, k)
  BY GroupIndexFollows
<1>2. c = NoIndex => j(c) = NoIndex
  BY DEF IndexMovedGroup, NoIndex
<1>3. c # NoIndex => c \in Indices(items)
  OBVIOUS
<1>. HIDE DEF after, j
<1>4. after \in Seq(Entries) /\ Len(after) = Len(items)
  BY <1>1
<1>5. IsInjective(after) /\ Range(after) = Range(items)
  BY <1>1, <1>4, SameItemsDistinct
<1>6. Follows(items, c, after, j(c))
  BY <1>1, <1>2, <1>3, <1>4, <1>5 DEF Follows
<1>. QED
  BY <1>6 DEF after, j

\* The same for moving one item, the calls that move nothing included.
LEMMA OneFollows ==
    ASSUME NEW items \in Seq(Entries), IsInjective(items),
           NEW c \in Indices(items) \cup {NoIndex}, NEW from \in Int, NEW to \in Int
    PROVE  Follows(items, c, MovedOne(items, from, to), IndexMovedOne(items, c, from, to))
<1>1. CASE ~ HasIndex(items, from) \/ to < 0
  <2>1. MovedOne(items, from, to) = items /\ IndexMovedOne(items, c, from, to) = c
    BY <1>1 DEF MovedOne, IndexMovedOne
  <2>. QED
    BY <2>1 DEF Follows
<1>2. CASE HasIndex(items, from) /\ ~ (to < 0)
  <2>1. from \in Indices(items) /\ to \in Nat /\ {from} \in SUBSET Indices(items)
    BY <1>2 DEF HasIndex, Indices
  <2>2. /\ MovedOne(items, from, to) = MovedGroup(items, {from}, to)
        /\ IndexMovedOne(items, c, from, to) = IndexMovedGroup(items, c, {from}, to)
    BY <2>1, OneIsAGroup
  <2>3. Follows(items, c, MovedGroup(items, {from}, to), IndexMovedGroup(items, c, {from}, to))
    <3>. DEFINE S == {from}
    <3>1. S \in SUBSET Indices(items)
      BY <2>1
    <3>. HIDE DEF S
    <3>2. Follows(items, c, MovedGroup(items, S, to), IndexMovedGroup(items, c, S, to))
      BY <2>1, <3>1, GroupFollows
    <3>. QED
      BY <3>2 DEF S
  <2>. QED
    BY <2>2, <2>3
<1>. QED
  BY <1>1, <1>2

-----------------------------------------------------------------------------
(* Adding and removing *)

\* Items added at the end leave the others where they are.
LEMMA AppendKeeps ==
    ASSUME NEW items \in Seq(Entries), NEW added \in Seq(Entries)
    PROVE  LET both == items \o added IN
           /\ both \in Seq(Entries) /\ Len(both) = Len(items) + Len(added)
           /\ Range(both) = Range(items) \cup Range(added)
           /\ \A i \in Indices(items) : i \in Indices(both) /\ At(both, i) = At(items, i)
           /\ IsInjective(items) /\ IsInjective(added) /\ Range(items) \cap Range(added) = {}
                 => IsInjective(both)
<1>. DEFINE both == items \o added
            n == Len(items)
            m == Len(added)
<1>1. /\ n \in Nat /\ m \in Nat /\ DOMAIN items = 1 .. n /\ DOMAIN added = 1 .. m
      /\ both \in Seq(Entries) /\ Len(both) = n + m /\ DOMAIN both = 1 .. n + m
  BY LenProperties
<1>2. /\ \A k \in 1 .. n : both[k] = items[k]
      /\ \A k \in 1 .. m : both[n + k] = added[k]
  BY TwoParts
<1>. HIDE DEF both, n, m
<1>3. \A k \in 1 .. n + m : k \in 1 .. n \/ (k - n \in 1 .. m /\ both[k] = added[k - n])
  <2>1. SUFFICES ASSUME NEW k \in 1 .. n + m, k \notin 1 .. n
                 PROVE  k - n \in 1 .. m /\ both[k] = added[k - n]
    OBVIOUS
  <2>2. k - n \in 1 .. m /\ n + (k - n) = k
    BY <1>1, <2>1
  <2>. QED
    BY <1>2, <2>2
<1>4. Range(both) = Range(items) \cup Range(added)
  <2>1. ASSUME NEW k \in 1 .. n + m PROVE both[k] \in Range(items) \cup Range(added)
    BY <1>1, <1>2, <1>3 DEF Range
  <2>2. ASSUME NEW k \in 1 .. n PROVE items[k] \in Range(both)
    <3>1. k \in 1 .. n + m
      BY <1>1
    <3>. QED
      BY <1>1, <1>2, <3>1 DEF Range
  <2>3. ASSUME NEW k \in 1 .. m PROVE added[k] \in Range(both)
    <3>1. n + k \in 1 .. n + m
      BY <1>1
    <3>. QED
      BY <1>1, <1>2, <3>1 DEF Range
  <2>. QED
    BY <1>1, <2>1, <2>2, <2>3 DEF Range
<1>5. ASSUME NEW i \in Indices(items) PROVE i \in Indices(both) /\ At(both, i) = At(items, i)
  <2>1. i \in 0 .. n - 1
    BY DEF Indices, n
  <2>2. i + 1 \in 1 .. n /\ i \in 0 .. (n + m) - 1
    BY <1>1, <2>1
  <2>. QED
    BY <1>1, <1>2, <2>2 DEF At, Indices
<1>6. ASSUME IsInjective(items), IsInjective(added), Range(items) \cap Range(added) = {}
      PROVE  IsInjective(both)
  <2>1. SUFFICES ASSUME NEW k \in 1 .. n + m, NEW l \in 1 .. n + m, both[k] = both[l]
                 PROVE  k = l
    BY <1>1 DEF IsInjective
  <2>2. ASSUME NEW x \in 1 .. n, NEW y \in 1 .. m PROVE items[x] # added[y]
    BY <1>1, <1>6 DEF Range
  <2>3. CASE k \in 1 .. n /\ l \in 1 .. n
    BY <1>1, <1>2, <1>6, <2>1, <2>3 DEF IsInjective
  <2>4. CASE k \notin 1 .. n /\ l \notin 1 .. n
    <3>1. k - n \in 1 .. m /\ l - n \in 1 .. m /\ added[k - n] = added[l - n]
      BY <1>3, <2>1, <2>4
    <3>2. k - n = l - n
      BY <1>1, <1>6, <3>1 DEF IsInjective
    <3>. QED
      BY <3>2, <1>1
  <2>5. CASE k \in 1 .. n /\ l \notin 1 .. n
    BY <1>2, <1>3, <2>1, <2>2, <2>5
  <2>6. CASE k \notin 1 .. n /\ l \in 1 .. n
    BY <1>2, <1>3, <2>1, <2>2, <2>6
  <2>. QED
    BY <2>3, <2>4, <2>5, <2>6
<1>. QED
  BY <1>1, <1>4, <1>5, <1>6 DEF both, n, m

\* With an item removed, the others are one index lower if they were above it.
LEMMA RemovalKeeps ==
    ASSUME NEW items \in Seq(Entries), IsInjective(items), NEW i \in Indices(items)
    PROVE  LET left == RemoveAt(items, i + 1) IN
           /\ left \in Seq(Entries) /\ Len(left) = Len(items) - 1
           /\ IsInjective(left)
           /\ Range(left) = Range(items) \ {At(items, i)}
           /\ \A c \in Indices(items) : c # i =>
                 LET j == IF i < c THEN c - 1 ELSE c IN
                 j \in Indices(left) /\ At(left, j) = At(items, c)
<1>. DEFINE left == RemoveAt(items, i + 1)
            n == Len(items)
            old(k) == IF k <= i THEN k ELSE k + 1
<1>1. n \in Nat /\ i \in 0 .. n - 1 /\ DOMAIN items = 1 .. n
  BY LenProperties DEF Indices
<1>2. /\ left \in Seq(Entries) /\ Len(left) = n - 1
      /\ \A k \in 1 .. n - 1 : left[k] = IF k <= i THEN items[k] ELSE items[k + 1]
  BY AllButOne
<1>3. DOMAIN left = 1 .. n - 1
  BY <1>1, <1>2, LenProperties
<1>. HIDE DEF left, n
<1>4. \A k \in 1 .. n - 1 : old(k) \in 1 .. n /\ old(k) # i + 1 /\ left[k] = items[old(k)]
  BY <1>1, <1>2
<1>5. ASSUME NEW k \in 1 .. n - 1, NEW l \in 1 .. n - 1, old(k) = old(l) PROVE k = l
  BY <1>1, <1>5
<1>6. ASSUME NEW k \in 1 .. n, k # i + 1
      PROVE  LET j == IF i + 1 < k THEN k - 1 ELSE k IN
             j \in 1 .. n - 1 /\ left[j] = items[k]
  <2>. DEFINE j == IF i + 1 < k THEN k - 1 ELSE k
  <2>1. j \in 1 .. n - 1 /\ old(j) = k
    BY <1>1, <1>6
  <2>. HIDE DEF j, old
  <2>2. left[j] = items[k]
    BY <1>4, <2>1
  <2>. QED
    BY <2>1, <2>2 DEF j
<1>. HIDE DEF old
<1>7. IsInjective(left)
  <2>1. SUFFICES ASSUME NEW k \in 1 .. n - 1, NEW l \in 1 .. n - 1, left[k] = left[l]
                 PROVE  k = l
    BY <1>3 DEF IsInjective
  <2>2. old(k) = old(l)
    BY <1>1, <1>4, <2>1 DEF IsInjective
  <2>. QED
    BY <1>5, <2>2
<1>8. Range(left) = Range(items) \ {At(items, i)}
  <2>1. i + 1 \in 1 .. n /\ At(items, i) = items[i + 1]
    BY <1>1 DEF At
  <2>2. ASSUME NEW k \in 1 .. n - 1 PROVE left[k] \in Range(items) \ {items[i + 1]}
    BY <1>1, <1>4, <2>1 DEF IsInjective, Range
  <2>3. ASSUME NEW k \in 1 .. n, k # i + 1 PROVE items[k] \in Range(left)
    BY <1>3, <1>6, <2>3 DEF Range
  <2>4. Range(left) = {left[k] : k \in 1 .. n - 1} /\ Range(items) = {items[k] : k \in 1 .. n}
    BY <1>1, <1>3 DEF Range
  <2>. QED
    BY <2>1, <2>2, <2>3, <2>4
<1>9. ASSUME NEW c \in Indices(items), c # i
      PROVE  LET j == IF i < c THEN c - 1 ELSE c IN
             j \in Indices(left) /\ At(left, j) = At(items, c)
  <2>1. c \in 0 .. n - 1 /\ c + 1 \in 1 .. n /\ c + 1 # i + 1
    BY <1>1, <1>9 DEF Indices, n
  <2>2. LET k == IF i + 1 < c + 1 THEN (c + 1) - 1 ELSE c + 1 IN
        k \in 1 .. n - 1 /\ left[k] = items[c + 1]
    BY <1>6, <2>1
  <2>3. CASE i < c
    <3>1. i + 1 < c + 1 /\ (c + 1) - 1 = c /\ (c - 1) + 1 = c
      BY <1>1, <2>1, <2>3
    <3>2. c \in 1 .. n - 1 /\ left[c] = items[c + 1]
      BY <2>2, <3>1
    <3>3. c - 1 \in 0 .. (n - 1) - 1
      BY <1>1, <3>2
    <3>. QED
      BY <1>2, <2>3, <3>1, <3>2, <3>3 DEF At, Indices
  <2>4. CASE ~ (i < c)
    <3>1. ~ (i + 1 < c + 1)
      BY <1>1, <2>1, <2>4
    <3>2. c + 1 \in 1 .. n - 1 /\ left[c + 1] = items[c + 1]
      BY <2>2, <3>1
    <3>3. c \in 0 .. (n - 1) - 1
      BY <1>1, <2>1, <3>2
    <3>. QED
      BY <1>2, <2>4, <3>2, <3>3 DEF At, Indices
  <2>. QED
    BY <2>3, <2>4
<1>. QED
  BY <1>2, <1>7, <1>8, <1>9 DEF left, n

-----------------------------------------------------------------------------
(* The inductive invariant *)

\* No entry is twice in the playlist, and the current index is in it or nowhere.
ListOK(items, c) ==
    /\ items \in Seq(Entries) /\ IsInjective(items)
    /\ c \in Indices(items) \cup {NoIndex}

ShuffleOK(s) == s \in [on : BOOLEAN, built : BOOLEAN, queue : Seq(Nat)]

\* A stop that is awaited is that of an active player, and another source is queued only
\* where the plan opens some.
TransportOK(t) ==
    /\ t \in TransportType
    /\ t.stopping => t.active
    /\ t.direct => "direct" \in plan.kinds

\* A loaded media that is in the playlist is its current item, and the shuffle queue does
\* not hold the current index.
LoadedIsCurrent(items, c, s, t) ==
    t.loaded \in Range(items) =>
        /\ c \in Indices(items) /\ At(items, c) = t.loaded
        /\ c \notin Range(s.queue)

\* Nothing leaves the playlist while it plays, and no other source is opened.
Calm == plan.calm /\ "direct" \notin plan.kinds

\* In a calm plan what is loaded is in the playlist.
LoadedInPlaylist(items, t) == Calm => t.loaded \in Range(items) \cup {NoMedia}

\* The cache has its type, and in a calm plan what it holds for a path is the path's own.
CacheOK(ch) ==
    /\ ch \in [Range(PathOf) -> [of : Sources, level : 0 .. 2]]
    /\ Calm => \A p \in Range(PathOf) : ch[p].level > 0 => ch[p].of = p

\* What ties the playlist and its index to the queue and the transport.
Together(items, c, s, t) ==
    /\ ListOK(items, c) /\ ShuffleOK(s) /\ TransportOK(t)
    /\ LoadedIsCurrent(items, c, s, t) /\ LoadedInPlaylist(items, t)

\* The inductive invariant.
IInv ==
    /\ plan \in Plans /\ calls \in Nat
    /\ Together(playlist, currentIndex, shuffle, transport)
    /\ CacheOK(cache)

\* The entries, no media and another source are apart; a plan has a set of kinds.
LEMMA Apart ==
    /\ Size \in Nat /\ NoMedia \notin Entries /\ Direct \notin Entries /\ NoMedia # Direct
    /\ \A e \in Entries : PathOf[e] \in Range(PathOf) /\ PathOf[e] \in Sources
    /\ Range(PathOf) \subseteq Sources /\ NoMedia \in Sources /\ Direct \in Sources
    /\ \A items \in Seq(Entries) : Range(items) \in SUBSET Entries
    /\ \A items \in Seq(Entries) : \A i \in Indices(items) :
          At(items, i) \in Range(items) /\ At(items, i) \in Entries
<1>1. Size \in Nat /\ NoMedia \notin Entries /\ Direct \notin Entries /\ NoMedia # Direct
  BY PlaylistAssumption DEF Entries, NoMedia, Direct
<1>2. \A e \in Entries : PathOf[e] \in Range(PathOf)
  BY PlaylistAssumption DEF Range
<1>3. Range(PathOf) \subseteq Sources /\ NoMedia \in Sources /\ Direct \in Sources
  BY DEF Sources
<1>4. ASSUME NEW items \in Seq(Entries) PROVE Range(items) \in SUBSET Entries
  BY LenProperties DEF Range
<1>5. ASSUME NEW items \in Seq(Entries), NEW i \in Indices(items)
      PROVE  At(items, i) \in Range(items)
  <2>1. i + 1 \in 1 .. Len(items) /\ DOMAIN items = 1 .. Len(items)
    BY LenProperties DEF Indices
  <2>. QED
    BY <2>1 DEF At, Range
<1>6. ASSUME NEW items \in Seq(Entries), NEW i \in Indices(items)
      PROVE  At(items, i) \in Entries
  BY <1>4, <1>5
<1>. QED
  BY <1>1, <1>2, <1>3, <1>4, <1>5, <1>6

\* HasIndex is membership of the indices.
LEMMA IndexIn ==
    ASSUME NEW items \in Seq(Entries), NEW i
    PROVE  HasIndex(items, i) <=> i \in Indices(items)
BY DEF HasIndex, Indices

\* The fields of the transport, one by one.
LEMMA TransportFields ==
    ASSUME NEW t \in TransportType
    PROVE  /\ t.loaded \in Entries \cup {NoMedia, Direct} /\ t.pending \in -1 .. Size - 1
           /\ t.active \in BOOLEAN /\ t.stopping \in BOOLEAN /\ t.wanted \in BOOLEAN
           /\ t.direct \in BOOLEAN /\ t.play \in BOOLEAN
BY DEF TransportType

\* Forgetting what was requested changes nothing else.
LEMMA NoRequestKeeps ==
    ASSUME NEW t \in TransportType
    PROVE  LET n == NoRequest(t) IN
           /\ n \in TransportType /\ n.loaded = t.loaded /\ n.active = t.active
           /\ n.stopping = t.stopping /\ n.wanted = t.wanted /\ n.direct = FALSE
<1>1. NoIndex \in -1 .. Size - 1
  BY Apart DEF NoIndex
<1>. QED
  BY <1>1, TransportFields DEF NoRequest, TransportType

\* A player whose media is cleared is not active and has none.
LEMMA ClearedMediaHasNone ==
    ASSUME NEW t \in TransportType, ~ t.stopping, t.direct => "direct" \in plan.kinds
    PROVE  TransportOK(ClearedMedia(t)) /\ ClearedMedia(t).loaded = NoMedia
<1>1. (t.wanted /\ ~ t.active) \in BOOLEAN
  OBVIOUS
<1>2. ClearedMedia(t) = [t EXCEPT !.loaded = NoMedia, !.active = FALSE,
                                  !.wanted = (t.wanted /\ ~ t.active)]
  BY TransportFields DEF ClearedMedia, TransportType
<1>. DEFINE w == t.wanted /\ ~ t.active
<1>3. w \in BOOLEAN
  BY <1>1
<1>. HIDE DEF w
<1>4. ClearedMedia(t) = [t EXCEPT !.loaded = NoMedia, !.active = FALSE, !.wanted = w]
  BY <1>2 DEF w
<1>. QED
  BY <1>3, <1>4, TransportFields DEF TransportOK, TransportType

\* A stop leaves an active player its media until it takes effect; one that is not active
\* has none any more.
LEMMA StoppedKeeps ==
    ASSUME NEW t, TransportOK(t)
    PROVE  LET n == Stopped(t) IN
           /\ TransportOK(n) /\ n.active = t.active /\ n.direct = FALSE
           /\ n.loaded = IF t.active THEN t.loaded ELSE NoMedia
<1>. DEFINE q == NoRequest(t)
            m == [q EXCEPT !.wanted = FALSE]
<1>1. t \in TransportType
  BY DEF TransportOK
<1>2. /\ q \in TransportType /\ q.loaded = t.loaded /\ q.active = t.active
      /\ q.stopping = t.stopping /\ q.direct = FALSE
  BY <1>1, NoRequestKeeps
<1>. HIDE DEF q
<1>3. /\ m \in TransportType /\ m.loaded = t.loaded /\ m.active = t.active
      /\ m.stopping = t.stopping /\ m.direct = FALSE
  BY <1>2, TransportFields DEF TransportType
<1>4. Stopped(t) = IF t.active THEN [m EXCEPT !.stopping = TRUE]
                   ELSE [m EXCEPT !.loaded = NoMedia, !.stopping = FALSE]
  BY DEF Stopped, q
<1>. HIDE DEF m
<1>5. CASE t.active
  BY <1>3, <1>4, <1>5 DEF TransportOK, TransportType
<1>6. CASE ~ t.active
  BY <1>3, <1>4, <1>6 DEF TransportOK, TransportType
<1>. QED
  BY <1>5, <1>6

\* A queue that is invalidated is empty.
LEMMA NotBuiltEmpty ==
    ASSUME NEW s, ShuffleOK(s)
    PROVE  ShuffleOK(NotBuilt(s)) /\ Range(NotBuilt(s).queue) = {}
<1>1. NotBuilt(s) = [s EXCEPT !.built = FALSE, !.queue = << >>]
  BY DEF NotBuilt
<1>2. << >> \in Seq(Nat) /\ Range(<< >>) = {}
  BY DEF Range
<1>3. NotBuilt(s).queue = << >>
  BY <1>1 DEF ShuffleOK
<1>4. NotBuilt(s) \in [on : BOOLEAN, built : BOOLEAN, queue : Seq(Nat)]
  <2>. DEFINE e == << >>
  <2>1. e \in Seq(Nat) /\ NotBuilt(s) = [s EXCEPT !.built = FALSE, !.queue = e]
    BY <1>1, <1>2
  <2>. HIDE DEF e
  <2>. QED
    BY <2>1 DEF ShuffleOK
<1>. QED
  BY <1>2, <1>3, <1>4 DEF ShuffleOK

\* An activation makes the item it loads the current one, with no shuffle queue.
LEMMA ActivatesTogether ==
    ASSUME NEW t \in TransportType, ~ t.stopping, t.direct => "direct" \in plan.kinds,
           NEW items, NEW c, ListOK(items, c), NEW i \in Indices(items), NEW go \in BOOLEAN,
           ShuffleOK(shuffle), Activates(t, items, i, go)
    PROVE  Together(items, currentIndex', shuffle', transport') /\ currentIndex' = i
<1>1. PICK loads \in BOOLEAN :
         /\ transport' = [t EXCEPT !.loaded = IF loads THEN At(items, i) ELSE NoMedia,
                                   !.active = loads /\ go, !.wanted = go]
         /\ currentIndex' = i
         /\ shuffle' = NotBuilt(shuffle)
  BY DEF Activates
<1>. DEFINE on == loads /\ go
            media == IF loads THEN At(items, i) ELSE NoMedia
<1>2. on \in BOOLEAN
  OBVIOUS
<1>3. items \in Seq(Entries) /\ At(items, i) \in Entries /\ At(items, i) \in Range(items)
  BY Apart DEF ListOK
<1>4. /\ media \in Entries \cup {NoMedia} /\ media \in Range(items) \cup {NoMedia}
      /\ media # NoMedia => media = At(items, i)
  BY <1>3
<1>5. transport' = [t EXCEPT !.loaded = media, !.active = on, !.wanted = go]
  BY <1>1
<1>. HIDE DEF on, media
<1>6. /\ transport' \in TransportType /\ transport'.loaded = media
      /\ transport'.stopping = t.stopping /\ transport'.direct = t.direct
  BY <1>2, <1>4, <1>5, TransportFields DEF TransportType
<1>7. TransportOK(transport')
  BY <1>6 DEF TransportOK
<1>8. ShuffleOK(shuffle') /\ Range(shuffle'.queue) = {}
  BY <1>1, NotBuiltEmpty
<1>9. ListOK(items, currentIndex')
  BY <1>1 DEF ListOK
<1>10. NoMedia \notin Range(items)
  BY <1>3, Apart
<1>11. LoadedIsCurrent(items, currentIndex', shuffle', transport')
  BY <1>1, <1>4, <1>6, <1>8, <1>10 DEF LoadedIsCurrent
<1>12. LoadedInPlaylist(items, transport')
  BY <1>4, <1>6 DEF LoadedInPlaylist
<1>. QED
  BY <1>1, <1>7, <1>8, <1>9, <1>11, <1>12 DEF Together

\* A request is carried out at once or queued; the current index moves only with the media.
LEMMA RequestsTogether ==
    ASSUME NEW t, NEW items, NEW c, NEW i, NEW go \in BOOLEAN, NEW sh,
           Together(items, c, sh, t), ShuffleOK(shuffle),
           Requests(t, items, c, i, go, sh)
    PROVE  Together(items, currentIndex', shuffle', transport') /\ currentIndex' \in {c, i}
<1>1. /\ ListOK(items, c) /\ items \in Seq(Entries) /\ t \in TransportType /\ ShuffleOK(sh)
      /\ t.direct => "direct" \in plan.kinds
  BY DEF Together, ListOK, TransportOK
<1>2. HasIndex(items, i) <=> i \in Indices(items)
  BY <1>1, IndexIn
<1>3. CASE HasIndex(items, i) /\ ~ t.active
  <2>. DEFINE s == [t EXCEPT !.stopping = FALSE]
              n == NoRequest(s)
  <2>1. s \in TransportType /\ ~ s.stopping
    BY <1>1, TransportFields DEF TransportType
  <2>2. n \in TransportType /\ ~ n.stopping /\ n.direct = FALSE
    BY <2>1, NoRequestKeeps
  <2>3. Activates(n, items, i, go)
    BY <1>3 DEF Requests
  <2>. HIDE DEF n
  <2>. QED
    BY <1>1, <1>2, <1>3, <2>2, <2>3, ActivatesTogether
<1>4. CASE HasIndex(items, i) /\ t.active
  <2>1. i \in -1 .. Size - 1
    <3>1. Len(items) \in Nat /\ Len(items) <= Size /\ Size \in Nat
      BY <1>1, LenProperties, DistinctItems, Apart DEF ListOK
    <3>. QED
      BY <1>2, <1>4, <3>1 DEF Indices
  <2>2. /\ transport' = [t EXCEPT !.pending = i, !.play = go, !.stopping = TRUE]
        /\ currentIndex' = c /\ shuffle' = sh
    BY <1>4 DEF Requests
  <2>3. /\ transport' \in TransportType /\ transport'.loaded = t.loaded
        /\ transport'.active = t.active /\ transport'.direct = t.direct
    BY <1>1, <2>1, <2>2, TransportFields DEF TransportType
  <2>. QED
    BY <1>1, <1>4, <2>2, <2>3
    DEF Together, TransportOK, LoadedIsCurrent, LoadedInPlaylist
<1>5. CASE ~ HasIndex(items, i)
  <2>1. transport' = t /\ currentIndex' = c /\ shuffle' = sh
    BY <1>5 DEF Requests
  <2>. QED
    BY <2>1
<1>. QED
  BY <1>1, <1>3, <1>4, <1>5

\* Another source is not in the playlist; it has no index.
LEMMA OpensDirectTogether ==
    ASSUME NEW t \in TransportType, ~ t.stopping, t.direct = FALSE, "direct" \in plan.kinds,
           NEW items, NEW c, ListOK(items, c), NEW go \in BOOLEAN,
           ShuffleOK(shuffle), OpensDirect(t, go)
    PROVE  Together(items, currentIndex', shuffle', transport')
<1>1. PICK loads \in BOOLEAN :
         /\ transport' = [t EXCEPT !.loaded = IF loads THEN Direct ELSE NoMedia,
                                   !.active = loads /\ go, !.wanted = go]
         /\ currentIndex' = NoIndex /\ shuffle' = shuffle
  BY DEF OpensDirect
<1>. DEFINE on == loads /\ go
            media == IF loads THEN Direct ELSE NoMedia
<1>2. on \in BOOLEAN /\ media \in {Direct, NoMedia}
  OBVIOUS
<1>3. transport' = [t EXCEPT !.loaded = media, !.active = on, !.wanted = go]
  BY <1>1
<1>. HIDE DEF on, media
<1>4. /\ transport' \in TransportType /\ transport'.loaded = media
      /\ transport'.stopping = t.stopping /\ transport'.direct = t.direct
  BY <1>2, <1>3, TransportFields DEF TransportType
<1>5. media \notin Range(items)
  BY <1>2, Apart DEF ListOK
<1>. QED
  BY <1>1, <1>4, <1>5
  DEF Together, TransportOK, ListOK, LoadedIsCurrent, LoadedInPlaylist, Calm

\* The shuffle queue only shrinks: a choice takes from it what is left after.
LEMMA NextOfQueue ==
    ASSUME NEW q \in Seq(Nat), playlist \in Seq(Entries)
    PROVE  NextOf(q).queue \in Seq(Nat) /\ Range(NextOf(q).queue) \subseteq Range(q)
<1>. DEFINE valid == {k \in DOMAIN q : HasIndex(playlist, q[k])}
<1>1. Len(q) \in Nat /\ DOMAIN q = 1 .. Len(q)
  BY LenProperties
<1>2. CASE valid = {}
  BY <1>2 DEF NextOf, Range
<1>3. CASE valid # {}
  <2>1. IsFiniteSet(valid) /\ valid \in SUBSET Int
    <3>1. IsFiniteSet(1 .. Len(q)) /\ valid \in SUBSET (1 .. Len(q))
      BY <1>1, FS_Interval
    <3>2. valid \in SUBSET Int
      BY <1>1
    <3>. HIDE DEF valid
    <3>. QED
      BY <3>1, <3>2, FS_Subset
  <2>. DEFINE k == CHOOSE k \in valid : \A j \in valid : j <= k
  <2>2. k \in valid
    <3>. HIDE DEF valid
    <3>. QED
      BY <1>3, <2>1, GreatestExists
  <2>3. k \in 1 .. Len(q)
    BY <1>1, <2>2
  <2>4. NextOf(q).queue = SubSeq(q, 1, k - 1)
    BY <1>3 DEF NextOf
  <2>. HIDE DEF k, valid
  <2>5. /\ SubSeq(q, 1, k - 1) \in Seq(Nat)
        /\ DOMAIN SubSeq(q, 1, k - 1) = 1 .. k - 1
        /\ \A j \in 1 .. k - 1 : SubSeq(q, 1, k - 1)[j] = q[j]
    BY <1>1, <2>3
  <2>6. Range(SubSeq(q, 1, k - 1)) \subseteq Range(q)
    <3>1. \A j \in 1 .. k - 1 : j \in 1 .. Len(q)
      BY <1>1, <2>3
    <3>. QED
      BY <1>1, <2>5, <3>1 DEF Range
  <2>. QED
    BY <2>4, <2>5, <2>6
<1>. QED
  BY <1>2, <1>3

\* A new shuffle queue is of indices other than the current one.
LEMMA ShuffledSkipsCurrent ==
    ASSUME NEW q \in Shuffled, playlist \in Seq(Entries)
    PROVE  q \in Seq(Nat) /\ currentIndex \notin Range(q)
<1>. DEFINE D == (0 .. Len(playlist) - 1) \ {currentIndex}
<1>1. q \in [1 .. Cardinality(D) -> D]
  BY DEF Shuffled, SetToSeqs
<1>2. D \subseteq Nat /\ currentIndex \notin D
  OBVIOUS
<1>3. Cardinality(D) \in Nat
  <2>1. IsFiniteSet(0 .. Len(playlist) - 1) /\ D \in SUBSET (0 .. Len(playlist) - 1)
    <3>1. Len(playlist) - 1 \in Int /\ 0 \in Int
      BY LenProperties
    <3>. QED
      BY <3>1, FS_Interval
  <2>. HIDE DEF D
  <2>. QED
    BY <2>1, FS_Subset, FS_CardinalityType
<1>. HIDE DEF D
<1>4. q \in [1 .. Cardinality(D) -> Nat]
  BY <1>1, <1>2
<1>5. q \in Seq(Nat)
  BY <1>3, <1>4, IsASeq
<1>6. currentIndex \notin Range(q)
  BY <1>1, <1>2 DEF Range
<1>. QED
  BY <1>5, <1>6

\* A choice leaves a queue that still skips the current item if it is loaded.
LEMMA ChoiceSkipsCurrent ==
    ASSUME Together(playlist, currentIndex, shuffle, transport), NEW ch \in ShuffleChoices
    PROVE  /\ ShuffleOK(WithQueue(ch)) /\ WithQueue(ch).queue = ch.queue
           /\ transport.loaded \in Range(playlist) => currentIndex \notin Range(ch.queue)
<1>1. playlist \in Seq(Entries) /\ shuffle.queue \in Seq(Nat) /\ ShuffleOK(shuffle)
  BY DEF Together, ListOK, ShuffleOK
<1>2. ch = NextOf(shuffle.queue) \/ \E q \in Shuffled : ch = NextOf(q)
  BY DEF ShuffleChoices
<1>3. PICK q \in Seq(Nat) :
         /\ ch = NextOf(q)
         /\ transport.loaded \in Range(playlist) => currentIndex \notin Range(q)
  <2>1. CASE ch = NextOf(shuffle.queue)
    BY <1>1, <2>1 DEF Together, LoadedIsCurrent
  <2>2. CASE \E q \in Shuffled : ch = NextOf(q)
    BY <1>1, <2>2, ShuffledSkipsCurrent
  <2>. QED
    BY <1>2, <2>1, <2>2
<1>4. ch.queue \in Seq(Nat) /\ Range(ch.queue) \subseteq Range(q)
  BY <1>1, <1>3, NextOfQueue
<1>5. ShuffleOK(WithQueue(ch)) /\ WithQueue(ch).queue = ch.queue
  BY <1>1, <1>4 DEF ShuffleOK, WithQueue
<1>. QED
  BY <1>3, <1>4, <1>5

-----------------------------------------------------------------------------
(* Every step keeps the invariant, and edits keep the current item *)

\* What EditsKeepCurrentItem asks of a step.
EditStep ==
    playlist' # playlist /\ playlist' # << >> /\ HasIndex(playlist, currentIndex) =>
        LET item == At(playlist, currentIndex)
            after == Least(currentIndex, Len(playlist') - 1)
        IN  IF item \in Range(playlist') THEN At(playlist', currentIndex') = item
            ELSE currentIndex' = after

\* The invariant's parts, after a step of the same plan.
LEMMA IInvAfter ==
    ASSUME plan \in Plans, plan' = plan, calls' \in Nat,
           Together(playlist', currentIndex', shuffle', transport'), CacheOK(cache')
    PROVE  IInv'
<1>1. Calm' = Calm
  BY DEF Calm
<1>2. TransportOK(transport)'
  BY DEF Together, TransportOK
<1>3. /\ ListOK(playlist, currentIndex)' /\ ShuffleOK(shuffle)'
      /\ LoadedIsCurrent(playlist, currentIndex, shuffle, transport)'
  BY DEF Together, ListOK, ShuffleOK, LoadedIsCurrent
<1>4. LoadedInPlaylist(playlist, transport)' /\ CacheOK(cache)'
  BY <1>1 DEF Together, LoadedInPlaylist, CacheOK
<1>. QED
  BY <1>2, <1>3, <1>4 DEF IInv, Together

\* A call counts, and follows the plan.
LEMMA CallsCount ==
    ASSUME NEW kind, IInv, Calls(kind)
    PROVE  plan' = plan /\ calls' \in Nat /\ plan \in Plans /\ kind \in plan.kinds
BY DEF IInv, Calls

\* An empty cache, and one that forgets some paths, hold no metadata of another.
LEMMA EmptyCacheOK == CacheOK(EmptyCache)
<1>1. NotCached \in [of : Sources, level : 0 .. 2] /\ NotCached.level = 0
  BY Apart DEF NotCached
<1>. QED
  BY <1>1 DEF CacheOK, EmptyCache

\* Forgetting paths.
LEMMA ForgottenOK ==
    ASSUME NEW added, CacheOK(cache)
    PROVE  CacheOK(Forgotten(added))
<1>1. NotCached \in [of : Sources, level : 0 .. 2] /\ NotCached.level = 0
  BY Apart DEF NotCached
<1>2. \A p \in Range(PathOf) : Forgotten(added)[p] \in {NotCached, cache[p]}
  BY DEF Forgotten
<1>3. Forgotten(added) \in [Range(PathOf) -> [of : Sources, level : 0 .. 2]]
  BY <1>1, <1>2 DEF Forgotten, CacheOK
<1>4. ASSUME Calm, NEW p \in Range(PathOf), Forgotten(added)[p].level > 0
      PROVE  Forgotten(added)[p].of = p
  BY <1>1, <1>2, <1>4 DEF CacheOK
<1>. QED
  BY <1>3, <1>4 DEF CacheOK

\* What is stored is of a source, and its own when the plan is calm.
LEMMA StoredOK ==
    ASSUME NEW known, CacheOK(known), NEW path \in Range(PathOf), NEW of \in Sources,
           NEW level \in 0 .. 2, Calm => of = path, Stored(known, path, of, level)
    PROVE  CacheOK(cache')
<1>. DEFINE r == [of |-> of, level |-> level]
<1>1. r \in [of : Sources, level : 0 .. 2] /\ r.of = of
  OBVIOUS
<1>2. cache' = [known EXCEPT ![path] = r]
  BY DEF Stored
<1>. HIDE DEF r
<1>3. cache' \in [Range(PathOf) -> [of : Sources, level : 0 .. 2]]
  BY <1>1, <1>2 DEF CacheOK
<1>4. ASSUME Calm, NEW p \in Range(PathOf), cache'[p].level > 0 PROVE cache'[p].of = p
  <2>1. CASE p = path
    BY <1>1, <1>2, <1>4, <2>1 DEF CacheOK
  <2>2. CASE p # path
    BY <1>2, <1>4, <2>2 DEF CacheOK
  <2>. QED
    BY <2>1, <2>2
<1>. QED
  BY <1>3, <1>4 DEF CacheOK

\* The loaded media answers for the current item only, which is then its own.
LEMMA FetchesOwn ==
    ASSUME NEW known, CacheOK(known), NEW items, NEW current, NEW sh, NEW i \in Int,
           Together(items, current, sh, transport), Fetches(known, items, current, i)
    PROVE  CacheOK(cache')
<1>1. /\ items \in Seq(Entries) /\ transport \in TransportType
      /\ LoadedIsCurrent(items, current, sh, transport)
      /\ LoadedInPlaylist(items, transport)
  BY DEF Together, ListOK, TransportOK
<1>2. CASE ~ HasIndex(items, i)
  BY <1>1, <1>2 DEF Fetches, CacheOK
<1>3. CASE HasIndex(items, i)
  <2>. DEFINE path == PathOf[At(items, i)]
  <2>1. At(items, i) \in Entries /\ path \in Range(PathOf) /\ path \in Sources
    BY <1>1, <1>3, IndexIn, Apart
  <2>2. \/ /\ i = current /\ transport.loaded # NoMedia
           /\ \E level \in 1 .. 2 : FromLoadedMedia(known, path, level)
        \/ FromInspection(known, path)
    BY <1>3 DEF Fetches
  <2>. HIDE DEF path
  <2>3. ASSUME i = current, transport.loaded # NoMedia,
               NEW level \in 1 .. 2, FromLoadedMedia(known, path, level)
        PROVE  CacheOK(cache')
    <3>. DEFINE of == IF transport.loaded = Direct THEN Direct ELSE PathOf[transport.loaded]
    <3>1. of \in Sources
      BY <1>1, <2>3, TransportFields, Apart
    <3>2. Calm => of = path
      <4>1. SUFFICES ASSUME Calm PROVE of = path
        OBVIOUS
      <4>2. transport.loaded \in Range(items)
        BY <1>1, <2>3, <4>1 DEF LoadedInPlaylist
      <4>3. At(items, i) = transport.loaded
        BY <1>1, <2>3, <4>2 DEF LoadedIsCurrent
      <4>4. transport.loaded # Direct
        BY <2>1, <4>3, Apart
      <4>. QED
        BY <4>3, <4>4 DEF path
    <3>3. cache' = known \/ Stored(known, path, of, level)
      BY <2>3 DEF FromLoadedMedia
    <3>4. level \in 0 .. 2
      OBVIOUS
    <3>. HIDE DEF of
    <3>5. CASE cache' = known
      BY <1>1, <3>5 DEF CacheOK
    <3>6. CASE Stored(known, path, of, level)
      BY <1>1, <2>1, <3>1, <3>2, <3>4, <3>6, StoredOK
    <3>. QED
      BY <3>3, <3>5, <3>6
  <2>4. CASE FromInspection(known, path)
    <3>1. CASE cache' = known
      BY <1>1, <3>1 DEF CacheOK
    <3>2. ASSUME NEW level \in 1 .. 2, Stored(known, path, path, level)
          PROVE  CacheOK(cache')
      <4>1. level \in 0 .. 2
        OBVIOUS
      <4>. QED
        BY <1>1, <2>1, <3>2, <4>1, StoredOK
    <3>. QED
      BY <2>4, <3>1, <3>2 DEF FromInspection
  <2>. QED
    BY <2>2, <2>3, <2>4
<1>. QED
  BY <1>2, <1>3

\* Asking for metadata.
LEMMA GetMetadataStep == ASSUME IInv, GetMetadata PROVE IInv' /\ EditStep
<1>1. plan' = plan /\ calls' \in Nat /\ plan \in Plans
  BY CallsCount DEF GetMetadata
<1>2. UNCHANGED << playlist, currentIndex, shuffle, transport >>
  BY DEF GetMetadata
<1>3. Together(playlist', currentIndex', shuffle', transport')
  BY <1>2 DEF IInv
<1>4. CacheOK(cache')
  <2>1. PICK i \in -1 .. Len(playlist) : Fetches(cache, playlist, currentIndex, i)
    BY DEF GetMetadata
  <2>2. i \in Int
    BY <2>1
  <2>. QED
    BY <2>1, <2>2, FetchesOwn DEF IInv
<1>. QED
  BY <1>1, <1>2, <1>3, <1>4, IInvAfter DEF EditStep

\* Items that are added are neither in the playlist nor loaded, and go to the end.
LEMMA AppendsTogether ==
    ASSUME IInv, NEW added \in Seq(Entries), IsInjective(added), Range(added) \subseteq Free,
           Len(added) > 0, Appends(added), UNCHANGED << shuffle, transport >>
    PROVE  Together(playlist', currentIndex', shuffle', transport') /\ EditStep
<1>1. /\ playlist \in Seq(Entries) /\ IsInjective(playlist)
      /\ currentIndex \in Indices(playlist) \cup {NoIndex}
      /\ ShuffleOK(shuffle) /\ TransportOK(transport)
      /\ LoadedIsCurrent(playlist, currentIndex, shuffle, transport)
      /\ LoadedInPlaylist(playlist, transport)
  BY DEF IInv, Together, ListOK
<1>2. Range(playlist) \cap Range(added) = {} /\ transport.loaded \notin Range(added)
  BY DEF Free
<1>3. playlist' = playlist \o added
  BY DEF Appends
<1>4. /\ playlist' \in Seq(Entries) /\ Len(playlist') = Len(playlist) + Len(added)
      /\ Range(playlist') = Range(playlist) \cup Range(added) /\ IsInjective(playlist')
      /\ \A i \in Indices(playlist) : i \in Indices(playlist') /\ At(playlist', i) = At(playlist, i)
  <2>1. LET both == playlist \o added IN
        /\ both \in Seq(Entries) /\ Len(both) = Len(playlist) + Len(added)
        /\ Range(both) = Range(playlist) \cup Range(added)
        /\ \A i \in Indices(playlist) : i \in Indices(both) /\ At(both, i) = At(playlist, i)
        /\ IsInjective(playlist) /\ IsInjective(added) /\ Range(playlist) \cap Range(added) = {}
              => IsInjective(both)
    BY <1>1, AppendKeeps
  <2>. QED
    BY <1>1, <1>2, <1>3, <2>1
<1>5. NoIndex \notin Indices(playlist)
  BY DEF NoIndex, Indices
<1>6. /\ currentIndex \in Indices(playlist) => currentIndex' = currentIndex
      /\ currentIndex' \in Indices(playlist')
  <2>1. CASE currentIndex = NoIndex
    <3>1. currentIndex' = 0
      BY <2>1 DEF Appends
    <3>2. 0 \in Indices(playlist')
      <4>1. Len(playlist) \in Nat /\ Len(added) \in Nat
        BY <1>1, LenProperties
      <4>. QED
        BY <1>4, <4>1 DEF Indices
    <3>. QED
      BY <2>1, <3>1, <3>2, <1>5
  <2>2. CASE currentIndex # NoIndex
    <3>1. currentIndex' = currentIndex
      BY <2>2 DEF Appends
    <3>. QED
      BY <1>1, <1>4, <2>2, <3>1
  <2>. QED
    BY <2>1, <2>2
<1>7. ListOK(playlist', currentIndex') /\ ShuffleOK(shuffle') /\ TransportOK(transport')
  BY <1>1, <1>4, <1>6 DEF ListOK
<1>8. LoadedIsCurrent(playlist', currentIndex', shuffle', transport')
  BY <1>1, <1>2, <1>4, <1>6 DEF LoadedIsCurrent
<1>9. LoadedInPlaylist(playlist', transport')
  BY <1>1, <1>4 DEF LoadedInPlaylist
<1>10. EditStep
  <2>1. HasIndex(playlist, currentIndex) =>
            /\ currentIndex' = currentIndex
            /\ At(playlist', currentIndex) = At(playlist, currentIndex)
            /\ At(playlist, currentIndex) \in Range(playlist')
    BY <1>1, <1>4, <1>6, IndexIn, Apart
  <2>. QED
    BY <2>1 DEF EditStep
<1>. QED
  BY <1>7, <1>8, <1>9, <1>10 DEF Together

\* Adding an item.
LEMMA AddToPlaylistStep == ASSUME IInv, AddToPlaylist PROVE IInv' /\ EditStep
<1>1. plan' = plan /\ calls' \in Nat /\ plan \in Plans
  BY CallsCount DEF AddToPlaylist
<1>2. PICK e \in Free : Appends(<< e >>) /\ cache' = Forgotten(<< e >>)
  BY DEF AddToPlaylist
<1>. DEFINE added == << e >>
<1>3. /\ added \in Seq(Entries) /\ IsInjective(added) /\ Range(added) \subseteq Free
      /\ Len(added) > 0
  BY DEF IsInjective, Range, Free
<1>. HIDE DEF added
<1>4. Appends(added) /\ cache' = Forgotten(added) /\ UNCHANGED << shuffle, transport >>
  BY <1>2 DEF AddToPlaylist, added
<1>5. Together(playlist', currentIndex', shuffle', transport') /\ EditStep
  BY <1>3, <1>4, AppendsTogether
<1>6. CacheOK(cache')
  BY <1>4, ForgottenOK DEF IInv
<1>. QED
  BY <1>1, <1>5, <1>6, IInvAfter

\* Adding a folder.
LEMMA AddFolderStep == ASSUME IInv, AddFolder PROVE IInv' /\ EditStep
<1>1. plan' = plan /\ calls' \in Nat /\ plan \in Plans
  BY CallsCount DEF AddFolder
<1>2. PICK added \in Listings :
         /\ Appends(added)
         /\ Fetches(Forgotten(added), playlist', currentIndex', currentIndex')
  BY DEF AddFolder
<1>3. /\ added \in Seq(Entries) /\ IsInjective(added) /\ Range(added) \subseteq Free
      /\ Len(added) > 0
  <2>1. PICK n \in 1 .. Size : added \in [1 .. n -> Free]
    BY DEF Listings
  <2>2. \A j, k \in DOMAIN added : j # k => PathOf[added[j]] # PathOf[added[k]]
    BY DEF Listings
  <2>3. n \in Nat /\ n > 0 /\ Free \subseteq Entries
    BY <2>1, PlaylistAssumption DEF Free
  <2>4. added \in Seq(Entries) /\ Len(added) > 0
    BY <2>1, <2>3
  <2>. QED
    BY <2>1, <2>2, <2>4 DEF IsInjective, Range
<1>4. Together(playlist', currentIndex', shuffle', transport') /\ EditStep
  BY <1>2, <1>3, AppendsTogether DEF AddFolder
<1>5. CacheOK(cache')
  <2>1. CacheOK(Forgotten(added))
    BY ForgottenOK DEF IInv
  <2>2. currentIndex' \in Int /\ transport' = transport
    BY <1>4, Apart DEF AddFolder, Together, ListOK, Indices, NoIndex
  <2>. QED
    BY <1>2, <1>4, <2>1, <2>2, FetchesOwn
<1>. QED
  BY <1>1, <1>4, <1>5, IInvAfter

\* Clearing.
LEMMA ClearPlaylistStep == ASSUME IInv, ClearPlaylist PROVE IInv' /\ EditStep
<1>1. plan' = plan /\ calls' \in Nat /\ plan \in Plans
  BY CallsCount DEF ClearPlaylist
<1>. DEFINE t == Stopped(transport)
<1>2. /\ playlist' = << >> /\ currentIndex' = NoIndex /\ cache' = EmptyCache
      /\ shuffle' = NotBuilt(shuffle) /\ (plan.calm => ~ transport.active)
      /\ transport' = IF t.stopping THEN t ELSE ClearedMedia(t)
  BY DEF ClearPlaylist
<1>3. TransportOK(transport) /\ ShuffleOK(shuffle)
  BY DEF IInv, Together
<1>4. /\ TransportOK(t) /\ t.active = transport.active
      /\ ~ transport.active => t.loaded = NoMedia
  BY <1>3, StoppedKeeps
<1>. HIDE DEF t
<1>5. TransportOK(transport') /\ (~ transport.active => transport'.loaded = NoMedia)
  <2>1. CASE t.stopping
    BY <1>2, <1>4, <2>1
  <2>2. CASE ~ t.stopping
    <3>1. t \in TransportType /\ (t.direct => "direct" \in plan.kinds)
      BY <1>4 DEF TransportOK
    <3>. QED
      BY <1>2, <2>2, <3>1, ClearedMediaHasNone
  <2>. QED
    BY <2>1, <2>2
<1>6. Range(playlist') = {} /\ ListOK(playlist', currentIndex')
  BY <1>2 DEF Range, ListOK, IsInjective
<1>7. ShuffleOK(shuffle')
  BY <1>2, <1>3, NotBuiltEmpty
<1>8. Together(playlist', currentIndex', shuffle', transport')
  BY <1>2, <1>5, <1>6, <1>7 DEF Together, LoadedIsCurrent, LoadedInPlaylist, Calm
<1>9. CacheOK(cache')
  BY <1>2, EmptyCacheOK
<1>. QED
  BY <1>1, <1>2, <1>8, <1>9, IInvAfter DEF EditStep

\* An item that is not current is removed: the index follows the current one.
LEMMA OtherRemoved ==
    ASSUME IInv, NEW i \in Indices(playlist), i # currentIndex, RemoveAtIndex(i)
    PROVE  Together(playlist', currentIndex', shuffle', transport') /\ EditStep
<1>. DEFINE left == RemoveAt(playlist, i + 1)
            c == currentIndex
            j == IF i < c THEN c - 1 ELSE c
            current == IndexAfterRemoval(i, Len(left))
<1>1. /\ playlist \in Seq(Entries) /\ IsInjective(playlist)
      /\ c \in Indices(playlist) \cup {NoIndex}
      /\ ShuffleOK(shuffle) /\ TransportOK(transport)
      /\ LoadedIsCurrent(playlist, c, shuffle, transport)
      /\ LoadedInPlaylist(playlist, transport)
  BY DEF IInv, Together, ListOK
<1>2. /\ playlist' = left /\ currentIndex' = current /\ shuffle' = NotBuilt(shuffle)
      /\ transport' = IF left = << >> /\ ~ transport.stopping THEN ClearedMedia(transport)
                      ELSE transport
  <2>1. HasIndex(playlist, i)
    BY <1>1, IndexIn
  <2>. QED
    BY <2>1 DEF RemoveAtIndex
<1>3. /\ left \in Seq(Entries) /\ Len(left) = Len(playlist) - 1 /\ IsInjective(left)
      /\ Range(left) = Range(playlist) \ {At(playlist, i)}
      /\ c \in Indices(playlist) => j \in Indices(left) /\ At(left, j) = At(playlist, c)
  BY <1>1, RemovalKeeps
<1>4. Len(playlist) \in Nat /\ i \in 0 .. Len(playlist) - 1
  BY <1>1, LenProperties DEF Indices
<1>. HIDE DEF left
<1>5. c \in Indices(playlist) => current = j
  <2>1. SUFFICES ASSUME c \in 0 .. Len(playlist) - 1 PROVE current = j
    BY DEF Indices
  <2>2. Len(left) \in Nat /\ Len(left) # 0
    BY <1>3, <1>4, <2>1
  <2>3. CASE i < c
    BY <2>2, <2>3 DEF IndexAfterRemoval
  <2>4. CASE ~ (i < c)
    <3>1. ~ (c >= Len(left))
      BY <1>3, <1>4, <2>1, <2>4
    <3>. QED
      BY <2>2, <2>4, <3>1 DEF IndexAfterRemoval
  <2>. QED
    BY <2>3, <2>4
<1>6. c = NoIndex => current \in Indices(left) \cup {NoIndex}
  <2>1. SUFFICES ASSUME c = NoIndex PROVE current \in Indices(left) \cup {NoIndex}
    OBVIOUS
  <2>2. Len(left) \in Nat
    BY <1>3, <1>4
  <2>3. current \in {NoIndex, Len(left) - 1}
    <3>1. ~ (i < c) /\ (c >= Len(left) <=> FALSE)
      BY <1>4, <2>1, <2>2 DEF NoIndex
    <3>. QED
      BY <2>1, <3>1 DEF IndexAfterRemoval
  <2>4. CASE Len(left) = 0
    BY <2>3, <2>4 DEF NoIndex
  <2>5. CASE Len(left) # 0
    BY <2>2, <2>3, <2>5 DEF Indices
  <2>. QED
    BY <2>4, <2>5
<1>. HIDE DEF current, j
<1>7. ListOK(left, current)
  BY <1>1, <1>3, <1>5, <1>6 DEF ListOK
<1>8. ShuffleOK(shuffle') /\ Range(shuffle'.queue) = {}
  BY <1>1, <1>2, NotBuiltEmpty
<1>9. TransportOK(transport') /\ transport'.loaded \in {NoMedia, transport.loaded}
  <2>1. CASE left = << >> /\ ~ transport.stopping
    <3>1. transport \in TransportType /\ (transport.direct => "direct" \in plan.kinds)
      BY <1>1 DEF TransportOK
    <3>. QED
      BY <1>2, <2>1, <3>1, ClearedMediaHasNone
  <2>2. CASE ~ (left = << >> /\ ~ transport.stopping)
    BY <1>1, <1>2, <2>2
  <2>. QED
    BY <2>1, <2>2
<1>10. NoMedia \notin Range(playlist)
  BY <1>1, Apart
<1>11. transport.loaded \in Range(playlist) =>
          /\ transport.loaded \in Range(left) /\ current \in Indices(left)
          /\ At(left, current) = transport.loaded
  <2>1. SUFFICES ASSUME transport.loaded \in Range(playlist)
                 PROVE  /\ transport.loaded \in Range(left) /\ current \in Indices(left)
                        /\ At(left, current) = transport.loaded
    OBVIOUS
  <2>2. c \in Indices(playlist) /\ At(playlist, c) = transport.loaded
    BY <1>1, <2>1 DEF LoadedIsCurrent
  <2>3. current \in Indices(left) /\ At(left, current) = transport.loaded
    BY <1>3, <1>5, <2>2
  <2>. QED
    BY <1>3, <2>3, Apart
<1>12. LoadedIsCurrent(left, current, shuffle', transport')
  BY <1>3, <1>8, <1>9, <1>10, <1>11 DEF LoadedIsCurrent
<1>13. LoadedInPlaylist(left, transport')
  BY <1>1, <1>9, <1>11 DEF LoadedInPlaylist
<1>14. EditStep
  <2>1. SUFFICES ASSUME HasIndex(playlist, c)
                 PROVE  /\ At(playlist, c) \in Range(playlist')
                        /\ At(playlist', currentIndex') = At(playlist, c)
    BY DEF EditStep
  <2>2. c \in Indices(playlist)
    BY <1>1, <2>1, IndexIn
  <2>3. current \in Indices(left) /\ At(left, current) = At(playlist, c)
    BY <1>3, <1>5, <2>2
  <2>4. At(left, current) \in Range(left)
    BY <1>3, <2>3, Apart
  <2>. QED
    BY <1>2, <2>3, <2>4
<1>. QED
  BY <1>2, <1>7, <1>8, <1>9, <1>12, <1>13, <1>14 DEF Together

\* The current item is removed: the player is stopped, and the item that followed it, or
\* the new last one, is requested.
LEMMA CurrentRemoved ==
    ASSUME IInv, currentIndex \in Indices(playlist), plan.calm => ~ transport.active,
           RemoveAtIndex(currentIndex)
    PROVE  Together(playlist', currentIndex', shuffle', transport') /\ EditStep
<1>. DEFINE c == currentIndex
            left == RemoveAt(playlist, c + 1)
            t == Stopped(transport)
            current == IndexAfterRemoval(c, Len(left))
            sh == NotBuilt(shuffle)
<1>1. /\ playlist \in Seq(Entries) /\ IsInjective(playlist)
      /\ ShuffleOK(shuffle) /\ TransportOK(transport)
      /\ LoadedIsCurrent(playlist, c, shuffle, transport)
      /\ LoadedInPlaylist(playlist, transport)
  BY DEF IInv, Together, ListOK
<1>2. /\ playlist' = left
      /\ IF left # << >>
         THEN Requests(t, left, current, current, transport.wanted, sh)
         ELSE /\ currentIndex' = current /\ shuffle' = sh
              /\ transport' = IF left = << >> /\ ~ t.stopping THEN ClearedMedia(t) ELSE t
  <2>1. HasIndex(playlist, c)
    BY <1>1, IndexIn
  <2>. QED
    BY <2>1 DEF RemoveAtIndex
<1>3. /\ left \in Seq(Entries) /\ Len(left) = Len(playlist) - 1 /\ IsInjective(left)
      /\ Range(left) = Range(playlist) \ {At(playlist, c)}
  BY <1>1, RemovalKeeps
<1>4. Len(playlist) \in Nat /\ c \in 0 .. Len(playlist) - 1
  BY <1>1, LenProperties DEF Indices
<1>5. /\ TransportOK(t) /\ t.active = transport.active
      /\ t.loaded = IF transport.active THEN transport.loaded ELSE NoMedia
  BY <1>1, StoppedKeeps
<1>6. ShuffleOK(sh) /\ Range(sh.queue) = {}
  BY <1>1, NotBuiltEmpty
<1>. HIDE DEF left, t, sh
<1>7. current = IF Len(left) = 0 THEN NoIndex ELSE Least(c, Len(left) - 1)
  <2>1. ~ (c < c)
    BY <1>4
  <2>2. current = IF Len(left) = 0 THEN NoIndex
                  ELSE IF c >= Len(left) THEN Len(left) - 1 ELSE c
    BY <2>1 DEF IndexAfterRemoval
  <2>3. Len(left) \in Nat
    BY <1>3, <1>4
  <2>4. Least(c, Len(left) - 1) = IF c >= Len(left) THEN Len(left) - 1 ELSE c
    BY <1>4, <2>3 DEF Least
  <2>. QED
    BY <2>2, <2>4
<1>8. current \in Indices(left) \cup {NoIndex}
  <2>1. Len(left) \in Nat
    BY <1>3, <1>4
  <2>. QED
    BY <1>4, <1>7, <2>1 DEF Indices, Least
<1>. HIDE DEF current
<1>9. t.loaded \notin Range(left) /\ NoMedia \notin Range(left)
  <2>1. NoMedia \notin Range(left)
    BY <1>3, Apart
  <2>2. transport.loaded \in Range(playlist) => transport.loaded = At(playlist, c)
    BY <1>1 DEF LoadedIsCurrent
  <2>. QED
    BY <1>3, <1>5, <2>1, <2>2
<1>10. Together(left, current, sh, t)
  <2>1. ListOK(left, current)
    BY <1>3, <1>8 DEF ListOK
  <2>2. LoadedIsCurrent(left, current, sh, t)
    BY <1>9 DEF LoadedIsCurrent
  <2>3. LoadedInPlaylist(left, t)
    BY <1>5 DEF LoadedInPlaylist, Calm
  <2>. QED
    BY <1>5, <1>6, <2>1, <2>2, <2>3 DEF Together
<1>11. Together(left, currentIndex', shuffle', transport')
       /\ currentIndex' = current
  <2>1. CASE left # << >>
    <3>1. transport.wanted \in BOOLEAN
      BY <1>1, TransportFields DEF TransportOK
    <3>2. Requests(t, left, current, current, transport.wanted, sh)
      BY <1>2, <2>1
    <3>. QED
      BY <1>1, <1>10, <3>1, <3>2, RequestsTogether
  <2>2. CASE left = << >>
    <3>1. /\ currentIndex' = current /\ shuffle' = sh
          /\ transport' = IF ~ t.stopping THEN ClearedMedia(t) ELSE t
      BY <1>2, <2>2
    <3>2. CASE t.stopping
      BY <1>10, <3>1, <3>2
    <3>3. CASE ~ t.stopping
      <4>1. t \in TransportType /\ (t.direct => "direct" \in plan.kinds)
        BY <1>5 DEF TransportOK
      <4>2. TransportOK(ClearedMedia(t)) /\ ClearedMedia(t).loaded = NoMedia
        BY <3>3, <4>1, ClearedMediaHasNone
      <4>. QED
        BY <1>9, <1>10, <3>1, <3>3, <4>2 DEF Together, LoadedIsCurrent, LoadedInPlaylist
    <3>. QED
      BY <3>2, <3>3
  <2>. QED
    BY <2>1, <2>2
<1>12. EditStep
  <2>1. SUFFICES ASSUME left # << >>
                 PROVE  /\ At(playlist, c) \notin Range(left)
                        /\ currentIndex' = Least(c, Len(left) - 1)
    BY <1>2 DEF EditStep
  <2>2. Len(left) # 0
    BY <1>3, <2>1, EmptySeq
  <2>. QED
    BY <1>3, <1>7, <1>11, <2>2
<1>. QED
  BY <1>2, <1>11, <1>12

\* Removing at any index.
LEMMA RemoveFromPlaylistStep == ASSUME IInv, RemoveFromPlaylist PROVE IInv' /\ EditStep
<1>1. plan' = plan /\ calls' \in Nat /\ plan \in Plans
  BY CallsCount DEF RemoveFromPlaylist
<1>2. PICK i \in -1 .. Len(playlist) :
         (plan.calm => i # currentIndex \/ ~ transport.active) /\ RemoveAtIndex(i)
  BY DEF RemoveFromPlaylist
<1>3. /\ playlist \in Seq(Entries) /\ TransportOK(transport) /\ CacheOK(cache)
      /\ Together(playlist, currentIndex, shuffle, transport)
      /\ currentIndex \in Indices(playlist) \cup {NoIndex}
  BY DEF IInv, Together, ListOK
<1>4. CASE ~ HasIndex(playlist, i)
  <2>1. /\ transport' = (IF i = currentIndex THEN Stopped(transport) ELSE transport)
        /\ UNCHANGED << playlist, currentIndex, cache, shuffle >>
    BY <1>2, <1>4 DEF RemoveAtIndex
  <2>2. TransportOK(transport') /\ transport'.loaded \in {NoMedia, transport.loaded}
    BY <1>3, <2>1, StoppedKeeps
  <2>3. NoMedia \notin Range(playlist)
    BY <1>3, Apart
  <2>4. Together(playlist', currentIndex', shuffle', transport')
    BY <1>3, <2>1, <2>2, <2>3 DEF Together, LoadedIsCurrent, LoadedInPlaylist
  <2>5. CacheOK(cache')
    BY <1>3, <2>1 DEF CacheOK
  <2>. QED
    BY <1>1, <2>1, <2>4, <2>5, IInvAfter DEF EditStep
<1>5. CASE HasIndex(playlist, i)
  <2>1. i \in Indices(playlist)
    BY <1>3, <1>5, IndexIn
  <2>2. Together(playlist', currentIndex', shuffle', transport') /\ EditStep
    <3>1. CASE i # currentIndex
      BY <1>2, <2>1, <3>1, OtherRemoved
    <3>2. CASE i = currentIndex
      BY <1>2, <2>1, <3>2, CurrentRemoved
    <3>. QED
      BY <3>1, <3>2
  <2>3. CacheOK(cache')
    BY <1>2, <1>5, EmptyCacheOK DEF RemoveAtIndex
  <2>. QED
    BY <1>1, <2>2, <2>3, IInvAfter
<1>. QED
  BY <1>4, <1>5

\* The moves keep the items, and the current index on its item.
LEMMA MovedTogether ==
    ASSUME IInv, Follows(playlist, currentIndex, playlist', currentIndex'),
           shuffle' = NotBuilt(shuffle), transport' = transport
    PROVE  Together(playlist', currentIndex', shuffle', transport') /\ EditStep
<1>1. /\ playlist \in Seq(Entries) /\ currentIndex \in Indices(playlist) \cup {NoIndex}
      /\ ShuffleOK(shuffle) /\ TransportOK(transport)
      /\ LoadedIsCurrent(playlist, currentIndex, shuffle, transport)
      /\ LoadedInPlaylist(playlist, transport)
  BY DEF IInv, Together, ListOK
<1>2. /\ playlist' \in Seq(Entries) /\ IsInjective(playlist')
      /\ Range(playlist') = Range(playlist)
      /\ IF currentIndex = NoIndex THEN currentIndex' = NoIndex
         ELSE /\ currentIndex' \in Indices(playlist')
              /\ At(playlist', currentIndex') = At(playlist, currentIndex)
  BY DEF Follows
<1>3. NoIndex \notin Indices(playlist)
  BY DEF NoIndex, Indices
<1>4. ShuffleOK(shuffle') /\ Range(shuffle'.queue) = {}
  BY <1>1, NotBuiltEmpty
<1>5. ListOK(playlist', currentIndex')
  BY <1>2 DEF ListOK
<1>6. LoadedIsCurrent(playlist', currentIndex', shuffle', transport')
  BY <1>1, <1>2, <1>3, <1>4 DEF LoadedIsCurrent
<1>7. LoadedInPlaylist(playlist', transport')
  BY <1>1, <1>2 DEF LoadedInPlaylist
<1>8. EditStep
  <2>1. HasIndex(playlist, currentIndex) =>
           /\ currentIndex # NoIndex
           /\ At(playlist, currentIndex) \in Range(playlist')
    BY <1>1, <1>2, <1>3, IndexIn, Apart
  <2>. QED
    BY <1>2, <2>1 DEF EditStep
<1>. QED
  BY <1>1, <1>4, <1>5, <1>6, <1>7, <1>8 DEF Together

\* Moving one item.
LEMMA MovePlaylistItemStep == ASSUME IInv, MovePlaylistItem PROVE IInv' /\ EditStep
<1>1. plan' = plan /\ calls' \in Nat /\ plan \in Plans
  BY CallsCount DEF MovePlaylistItem
<1>2. PICK from \in -1 .. Len(playlist) + 1, to \in -1 .. Len(playlist) + 1 :
         /\ playlist' = MovedOne(playlist, from, to)
         /\ currentIndex' = IndexMovedOne(playlist, currentIndex, from, to)
  BY DEF MovePlaylistItem
<1>3. /\ playlist \in Seq(Entries) /\ IsInjective(playlist)
      /\ currentIndex \in Indices(playlist) \cup {NoIndex} /\ CacheOK(cache)
  BY DEF IInv, Together, ListOK
<1>4. from \in Int /\ to \in Int
  BY <1>2
<1>5. Follows(playlist, currentIndex, playlist', currentIndex')
  BY <1>2, <1>3, <1>4, OneFollows
<1>6. shuffle' = NotBuilt(shuffle) /\ UNCHANGED << cache, transport >>
  BY DEF MovePlaylistItem
<1>7. Together(playlist', currentIndex', shuffle', transport') /\ EditStep
  BY <1>5, <1>6, MovedTogether
<1>8. CacheOK(cache')
  BY <1>3, <1>6 DEF CacheOK
<1>. QED
  BY <1>1, <1>7, <1>8, IInvAfter

\* Moving a group.
LEMMA MovePlaylistItemsStep == ASSUME IInv, MovePlaylistItems PROVE IInv' /\ EditStep
<1>1. plan' = plan /\ calls' \in Nat /\ plan \in Plans
  BY CallsCount DEF MovePlaylistItems
<1>2. PICK S \in SUBSET (0 .. Len(playlist) - 1), to \in -1 .. Len(playlist) + 1 :
         IF S = {} THEN UNCHANGED << playlist, currentIndex, cache >>
         ELSE /\ playlist' = MovedGroup(playlist, S, to)
              /\ currentIndex' = IndexMovedGroup(playlist, currentIndex, S, to)
              /\ cache' = EmptyCache
  BY DEF MovePlaylistItems
<1>3. /\ playlist \in Seq(Entries) /\ IsInjective(playlist)
      /\ currentIndex \in Indices(playlist) \cup {NoIndex} /\ CacheOK(cache)
  BY DEF IInv, Together, ListOK
<1>4. shuffle' = NotBuilt(shuffle) /\ transport' = transport
  BY DEF MovePlaylistItems
<1>5. CASE S = {}
  <2>1. UNCHANGED << playlist, currentIndex, cache >>
    BY <1>2, <1>5
  <2>2. Follows(playlist, currentIndex, playlist', currentIndex')
    BY <1>3, <2>1 DEF Follows
  <2>3. CacheOK(cache')
    BY <1>3, <2>1 DEF CacheOK
  <2>. QED
    BY <1>1, <1>4, <2>2, <2>3, MovedTogether, IInvAfter
<1>6. CASE S # {}
  <2>1. PICK at \in S : TRUE
    BY <1>6
  <2>2. S \in SUBSET Indices(playlist) /\ at \in Indices(playlist) /\ to \in Int
    BY <1>2, <2>1 DEF Indices
  <2>3. Follows(playlist, currentIndex, playlist', currentIndex')
    BY <1>2, <1>3, <1>6, <2>2, GroupFollows
  <2>4. CacheOK(cache')
    BY <1>2, <1>6, EmptyCacheOK
  <2>. QED
    BY <1>1, <1>4, <2>3, <2>4, MovedTogether, IInvAfter
<1>. QED
  BY <1>5, <1>6

-----------------------------------------------------------------------------
(* Playing from the playlist *)

\* A step that edits neither the playlist nor the cache.
LEMMA NoEdit ==
    ASSUME IInv, plan' = plan, calls' \in Nat, UNCHANGED << playlist, cache >>,
           Together(playlist, currentIndex', shuffle', transport')
    PROVE  IInv' /\ EditStep
<1>1. plan \in Plans /\ CacheOK(cache') /\ Together(playlist', currentIndex', shuffle', transport')
  BY DEF IInv, CacheOK
<1>. QED
  BY <1>1, IInvAfter DEF EditStep

\* Playing an index.
LEMMA PlayIndexStep == ASSUME IInv, PlayIndex PROVE IInv' /\ EditStep
<1>1. plan' = plan /\ calls' \in Nat
  BY CallsCount DEF PlayIndex
<1>2. PICK i \in 0 .. Len(playlist) - 1 :
         Requests(transport, playlist, currentIndex, i, TRUE, shuffle)
  BY DEF PlayIndex
<1>3. Together(playlist, currentIndex, shuffle, transport) /\ ShuffleOK(shuffle)
  BY DEF IInv, Together
<1>4. Together(playlist, currentIndex', shuffle', transport')
  BY <1>2, <1>3, RequestsTogether
<1>5. UNCHANGED << playlist, cache >>
  BY DEF PlayIndex
<1>. QED
  BY <1>1, <1>4, <1>5, NoEdit

\* Going to the next or the previous item.
LEMMA SkipsStep ==
    ASSUME IInv, NEW kind, NEW i, Skips(kind, i)
    PROVE  IInv' /\ EditStep
<1>1. plan' = plan /\ calls' \in Nat
  BY CallsCount DEF Skips
<1>2. /\ Together(playlist, currentIndex, shuffle, transport) /\ ShuffleOK(shuffle)
      /\ transport.wanted \in BOOLEAN
  BY TransportFields DEF IInv, Together, TransportOK
<1>3. CASE ~ shuffle.on
  <2>1. Requests(transport, playlist, currentIndex, i, transport.wanted, shuffle)
    BY <1>3 DEF Skips
  <2>2. Together(playlist, currentIndex', shuffle', transport')
    BY <1>2, <2>1, RequestsTogether
  <2>. QED
    BY <1>1, <2>2, NoEdit DEF Skips
<1>4. CASE shuffle.on
  <2>1. PICK ch \in ShuffleChoices :
           Requests(transport, playlist, currentIndex, ch.index, transport.wanted, WithQueue(ch))
    BY <1>4 DEF Skips, ByShuffle
  <2>2. /\ ShuffleOK(WithQueue(ch)) /\ WithQueue(ch).queue = ch.queue
        /\ transport.loaded \in Range(playlist) => currentIndex \notin Range(ch.queue)
    BY <1>2, ChoiceSkipsCurrent
  <2>3. Together(playlist, currentIndex, WithQueue(ch), transport)
    BY <1>2, <2>2 DEF Together, LoadedIsCurrent
  <2>4. Together(playlist, currentIndex', shuffle', transport')
    BY <1>2, <2>1, <2>3, RequestsTogether
  <2>. QED
    BY <1>1, <2>4, NoEdit DEF Skips
<1>. QED
  BY <1>3, <1>4

\* Turning shuffle on or off.
LEMMA SetShuffleEnabledStep == ASSUME IInv, SetShuffleEnabled PROVE IInv' /\ EditStep
<1>1. plan' = plan /\ calls' \in Nat
  BY CallsCount DEF SetShuffleEnabled
<1>2. Together(playlist, currentIndex, shuffle, transport) /\ ShuffleOK(shuffle)
  BY DEF IInv, Together
<1>3. PICK on \in BOOLEAN :
         shuffle' = [IF on THEN shuffle ELSE NotBuilt(shuffle) EXCEPT !.on = on]
  BY DEF SetShuffleEnabled
<1>. DEFINE s == IF on THEN shuffle ELSE NotBuilt(shuffle)
<1>4. ShuffleOK(s) /\ Range(s.queue) \subseteq Range(shuffle.queue)
  BY <1>2, NotBuiltEmpty
<1>5. shuffle' = [s EXCEPT !.on = on]
  BY <1>3
<1>. HIDE DEF s
<1>6. ShuffleOK(shuffle') /\ shuffle'.queue = s.queue
  BY <1>4, <1>5 DEF ShuffleOK
<1>7. UNCHANGED << playlist, currentIndex, cache, transport >>
  BY DEF SetShuffleEnabled
<1>8. Together(playlist, currentIndex', shuffle', transport')
  BY <1>2, <1>4, <1>6, <1>7 DEF Together, LoadedIsCurrent
<1>. QED
  BY <1>1, <1>7, <1>8, NoEdit

\* Opening another source.
LEMMA OpenDirectStep == ASSUME IInv, OpenDirect PROVE IInv' /\ EditStep
<1>1. plan' = plan /\ calls' \in Nat /\ "direct" \in plan.kinds
  BY CallsCount DEF OpenDirect
<1>2. /\ Together(playlist, currentIndex, shuffle, transport) /\ ShuffleOK(shuffle)
      /\ transport \in TransportType /\ ListOK(playlist, currentIndex)
  BY DEF IInv, Together, TransportOK
<1>3. CASE transport.active
  <2>1. /\ transport' = [transport EXCEPT !.direct = TRUE, !.play = TRUE, !.stopping = TRUE]
        /\ UNCHANGED << currentIndex, shuffle >>
    BY <1>3 DEF OpenDirect
  <2>2. /\ transport' \in TransportType /\ transport'.loaded = transport.loaded
        /\ transport'.active = transport.active
    BY <1>2, <2>1, TransportFields DEF TransportType
  <2>3. Together(playlist, currentIndex', shuffle', transport')
    BY <1>1, <1>2, <1>3, <2>1, <2>2
    DEF Together, TransportOK, LoadedIsCurrent, LoadedInPlaylist
  <2>. QED
    BY <1>1, <2>3, NoEdit DEF OpenDirect
<1>4. CASE ~ transport.active
  <2>. DEFINE s == [transport EXCEPT !.stopping = FALSE]
              n == NoRequest(s)
  <2>1. s \in TransportType /\ ~ s.stopping
    BY <1>2, TransportFields DEF TransportType
  <2>2. n \in TransportType /\ ~ n.stopping /\ n.direct = FALSE
    BY <2>1, NoRequestKeeps
  <2>3. OpensDirect(n, TRUE)
    BY <1>4 DEF OpenDirect
  <2>. HIDE DEF n
  <2>4. Together(playlist, currentIndex', shuffle', transport')
    BY <1>1, <1>2, <2>2, <2>3, OpensDirectTogether
  <2>. QED
    BY <1>1, <2>4, NoEdit DEF OpenDirect
<1>. QED
  BY <1>3, <1>4

\* The transport keeps its media or loses it, and what is loaded is as it was.
LEMMA KeptOrNone ==
    ASSUME NEW s, NEW t, Together(playlist, currentIndex, s, transport),
           TransportOK(t), t.loaded \in {NoMedia, transport.loaded}
    PROVE  Together(playlist, currentIndex, s, t)
<1>1. NoMedia \notin Range(playlist)
  BY Apart DEF Together, ListOK
<1>. QED
  BY <1>1 DEF Together, LoadedIsCurrent, LoadedInPlaylist

\* Stopping.
LEMMA StopStep == ASSUME IInv, Stop PROVE IInv' /\ EditStep
<1>1. plan' = plan /\ calls' \in Nat
  BY CallsCount DEF Stop
<1>2. Together(playlist, currentIndex, shuffle, transport) /\ TransportOK(transport)
  BY DEF IInv, Together
<1>3. transport' = Stopped(transport) /\ UNCHANGED << playlist, currentIndex, cache, shuffle >>
  BY DEF Stop
<1>4. TransportOK(transport') /\ transport'.loaded \in {NoMedia, transport.loaded}
  BY <1>2, <1>3, StoppedKeeps
<1>5. Together(playlist, currentIndex', shuffle', transport')
  BY <1>2, <1>3, <1>4, KeptOrNone
<1>. QED
  BY <1>1, <1>3, <1>5, NoEdit

\* The player stops after all.
LEMMA PlayerStopsStep == ASSUME IInv, PlayerStops PROVE IInv' /\ EditStep
<1>1. plan' = plan /\ calls' \in Nat /\ UNCHANGED << playlist, cache >>
  BY DEF IInv, PlayerStops
<1>2. /\ Together(playlist, currentIndex, shuffle, transport) /\ ShuffleOK(shuffle)
      /\ transport \in TransportType /\ ListOK(playlist, currentIndex)
      /\ playlist \in Seq(Entries)
      /\ transport.direct => "direct" \in plan.kinds
  BY DEF IInv, Together, TransportOK, ListOK
<1>. DEFINE t == [transport EXCEPT !.active = FALSE, !.stopping = FALSE]
            u == [t EXCEPT !.pending = NoIndex, !.play = FALSE]
<1>3. /\ t \in TransportType /\ ~ t.stopping /\ t.direct = transport.direct
      /\ t.loaded = transport.loaded /\ t.pending = transport.pending
      /\ t.play \in BOOLEAN
  BY <1>2, TransportFields DEF TransportType
<1>. HIDE DEF t
<1>4. /\ u \in TransportType /\ ~ u.stopping /\ u.direct = transport.direct
      /\ u.loaded = transport.loaded
  <2>1. NoIndex \in -1 .. Size - 1
    BY Apart DEF NoIndex
  <2>. QED
    BY <1>3, <2>1, TransportFields DEF TransportType
<1>. HIDE DEF u
<1>5. CASE t.pending # NoIndex /\ HasIndex(playlist, t.pending)
  <2>1. Activates(u, playlist, t.pending, t.play)
    BY <1>5 DEF PlayerStops, t, u
  <2>2. t.pending \in Indices(playlist)
    BY <1>2, <1>5, IndexIn
  <2>3. Together(playlist, currentIndex', shuffle', transport')
    BY <1>2, <1>3, <1>4, <2>1, <2>2, ActivatesTogether
  <2>. QED
    BY <1>1, <2>3, NoEdit
<1>6. CASE ~ (t.pending # NoIndex /\ HasIndex(playlist, t.pending)) /\ t.pending = NoIndex /\ t.direct
  <2>. DEFINE n == NoRequest(t)
  <2>1. OpensDirect(n, t.play)
    BY <1>6 DEF PlayerStops, t
  <2>2. n \in TransportType /\ ~ n.stopping /\ n.direct = FALSE
    BY <1>3, NoRequestKeeps
  <2>. HIDE DEF n
  <2>3. "direct" \in plan.kinds
    BY <1>2, <1>3, <1>6
  <2>4. Together(playlist, currentIndex', shuffle', transport')
    BY <1>2, <1>3, <2>1, <2>2, <2>3, OpensDirectTogether
  <2>. QED
    BY <1>1, <2>4, NoEdit
<1>7. CASE /\ ~ (t.pending # NoIndex /\ HasIndex(playlist, t.pending))
           /\ ~ (t.pending = NoIndex /\ t.direct)
  <2>1. /\ transport' = IF t.pending # NoIndex /\ t.wanted THEN u ELSE ClearedMedia(u)
        /\ UNCHANGED << currentIndex, shuffle >>
    BY <1>7 DEF PlayerStops, t, u
  <2>2. TransportOK(u)
    BY <1>2, <1>4 DEF TransportOK
  <2>3. TransportOK(ClearedMedia(u)) /\ ClearedMedia(u).loaded = NoMedia
    BY <1>2, <1>4, ClearedMediaHasNone
  <2>4. TransportOK(transport') /\ transport'.loaded \in {NoMedia, transport.loaded}
    BY <1>4, <2>1, <2>2, <2>3
  <2>5. Together(playlist, currentIndex', shuffle', transport')
    BY <1>2, <2>1, <2>4, KeptOrNone
  <2>. QED
    BY <1>1, <2>5, NoEdit
<1>. QED
  BY <1>5, <1>6, <1>7

\* The media ends.
LEMMA PlaybackEndsStep == ASSUME IInv, PlaybackEnds PROVE IInv' /\ EditStep
<1>1. plan' = plan /\ calls' \in Nat /\ UNCHANGED << playlist, cache >> /\ ~ transport.stopping
  BY DEF IInv, PlaybackEnds
<1>2. /\ Together(playlist, currentIndex, shuffle, transport) /\ ShuffleOK(shuffle)
      /\ transport \in TransportType
      /\ transport.direct => "direct" \in plan.kinds
  BY DEF IInv, Together, TransportOK
<1>. DEFINE t == [transport EXCEPT !.active = FALSE]
            u == [t EXCEPT !.wanted = FALSE]
<1>3. /\ t \in TransportType /\ ~ t.stopping /\ t.direct = transport.direct
      /\ t.loaded = transport.loaded
  BY <1>1, <1>2, TransportFields DEF TransportType
<1>4. Together(playlist, currentIndex, shuffle, t)
  <2>1. TransportOK(t) /\ t.loaded \in {NoMedia, transport.loaded}
    BY <1>2, <1>3 DEF TransportOK
  <2>. HIDE DEF t
  <2>. QED
    BY <1>2, <2>1, KeptOrNone
<1>. HIDE DEF t
<1>5. TransportOK(ClearedMedia(u)) /\ ClearedMedia(u).loaded = NoMedia
  <2>1. u \in TransportType /\ ~ u.stopping /\ u.direct = transport.direct
    BY <1>3, TransportFields DEF TransportType
  <2>. HIDE DEF u
  <2>. QED
    BY <1>2, <2>1, ClearedMediaHasNone
<1>. HIDE DEF u
<1>6. CASE ~ HasIndex(playlist, currentIndex)
  <2>1. transport' = ClearedMedia(u) /\ UNCHANGED << currentIndex, shuffle >>
    BY <1>6 DEF PlaybackEnds, t, u
  <2>2. Together(playlist, currentIndex', shuffle', transport')
    BY <1>2, <1>5, <2>1, KeptOrNone
  <2>. QED
    BY <1>1, <2>2, NoEdit
<1>7. CASE HasIndex(playlist, currentIndex) /\ plan.mode = "Repeat"
  <2>1. UNCHANGED << transport, currentIndex, shuffle >>
    BY <1>7 DEF PlaybackEnds
  <2>2. Together(playlist, currentIndex', shuffle', transport')
    BY <1>2, <2>1
  <2>. QED
    BY <1>1, <2>2, NoEdit
<1>8. CASE HasIndex(playlist, currentIndex) /\ plan.mode # "Repeat"
  <2>1. PICK ch \in (IF shuffle.on THEN ShuffleChoices
                     ELSE {[index |-> Following, queue |-> shuffle.queue]}) :
           LET sh == IF shuffle.on THEN WithQueue(ch) ELSE shuffle IN
           IF ch.index # NoIndex
           THEN Requests(t, playlist, currentIndex, ch.index, TRUE, sh)
           ELSE /\ transport' = ClearedMedia(u)
                /\ shuffle' = sh /\ UNCHANGED currentIndex
    BY <1>8 DEF PlaybackEnds, t, u
  <2>. DEFINE sh == IF shuffle.on THEN WithQueue(ch) ELSE shuffle
  <2>2. Together(playlist, currentIndex, sh, transport)
    <3>1. CASE shuffle.on
      <4>1. ch \in ShuffleChoices
        BY <2>1, <3>1
      <4>2. /\ ShuffleOK(WithQueue(ch)) /\ WithQueue(ch).queue = ch.queue
            /\ transport.loaded \in Range(playlist) => currentIndex \notin Range(ch.queue)
        BY <1>2, <4>1, ChoiceSkipsCurrent
      <4>. QED
        BY <1>2, <3>1, <4>2 DEF Together, LoadedIsCurrent
    <3>2. CASE ~ shuffle.on
      BY <1>2, <3>2
    <3>. QED
      BY <3>1, <3>2
  <2>3. IF ch.index # NoIndex
        THEN Requests(t, playlist, currentIndex, ch.index, TRUE, sh)
        ELSE transport' = ClearedMedia(u) /\ shuffle' = sh /\ UNCHANGED currentIndex
    BY <2>1
  <2>. HIDE DEF sh
  <2>4. Together(playlist, currentIndex, sh, t)
    <3>1. TransportOK(t) /\ t.loaded \in {NoMedia, transport.loaded}
      BY <1>3, <1>4 DEF Together
    <3>. QED
      BY <2>2, <3>1, KeptOrNone
  <2>5. CASE ch.index # NoIndex
    <3>1. Requests(t, playlist, currentIndex, ch.index, TRUE, sh)
      BY <2>3, <2>5
    <3>2. Together(playlist, currentIndex', shuffle', transport')
      BY <1>2, <2>4, <3>1, RequestsTogether
    <3>. QED
      BY <1>1, <3>2, NoEdit
  <2>6. CASE ch.index = NoIndex
    <3>1. transport' = ClearedMedia(u) /\ shuffle' = sh /\ currentIndex' = currentIndex
      BY <2>3, <2>6
    <3>2. Together(playlist, currentIndex, sh, ClearedMedia(u))
      BY <1>5, <2>2, KeptOrNone
    <3>. QED
      BY <1>1, <3>1, <3>2, NoEdit
  <2>. QED
    BY <2>5, <2>6
<1>. QED
  BY <1>6, <1>7, <1>8

-----------------------------------------------------------------------------
(* The theorems *)

\* The initial state has the invariant.
LEMMA InitIInv == ASSUME Init PROVE IInv
<1>1. /\ plan \in Plans /\ calls \in Nat
      /\ playlist = << >> /\ currentIndex = NoIndex /\ cache = EmptyCache
      /\ shuffle = [on |-> FALSE, built |-> FALSE, queue |-> << >>]
      /\ transport = Nothing
  BY DEF Init
<1>2. ListOK(playlist, currentIndex) /\ Range(playlist) = {}
  BY <1>1 DEF ListOK, IsInjective, Range
<1>3. ShuffleOK(shuffle)
  BY <1>1 DEF ShuffleOK
<1>4. TransportOK(transport) /\ transport.loaded = NoMedia
  BY <1>1, Apart DEF TransportOK, TransportType, Nothing, NoIndex
<1>5. CacheOK(cache)
  BY <1>1, EmptyCacheOK
<1>. QED
  BY <1>1, <1>2, <1>3, <1>4, <1>5 DEF IInv, Together, LoadedIsCurrent, LoadedInPlaylist

\* So has a step that changes nothing.
LEMMA StutterIInv == ASSUME IInv, UNCHANGED vars PROVE IInv' /\ EditStep
<1>1. UNCHANGED << plan, calls, playlist, currentIndex, cache, shuffle, transport >>
  BY DEF vars
<1>2. Together(playlist, currentIndex', shuffle', transport')
  BY <1>1 DEF IInv
<1>. QED
  BY <1>1, <1>2, NoEdit DEF IInv

\* Every step keeps it, and edits follow the current item.
LEMMA NextIInv == ASSUME IInv, [Next]_vars PROVE IInv' /\ EditStep
<1>1. CASE NextItem
  BY <1>1, SkipsStep DEF NextItem
<1>2. CASE Previous
  BY <1>2, SkipsStep DEF Previous
<1>3. CASE Next /\ ~ NextItem /\ ~ Previous
  BY <1>3, AddToPlaylistStep, AddFolderStep, RemoveFromPlaylistStep, ClearPlaylistStep,
     MovePlaylistItemStep, MovePlaylistItemsStep, PlayIndexStep, SetShuffleEnabledStep,
     OpenDirectStep, StopStep, GetMetadataStep, PlayerStopsStep, PlaybackEndsStep DEF Next
<1>. QED
  BY <1>1, <1>2, <1>3, StutterIInv DEF Next

\* It always holds.
LEMMA InvariantHolds == Spec => []IInv
<1>1. Init => IInv
  BY InitIInv
<1>2. IInv /\ [Next]_vars => IInv'
  BY NextIInv
<1>. QED
  BY <1>1, <1>2, PTL DEF Spec

\* The playlist, its index, the cache, the shuffle queue and the transport always have
\* their types, and the current index is that of an item or of none.
THEOREM Typing == Spec => []TypeOK
<1>1. IInv => TypeOK
  <2>1. \A items, c : ListOK(items, c) => c = NoIndex \/ HasIndex(items, c)
    BY DEF ListOK, HasIndex, Indices
  <2>. QED
    BY <2>1 DEF IInv, Together, ListOK, ShuffleOK, TransportOK, CacheOK, TypeOK
<1>. QED
  BY <1>1, InvariantHolds, PTL

\* A loaded item of the playlist is the current one and the queue skips the current index,
\* whatever edits, queued activations and failed loads came between (buildShuffleQueue,
\* invalidateShuffleQueue).
THEOREM ShuffleSkips == Spec => []ShuffleSkipsLoaded
<1>1. IInv => ShuffleSkipsLoaded
  <2>1. SUFFICES ASSUME IInv, NEW i \in Range(shuffle.queue), transport.loaded \in Entries,
                        HasIndex(playlist, i), At(playlist, i) = transport.loaded
                 PROVE  FALSE
    BY DEF ShuffleSkipsLoaded
  <2>2. /\ playlist \in Seq(Entries) /\ IsInjective(playlist)
        /\ LoadedIsCurrent(playlist, currentIndex, shuffle, transport)
    BY <2>1 DEF IInv, Together, ListOK
  <2>3. i \in Indices(playlist) /\ transport.loaded \in Range(playlist)
    BY <2>1, <2>2, IndexIn, Apart
  <2>4. /\ currentIndex \in Indices(playlist) /\ At(playlist, currentIndex) = transport.loaded
        /\ currentIndex \notin Range(shuffle.queue)
    BY <2>2, <2>3 DEF LoadedIsCurrent
  <2>5. i = currentIndex
    <3>1. /\ Len(playlist) \in Nat /\ DOMAIN playlist = 1 .. Len(playlist)
          /\ i \in 0 .. Len(playlist) - 1 /\ currentIndex \in 0 .. Len(playlist) - 1
      BY <2>2, <2>3, <2>4, LenProperties DEF Indices
    <3>2. /\ i + 1 \in 1 .. Len(playlist) /\ currentIndex + 1 \in 1 .. Len(playlist)
          /\ playlist[i + 1] = playlist[currentIndex + 1]
      BY <2>1, <2>4, <3>1 DEF At
    <3>3. i + 1 = currentIndex + 1
      BY <2>2, <3>1, <3>2 DEF IsInjective
    <3>. QED
      BY <3>1, <3>3
  <2>. QED
    BY <2>1, <2>4, <2>5
<1>. QED
  BY <1>1, InvariantHolds, PTL

\* The metadata cached for a path are its own, as long as the current item is not removed
\* while it plays and no other source is opened (getMetadataAtIndex).
THEOREM MetadataAreOwn == Spec => []CachedMetadataIsOwn
<1>1. IInv => CachedMetadataIsOwn
  BY DEF IInv, CacheOK, Calm, CachedMetadataIsOwn
<1>. QED
  BY <1>1, InvariantHolds, PTL

\* Every move is a splice, of lists of any length, and moving one item is moving a group
\* of one (movePlaylistItem, movePlaylistItems).
THEOREM MovesSplice == Spec => []MovesAreSplices
<1>1. IInv => MovesAreSplices
  BY SplicesAlways DEF IInv, Together, ListOK
<1>. QED
  BY <1>1, InvariantHolds, PTL

\* Every edit keeps the current index on its item, or puts it on the item after the one it
\* removes (addToPlaylist, removePlaylistItem, movePlaylistItem, movePlaylistItems).
THEOREM EditsFollowItem == Spec => EditsKeepCurrentItem
<1>1. IInv /\ [Next]_vars => EditStep
  BY NextIInv
<1>2. EditStep => (playlist' # playlist /\ playlist' # << >> /\ HasIndex(playlist, currentIndex) =>
        LET item == At(playlist, currentIndex)
            after == Least(currentIndex, Len(playlist') - 1)
        IN  IF item \in Range(playlist') THEN At(playlist', currentIndex') = item
            ELSE currentIndex' = after)
  BY DEF EditStep
<1>. QED
  BY <1>1, <1>2, InvariantHolds, PTL DEF Spec, EditsKeepCurrentItem

=============================================================================
