----------------------------- MODULE RankingProofs -----------------------------
(***************************************************************************)
(* What the lists of module Ranking hold: every member once, in the order. *)
(* Least and greatest members follow, which is what stands in for          *)
(* induction over lists in the proofs that use this module.                *)
(***************************************************************************)
EXTENDS Ranking, TLAPS, FiniteSetTheorems, SequenceTheorems

\* Ranks are numbers below the size of the set and grow along the order.
LEMMA RanksGrow ==
  ASSUME NEW S, IsFiniteSet(S), NEW R, Orders(R, S)
  PROVE  /\ Cardinality(S) \in Nat
         /\ \A i \in S : Rank(R, S, i) \in Nat /\ Rank(R, S, i) < Cardinality(S)
         /\ \A i, j \in S : <<i, j>> \in R => Rank(R, S, i) < Rank(R, S, j)
<1> DEFINE before(i) == {j \in S : <<j, i>> \in R}
<1>1. Cardinality(S) \in Nat
  BY FS_CardinalityType
<1>2. ASSUME NEW i \in S
      PROVE  /\ IsFiniteSet(before(i))
             /\ Rank(R, S, i) = Cardinality(before(i))
             /\ Rank(R, S, i) \in Nat
             /\ Rank(R, S, i) < Cardinality(S)
  <2>1. before(i) \in SUBSET S /\ i \notin before(i)
    BY DEF Orders
  <2>2. /\ IsFiniteSet(before(i))
        /\ Cardinality(before(i)) <= Cardinality(S)
        /\ Cardinality(S) = Cardinality(before(i)) => S = before(i)
    BY <2>1, FS_Subset
  <2>3. Cardinality(before(i)) \in Nat
    BY <2>2, FS_CardinalityType
  <2>4. Rank(R, S, i) = Cardinality(before(i))
    BY DEF Rank
  <2> QED
    BY <1>1, <2>1, <2>2, <2>3, <2>4
<1>3. ASSUME NEW i \in S, NEW j \in S, <<i, j>> \in R
      PROVE  Rank(R, S, i) < Rank(R, S, j)
  <2>1. before(i) \in SUBSET before(j) /\ i \in before(j) /\ i \notin before(i)
    BY <1>3 DEF Orders
  <2>2. /\ Cardinality(before(i)) <= Cardinality(before(j))
        /\ Cardinality(before(j)) = Cardinality(before(i)) => before(j) = before(i)
    BY <1>2, <2>1, FS_Subset
  <2> HIDE DEF before
  <2> QED
    BY <1>2, <2>1, <2>2
<1> QED
  BY <1>1, <1>2, <1>3

\* For every place there is a member.
LEMMA RanksCover ==
  ASSUME NEW S, IsFiniteSet(S), NEW R, Orders(R, S)
  PROVE  \A k \in 1 .. Cardinality(S) : \E i \in S : Rank(R, S, i) + 1 = k
<1> DEFINE n    == Cardinality(S)
           rank == [i \in S |-> Rank(R, S, i) + 1]
<1>1. /\ n \in Nat
      /\ \A i \in S : rank[i] \in 1 .. n
  BY RanksGrow
<1>2. ASSUME NEW i \in S, NEW j \in S, rank[i] = rank[j]
      PROVE  i = j
  <2>1. Rank(R, S, i) \in Nat /\ Rank(R, S, j) \in Nat
    BY RanksGrow
  <2>2. Rank(R, S, i) = Rank(R, S, j)
    BY <1>2, <2>1
  <2>3. <<i, j>> \notin R /\ <<j, i>> \notin R
    BY <2>1, <2>2, RanksGrow
  <2> QED
    BY <2>3 DEF Orders
<1>3. rank \in Injection(S, 1 .. n)
  BY <1>1, <1>2 DEF Injection, IsInjective
<1>4. IsFiniteSet(1 .. n) /\ Cardinality(1 .. n) = n
  BY <1>1, FS_Interval
<1>5. rank \in Surjection(S, 1 .. n)
  <2> HIDE DEF rank
  <2> QED
    BY <1>3, <1>4, FS_Injection
<1> QED
  BY <1>5 DEF Surjection

\* InOrder lists every member once, the earlier before the later.
LEMMA InOrderLists ==
  ASSUME NEW S, IsFiniteSet(S), NEW R, Orders(R, S)
  PROVE  /\ InOrder(R, S) \in Seq(S)
         /\ Len(InOrder(R, S)) = Cardinality(S)
         /\ DOMAIN InOrder(R, S) = 1 .. Cardinality(S)
         /\ \A k \in 1 .. Cardinality(S) : InOrder(R, S)[k] \in S
         /\ \A i \in S : \E k \in 1 .. Cardinality(S) : InOrder(R, S)[k] = i
         /\ \A k, l \in 1 .. Cardinality(S) :
              k < l => <<InOrder(R, S)[k], InOrder(R, S)[l]>> \in R
<1> DEFINE n       == Cardinality(S)
           rank(i) == Rank(R, S, i) + 1
           s       == InOrder(R, S)
<1>1. /\ n \in Nat
      /\ \A i \in S : rank(i) \in 1 .. n
      /\ \A k \in 1 .. n : \E i \in S : rank(i) = k
  BY RanksGrow, RanksCover
<1>2. \A i, j \in S : <<i, j>> \in R => rank(i) < rank(j)
  BY RanksGrow
<1>3. s = [k \in 1 .. n |-> CHOOSE i \in S : rank(i) = k]
  BY DEF InOrder
<1> HIDE DEF n, rank, s
<1>4. \A k \in 1 .. n : s[k] \in S /\ rank(s[k]) = k
  BY <1>1, <1>3
<1>5. s \in [1 .. n -> S]
  BY <1>3, <1>4
<1>6. s \in Seq(S) /\ Len(s) = n /\ DOMAIN s = 1 .. n
  BY <1>1, <1>5
<1>7. \A i \in S : s[rank(i)] = i
  <2> SUFFICES ASSUME NEW i \in S PROVE s[rank(i)] = i
    OBVIOUS
  <2>1. s[rank(i)] \in S /\ rank(s[rank(i)]) = rank(i) /\ rank(i) \in 1 .. n
    BY <1>1, <1>4
  <2>2. <<s[rank(i)], i>> \notin R /\ <<i, s[rank(i)]>> \notin R
    BY <1>2, <2>1
  <2> QED
    BY <2>1, <2>2 DEF Orders
<1>8. \A k, l \in 1 .. n : k < l => <<s[k], s[l]>> \in R
  <2> SUFFICES ASSUME NEW k \in 1 .. n, NEW l \in 1 .. n, k < l
               PROVE  <<s[k], s[l]>> \in R
    OBVIOUS
  <2>1. s[k] \in S /\ s[l] \in S /\ rank(s[k]) = k /\ rank(s[l]) = l
    BY <1>4
  <2>2. s[k] # s[l] /\ <<s[l], s[k]>> \notin R
    BY <1>2, <2>1
  <2> QED
    BY <2>1, <2>2 DEF Orders
<1>9. Cardinality(S) = n /\ InOrder(R, S) = s
  BY DEF n, s
<1> QED
  BY <1>1, <1>4, <1>6, <1>7, <1>8, <1>9

--------------------------------------------------------------------------------
(* Sets of numbers. *)

LEMMA SmallerOrders ==
  ASSUME NEW S \in SUBSET Nat
  PROVE  Orders(Smaller, S)
BY DEF Orders, Smaller

LEMMA AscendingLists ==
  ASSUME NEW S \in SUBSET Nat, IsFiniteSet(S)
  PROVE  /\ Ascending(S) \in Seq(S)
         /\ Len(Ascending(S)) = Cardinality(S)
         /\ DOMAIN Ascending(S) = 1 .. Cardinality(S)
         /\ Cardinality(S) \in Nat
         /\ \A k \in 1 .. Cardinality(S) : Ascending(S)[k] \in S
         /\ \A i \in S : \E k \in 1 .. Cardinality(S) : Ascending(S)[k] = i
         /\ \A k, l \in 1 .. Cardinality(S) : k < l => Ascending(S)[k] < Ascending(S)[l]
<1>1. Orders(Smaller, S)
  BY SmallerOrders
<1> DEFINE s == Ascending(S)
<1>2. s = InOrder(Smaller, S)
  BY DEF Ascending
<1>3. /\ s \in Seq(S) /\ Len(s) = Cardinality(S) /\ DOMAIN s = 1 .. Cardinality(S)
      /\ \A k \in 1 .. Cardinality(S) : s[k] \in S
      /\ \A i \in S : \E k \in 1 .. Cardinality(S) : s[k] = i
      /\ \A k, l \in 1 .. Cardinality(S) : k < l => <<s[k], s[l]>> \in Smaller
  BY <1>1, <1>2, InOrderLists
<1>4. \A k, l \in 1 .. Cardinality(S) : k < l => s[k] < s[l]
  BY <1>3 DEF Smaller
<1>5. Cardinality(S) \in Nat
  BY FS_CardinalityType
<1> QED
  BY <1>3, <1>4, <1>5

\* A finite set of numbers that is not empty has a least and a greatest member.
LEMMA LeastAndGreatest ==
  ASSUME NEW S \in SUBSET Nat, IsFiniteSet(S), S # {}
  PROVE  /\ \E m \in S : \A i \in S : m <= i
         /\ \E m \in S : \A i \in S : i <= m
<1> DEFINE n == Cardinality(S)
           s == Ascending(S)
<1>1. n \in Nat \ {0}
  BY FS_CardinalityType, FS_EmptySet
<1>2. /\ \A k \in 1 .. n : s[k] \in S
      /\ \A i \in S : \E k \in 1 .. n : s[k] = i
      /\ \A k, l \in 1 .. n : k < l => s[k] < s[l]
  BY AscendingLists
<1> HIDE DEF n, s
<1>3. 1 \in 1 .. n /\ n \in 1 .. n
  BY <1>1
<1>4. s[1] \in S /\ s[n] \in S
  BY <1>2, <1>3
<1>5. ASSUME NEW i \in S
      PROVE  s[1] <= i /\ i <= s[n]
  <2>1. PICK k \in 1 .. n : s[k] = i
    BY <1>2
  <2>2. (k = 1 \/ 1 < k) /\ (k = n \/ k < n)
    BY <1>1
  <2>3. s[1] \in Nat /\ s[n] \in Nat /\ i \in Nat
    BY <1>4
  <2>4. 1 < k => s[1] < i
    BY <1>2, <1>3, <2>1
  <2>5. k < n => i < s[n]
    BY <1>2, <1>3, <2>1
  <2> QED
    BY <2>1, <2>2, <2>3, <2>4, <2>5
<1> QED
  BY <1>4, <1>5

\* What is chosen from a list keeps its order.
LEMMA ChosenLists ==
  ASSUME NEW S, NEW s \in Seq(S), NEW places \in SUBSET DOMAIN s
  PROVE  /\ Chosen(s, places) \in Seq(S)
         /\ Len(Chosen(s, places)) = Cardinality(places)
         /\ DOMAIN Chosen(s, places) = 1 .. Cardinality(places)
         /\ Cardinality(places) \in Nat
         /\ \A k \in 1 .. Cardinality(places) :
              Ascending(places)[k] \in places /\ Chosen(s, places)[k] = s[Ascending(places)[k]]
         /\ \A k, l \in 1 .. Cardinality(places) : k < l => Ascending(places)[k] < Ascending(places)[l]
<1>1. Len(s) \in Nat /\ DOMAIN s = 1 .. Len(s) /\ \A i \in 1 .. Len(s) : s[i] \in S
  BY LenProperties, ElementOfSeq
<1>2. places \in SUBSET Nat /\ IsFiniteSet(places)
  <2>1. IsFiniteSet(1 .. Len(s))
    BY <1>1, FS_Interval
  <2> QED
    BY <1>1, <2>1, FS_Subset
<1> DEFINE n == Cardinality(places)
           a == Ascending(places)
<1>3. /\ n \in Nat /\ DOMAIN a = 1 .. n
      /\ \A k \in 1 .. n : a[k] \in places
      /\ \A k, l \in 1 .. n : k < l => a[k] < a[l]
  BY <1>2, AscendingLists
<1>4. Chosen(s, places) = [k \in DOMAIN a |-> s[a[k]]]
  BY DEF Chosen
<1> HIDE DEF n, a
<1>5. Chosen(s, places) = [k \in 1 .. n |-> s[a[k]]]
  BY <1>3, <1>4
<1>6. Chosen(s, places) \in [1 .. n -> S]
  BY <1>1, <1>3, <1>5
<1>7. Chosen(s, places) \in Seq(S) /\ Len(Chosen(s, places)) = n
  BY <1>3, <1>6
<1> QED
  BY <1>3, <1>5, <1>7 DEF n, a

\* What is chosen from a list is what is at one of the places.
LEMMA ChosenMembers ==
  ASSUME NEW S, NEW s \in Seq(S), NEW places \in SUBSET DOMAIN s
  PROVE  {Chosen(s, places)[k] : k \in 1 .. Len(Chosen(s, places))} = {s[i] : i \in places}
<1>1. places \in SUBSET Nat /\ IsFiniteSet(places)
  <2>1. Len(s) \in Nat /\ DOMAIN s = 1 .. Len(s)
    BY LenProperties
  <2>2. IsFiniteSet(1 .. Len(s))
    BY <2>1, FS_Interval
  <2> QED
    BY <2>1, <2>2, FS_Subset
<1>2. PICK n : n = Cardinality(places)
  OBVIOUS
<1>3. /\ Len(Chosen(s, places)) = n
      /\ \A k \in 1 .. n : Ascending(places)[k] \in places /\ Chosen(s, places)[k] = s[Ascending(places)[k]]
  BY <1>2, ChosenLists
<1>4. \A i \in places : \E k \in 1 .. n : Ascending(places)[k] = i
  BY <1>1, <1>2, AscendingLists
<1> QED
  BY <1>3, <1>4

--------------------------------------------------------------------------------
(* Pairs, and lists sorted by a key. *)

LEMMA LexicographicOrders ==
  ASSUME NEW S \in SUBSET (Nat \X Nat)
  PROVE  Orders(Lexicographic, S)
<1>1. \A p \in S : p \in Nat \X Nat /\ p = <<p[1], p[2]>> /\ p[1] \in Nat /\ p[2] \in Nat
  OBVIOUS
<1>2. \A p, q \in S : <<p, q>> \in Lexicographic
                      <=> p[1] < q[1] \/ (p[1] = q[1] /\ p[2] < q[2])
  BY <1>1 DEF Lexicographic
<1>3. \A p \in S : <<p, p>> \notin Lexicographic
  BY <1>1, <1>2
<1>4. ASSUME NEW p \in S, NEW q \in S, NEW r \in S,
             <<p, q>> \in Lexicographic, <<q, r>> \in Lexicographic
      PROVE  <<p, r>> \in Lexicographic
  <2>1. /\ p[1] < q[1] \/ (p[1] = q[1] /\ p[2] < q[2])
        /\ q[1] < r[1] \/ (q[1] = r[1] /\ q[2] < r[2])
    BY <1>2, <1>4
  <2>2. p[1] < r[1] \/ (p[1] = r[1] /\ p[2] < r[2])
    BY <1>1, <2>1
  <2> QED
    BY <1>2, <2>2
<1>5. ASSUME NEW p \in S, NEW q \in S, p # q
      PROVE  <<p, q>> \in Lexicographic \/ <<q, p>> \in Lexicographic
  <2>1. p[1] # q[1] \/ p[2] # q[2]
    BY <1>1, <1>5
  <2>2. p[1] < q[1] \/ (p[1] = q[1] /\ p[2] < q[2])
        \/ q[1] < p[1] \/ (q[1] = p[1] /\ q[2] < p[2])
    BY <1>1, <2>1
  <2> QED
    BY <1>2, <2>2
<1> QED
  BY <1>3, <1>4, <1>5 DEF Orders

LEMMA ByKeyOrders ==
  ASSUME NEW n \in Nat, NEW key \in [1 .. n -> Nat]
  PROVE  Orders(ByKey(key), 1 .. n)
<1>1. \A i, j \in 1 .. n : <<i, j>> \in ByKey(key)
                           <=> key[i] < key[j] \/ (key[i] = key[j] /\ i < j)
  BY DEF ByKey
<1>2. \A i \in 1 .. n : key[i] \in Nat
  OBVIOUS
<1>3. \A i \in 1 .. n : <<i, i>> \notin ByKey(key)
  BY <1>1, <1>2
<1>4. \A i, j, k \in 1 .. n :
        <<i, j>> \in ByKey(key) /\ <<j, k>> \in ByKey(key) => <<i, k>> \in ByKey(key)
  BY <1>1, <1>2
<1>5. ASSUME NEW i \in 1 .. n, NEW j \in 1 .. n, i # j
      PROVE  <<i, j>> \in ByKey(key) \/ <<j, i>> \in ByKey(key)
  <2>1. key[i] \in Nat /\ key[j] \in Nat /\ i \in Nat /\ j \in Nat
    OBVIOUS
  <2>2. \/ key[i] < key[j] \/ key[j] < key[i]
        \/ (key[i] = key[j] /\ (i < j \/ j < i))
    BY <1>5, <2>1
  <2> QED
    BY <1>1, <2>2
<1> QED
  BY <1>3, <1>4, <1>5 DEF Orders

\* A sorted list has what the list has, each place of it once, and the keys grow.
LEMMA SortedLists ==
  ASSUME NEW S, NEW s \in Seq(S), NEW key \in [DOMAIN s -> Nat]
  PROVE  /\ Sorted(s, key) \in Seq(S)
         /\ DOMAIN Sorted(s, key) = DOMAIN s
         /\ \E at \in [DOMAIN s -> DOMAIN s] :
              /\ \A k \in DOMAIN s : Sorted(s, key)[k] = s[at[k]]
              /\ \A i \in DOMAIN s : \E k \in DOMAIN s : at[k] = i
              /\ \A k, l \in DOMAIN s : at[k] = at[l] => k = l
              /\ \A k, l \in DOMAIN s : k < l => key[at[k]] <= key[at[l]]
<1>1. PICK n \in Nat : n = Len(s)
  BY LenProperties
<1>2. /\ DOMAIN s = 1 .. n /\ \A i \in 1 .. n : s[i] \in S
      /\ key \in [1 .. n -> Nat] /\ DOMAIN key = 1 .. n
  BY <1>1, LenProperties, ElementOfSeq
<1>3. /\ IsFiniteSet(1 .. n) /\ Cardinality(1 .. n) = n
      /\ Orders(ByKey(key), 1 .. n)
  <2>1. IsFiniteSet(1 .. n) /\ Cardinality(1 .. n) = n
    BY FS_Interval
  <2> QED
    BY <1>2, <2>1, ByKeyOrders
<1>4. PICK at : at = InOrder(ByKey(key), 1 .. n)
  OBVIOUS
<1>5. /\ at \in [1 .. n -> 1 .. n]
      /\ \A i \in 1 .. n : \E k \in 1 .. n : at[k] = i
      /\ \A k, l \in 1 .. n : k < l => <<at[k], at[l]>> \in ByKey(key)
  <2> DEFINE T == 1 .. n
             R == ByKey(key)
  <2>1. IsFiniteSet(T) /\ Orders(R, T) /\ Cardinality(T) = n /\ at = InOrder(R, T)
    BY <1>3, <1>4
  <2> HIDE DEF T, R
  <2> DEFINE a == InOrder(R, T)
             c == Cardinality(T)
  <2>2. /\ a \in Seq(T) /\ Len(a) = c
        /\ \A i \in T : \E k \in 1 .. c : a[k] = i
        /\ \A k, l \in 1 .. c : k < l => <<a[k], a[l]>> \in R
    BY <2>1, InOrderLists
  <2> HIDE DEF a, c
  <2>3. a \in [1 .. c -> T]
    BY <2>2, LenProperties
  <2>4. a = at /\ c = n
    BY <2>1 DEF a, c
  <2> QED
    BY <2>2, <2>3, <2>4 DEF T, R
<1>6. Sorted(s, key) = [k \in 1 .. n |-> s[at[k]]]
  BY <1>2, <1>4 DEF Sorted
<1>7. Sorted(s, key) \in [1 .. n -> S]
  BY <1>2, <1>5, <1>6
<1>8. Sorted(s, key) \in Seq(S)
  BY <1>7
<1>9. ASSUME NEW k \in 1 .. n, NEW l \in 1 .. n, k < l
      PROVE  at[k] # at[l] /\ key[at[k]] <= key[at[l]]
  <2>1. PICK i \in 1 .. n, j \in 1 .. n : i = at[k] /\ j = at[l]
    BY <1>5
  <2>2. <<i, j>> \in ByKey(key)
    BY <1>5, <1>9, <2>1
  <2>3. key[i] < key[j] \/ (key[i] = key[j] /\ i < j)
    BY <2>2 DEF ByKey
  <2>4. key[i] \in Nat /\ key[j] \in Nat
    BY <1>2
  <2> QED
    BY <2>1, <2>3, <2>4
<1>10. \A k, l \in 1 .. n : at[k] = at[l] => k = l
  <2>1. \A k, l \in 1 .. n : k = l \/ k < l \/ l < k
    OBVIOUS
  <2> QED
    BY <1>9, <2>1
<1> QED
  BY <1>2, <1>5, <1>6, <1>7, <1>8, <1>9, <1>10
================================================================================
