---------------------------- MODULE ClientProofs ----------------------------
(***************************************************************************)
(* Proofs about the client's sequential parts: where WireGuard ports clash *)
(* (Placement), what a contract owes and what resources cost (Calculator), *)
(* what a request is signed, sent and read back as and which hashes differ *)
(* (Requests), what the builder's setters amount to (ClientConfig), and    *)
(* what is rebuilt from a node and matched with its declaration            *)
(* (Workloads).                                                            *)
(***************************************************************************)
EXTENDS Calculator, ClientConfig, Placement, Requests, Workloads, FiniteSetTheorems,
        WellFoundedInduction, TLAPS

(* A set of numbers that is not empty has a least one.                     *)
LEMMA LeastExists ==
    ASSUME NEW T, T \subseteq Nat, T # {}
    PROVE  \E x \in T : \A y \in T : x <= y
<1>1. PICK x \in T : \A y \in T : ~(<<y, x>> \in OpToRel(<, Nat))
  BY NatLessThanWellFounded, WFMin, Zenon
<1>2. \A y \in T : ~(y < x)
  BY <1>1 DEF OpToRel
<1> QED
  BY <1>2

-----------------------------------------------------------------------------
(* Sorting and filtering by ranks, and texts strung together.              *)

(* A linear order on S, as a set of pairs; how many come no later than x.  *)
IsLinear(R, S) ==
    /\ \A x \in S : <<x, x>> \in R
    /\ \A x, y \in S : <<x, y>> \in R \/ <<y, x>> \in R
    /\ \A x, y \in S : <<x, y>> \in R /\ <<y, x>> \in R => x = y
    /\ \A x, y, z \in S : <<x, y>> \in R /\ <<y, z>> \in R => <<x, z>> \in R
RankIn(R, S, x) == Cardinality({y \in S : <<y, x>> \in R})

(* Ranks are numbers from 1, and who comes later has the higher one.       *)
LEMMA RanksGrow ==
    ASSUME NEW S, IsFiniteSet(S), NEW R, IsLinear(R, S), NEW x \in S
    PROVE  /\ Cardinality(S) \in Nat /\ RankIn(R, S, x) \in 1 .. Cardinality(S)
           /\ \A y \in S : <<y, x>> \in R => RankIn(R, S, y) <= RankIn(R, S, x)
           /\ \A y \in S : RankIn(R, S, y) = RankIn(R, S, x) => y = x
<1> DEFINE Upto(z) == {y \in S : <<y, z>> \in R}
<1>1. \A z \in S : /\ IsFiniteSet(Upto(z)) /\ Cardinality(Upto(z)) \in Nat
                   /\ Cardinality(Upto(z)) <= Cardinality(S)
  <2> TAKE z \in S
  <2>1. Upto(z) \in SUBSET S
    OBVIOUS
  <2> HIDE DEF Upto
  <2> QED
    BY <2>1, FS_Subset, FS_CardinalityType
<1>2. x \in Upto(x)
  BY DEF IsLinear
<1>3. Cardinality(S) \in Nat
  BY FS_CardinalityType
<1>4. Cardinality(Upto(x)) # 0
  <2> HIDE DEF Upto
  <2> QED
    BY <1>1, <1>2, FS_EmptySet
<1>5. ASSUME NEW y \in S, NEW z \in S, <<y, z>> \in R
      PROVE  /\ Cardinality(Upto(y)) <= Cardinality(Upto(z))
             /\ Cardinality(Upto(y)) = Cardinality(Upto(z)) => y = z
  <2>1. Upto(y) \in SUBSET Upto(z) /\ z \in Upto(z)
    BY <1>5 DEF IsLinear
  <2>2. z \in Upto(y) => y = z
    BY <1>5 DEF IsLinear
  <2> HIDE DEF Upto
  <2>3. /\ Cardinality(Upto(y)) <= Cardinality(Upto(z))
        /\ Cardinality(Upto(y)) = Cardinality(Upto(z)) => Upto(y) = Upto(z)
    BY <1>1, <2>1, FS_Subset
  <2> QED
    BY <2>1, <2>2, <2>3
<1>6. \A y \in S : RankIn(R, S, y) = Cardinality(Upto(y))
  BY DEF RankIn
<1> HIDE DEF Upto
<1>7. \A y \in S : <<y, x>> \in R \/ <<x, y>> \in R
  BY DEF IsLinear
<1>8. \A y \in S : <<y, x>> \in R => Cardinality(Upto(y)) <= Cardinality(Upto(x))
  BY <1>5
<1>9. \A y \in S : Cardinality(Upto(y)) = Cardinality(Upto(x)) => y = x
  BY <1>5, <1>7
<1>10. Cardinality(Upto(x)) \in 1 .. Cardinality(S)
  BY <1>1, <1>3, <1>4
<1> QED
  BY <1>3, <1>6, <1>8, <1>9, <1>10

(* Every number up to how many there are is the rank of just one of them.  *)
LEMMA RanksAreTaken ==
    ASSUME NEW S, IsFiniteSet(S), NEW R, IsLinear(R, S)
    PROVE  \A n \in 1 .. Cardinality(S) : \E x \in S : RankIn(R, S, x) = n
<1> DEFINE m == Cardinality(S)
           rank == [x \in S |-> RankIn(R, S, x)]
<1>1. m \in Nat
  BY FS_CardinalityType
<1>2. \A x, y \in S : rank[x] = rank[y] => x = y
  BY RanksGrow
<1>3. rank \in [S -> 1 .. m]
  BY RanksGrow
<1> HIDE DEF m
<1>4. IsFiniteSet(1 .. m) /\ Cardinality(1 .. m) = m
  <2>1. /\ IsFiniteSet(1 .. m)
        /\ Cardinality(1 .. m) = IF 1 > m THEN 0 ELSE m - 1 + 1
    BY <1>1, FS_Interval
  <2> QED
    BY <1>1, <2>1
<1> HIDE DEF rank
<1>5. rank \in Injection(S, 1 .. m)
  BY <1>2, <1>3 DEF Injection, IsInjective
<1>6. rank \in Surjection(S, 1 .. m)
  BY <1>4, <1>5, FS_Injection DEF m
<1>7. \A n \in 1 .. m : \E x \in S : rank[x] = n
  BY <1>6 DEF Surjection
<1> QED
  BY <1>7 DEF rank, m

(* The order of the numbers of a set.                                      *)
UpTo(S) == {p \in S \X S : p[1] <= p[2]}

(* It is linear, and its ranks count what is no greater.                   *)
LEMMA NumbersAreLinear ==
    ASSUME NEW S, S \subseteq Nat
    PROVE  /\ IsLinear(UpTo(S), S)
           /\ \A i \in S : RankIn(UpTo(S), S, i) = Cardinality({j \in S : j <= i})
           /\ \A i, j \in S : <<i, j>> \in UpTo(S) <=> i <= j
<1>1. \A i, j \in S : <<i, j>> \in UpTo(S) <=> i <= j
  BY DEF UpTo
<1>2. IsLinear(UpTo(S), S)
  BY <1>1 DEF IsLinear
<1>3. \A i \in S : {j \in S : <<j, i>> \in UpTo(S)} = {j \in S : j <= i}
  BY <1>1
<1> QED
  BY <1>1, <1>2, <1>3 DEF RankIn

(* The n-th smallest number of a set is in it, and is the only such one.   *)
LEMMA NthIsThere ==
    ASSUME NEW S, S \subseteq Nat, IsFiniteSet(S), NEW n \in 1 .. Cardinality(S)
    PROVE  /\ NthOf(S, n) \in S /\ Cardinality({j \in S : j <= NthOf(S, n)}) = n
           /\ \A i \in S : Cardinality({j \in S : j <= i}) = n => i = NthOf(S, n)
<1>0. ASSUME NEW T, IsFiniteSet(T), IsLinear(UpTo(T), T)
      PROVE  \A k \in 1 .. Cardinality(T) : \E i \in T : RankIn(UpTo(T), T, i) = k
  BY <1>0, RanksAreTaken
<1>1. \E i \in S : RankIn(UpTo(S), S, i) = n
  <2>1. IsLinear(UpTo(S), S)
    BY NumbersAreLinear
  <2>2. \A k \in 1 .. Cardinality(S) : \E i \in S : RankIn(UpTo(S), S, i) = k
    BY <1>0, <2>1
  <2> QED
    BY <2>2
<1>2. \E i \in S : Cardinality({j \in S : j <= i}) = n
  BY <1>1, NumbersAreLinear
<1>3. NthOf(S, n) \in S /\ Cardinality({j \in S : j <= NthOf(S, n)}) = n
  BY <1>2 DEF NthOf
<1>4. ASSUME NEW i \in S, Cardinality({j \in S : j <= i}) = n
      PROVE  i = NthOf(S, n)
  <2>1. RankIn(UpTo(S), S, i) = RankIn(UpTo(S), S, NthOf(S, n))
    BY <1>3, <1>4, NumbersAreLinear
  <2> QED
    BY <1>3, <2>1, NumbersAreLinear, RanksGrow
<1> QED
  BY <1>3, <1>4

(* Filtering keeps what is at the places kept, and nothing else.           *)
LEMMA EntriesAreKept ==
    ASSUME NEW s, NEW S, S \subseteq Nat, IsFiniteSet(S)
    PROVE  /\ Cardinality(S) \in Nat /\ DOMAIN EntriesAt(s, S) = 1 .. Cardinality(S)
           /\ \A n \in 1 .. Cardinality(S) :
                 /\ NthOf(S, n) \in S /\ EntriesAt(s, S)[n] = s[NthOf(S, n)]
           /\ \A i \in S : \E n \in 1 .. Cardinality(S) : EntriesAt(s, S)[n] = s[i]
<1>1. DOMAIN EntriesAt(s, S) = 1 .. Cardinality(S)
  BY DEF EntriesAt
<1>2. \A n \in 1 .. Cardinality(S) : EntriesAt(s, S)[n] = s[NthOf(S, n)]
  BY DEF EntriesAt
<1>3. Cardinality(S) \in Nat
  BY FS_CardinalityType
<1>4. \A n \in 1 .. Cardinality(S) : NthOf(S, n) \in S
  BY NthIsThere
<1>5. ASSUME NEW i \in S
      PROVE  \E n \in 1 .. Cardinality(S) : EntriesAt(s, S)[n] = s[i]
  <2> DEFINE r == Cardinality({j \in S : j <= i})
  <2>1. r = RankIn(UpTo(S), S, i)
    BY NumbersAreLinear
  <2>2. RankIn(UpTo(S), S, i) \in 1 .. Cardinality(S)
    BY NumbersAreLinear, RanksGrow
  <2>3. r \in 1 .. Cardinality(S)
    BY <2>1, <2>2
  <2>4. i = NthOf(S, r)
    BY <2>3, NthIsThere
  <2> HIDE DEF r
  <2> QED
    BY <1>2, <2>3, <2>4
<1> QED
  BY <1>1, <1>2, <1>3, <1>4, <1>5

(* The same of one entry.                                                  *)
LEMMA EntryIsKept ==
    ASSUME NEW s, NEW S, S \subseteq Nat, IsFiniteSet(S), NEW n \in 1 .. Cardinality(S)
    PROVE  NthOf(S, n) \in S /\ EntriesAt(s, S)[n] = s[NthOf(S, n)]
<1>1. NthOf(S, n) \in S
  BY NthIsThere
<1>2. EntriesAt(s, S)[n] = s[NthOf(S, n)]
  BY DEF EntriesAt
<1> QED
  BY <1>1, <1>2

(* What comes no later in a stable sort by key.                            *)
ByKey(D, key) ==
    {p \in D \X D : key[p[1]] < key[p[2]] \/ (key[p[1]] = key[p[2]] /\ p[1] <= p[2])}

(* It is linear, and its ranks are those of sort_by_key.                   *)
LEMMA KeysAreLinear ==
    ASSUME NEW D, D \subseteq Nat, NEW key, \A k \in D : key[k] \in Nat
    PROVE  /\ IsLinear(ByKey(D, key), D)
           /\ \A j \in D : RankIn(ByKey(D, key), D, j) =
                 Cardinality({k \in D : key[k] < key[j] \/ (key[k] = key[j] /\ k <= j)})
           /\ \A k, j \in D : <<k, j>> \in ByKey(D, key) <=>
                 key[k] < key[j] \/ (key[k] = key[j] /\ k <= j)
<1>1. \A k, j \in D : <<k, j>> \in ByKey(D, key) <=>
                 key[k] < key[j] \/ (key[k] = key[j] /\ k <= j)
  BY DEF ByKey
<1>2. IsLinear(ByKey(D, key), D)
  BY <1>1 DEF IsLinear
<1>3. \A j \in D : {k \in D : <<k, j>> \in ByKey(D, key)} =
                   {k \in D : key[k] < key[j] \/ (key[k] = key[j] /\ k <= j)}
  BY <1>1
<1> QED
  BY <1>1, <1>2, <1>3 DEF RankIn

(* sort_by_key: a place of the result holds the entry of that rank.        *)
Sorting(D, key, n) == CHOOSE j \in D : n = RankIn(ByKey(D, key), D, j)

(* Every place of the result is taken from some one place, and every place *)
(* is taken.                                                               *)
LEMMA SortingTakesAll ==
    ASSUME NEW m \in Nat, NEW key, \A k \in 1 .. m : key[k] \in Nat
    PROVE  /\ \A n \in 1 .. m :
                 /\ Sorting(1 .. m, key, n) \in 1 .. m
                 /\ RankIn(ByKey(1 .. m, key), 1 .. m, Sorting(1 .. m, key, n)) = n
           /\ \A j \in 1 .. m : \E n \in 1 .. m : Sorting(1 .. m, key, n) = j
<1> DEFINE D == 1 .. m
           R == ByKey(D, key)
<1>1. IsLinear(R, D)
  <2>1. D \subseteq Nat /\ \A k \in D : key[k] \in Nat
    OBVIOUS
  <2> HIDE DEF D
  <2> QED
    BY <2>1, KeysAreLinear
<1>2. IsFiniteSet(D) /\ Cardinality(D) = m
  <2>1. IsFiniteSet(D) /\ Cardinality(D) = IF 1 > m THEN 0 ELSE m - 1 + 1
    BY FS_Interval
  <2> QED
    BY <2>1
<1> HIDE DEF R
<1>3. ASSUME NEW n \in D
      PROVE  \E j \in D : n = RankIn(R, D, j)
  BY <1>1, <1>2, RanksAreTaken
<1>4. ASSUME NEW n \in D
      PROVE  Sorting(D, key, n) \in D /\ RankIn(R, D, Sorting(D, key, n)) = n
  BY <1>3 DEF Sorting, R
<1>5. ASSUME NEW j \in D
      PROVE  \E n \in D : Sorting(D, key, n) = j
  <2>1. RankIn(R, D, j) \in D
    BY <1>1, <1>2, RanksGrow
  <2>2. \A i \in D : RankIn(R, D, i) = RankIn(R, D, j) => i = j
    BY <1>1, <1>2, RanksGrow
  <2> QED
    BY <1>4, <2>1, <2>2
<1> QED
  BY <1>4, <1>5 DEF R

(* sort_by_key puts there the entries of these places.                     *)
LEMMA SortingIsSound ==
    ASSUME NEW m \in Nat, NEW s, DOMAIN s = 1 .. m, NEW key, \A k \in 1 .. m : key[k] \in Nat
    PROVE  /\ DOMAIN SortedByKey(s, key) = 1 .. m
           /\ \A n \in 1 .. m :
                 /\ Sorting(1 .. m, key, n) \in 1 .. m
                 /\ RankIn(ByKey(1 .. m, key), 1 .. m, Sorting(1 .. m, key, n)) = n
                 /\ SortedByKey(s, key)[n] = s[Sorting(1 .. m, key, n)]
<1> DEFINE D == 1 .. m
           R == ByKey(D, key)
           Before(j) == {k \in D : key[k] < key[j] \/ (key[k] = key[j] /\ k <= j)}
<1>1. \A j \in D : RankIn(R, D, j) = Cardinality(Before(j))
  <2>1. D \subseteq Nat /\ \A k \in D : key[k] \in Nat
    OBVIOUS
  <2> HIDE DEF D
  <2>2. \A k, j \in D : <<k, j>> \in R <=> key[k] < key[j] \/ (key[k] = key[j] /\ k <= j)
    BY <2>1, KeysAreLinear
  <2>3. ASSUME NEW j \in D
        PROVE  {k \in D : <<k, j>> \in R} = Before(j)
    BY <2>2
  <2> QED
    BY <2>3 DEF RankIn
<1>2. /\ DOMAIN SortedByKey(s, key) = D
      /\ \A n \in D : SortedByKey(s, key)[n] = s[CHOOSE j \in D : n = Cardinality(Before(j))]
  BY DEF SortedByKey
<1>3. ASSUME NEW n \in D
      PROVE  Sorting(D, key, n) \in D /\ RankIn(R, D, Sorting(D, key, n)) = n
  BY SortingTakesAll
<1> HIDE DEF Before, R
<1>4. ASSUME NEW n \in D
      PROVE  (CHOOSE j \in D : n = Cardinality(Before(j))) = Sorting(D, key, n)
  <2>1. \A j \in D : n = Cardinality(Before(j)) <=> n = RankIn(R, D, j)
    BY <1>1
  <2>2. (CHOOSE j \in D : n = Cardinality(Before(j))) = CHOOSE j \in D : n = RankIn(R, D, j)
    BY <2>1
  <2> QED
    BY <2>2 DEF Sorting, R
<1> QED
  BY <1>2, <1>3, <1>4 DEF R

(* Later places hold later entries.                                        *)
LEMMA SortingIsOrdered ==
    ASSUME NEW m \in Nat, NEW key, \A k \in 1 .. m : key[k] \in Nat,
           NEW n \in 1 .. m, NEW r \in 1 .. m, n < r,
           NEW i \in 1 .. m, RankIn(ByKey(1 .. m, key), 1 .. m, i) = n,
           NEW j \in 1 .. m, RankIn(ByKey(1 .. m, key), 1 .. m, j) = r
    PROVE  key[i] < key[j] \/ (key[i] = key[j] /\ i < j)
<1> DEFINE D == 1 .. m
           R == ByKey(D, key)
<1>1. IsFiniteSet(D)
  BY FS_Interval
<1>2. /\ IsLinear(R, D)
      /\ \A k, l \in D : <<k, l>> \in R <=> key[k] < key[l] \/ (key[k] = key[l] /\ k <= l)
  <2>1. D \subseteq Nat /\ \A k \in D : key[k] \in Nat
    OBVIOUS
  <2> HIDE DEF D
  <2> QED
    BY <2>1, KeysAreLinear
<1> HIDE DEF R
<1>3. <<j, i>> \in R => r <= n
  BY <1>1, <1>2, RanksGrow DEF R
<1>4. <<j, i>> \notin R
  BY <1>3
<1> QED
  BY <1>2, <1>4

(* What is in two texts put together.                                      *)
LEMMA RangeOfBoth ==
    ASSUME NEW T, NEW s \in Seq(T), NEW t \in Seq(T)
    PROVE  s \o t \in Seq(T) /\ Range(s \o t) = Range(s) \union Range(t)
<1>1. /\ s \o t \in Seq(T) /\ Len(s \o t) = Len(s) + Len(t)
      /\ Len(s) \in Nat /\ Len(t) \in Nat
  OBVIOUS
<1>2. \A i \in 1 .. Len(s) + Len(t) :
         (s \o t)[i] = IF i <= Len(s) THEN s[i] ELSE t[i - Len(s)]
  OBVIOUS
<1>3. /\ DOMAIN (s \o t) = 1 .. Len(s) + Len(t)
      /\ DOMAIN s = 1 .. Len(s) /\ DOMAIN t = 1 .. Len(t)
  BY <1>1
<1>4. ASSUME NEW i \in DOMAIN (s \o t)
      PROVE  (s \o t)[i] \in Range(s) \union Range(t)
  BY <1>1, <1>2, <1>3 DEF Range
<1>5. ASSUME NEW i \in DOMAIN s
      PROVE  s[i] \in Range(s \o t)
  <2>1. i \in DOMAIN (s \o t) /\ (s \o t)[i] = s[i]
    BY <1>1, <1>2, <1>3
  <2> QED
    BY <2>1 DEF Range
<1>6. ASSUME NEW i \in DOMAIN t
      PROVE  t[i] \in Range(s \o t)
  <2>1. Len(s) + i \in DOMAIN (s \o t) /\ (s \o t)[Len(s) + i] = t[i]
    BY <1>1, <1>2, <1>3
  <2> QED
    BY <2>1 DEF Range
<1> QED
  BY <1>1, <1>4, <1>5, <1>6 DEF Range

(* FlattenSeq is the last of the texts that its definition builds up.      *)
Grows(ss, f, k) ==
    f = [i \in 1 .. k |-> IF i = 1 THEN ss[i] ELSE f[i - 1] \o ss[i]]

(* There is such a function: FlattenSeq is defined.                        *)
LEMMA FlatteningExists ==
    ASSUME NEW ss, NEW n \in Nat \ {0}
    PROVE  \E f : Grows(ss, f, n)
<1> DEFINE Bad == {k \in Nat \ {0} : ~\E f : Grows(ss, f, k)}
<1>1. SUFFICES ASSUME Bad # {} PROVE FALSE
  OBVIOUS
<1>2. PICK k \in Bad : \A j \in Bad : k <= j
  BY <1>1, LeastExists
<1>3. k # 1
  <2>1. Grows(ss, [i \in 1 .. 1 |-> ss[i]], 1)
    BY DEF Grows
  <2> QED
    BY <2>1
<1>4. k - 1 \in Nat \ {0} /\ k - 1 \notin Bad
  BY <1>2, <1>3
<1>5. PICK f : Grows(ss, f, k - 1)
  BY <1>4
<1> DEFINE g == [i \in 1 .. k |-> IF i = k THEN f[k - 1] \o ss[k] ELSE f[i]]
           h == [i \in 1 .. k |-> IF i = 1 THEN ss[i] ELSE g[i - 1] \o ss[i]]
<1>6. ASSUME NEW i \in 1 .. k PROVE g[i] = h[i]
  <2>1. CASE i = k
    <3>1. k - 1 \in 1 .. k /\ k - 1 # k /\ k \in 1 .. k
      BY <1>3
    <3>2. g[k - 1] = f[k - 1] /\ g[k] = f[k - 1] \o ss[k]
      BY <3>1
    <3> QED
      BY <1>3, <2>1, <3>2
  <2>2. CASE i = 1
    BY <1>3, <1>5, <1>4, <2>2 DEF Grows
  <2>3. CASE i # 1 /\ i # k
    <3>1. i \in 1 .. k - 1 /\ i - 1 \in 1 .. k - 1 /\ i - 1 # k /\ i - 1 \in 1 .. k
      BY <2>3
    <3>2. f[i] = f[i - 1] \o ss[i]
      BY <1>5, <2>3, <3>1 DEF Grows
    <3>3. g[i - 1] = f[i - 1] /\ g[i] = f[i]
      BY <2>3, <3>1
    <3> QED
      BY <2>3, <3>2, <3>3
  <2> QED
    BY <2>1, <2>2, <2>3
<1>7. g = h
  BY <1>6
<1>8. Grows(ss, g, k)
  BY <1>7 DEF Grows
<1> QED
  BY <1>2, <1>8

(* FlattenSeq has what the texts have, and nothing else.                   *)
LEMMA Flattened ==
    ASSUME NEW T, NEW ss \in Seq(Seq(T))
    PROVE  /\ FlattenSeq(ss) \in Seq(T)
           /\ \A x : x \in Range(FlattenSeq(ss)) <=> \E i \in DOMAIN ss : x \in Range(ss[i])
<1> DEFINE n == Len(ss)
<1>1. n \in Nat /\ DOMAIN ss = 1 .. n /\ \A i \in 1 .. n : ss[i] \in Seq(T)
  OBVIOUS
<1>2. CASE n = 0
  <2>1. ss = <<>> /\ FlattenSeq(ss) = <<>>
    BY <1>2 DEF FlattenSeq
  <2>2. <<>> \in Seq(T) /\ DOMAIN <<>> = {}
    OBVIOUS
  <2>3. Range(<<>>) = {}
    BY <2>2 DEF Range
  <2> QED
    BY <2>1, <2>2, <2>3
<1>3. CASE n # 0
  <2> DEFINE f == CHOOSE f : f = [i \in 1 .. Len(ss) |-> IF i = 1 THEN ss[i] ELSE f[i - 1] \o ss[i]]
  <2>1. FlattenSeq(ss) = f[n]
    BY <1>3 DEF FlattenSeq
  <2>2. Grows(ss, f, n)
    <3>1. \E g : Grows(ss, g, n)
      BY <1>1, <1>3, FlatteningExists
    <3>2. \E g : g = [i \in 1 .. Len(ss) |-> IF i = 1 THEN ss[i] ELSE g[i - 1] \o ss[i]]
      BY <3>1 DEF Grows
    <3>3. f = [i \in 1 .. Len(ss) |-> IF i = 1 THEN ss[i] ELSE f[i - 1] \o ss[i]]
      BY <3>2
    <3> QED
      BY <3>3 DEF Grows
  <2> HIDE DEF f, n
  <2>3. \A i \in 1 .. n : f[i] = IF i = 1 THEN ss[i] ELSE f[i - 1] \o ss[i]
    BY <2>2 DEF Grows
  <2> DEFINE Right(k) == /\ f[k] \in Seq(T)
                         /\ \A x : x \in Range(f[k]) <=> \E i \in 1 .. k : x \in Range(ss[i])
             Bad == {k \in 1 .. n : ~Right(k)}
  <2>4. Bad = {}
    <3>1. SUFFICES ASSUME Bad # {} PROVE FALSE
      OBVIOUS
    <3>2. PICK k \in Bad : \A j \in Bad : k <= j
      <4>1. Bad \subseteq Nat
        BY <1>1
      <4> HIDE DEF Bad
      <4> QED
        BY <3>1, <4>1, LeastExists
    <3>3. CASE k = 1
      <4>1. f[1] = ss[1] /\ 1 \in 1 .. n
        BY <1>1, <2>3, <3>3
      <4> QED
        BY <1>1, <3>2, <3>3, <4>1
    <3>4. CASE k # 1
      <4>1. k - 1 \in 1 .. n /\ k \in 1 .. n
        BY <1>1, <3>4
      <4>2. Right(k - 1)
        <5> HIDE DEF Right
        <5>1. k - 1 < k
          BY <1>1, <4>1
        <5>2. k - 1 \notin Bad
          <6> HIDE DEF Bad
          <6> QED
            BY <1>1, <3>2, <4>1, <5>1
        <5> QED
          BY <4>1, <5>2
      <4>3. f[k] = f[k - 1] \o ss[k]
        BY <2>3, <3>4, <4>1
      <4>4. PICK a, b : a = f[k - 1] /\ b = ss[k]
        OBVIOUS
      <4>5. a \in Seq(T) /\ b \in Seq(T)
        BY <1>1, <4>1, <4>2, <4>4
      <4>6. f[k] \in Seq(T) /\ Range(f[k]) = Range(a) \union Range(b)
        BY <4>3, <4>4, <4>5, RangeOfBoth
      <4>7. \A x : x \in Range(f[k]) <=> \E i \in 1 .. k : x \in Range(ss[i])
        <5>1. \A x : x \in Range(a) <=> \E i \in 1 .. k - 1 : x \in Range(ss[i])
          BY <4>2, <4>4
        <5>2. \A i : i \in 1 .. k <=> i \in 1 .. k - 1 \/ i = k
          BY <1>1, <4>1
        <5> QED
          BY <4>4, <4>6, <5>1, <5>2
      <4> QED
        BY <3>2, <4>6, <4>7
    <3> QED
      BY <3>3, <3>4
  <2>5. Right(n)
    <3>1. n \in 1 .. n
      BY <1>1, <1>3
    <3> HIDE DEF Right
    <3> QED
      BY <2>4, <3>1
  <2> QED
    BY <1>1, <2>1, <2>5
<1> QED
  BY <1>2, <1>3

-----------------------------------------------------------------------------
(* Placement.                                                              *)

PlacementType ==
    /\ want \in [Placed -> Wants]
    /\ listing \in Seq(ProxyNodes)
    /\ candidates \in [Placed -> SUBSET DOMAIN listing]
    /\ at \in [Placed -> {"idle", "failed", "placed", "chosen", "hosted"}]
    /\ port \in [Placed -> Nat]
    /\ inUse \in [Hosts -> SUBSET Nat]
    /\ \A c \in Placed : at[c] \in {"placed", "chosen", "hosted"} => candidates[c] # {}

(* A deployed network's port is one the node shows.                        *)
HostedIsShown ==
    \A c \in Placed : at[c] = "hosted" => port[c] \in inUse[HostOf(c)]

(* c and e have the same port of the same node, both chosen by the client. *)
Clash(c, e) ==
    /\ c # e /\ at[c] \in {"chosen", "hosted"} /\ at[e] \in {"chosen", "hosted"}
    /\ want[c].ownPort = 0 /\ want[e].ownPort = 0
    /\ HostOf(c) = HostOf(e) /\ port[c] = port[e]

ClashesOverlap == \A c, e \in Placed : Clash(c, e) => {c, e} \in overlaps

PlacementInv == PlacementType /\ HostedIsShown /\ ClashesOverlap

(* The first candidate is a node.                                          *)
LEMMA HostIsNode ==
    ASSUME PlacementType, NEW c \in Placed, candidates[c] # {}
    PROVE  HostOf(c) \in Hosts
<1> DEFINE i == CHOOSE i \in candidates[c] : \A j \in candidates[c] : i <= j
<1>1. candidates[c] \subseteq DOMAIN listing /\ DOMAIN listing \subseteq Nat
  BY DEF PlacementType
<1>2. \E k \in candidates[c] : \A j \in candidates[c] : k <= j
  BY <1>1, LeastExists
<1>3. i \in candidates[c]
  BY <1>2
<1>4. i \in DOMAIN listing
  BY <1>1, <1>3
<1>5. listing[i] \in ProxyNodes
  BY <1>4 DEF PlacementType
<1> QED
  BY <1>5 DEF HostOf, ProxyNodes

(* get_free_wg_port answers a port that the node does not show.            *)
LEMMA LowestIsFree ==
    ASSUME PlacementType, NEW c \in Placed, FreePorts(c) # {}
    PROVE  LowestPort(c) \in FreePorts(c) /\ LowestPort(c) \in Nat
<1>1. FreePorts(c) \subseteq Nat
  BY PlacementAssumption DEF FreePorts
<1>2. \E p \in FreePorts(c) : \A q \in FreePorts(c) : p <= q
  BY <1>1, LeastExists
<1> QED
  BY <1>1, <1>2 DEF LowestPort

(* A call's node depends on its candidates only.                           *)
LEMMA HostKept ==
    ASSUME NEW c \in Placed, candidates'[c] = candidates[c], listing' = listing
    PROVE  HostOf(c)' = HostOf(c)
BY DEF HostOf

(* No port is chosen at first.                                             *)
LEMMA PlacementStarts == PlacementInit => PlacementInv
<1> SUFFICES ASSUME PlacementInit PROVE PlacementInv
  OBVIOUS
<1>1. PlacementType
  BY PlacementAssumption DEF PlacementInit, PlacementType
<1> QED
  BY <1>1 DEF PlacementInit, PlacementInv, HostedIsShown, ClashesOverlap, Clash

(* pick_nodes and pick_zmachine_nodes choose no port.                      *)
LEMMA PlaceKeeps ==
    ASSUME PlacementInv, NEW c \in Placed, Place(c)
    PROVE  PlacementInv'
<1> USE DEF PlacementInv
<1>1. PickNodes(listing, want[c]) \subseteq DOMAIN listing
  BY DEF PickNodes
<1>2. PlacementType'
  BY <1>1 DEF PlacementType, Place
<1>3. \A e \in Placed : e # c => HostOf(e)' = HostOf(e) /\ at'[e] = at[e]
  BY HostKept DEF Place, PlacementType
<1>4. at'[c] \notin {"chosen", "hosted"}
  BY DEF Place, PlacementType
<1>5. HostedIsShown'
  BY <1>3, <1>4 DEF HostedIsShown, Place
<1>6. ClashesOverlap'
  BY <1>3, <1>4 DEF ClashesOverlap, Clash, Place
<1> QED
  BY <1>2, <1>5, <1>6

(* A port is chosen among those not in use on the node at that moment.     *)
LEMMA ChoosePortKeeps ==
    ASSUME PlacementInv, NEW c \in Placed, ChoosePort(c)
    PROVE  PlacementInv'
<1> USE DEF PlacementInv
<1>1. \A e \in Placed : HostOf(e)' = HostOf(e)
  BY HostKept DEF ChoosePort
<1>2. \A e \in Placed : e # c => at'[e] = at[e] /\ port'[e] = port[e]
  BY DEF ChoosePort, PlacementType
<1>3. CASE want[c].ownPort = 0 /\ at' = [at EXCEPT ![c] = "failed"]
              /\ UNCHANGED <<port, overlaps>>
  <2>1. PlacementType'
    BY <1>3 DEF PlacementType, ChoosePort
  <2>2. at'[c] = "failed"
    BY <1>3 DEF PlacementType
  <2>3. HostedIsShown'
    BY <1>1, <1>2, <2>2 DEF HostedIsShown, ChoosePort
  <2>4. ClashesOverlap'
    BY <1>1, <1>2, <1>3, <2>2 DEF ClashesOverlap, Clash, ChoosePort
  <2> QED
    BY <2>1, <2>3, <2>4
<1>4. CASE /\ want[c].ownPort # 0 \/ FreePorts(c) # {}
           /\ port' = [port EXCEPT ![c] =
                 IF want[c].ownPort # 0 THEN want[c].ownPort ELSE LowestPort(c)]
           /\ at' = [at EXCEPT ![c] = "chosen"]
           /\ overlaps' = overlaps \union
                 {{c, e} : e \in {d \in Placed : at[d] = "chosen" /\ HostOf(d) = HostOf(c)}}
  <2>1. want[c].ownPort \in Nat
    BY PlacementAssumption DEF PlacementType, Requirements
  <2>2. port'[c] \in Nat /\ at'[c] = "chosen"
    BY <1>4, <2>1, LowestIsFree DEF PlacementType
  <2>3. PlacementType'
    BY <1>4, <2>2 DEF PlacementType, ChoosePort
  <2>4. HostedIsShown'
    BY <1>1, <1>2, <2>2 DEF HostedIsShown, ChoosePort
  <2>5. \A e \in Placed : e # c /\ (Clash(c, e)' \/ Clash(e, c)') => {c, e} \in overlaps'
    <3> SUFFICES ASSUME NEW e \in Placed, e # c, Clash(c, e)' \/ Clash(e, c)'
                 PROVE  {c, e} \in overlaps'
      OBVIOUS
    <3>1. /\ at[e] \in {"chosen", "hosted"} /\ want[c].ownPort = 0
          /\ HostOf(e) = HostOf(c) /\ port[e] = port'[c]
      BY <1>1, <1>2 DEF Clash, ChoosePort
    <3>2. CASE at[e] = "chosen"
      BY <1>4, <3>1, <3>2
    <3>3. CASE at[e] = "hosted"
      <4>1. port[e] \in inUse[HostOf(c)]
        BY <3>1, <3>3 DEF HostedIsShown
      <4>2. port'[c] = LowestPort(c) /\ FreePorts(c) # {}
        BY <1>4, <3>1 DEF PlacementType
      <4>3. port'[c] \notin inUse[HostOf(c)]
        BY <4>2, LowestIsFree DEF FreePorts
      <4> QED
        BY <3>1, <4>1, <4>3
    <3> QED
      BY <3>1, <3>2, <3>3
  <2>6. \A d, e \in Placed : d # c /\ e # c /\ Clash(d, e)' => {d, e} \in overlaps'
    BY <1>1, <1>2, <1>4 DEF Clash, ClashesOverlap, ChoosePort
  <2>7. ClashesOverlap'
    <3> SUFFICES ASSUME NEW d \in Placed, NEW e \in Placed, Clash(d, e)'
                 PROVE  {d, e} \in overlaps'
      BY DEF ClashesOverlap
    <3>1. d # e
      BY DEF Clash
    <3>2. CASE d = c
      BY <2>5, <3>1, <3>2
    <3>3. CASE e = c
      <4>1. {c, d} \in overlaps'
        BY <2>5, <3>1, <3>3
      <4> QED
        BY <3>3, <4>1
    <3> QED
      BY <2>6, <3>2, <3>3
  <2> QED
    BY <2>3, <2>4, <2>7
<1> QED
  BY <1>3, <1>4 DEF ChoosePort

(* The network of a call comes up: its port is now in use on the node.     *)
LEMMA HostNetworkKeeps ==
    ASSUME PlacementInv, NEW c \in Placed, HostNetwork(c)
    PROVE  PlacementInv'
<1> USE DEF PlacementInv
<1>1. \A e \in Placed : HostOf(e)' = HostOf(e)
  BY HostKept DEF HostNetwork
<1>2. HostOf(c) \in Hosts
  BY HostIsNode DEF HostNetwork, PlacementType
<1>3. PlacementType'
  BY DEF PlacementType, HostNetwork
<1>4. HostedIsShown'
  <2>1. port'[c] \in inUse'[HostOf(c)]
    BY <1>2 DEF HostNetwork, PlacementType
  <2>2. \A e \in Placed : inUse[HostOf(e)] \subseteq inUse'[HostOf(e)]
    BY DEF HostNetwork, PlacementType
  <2> QED
    BY <1>1, <2>1, <2>2 DEF HostedIsShown, HostNetwork, PlacementType
<1>5. \A d, e \in Placed : Clash(d, e)' => Clash(d, e)
  BY <1>1 DEF Clash, HostNetwork, PlacementType
<1>6. ClashesOverlap'
  BY <1>5 DEF ClashesOverlap, HostNetwork
<1> QED
  BY <1>3, <1>4, <1>6

(* However calls interleave, two networks share a port that the client     *)
(* chose for both only if the calls overlapped between get_free_wg_port    *)
(* and the deployment.                                                     *)
THEOREM ClashesNeedOverlap == PlacementSpec => []ClashNeedsOverlap
<1>1. PlacementInv /\ [PlacementNext]_placementVars => PlacementInv'
  <2> SUFFICES ASSUME PlacementInv, [PlacementNext]_placementVars PROVE PlacementInv'
    OBVIOUS
  <2>1. CASE UNCHANGED placementVars
    <3>1. \A e \in Placed : HostOf(e)' = HostOf(e)
      BY <2>1, HostKept DEF placementVars
    <3> QED
      BY <2>1, <3>1 DEF placementVars, PlacementInv, PlacementType, HostedIsShown,
                        ClashesOverlap, Clash
  <2>2. CASE PlacementNext
    BY <2>2, PlaceKeeps, ChoosePortKeeps, HostNetworkKeeps DEF PlacementNext
  <2> QED
    BY <2>1, <2>2
<1>2. PlacementInv => ClashNeedsOverlap
  BY DEF PlacementInv, ClashesOverlap, Clash, ClashNeedsOverlap
<1> QED
  BY PlacementStarts, <1>1, <1>2, PTL DEF PlacementSpec
-----------------------------------------------------------------------------
(* Overdue amounts.                                                        *)

Calls == [contract : Owners, own : Nat, extra : Nat, unread : SUBSET nodeContracts,
          owed : Nat, reads : Nat \ {0}]

(* What the calls for other contracts have returned is at least what these *)
(* owe, and each contract read added less than a TFT to that.              *)
IsTight(f) ==
    /\ f.owed <= f.own + 4 * f.extra
    /\ f.own + 4 * f.extra <= f.owed + 3 * (f.reads - 1)

IsRent(k) == KindOf[k] = "rent"

(* The call for a rent contract cannot end before one for each of the rent *)
(* contracts that the list of the node has in it.                          *)
Waits(i) ==
    IsRent(calls[i].contract) =>
        \A k \in nodeContracts : IsRent(k) =>
            \/ k \in calls[i].unread
            \/ i < Len(calls) /\ calls[i + 1].contract = k

OverdueType ==
    /\ account \in [Owners -> Accounts]
    /\ nodeContracts \in Listed
    /\ calls \in Seq(Calls)
    /\ overdue \in Int

OverdueInv ==
    /\ OverdueType
    /\ \A i \in 1 .. Len(calls) : IsTight(calls[i]) /\ Waits(i)
    /\ OverdueCovers

(* Rounding up to whole TFT adds less than a TFT.                          *)
LEMMA RoundedIsTight ==
    ASSUME NEW q \in Nat
    PROVE  Rounded(q) \in Nat /\ q <= 4 * Rounded(q) /\ 4 * Rounded(q) <= q + 3
BY DEF Rounded

(* What a contract owes is a number.                                       *)
LEMMA OwesType ==
    ASSUME OverdueType, NEW k \in Owners
    PROVE  Owes(k) \in Nat
<1>1. account[k] \in Accounts
  BY DEF OverdueType
<1>2. account[k].overdraft \in Nat /\ account[k].unbilled \in Nat /\ account[k].period \in Nat
  BY <1>1, CalculatorAssumption DEF Accounts
<1> QED
  BY <1>2 DEF Owes

(* A call that begins has read its own contract and waits for the others.  *)
LEMMA CallBegins ==
    ASSUME OverdueType, NEW k \in Owners
    PROVE  /\ CallFor(k) \in Calls /\ IsTight(CallFor(k)) /\ CallFor(k).contract = k
           /\ IsRent(k) => CallFor(k).unread = nodeContracts
<1>1. Owes(k) \in Nat
  BY OwesType
<1> QED
  BY <1>1 DEF CallFor, Calls, IsTight, IsRent

(* A call that is told a total keeps everything else.                      *)
LEMMA ToldType ==
    ASSUME NEW e \in Calls, NEW f \in Calls, NEW total \in Nat
    PROVE  LET g == Told(e, f, total)
           IN /\ g \in Calls /\ g.contract = e.contract /\ g.unread = e.unread
              /\ g.own = e.own /\ g.extra = e.extra + total
              /\ g.owed = e.owed + f.owed /\ g.reads = e.reads + f.reads
<1>1. /\ e.extra \in Nat /\ e.owed \in Nat /\ e.reads \in Nat \ {0}
      /\ f.owed \in Nat /\ f.reads \in Nat \ {0}
  BY DEF Calls
<1>2. /\ e.extra + total \in Nat /\ e.owed + f.owed \in Nat /\ e.reads + f.reads \in Nat \ {0}
  BY <1>1
<1>3. PICK x \in Nat : x = e.extra + total
  BY <1>2
<1>4. PICK y \in Nat : y = e.owed + f.owed
  BY <1>2
<1>5. PICK z \in Nat \ {0} : z = e.reads + f.reads
  BY <1>2
<1>6. Told(e, f, total) = [[[e EXCEPT !.extra = x] EXCEPT !.owed = y] EXCEPT !.reads = z]
  BY <1>3, <1>4, <1>5 DEF Told, Calls
<1> QED
  BY <1>3, <1>4, <1>5, <1>6 DEF Calls

(* A total that is tight keeps the sum of the call that is told it tight.  *)
LEMMA ToldIsTight ==
    ASSUME NEW e \in Calls, NEW f \in Calls, NEW total \in Nat, IsTight(e),
           f.owed <= 4 * total, 4 * total <= f.owed + 3 * f.reads
    PROVE  IsTight(Told(e, f, total))
<1>1. /\ e.own \in Nat /\ e.extra \in Nat /\ e.owed \in Nat /\ e.reads \in Nat
      /\ f.owed \in Nat /\ f.reads \in Nat
  BY DEF Calls
<1>2. \A own \in Nat, extra \in Nat, owed \in Nat, reads \in Nat, owes \in Nat, more \in Nat :
        /\ owed <= own + 4 * extra /\ own + 4 * extra <= owed + 3 * (reads - 1)
        /\ owes <= 4 * total /\ 4 * total <= owes + 3 * more
        => /\ owed + owes <= own + 4 * (extra + total)
           /\ own + 4 * (extra + total) <= owed + owes + 3 * (reads + more - 1)
  OBVIOUS
<1>3. PICK g : g = Told(e, f, total)
  OBVIOUS
<1>4. /\ g.own = e.own /\ g.extra = e.extra + total
      /\ g.owed = e.owed + f.owed /\ g.reads = e.reads + f.reads
  BY <1>3, ToldType
<1>5. /\ e.owed <= e.own + 4 * e.extra
      /\ e.own + 4 * e.extra <= e.owed + 3 * (e.reads - 1)
  BY DEF IsTight
<1>6. PICK a \in Nat, x \in Nat, o \in Nat, r \in Nat :
          a = g.own /\ x = g.extra /\ o = g.owed /\ r = g.reads
  BY <1>1, <1>4
<1>7. a = e.own /\ x = e.extra + total /\ o = e.owed + f.owed /\ r = e.reads + f.reads
  BY <1>4, <1>6
<1>8. o <= a + 4 * x /\ a + 4 * x <= o + 3 * (r - 1)
  BY <1>1, <1>2, <1>5, <1>7
<1>9. IsTight(g)
  BY <1>6, <1>8 DEF IsTight
<1> QED
  BY <1>3, <1>9

(* Nothing is read and nothing is owed at first.                           *)
LEMMA OverdueStarts == OverdueInit => OverdueInv
BY DEF OverdueInit, OverdueInv, OverdueType, OverdueCovers

(* A contract is asked for.                                                *)
LEMMA AskOverdueKeeps ==
    ASSUME OverdueInv, NEW k \in Owners, AskOverdue(k)
    PROVE  OverdueInv'
<1> USE DEF OverdueInv
<1>1. nodeContracts' = nodeContracts /\ account' = account /\ ~(overdue' >= 0) /\ overdue' \in Int
  BY DEF AskOverdue
<1>2. Calls' = Calls
  BY <1>1 DEF Calls
<1>3. CASE calls' = calls
  BY <1>1, <1>2, <1>3 DEF AskOverdue, OverdueType, OverdueCovers, Waits
<1>4. CASE calls' = <<CallFor(k)>>
  <2>1. CallFor(k) \in Calls /\ IsTight(CallFor(k)) /\ CallFor(k).contract = k
        /\ (IsRent(k) => CallFor(k).unread = nodeContracts)
    BY CallBegins
  <2>2. calls' \in Seq(Calls) /\ Len(calls') = 1 /\ calls'[1] = CallFor(k)
    BY <1>4, <2>1
  <2> QED
    BY <1>1, <1>2, <2>1, <2>2 DEF OverdueType, OverdueCovers, Waits
<1> QED
  BY <1>3, <1>4 DEF AskOverdue

(* One more contract of the rented node is called for.                     *)
LEMMA ReadOverdueKeeps ==
    ASSUME OverdueInv, NEW k \in Owners, ReadOverdue(k)
    PROVE  OverdueInv'
<1> USE DEF OverdueInv
<1>1. /\ nodeContracts' = nodeContracts /\ account' = account
      /\ ~(overdue' >= 0) /\ overdue' \in Int
  BY DEF ReadOverdue
<1>2. Calls' = Calls
  BY <1>1 DEF Calls
<1>3. CASE calls' = calls
  BY <1>1, <1>2, <1>3 DEF OverdueType, OverdueCovers, Waits
<1>4. CASE calls' # calls
  <2>1. PICK n \in Nat \ {0} : n = Len(calls)
    BY DEF ReadOverdue, OverdueType
  <2>2. PICK f \in Calls : f = calls[n]
    BY <2>1 DEF OverdueType
  <2>3. PICK g : g = [f EXCEPT !.unread = @ \ {k}]
    OBVIOUS
  <2>4. /\ g \in Calls /\ g.contract = f.contract /\ g.unread = f.unread \ {k}
        /\ IsTight(f) => IsTight(g)
    BY <2>3 DEF Calls, IsTight
  <2>5. PICK h : h = CallFor(k)
    OBVIOUS
  <2>6. h \in Calls /\ IsTight(h) /\ h.contract = k /\ (IsRent(k) => h.unread = nodeContracts)
    BY <2>5, CallBegins
  <2>7. calls' = Append(Append(SubSeq(calls, 1, n - 1), g), h)
    BY <1>4, <2>1, <2>2, <2>3, <2>5 DEF ReadOverdue, Innermost, Outer
  <2>8. calls \in Seq(Calls)
    BY DEF OverdueType
  <2>9. /\ calls' \in Seq(Calls) /\ Len(calls') = n + 1
        /\ \A i \in 1 .. (n - 1) : calls'[i] = calls[i]
        /\ calls'[n] = g /\ calls'[n + 1] = h
    <3>1. PICK s : s = SubSeq(calls, 1, n - 1)
      OBVIOUS
    <3>2. s \in Seq(Calls) /\ Len(s) = n - 1 /\ \A i \in 1 .. (n - 1) : s[i] = calls[i]
      BY <2>1, <2>8, <3>1
    <3> QED
      BY <2>1, <2>4, <2>6, <2>7, <3>1, <3>2
  <2>10. ASSUME NEW i \in 1 .. Len(calls') PROVE IsTight(calls'[i]) /\ Waits(i)'
    <3>1. CASE i = n + 1
      BY <1>1, <2>6, <2>9, <3>1 DEF Waits
    <3>2. CASE i = n
      <4>1. IsTight(g)
        BY <2>1, <2>2, <2>4
      <4>2. Waits(n)
        BY <2>1
      <4>3. ASSUME IsRent(g.contract), NEW j \in nodeContracts, IsRent(j)
            PROVE  j \in g.unread \/ h.contract = j
        BY <2>1, <2>2, <2>4, <2>6, <4>2, <4>3 DEF Waits
      <4> QED
        BY <1>1, <2>1, <2>9, <3>2, <4>1, <4>3 DEF Waits
    <3>3. CASE i \in 1 .. (n - 1)
      <4>1. IsTight(calls[i]) /\ Waits(i)
        BY <2>1, <3>3
      <4>2. calls'[i] = calls[i] /\ calls'[i + 1].contract = calls[i + 1].contract
        BY <2>1, <2>2, <2>4, <2>9, <3>3
      <4> QED
        BY <1>1, <2>1, <2>9, <3>3, <4>1, <4>2 DEF Waits
    <3> QED
      BY <2>1, <2>9, <3>1, <3>2, <3>3
  <2> QED
    BY <1>1, <1>2, <2>9, <2>10 DEF OverdueType, OverdueCovers
<1> QED
  BY <1>3, <1>4

(* A call ends: its total is rounded up once more.                         *)
LEMMA TotalOverdueKeeps ==
    ASSUME OverdueInv, TotalOverdue
    PROVE  OverdueInv'
<1> USE DEF OverdueInv
<1>1. nodeContracts' = nodeContracts /\ account' = account
  BY DEF TotalOverdue
<1>2. Calls' = Calls
  BY <1>1 DEF Calls
<1>3. PICK n \in Nat \ {0} : n = Len(calls)
  BY DEF TotalOverdue, OverdueType
<1>4. PICK f \in Calls : f = calls[n]
  BY <1>3 DEF OverdueType
<1>5. f.unread = {} /\ IsTight(f) /\ f = Innermost
  BY <1>3, <1>4 DEF TotalOverdue, Innermost
<1>6. IsRent(f.contract) => \A k \in nodeContracts : ~IsRent(k)
  <2>1. Waits(n) /\ ~(n < Len(calls))
    <3>1. n \in 1 .. Len(calls) /\ Len(calls) \in Nat
      BY <1>3
    <3>2. Waits(n)
      BY <3>1
    <3> QED
      BY <1>3, <3>1, <3>2
  <2> QED
    BY <1>4, <1>5, <2>1 DEF Waits
<1>7. PICK total : total = Rounded(f.own + 4 * f.extra)
  OBVIOUS
<1>8. /\ total \in Nat /\ f.own + 4 * f.extra <= 4 * total
      /\ 4 * total <= f.own + 4 * f.extra + 3
  <2>1. f.own + 4 * f.extra \in Nat
    BY DEF Calls
  <2> QED
    BY <1>7, <2>1, RoundedIsTight
<1>9. f.owed <= 4 * total /\ 4 * total <= f.owed + 3 * f.reads
  BY <1>5, <1>8 DEF IsTight, Calls
<1>10. CASE n = 1
  <2>1. calls' = <<>> /\ overdue' = total /\ answered' = {f}
    BY <1>3, <1>5, <1>7, <1>10 DEF TotalOverdue
  <2>2. 4 * total < f.owed + 4 * f.reads
    BY <1>8, <1>9 DEF Calls
  <2> QED
    BY <1>1, <1>2, <1>6, <1>8, <1>9, <2>1, <2>2 DEF OverdueType, OverdueCovers, IsRent
<1>11. CASE n > 1
  <2>1. calls \in Seq(Calls)
    BY DEF OverdueType
  <2>2. PICK e \in Calls : e = calls[n - 1]
    BY <1>3, <1>11, <2>1
  <2>3. PICK g : g = Told(e, f, total)
    OBVIOUS
  <2>4. /\ g \in Calls /\ g.contract = e.contract /\ g.unread = e.unread /\ g.own = e.own
        /\ g.extra = e.extra + total /\ g.owed = e.owed + f.owed /\ g.reads = e.reads + f.reads
    BY <1>8, <2>3, ToldType
  <2>5. IsTight(g)
    <3>1. IsTight(e)
      <4>1. n - 1 \in 1 .. Len(calls)
        BY <1>3, <1>11
      <4> QED
        BY <2>2, <4>1
    <3> QED
      BY <1>9, <2>3, <3>1, ToldIsTight, <1>8
  <2>6. PICK s : s = SubSeq(calls, 1, n - 1)
    OBVIOUS
  <2>7. s \in Seq(Calls) /\ Len(s) = n - 1 /\ \A i \in 1 .. (n - 1) : s[i] = calls[i]
    BY <1>3, <1>11, <2>1, <2>6
  <2>8. calls' = [s EXCEPT ![n - 1] = g] /\ overdue' = overdue /\ answered' = answered
    <3>1. /\ calls' = [s EXCEPT ![n - 1] = Told(@, f, total)]
          /\ overdue' = overdue /\ answered' = answered
      BY <1>3, <1>5, <1>7, <1>11, <2>6 DEF TotalOverdue, Outer
    <3>2. n - 1 \in 1 .. (n - 1)
      BY <1>11
    <3>3. n - 1 \in DOMAIN s /\ s[n - 1] = e
      BY <2>2, <2>7, <3>2
    <3> QED
      BY <2>3, <3>1, <3>3
  <2>9. /\ calls' \in Seq(Calls) /\ Len(calls') = n - 1
        /\ \A i \in 1 .. (n - 1) : calls'[i] = IF i = n - 1 THEN g ELSE calls[i]
    BY <1>11, <2>4, <2>7, <2>8
  <2>10. ASSUME NEW i \in 1 .. (n - 1) PROVE IsTight(calls'[i]) /\ Waits(i)'
    <3>1. IsTight(calls'[i])
      BY <1>3, <2>5, <2>9
    <3>2. Waits(i)
      BY <1>3
    <3>3. calls'[i].contract = calls[i].contract /\ calls'[i].unread = calls[i].unread
      BY <2>2, <2>4, <2>9
    <3>4. ASSUME IsRent(calls[i].contract), NEW k \in nodeContracts, IsRent(k)
          PROVE  k \in calls[i].unread \/ (i < n - 1 /\ calls'[i + 1].contract = k)
      <4>1. k \in calls[i].unread \/ calls[i + 1].contract = k
        BY <3>2, <3>4 DEF Waits
      <4>2. CASE i = n - 1
        <5>1. ~IsRent(f.contract)
          BY <1>6, <3>4
        <5> QED
          BY <1>4, <3>4, <4>1, <4>2, <5>1
      <4>3. CASE i < n - 1
        <5>1. calls'[i + 1].contract = calls[i + 1].contract
          BY <2>2, <2>4, <2>9, <4>3
        <5> QED
          BY <4>1, <4>3, <5>1
      <4> QED
        BY <4>2, <4>3
    <3>5. Waits(i)'
      BY <1>1, <2>9, <3>3, <3>4 DEF Waits
    <3> QED
      BY <3>1, <3>5
  <2> QED
    BY <1>1, <1>2, <2>8, <2>9, <2>10 DEF OverdueType, OverdueCovers
<1> QED
  BY <1>10, <1>11

(* The chain bills or deletes a contract: what was read stays as it was.   *)
LEMMA ChainBillsKeeps ==
    ASSUME OverdueInv, NEW k \in Owners, ChainBills(k)
    PROVE  OverdueInv'
<1> USE DEF OverdueInv
<1>1. account[k] \in Accounts
  BY DEF OverdueType
<1>2. [account[k] EXCEPT !.state = "deleted"] \in Accounts
  BY <1>1 DEF Accounts
<1>3. \A o \in Overdrafts : [account[k] EXCEPT !.overdraft = o, !.unbilled = 0] \in Accounts
  BY <1>1, CalculatorAssumption DEF Accounts
<1>4. account' \in [Owners -> Accounts]
  BY <1>2, <1>3 DEF OverdueType, ChainBills
<1> QED
  BY <1>4 DEF ChainBills, OverdueType, Calls, Waits, OverdueCovers

(* Whatever the chain bills or deletes while the contracts are read, what  *)
(* calculate_contract_overdue answers covers what is owed, by less than a  *)
(* TFT per contract read, and with a rent contract in the node's list it   *)
(* never answers.                                                          *)
THEOREM OverdueIsCovered == CalcSpec => []OverdueCovers
<1>1. OverdueInv /\ [OverdueNext]_calcVars => OverdueInv'
  <2> SUFFICES ASSUME OverdueInv, [OverdueNext]_calcVars PROVE OverdueInv'
    OBVIOUS
  <2>1. CASE UNCHANGED calcVars
    BY <2>1 DEF calcVars, overdueVars, OverdueInv, OverdueType, Calls, Waits, OverdueCovers
  <2>2. CASE OverdueNext
    BY <2>2, AskOverdueKeeps, ReadOverdueKeeps, TotalOverdueKeeps, ChainBillsKeeps
    DEF OverdueNext
  <2> QED
    BY <2>1, <2>2
<1>2. OverdueInv => OverdueCovers
  BY DEF OverdueInv
<1> QED
  BY OverdueStarts, <1>1, <1>2, PTL DEF CalcSpec

-----------------------------------------------------------------------------
(* Prices.                                                                 *)

(* A product of natural numbers grows with its factors.                    *)
LEMMA TimesMonotone ==
    ASSUME NEW a \in Nat, NEW b \in Nat, NEW c \in Nat, NEW d \in Nat, a <= b, c <= d
    PROVE  a * c \in Nat /\ b * d \in Nat /\ a * c <= b * d
<1>1. a * c \in Nat /\ b * d \in Nat /\ b * c \in Nat
  OBVIOUS
<1>2. a * c <= b * c
  OBVIOUS
<1>3. b * c <= b * d
  OBVIOUS
<1> QED
  BY <1>1, <1>2, <1>3

(* So do the GiB of a byte count.                                          *)
LEMMA GibMonotone ==
    ASSUME NEW a \in Nat, NEW b \in Nat, a <= b
    PROVE  Gib(a) \in Nat /\ Gib(b) \in Nat /\ Gib(a) <= Gib(b)
BY CalculatorAssumption DEF Gib

(* Compute units grow with cores and memory.                               *)
LEMMA CuMonotone ==
    ASSUME NEW a \in Nat, NEW b \in Nat, NEW c \in Nat, NEW d \in Nat, a <= b, c <= d
    PROVE  Cu(a, c) \in Nat /\ Cu(b, d) \in Nat /\ Cu(a, c) <= Cu(b, d)
BY DEF Cu, Less, More

(* Storage units grow with both kinds of disk.                             *)
LEMMA SuMonotone ==
    ASSUME NEW a \in Nat, NEW b \in Nat, NEW c \in Nat, NEW d \in Nat, a <= b, c <= d
    PROVE  Su(a, c) \in Nat /\ Su(b, d) \in Nat /\ Su(a, c) <= Su(b, d)
BY DEF Su

(* The surcharge of a certified node keeps the order of prices.            *)
LEMMA CertifiedMonotone ==
    ASSUME NEW u, NEW v, u.certified = v.certified, NEW a \in Nat, NEW b \in Nat, a <= b
    PROVE  Certified(u, a) \in Nat /\ Certified(v, b) \in Nat
           /\ Certified(u, a) <= Certified(v, b)
BY DEF Certified

(* calculate_cost grows with what is used, public IPs included.            *)
LEMMA CostMonotone ==
    ASSUME NEW u \in Usages, NEW v \in Usages, NoMore(u, v),
           NEW i \in BOOLEAN, NEW j \in BOOLEAN, i => j
    PROVE  Cost(u, i) \in Nat /\ Cost(v, j) \in Nat /\ Cost(u, i) <= Cost(v, j)
<1>1. /\ u.cru \in Nat /\ v.cru \in Nat /\ u.mru \in Nat /\ v.mru \in Nat
      /\ u.hru \in Nat /\ v.hru \in Nat /\ u.sru \in Nat /\ v.sru \in Nat
  BY CalculatorAssumption DEF Usages
<1>2. u.cru <= v.cru /\ u.mru <= v.mru /\ u.hru <= v.hru /\ u.sru <= v.sru
  BY DEF NoMore
<1> DEFINE cu(w) == Cu(w.cru, Gib(w.mru))
           su(w) == Su(Gib(w.hru), Gib(w.sru))
           ip(k) == IF k THEN 2400 * IpPrice ELSE 0
           sum(w, k) == 300 * cu(w) * CuPrice + su(w) * SuPrice + ip(k)
<1>3. /\ Gib(u.mru) \in Nat /\ Gib(v.mru) \in Nat /\ Gib(u.mru) <= Gib(v.mru)
      /\ Gib(u.hru) \in Nat /\ Gib(v.hru) \in Nat /\ Gib(u.hru) <= Gib(v.hru)
      /\ Gib(u.sru) \in Nat /\ Gib(v.sru) \in Nat /\ Gib(u.sru) <= Gib(v.sru)
  BY <1>1, <1>2, GibMonotone
<1>4. cu(u) \in Nat /\ cu(v) \in Nat /\ cu(u) <= cu(v)
  BY <1>1, <1>2, <1>3, CuMonotone
<1>5. su(u) \in Nat /\ su(v) \in Nat /\ su(u) <= su(v)
  BY <1>3, SuMonotone
<1>6. CuPrice \in Nat /\ SuPrice \in Nat /\ IpPrice \in Nat
  BY CalculatorAssumption
<1>7. ip(i) \in Nat /\ ip(j) \in Nat /\ ip(i) <= ip(j)
  BY <1>6
<1> HIDE DEF cu, su, ip
<1>8. /\ 300 * cu(u) * CuPrice \in Nat /\ 300 * cu(v) * CuPrice \in Nat
      /\ 300 * cu(u) * CuPrice <= 300 * cu(v) * CuPrice
  <2>1. 300 * cu(u) \in Nat /\ 300 * cu(v) \in Nat /\ 300 * cu(u) <= 300 * cu(v)
    BY <1>4
  <2> QED
    BY <1>6, <2>1, TimesMonotone
<1>9. /\ su(u) * SuPrice \in Nat /\ su(v) * SuPrice \in Nat
      /\ su(u) * SuPrice <= su(v) * SuPrice
  BY <1>5, <1>6, TimesMonotone
<1>10. sum(u, i) \in Nat /\ sum(v, j) \in Nat /\ sum(u, i) <= sum(v, j)
  BY <1>7, <1>8, <1>9
<1> HIDE DEF sum
<1>11. u.certified = v.certified
  BY DEF NoMore
<1>12. /\ Certified(u, sum(u, i)) \in Nat /\ Certified(v, sum(v, j)) \in Nat
       /\ Certified(u, sum(u, i)) <= Certified(v, sum(v, j))
  BY <1>10, <1>11, CertifiedMonotone
<1> QED
  BY <1>12 DEF Cost, sum, cu, su, ip

(* A larger balance or a smaller price never earns a smaller discount.     *)
LEMMA DiscountAntitone ==
    ASSUME NEW b \in Nat, NEW p \in Nat, NEW c \in Nat, NEW q \in Nat, c <= b, p <= q
    PROVE  /\ Discount(b, p) \in 0 .. 60 /\ Discount(c, q) \in 0 .. 60
           /\ Discount(c, q) <= Discount(b, p)
BY DEF Discount

(* So what is left to pay grows with the price and falls with the balance. *)
LEMMA AfterMonotone ==
    ASSUME NEW b \in Nat, NEW p \in Nat, NEW c \in Nat, NEW q \in Nat, c <= b, p <= q
    PROVE  After(b, p) \in Nat /\ After(c, q) \in Nat /\ After(b, p) <= After(c, q)
<1> DEFINE d == 100 - Discount(b, p)
           e == 100 - Discount(c, q)
<1>1. /\ Discount(b, p) \in 0 .. 60 /\ Discount(c, q) \in 0 .. 60
      /\ Discount(c, q) <= Discount(b, p)
  BY DiscountAntitone
<1>2. d \in Nat /\ e \in Nat /\ d <= e
  BY <1>1
<1> HIDE DEF d, e
<1>3. p * d \in Nat /\ q * e \in Nat /\ p * d <= q * e
  BY <1>2, TimesMonotone
<1> QED
  BY <1>3 DEF After, d, e

(* A larger balance and a lower price leave less to pay on a shared node.  *)
LEMMA SharedMonotone ==
    ASSUME NEW b \in Nat, NEW p \in Nat, NEW c \in Nat, NEW q \in Nat, c <= b, p <= q
    PROVE  SharedPrice(b, p) <= SharedPrice(c, q)
<1>1. /\ 100 * b \in Nat /\ 100 * c \in Nat /\ 100 * c <= 100 * b
      /\ 100 * p \in Nat /\ 100 * q \in Nat /\ 100 * p <= 100 * q
  OBVIOUS
<1> QED
  BY <1>1, AfterMonotone DEF SharedPrice

(* A larger balance and a lower price leave less to pay on a rented node.  *)
LEMMA DedicatedMonotone ==
    ASSUME NEW b \in Nat, NEW p \in Nat, NEW c \in Nat, NEW q \in Nat, c <= b, p <= q
    PROVE  /\ DedicatedPrice(b, p) \in Nat /\ DedicatedPrice(c, q) \in Nat
           /\ DedicatedPrice(b, p) <= DedicatedPrice(c, q)
<1> DEFINE r == 100 - DedicatedDiscount
<1>1. r \in Nat
  BY CalculatorAssumption
<1> HIDE DEF r
<1>2. p * r \in Nat /\ q * r \in Nat /\ p * r <= q * r
  BY <1>1, TimesMonotone
<1>3. 100 * b \in Nat /\ 100 * c \in Nat /\ 100 * c <= 100 * b
  OBVIOUS
<1>4. /\ After(100 * b, p * r) \in Nat /\ After(100 * c, q * r) \in Nat
      /\ After(100 * b, p * r) <= After(100 * c, q * r)
  BY <1>2, <1>3, AfterMonotone
<1> QED
  BY <1>4 DEF DedicatedPrice, r

(* The dedicated price of a cost is at most its shared price, although the *)
(* discount of the balance is looked up for each of them separately.       *)
LEMMA DedicatedIsCheaper ==
    ASSUME NEW b \in Nat, NEW p \in Nat
    PROVE  DedicatedPrice(b, p) <= SharedPrice(b, p)
<1> DEFINE r == 100 - DedicatedDiscount
<1>1. r \in Nat /\ r <= 100
  BY CalculatorAssumption
<1> HIDE DEF r
<1>2. p * r \in Nat /\ p * 100 \in Nat /\ p * r <= p * 100
  BY <1>1, TimesMonotone
<1>3. 100 * b \in Nat /\ p * 100 = 100 * p
  OBVIOUS
<1>4. After(100 * b, p * r) <= After(100 * b, 100 * p)
  BY <1>2, <1>3, AfterMonotone
<1> QED
  BY <1>4 DEF DedicatedPrice, SharedPrice, r

(* What a node contract's price is worked out from.                        *)
LEMMA NodeCostMonotone ==
    ASSUME NEW u \in Usages, NEW v \in Usages, NoMore(u, v),
           NEW b \in Nat, NEW c \in Nat, c <= b, ~u.rented \/ u.ips > 0 \/ v.ips = 0
    PROVE  NodeContractCost(u, b) <= NodeContractCost(v, c)
<1>1. u.ips \in Nat /\ v.ips \in Nat /\ u.ips <= v.ips /\ u.rented = v.rented
  BY DEF Usages, NoMore
<1>2. CASE u.rented /\ u.ips > 0
  <2>1. IpPrice \in Nat /\ 2400 * IpPrice \in Nat
    BY CalculatorAssumption
  <2>2. /\ 2400 * IpPrice * u.ips \in Nat /\ 2400 * IpPrice * v.ips \in Nat
        /\ 2400 * IpPrice * u.ips <= 2400 * IpPrice * v.ips
    BY <1>1, <2>1, TimesMonotone
  <2>3. u.certified = v.certified
    BY DEF NoMore
  <2>4. /\ Certified(u, 2400 * IpPrice * u.ips) \in Nat
        /\ Certified(v, 2400 * IpPrice * v.ips) \in Nat
        /\ Certified(u, 2400 * IpPrice * u.ips) <= Certified(v, 2400 * IpPrice * v.ips)
    BY <2>2, <2>3, CertifiedMonotone
  <2>5. /\ NodeContractCost(u, b) = SharedPrice(b, Certified(u, 2400 * IpPrice * u.ips))
        /\ NodeContractCost(v, c) = SharedPrice(c, Certified(v, 2400 * IpPrice * v.ips))
    BY <1>1, <1>2 DEF NodeContractCost
  <2> QED
    BY <2>4, <2>5, SharedMonotone
<1>3. CASE ~(u.rented /\ u.ips > 0)
  <2>1. ~(v.rented /\ v.ips > 0)
    BY <1>1, <1>3
  <2>2. /\ (u.ips > 0) \in BOOLEAN /\ (v.ips > 0) \in BOOLEAN
        /\ (u.ips > 0) => (v.ips > 0)
    BY <1>1
  <2>3. /\ Cost(u, u.ips > 0) \in Nat /\ Cost(v, v.ips > 0) \in Nat
        /\ Cost(u, u.ips > 0) <= Cost(v, v.ips > 0)
    BY <2>2, CostMonotone
  <2>4. /\ NodeContractCost(u, b) = SharedPrice(b, Cost(u, u.ips > 0))
        /\ NodeContractCost(v, c) = SharedPrice(c, Cost(v, v.ips > 0))
    BY <1>3, <2>1 DEF NodeContractCost
  <2> QED
    BY <2>3, <2>4, SharedMonotone
<1> QED
  BY <1>2, <1>3

(* Renting a node with less on it costs no more; nor more than sharing it. *)
LEMMA RentCostMonotone ==
    ASSUME NEW u \in Usages, NEW v \in Usages, NoMore(u, v),
           NEW b \in Nat, NEW c \in Nat, c <= b
    PROVE  /\ RentContractCost(u, b) <= RentContractCost(v, c)
           /\ DedicatedPrice(c, Cost(v, FALSE)) <= SharedPrice(c, Cost(v, FALSE))
<1>1. Cost(u, FALSE) \in Nat /\ Cost(v, FALSE) \in Nat /\ Cost(u, FALSE) <= Cost(v, FALSE)
  BY CostMonotone
<1>2. /\ DedicatedPrice(b, Cost(u, FALSE)) \in Nat /\ DedicatedPrice(c, Cost(v, FALSE)) \in Nat
      /\ DedicatedPrice(b, Cost(u, FALSE)) <= DedicatedPrice(c, Cost(v, FALSE))
  BY <1>1, DedicatedMonotone
<1>3. DedicatedFee \in Nat
  BY CalculatorAssumption
<1>4. RentContractCost(u, b) <= RentContractCost(v, c)
  <2> DEFINE x == DedicatedPrice(b, Cost(u, FALSE))
             y == DedicatedPrice(c, Cost(v, FALSE))
  <2> HIDE DEF x, y
  <2>1. x \in Nat /\ y \in Nat /\ x <= y
    BY <1>2 DEF x, y
  <2>2. x + DedicatedFee <= y + DedicatedFee
    BY <1>3, <2>1
  <2> QED
    BY <2>2 DEF RentContractCost, x, y
<1>5. DedicatedPrice(c, Cost(v, FALSE)) <= SharedPrice(c, Cost(v, FALSE))
  BY <1>1, DedicatedIsCheaper
<1> QED
  BY <1>4, <1>5

(* For every price list and every balance: whoever uses less and owns more *)
(* never pays more for a rent contract, and a rented node is never dearer  *)
(* than a shared one, whatever tiers the discounts fall in.  The same for  *)
(* a node contract, except that on a rented node a contract without public *)
(* IPs is not compared with one that has them: there the first pays for    *)
(* what it uses and the second for its IPs alone.                          *)
THEOREM PricesAreOrdered == CalcSpec => []PricesOrdered
<1> DEFINE Customers == /\ little \in Usages /\ lots \in Usages
                        /\ poor \in Nat /\ rich \in Nat
<1>1. PricesInit => Customers
  BY CalculatorAssumption DEF PricesInit
<1>2. Customers /\ [OverdueNext]_calcVars => Customers'
  BY DEF OverdueNext, calcVars
<1>3. Customers => PricesOrdered
  <2> SUFFICES ASSUME Customers, NoMore(little, lots), poor <= rich
               PROVE  /\ ~little.rented \/ little.ips > 0 \/ lots.ips = 0 =>
                            NodeContractCost(little, rich) <= NodeContractCost(lots, poor)
                      /\ RentContractCost(little, rich) <= RentContractCost(lots, poor)
                      /\ DedicatedPrice(poor, Cost(lots, FALSE))
                            <= SharedPrice(poor, Cost(lots, FALSE))
    BY DEF PricesOrdered
  <2> QED
    BY NodeCostMonotone, RentCostMonotone
<1> QED
  BY <1>1, <1>2, <1>3, PTL DEF CalcSpec

-----------------------------------------------------------------------------
(* Requests: hashes and signatures.                                        *)

(* The keys of a deployment's environments.                                *)
Keys(d) == UNION {DOMAIN d.workloads[i].env : i \in DOMAIN d.workloads}

(* Contract id and signature of a deployment are not part of what is       *)
(* signed.                                                                 *)
LEMMA ChallengeOfText ==
    ASSUME NEW d, NEW e, d.workloads = e.workloads, d.metadata = e.metadata
    PROVE  Walks(d) = Walks(e) /\ Keys(d) = Keys(e)
           /\ \A walk : Challenge(d, walk) = Challenge(e, walk)
BY DEF Walks, Keys, Challenge

(* Two walks through a map meet the same keys.                             *)
LEMMA WalksMeetAllKeys ==
    ASSUME NEW d, IsFiniteSet(Keys(d)), NEW walk \in Walks(d)
    PROVE  DOMAIN walk = 1 .. Cardinality(Keys(d)) /\ Range(walk) = Keys(d)
<1> DEFINE S == Keys(d)
           D == 1 .. Cardinality(S)
<1>1. walk \in [D -> S] /\ \A i, j \in D : i # j => walk[i] # walk[j]
  BY DEF Walks, SetToSeqs, Keys
<1>2. Cardinality(S) \in Nat
  BY FS_CardinalityType
<1>3. IsFiniteSet(D) /\ Cardinality(D) = Cardinality(S)
  <2>1. /\ IsFiniteSet(1 .. Cardinality(S))
        /\ Cardinality(1 .. Cardinality(S)) =
              IF 1 > Cardinality(S) THEN 0 ELSE Cardinality(S) - 1 + 1
    BY <1>2, FS_Interval
  <2> QED
    BY <1>2, <2>1
<1> HIDE DEF S, D
<1>4. walk \in Injection(D, S)
  BY <1>1 DEF Injection, IsInjective
<1>5. walk \in Surjection(D, S)
  BY <1>3, <1>4, FS_Injection DEF S
<1>6. Range(walk) = S
  BY <1>1, <1>5 DEF Surjection, Range
<1> QED
  BY <1>1, <1>6 DEF S, D

(* keys.sort() makes the order of a walk irrelevant.                       *)
LEMMA WalkIsIrrelevant ==
    ASSUME NEW d, IsFiniteSet(Keys(d)), NEW v \in Walks(d), NEW w \in Walks(d)
    PROVE  Challenge(d, v) = Challenge(d, w)
<1>1. DOMAIN v = DOMAIN w /\ Range(v) = Range(w)
  BY WalksMeetAllKeys
<1>2. SortedKeys(v) = SortedKeys(w)
  BY <1>1 DEF SortedKeys
<1>3. \A env : EnvText(env, v) = EnvText(env, w)
  BY <1>1, <1>2 DEF EnvText
<1>4. \A x : WorkloadChallenge(x, v) = WorkloadChallenge(x, w)
  BY <1>3 DEF WorkloadChallenge
<1>5. \A i \in DOMAIN d.workloads :
         WorkloadChallenge(d.workloads[i], IF DOMAIN d.workloads[i].env = {} THEN <<>> ELSE v)
         = WorkloadChallenge(d.workloads[i], IF DOMAIN d.workloads[i].env = {} THEN <<>> ELSE w)
  BY <1>4
<1> QED
  BY <1>5 DEF Challenge

(* How many workloads come before the volumes of a VM: a public IP or none.*)
Ips(c) == IF request[c].kind = "vm" /\ (request[c].v4 \/ request[c].v6) THEN 1 ELSE 0
Volumes(c) == Len(request[c].volumes)

(* The volumes of a request are a list.                                    *)
LEMMA VolumesAreListed ==
    ASSUME NEW c \in Senders, request[c] \in Requested
    PROVE  /\ request[c].volumes \in Seq([VolumeFields -> Seq(STRING)])
           /\ Volumes(c) \in Nat /\ DOMAIN request[c].volumes = 1 .. Volumes(c)
<1>1. request[c].volumes \in Seq([VolumeFields -> Text])
  BY RequestsAssumption
<1> QED
  BY <1>1 DEF Volumes, Text

(* The workloads of a VM: its public IP if any, its volumes, the machine.  *)
LEMMA VmWorkloadList ==
    ASSUME NEW c \in Senders, request[c] \in Requested, NEW seed, NEW ws,
           ws = VmWorkloads(c, seed)
    PROVE  /\ Ips(c) \in {0, 1} /\ Volumes(c) \in Nat
           /\ Len(ws) = Ips(c) + Volumes(c) + 1 /\ DOMAIN ws = 1 .. (Ips(c) + Volumes(c) + 1)
           /\ Ips(c) = 1 => ws[1] = IpWorkloads(c)[1]
           /\ \A i \in 1 .. Volumes(c) :
                 ws[Ips(c) + i] = VolumeWorkload(request[c].volumes[i])
           /\ ws[Ips(c) + Volumes(c) + 1] = MachineWorkload(c, seed)
<1> DEFINE A == IpWorkloads(c)
           B == VolumeWorkloads(c)
           M == MachineWorkload(c, seed)
           n == Volumes(c)
           W == {A[i] : i \in DOMAIN A} \union {B[i] : i \in DOMAIN B} \union {M}
<1>1. Len(A) = Ips(c) /\ Ips(c) \in {0, 1} /\ DOMAIN A = 1 .. Ips(c) /\ A \in Seq(W)
  <2>1. CASE Ips(c) = 1
    <3>1. PICK x : A = <<x>>
      BY <2>1 DEF Ips, IpWorkloads
    <3>2. A[1] = x /\ DOMAIN A = {1} /\ 1 .. 1 = {1} /\ Len(A) = 1
      BY <3>1
    <3>3. x \in W
      BY <3>2
    <3>4. A \in Seq(W)
      BY <3>1, <3>3
    <3> QED
      BY <2>1, <3>2, <3>4
  <2>2. CASE Ips(c) = 0
    <3>1. A = <<>>
      BY <2>2 DEF Ips, IpWorkloads
    <3> QED
      BY <2>2, <3>1
  <2> QED
    BY <2>1, <2>2 DEF Ips
<1>2. n \in Nat /\ DOMAIN B = 1 .. n /\ \A i \in 1 .. n : B[i] = VolumeWorkload(request[c].volumes[i])
  BY VolumesAreListed DEF VolumeWorkloads
<1>3. B \in Seq(W) /\ Len(B) = n
  <2>1. \A i \in 1 .. n : B[i] \in W
    BY <1>2
  <2>2. B = [i \in 1 .. n |-> B[i]]
    BY <1>2 DEF VolumeWorkloads
  <2> HIDE DEF W, B
  <2> QED
    BY <1>2, <2>1, <2>2
<1>4. <<M>> \in Seq(W) /\ Len(<<M>>) = 1 /\ <<M>>[1] = M
  OBVIOUS
<1> HIDE DEF A, B, M, W, n
<1>5. ws = A \o B \o <<M>>
  BY DEF VmWorkloads, A, B, M
<1>6. /\ A \o B \in Seq(W) /\ Len(A \o B) = Ips(c) + n
      /\ \A i \in 1 .. n : (A \o B)[Ips(c) + i] = B[i]
      /\ Ips(c) = 1 => (A \o B)[1] = A[1]
  BY <1>1, <1>2, <1>3
<1>7. /\ Len(ws) = Ips(c) + n + 1 /\ DOMAIN ws = 1 .. (Ips(c) + n + 1)
      /\ \A i \in 1 .. (Ips(c) + n) : ws[i] = (A \o B)[i]
      /\ ws[Ips(c) + n + 1] = M
  <2> DEFINE C == A \o B
             k == Ips(c) + n
  <2>1. C \in Seq(W) /\ Len(C) = k /\ k \in Nat
    BY <1>1, <1>2, <1>6
  <2>2. ws = C \o <<M>>
    BY <1>5
  <2> HIDE DEF C, k
  <2>3. ws \in Seq(W) /\ Len(ws) = k + 1
    BY <1>4, <2>1, <2>2
  <2>4. DOMAIN ws = 1 .. (k + 1)
    BY <2>3
  <2>5. \A i \in 1 .. k : ws[i] = C[i]
    BY <1>4, <2>1, <2>2
  <2>6. ws[k + 1] = M
    BY <1>4, <2>1, <2>2
  <2> QED
    BY <2>3, <2>4, <2>5, <2>6 DEF C, k
<1>8. \A i \in 1 .. n : ws[Ips(c) + i] = VolumeWorkload(request[c].volumes[i])
  <2> TAKE i \in 1 .. n
  <2>1. Ips(c) + i \in 1 .. (Ips(c) + n)
    BY <1>1, <1>2
  <2> QED
    BY <1>2, <1>6, <1>7, <2>1
<1>9. Ips(c) = 1 => ws[1] = A[1]
  BY <1>1, <1>2, <1>6, <1>7
<1> QED
  BY <1>1, <1>2, <1>7, <1>8, <1>9 DEF A, M, n

(* Only the machine has an environment, that of the request.               *)
LEMMA VmKeysAreFinite ==
    ASSUME NEW c \in Senders, request[c] \in Requested, NEW seed, NEW ws,
           ws = VmWorkloads(c, seed)
    PROVE  IsFiniteSet(UNION {DOMAIN ws[i].env : i \in DOMAIN ws})
<1>1. /\ Ips(c) \in {0, 1} /\ Volumes(c) \in Nat
      /\ DOMAIN ws = 1 .. (Ips(c) + Volumes(c) + 1)
      /\ Ips(c) = 1 => ws[1] = IpWorkloads(c)[1]
      /\ \A i \in 1 .. Volumes(c) : ws[Ips(c) + i] = VolumeWorkload(request[c].volumes[i])
      /\ ws[Ips(c) + Volumes(c) + 1] = MachineWorkload(c, seed)
  BY VmWorkloadList
<1>2. DOMAIN NoEnv = {}
  BY DEF NoEnv
<1>3. ASSUME NEW i \in DOMAIN ws
      PROVE  DOMAIN ws[i].env \subseteq DOMAIN request[c].env
  <2>1. CASE i <= Ips(c)
    <3>1. i = 1 /\ Ips(c) = 1
      BY <1>1, <2>1
    <3>2. ws[i].env = NoEnv
      BY <1>1, <3>1 DEF Ips, IpWorkloads, Workload
    <3> QED
      BY <1>2, <3>2
  <2>2. CASE i = Ips(c) + Volumes(c) + 1
    <3>1. ws[i].env = request[c].env
      BY <1>1, <2>2 DEF MachineWorkload, Workload
    <3> QED
      BY <3>1
  <2>3. CASE i > Ips(c) /\ i # Ips(c) + Volumes(c) + 1
    <3>1. i - Ips(c) \in 1 .. Volumes(c) /\ Ips(c) + (i - Ips(c)) = i
      BY <1>1, <2>3
    <3>2. ws[i] = VolumeWorkload(request[c].volumes[i - Ips(c)])
      BY <1>1, <3>1
    <3>3. ws[i].env = NoEnv
      BY <3>2 DEF VolumeWorkload, Workload
    <3> QED
      BY <1>2, <3>3
  <2> QED
    BY <1>1, <2>1, <2>2, <2>3
<1>4. UNION {DOMAIN ws[i].env : i \in DOMAIN ws} \subseteq DOMAIN request[c].env
  BY <1>3
<1>5. IsFiniteSet(DOMAIN request[c].env)
  BY RequestsAssumption
<1> QED
  BY <1>4, <1>5, FS_Subset

(* So do the one workload of a network and the one of a gateway not.       *)
LEMMA OneHasNoKeys ==
    ASSUME NEW w, w.env = NoEnv
    PROVE  IsFiniteSet(UNION {DOMAIN <<w>>[i].env : i \in DOMAIN <<w>>})
<1>1. DOMAIN <<w>> = {1} /\ <<w>>[1] = w /\ DOMAIN NoEnv = {}
  BY DEF NoEnv
<1>2. \A i \in DOMAIN <<w>> : DOMAIN <<w>>[i].env = {}
  BY <1>1
<1>3. UNION {DOMAIN <<w>>[i].env : i \in DOMAIN <<w>>} = {}
  BY <1>2
<1> QED
  BY <1>3, FS_EmptySet

-----------------------------------------------------------------------------
DeploymentFields == {"contract", "metadata", "workloads", "signature"}

(* d is signed and registered, H being what was registered.                *)
Signed(H, d) ==
    /\ DOMAIN d = DeploymentFields
    /\ \A walk \in Walks(d) : /\ d.signature = Challenge(d, walk)
                              /\ \E h \in H : h.hash = Challenge(d, walk)

HashInv ==
    /\ request \in [Senders -> Requested]
    /\ DOMAIN doing = Senders /\ DOMAIN deployment = Senders
    /\ DOMAIN chainHash = Senders /\ DOMAIN onNode = Senders
    /\ \A c \in Senders :
          /\ doing[c] \in {"network", "vm", "gateway"} => Signed(chainHash[c], deployment[c])
          /\ \A d \in onNode[c] : Signed(chainHash[c], d)

(* A deployment stays signed when more is registered and when its contract *)
(* id is filled in.                                                        *)
LEMMA StaysSigned ==
    ASSUME NEW H, NEW G, H \subseteq G, NEW d, Signed(H, d)
    PROVE  Signed(G, d) /\ Signed(H, [d EXCEPT !.contract = 1])
<1>1. Signed(G, d)
  BY DEF Signed
<1> DEFINE e == [d EXCEPT !.contract = 1]
<1>2. /\ e.workloads = d.workloads /\ e.metadata = d.metadata /\ e.signature = d.signature
      /\ DOMAIN e = DeploymentFields
  BY DEF Signed, DeploymentFields
<1> HIDE DEF e
<1>3. Walks(d) = Walks(e) /\ \A walk : Challenge(d, walk) = Challenge(e, walk)
  BY <1>2, ChallengeOfText
<1>4. Signed(H, e)
  BY <1>2, <1>3 DEF Signed
<1> QED
  BY <1>1, <1>4 DEF e

(* sign_deployment and deployment_hash_hex agree with every later walk.    *)
LEMMA RegisterSigns ==
    ASSUME HashInv, NEW c \in Senders, NEW metadata, NEW workloads, NEW next,
           Register(c, metadata, workloads, next), UNCHANGED <<request, onNode>>,
           IsFiniteSet(UNION {DOMAIN workloads[i].env : i \in DOMAIN workloads})
    PROVE  HashInv'
<1> DEFINE d == [NoDeployment EXCEPT !.metadata = metadata, !.workloads = workloads]
<1>1. /\ d.workloads = workloads /\ d.metadata = metadata /\ DOMAIN d = DeploymentFields
  BY DEF NoDeployment, DeploymentFields
<1>2. PICK v, w \in Walks(d) :
        /\ deployment' = [deployment EXCEPT ![c] = [d EXCEPT !.signature = Challenge(d, v)]]
        /\ chainHash' = [chainHash EXCEPT ![c] = @ \union
              {[kind |-> metadata[2], name |-> workloads[Len(workloads)].name,
                hash |-> Challenge(deployment'[c], w)]}]
        /\ doing' = [doing EXCEPT ![c] = next]
  BY DEF Register
<1> DEFINE e == [d EXCEPT !.signature = Challenge(d, v)]
<1>3. /\ e.workloads = workloads /\ e.metadata = metadata /\ e.signature = Challenge(d, v)
      /\ DOMAIN e = DeploymentFields
  BY <1>1 DEF DeploymentFields
<1>4. deployment'[c] = e
  BY <1>2 DEF HashInv
<1> HIDE DEF d, e
<1>5. Walks(d) = Walks(e) /\ Keys(d) = Keys(e) /\ \A x : Challenge(d, x) = Challenge(e, x)
  BY <1>1, <1>3, ChallengeOfText
<1>6. IsFiniteSet(Keys(e))
  BY <1>3 DEF Keys
<1>7. \A x \in Walks(e) : Challenge(e, x) = Challenge(e, v) /\ Challenge(e, x) = Challenge(e, w)
  BY <1>2, <1>5, <1>6, WalkIsIrrelevant
<1>8. \E h \in chainHash'[c] : h.hash = Challenge(e, w)
  <2> DEFINE h == [kind |-> metadata[2], name |-> workloads[Len(workloads)].name,
                   hash |-> Challenge(deployment'[c], w)]
  <2>1. h.hash = Challenge(e, w)
    BY <1>4
  <2>2. chainHash' = [chainHash EXCEPT ![c] = @ \union {h}]
    BY <1>2
  <2> HIDE DEF h
  <2>3. h \in chainHash'[c]
    BY <2>2 DEF HashInv
  <2> QED
    BY <2>1, <2>3
<1>9. Signed(chainHash'[c], e)
  BY <1>3, <1>5, <1>7, <1>8 DEF Signed
<1>10. \A k \in Senders : chainHash[k] \subseteq chainHash'[k]
  BY <1>2 DEF HashInv
<1>11. \A k \in Senders : \A x \in onNode'[k] : Signed(chainHash'[k], x)
  BY <1>10, StaysSigned DEF HashInv
<1>12. ASSUME NEW k \in Senders, doing'[k] \in {"network", "vm", "gateway"}
       PROVE  Signed(chainHash'[k], deployment'[k])
  <2>1. CASE k = c
    BY <1>4, <1>9, <2>1
  <2>2. CASE k # c
    <3>1. doing'[k] = doing[k] /\ deployment'[k] = deployment[k]
      BY <1>2, <2>2 DEF HashInv
    <3>2. Signed(chainHash[k], deployment[k])
      BY <1>12, <3>1 DEF HashInv
    <3>3. PICK x : x = deployment[k]
      OBVIOUS
    <3>4. Signed(chainHash'[k], x)
      BY <1>10, <3>2, <3>3, StaysSigned
    <3> QED
      BY <3>1, <3>3, <3>4
  <2> QED
    BY <2>1, <2>2
<1>13. /\ DOMAIN doing' = Senders /\ DOMAIN deployment' = Senders
       /\ DOMAIN chainHash' = Senders
  BY <1>2 DEF HashInv
<1> QED
  BY <1>11, <1>12, <1>13 DEF HashInv

(* No step of a request changes what was signed or registered.             *)
LEMMA HashStep == HashInv /\ [RequestsNext]_requestVars => HashInv'
<1> SUFFICES ASSUME HashInv, [RequestsNext]_requestVars PROVE HashInv'
  OBVIOUS
<1>1. CASE UNCHANGED requestVars
  BY <1>1 DEF requestVars, HashInv
<1>2. ASSUME NEW c \in Senders, Begin(c) PROVE HashInv'
  <2>1. doing'[c] \notin {"network", "vm", "gateway"}
    BY <1>2 DEF Begin, HashInv
  <2>2. \A k \in Senders : k # c => doing'[k] = doing[k]
    BY <1>2 DEF Begin, HashInv
  <2> QED
    BY <1>2, <2>1, <2>2 DEF Begin, HashInv
<1>3. ASSUME NEW c \in Senders, BuildNetwork(c) PROVE HashInv'
  <2>1. PICK random \in Secrets :
          LET w == NetworkWorkload(c, OrElse(request[c].net.key, random))
          IN Register(c, Metadata(w.type, w.name, <<"Network">>), <<w>>, "network")
    BY <1>3 DEF BuildNetwork
  <2>2. PICK w, metadata : /\ w = NetworkWorkload(c, OrElse(request[c].net.key, random))
                           /\ Register(c, metadata, <<w>>, "network")
    BY <2>1
  <2>3. w.env = NoEnv
    BY <2>2 DEF NetworkWorkload, Workload
  <2>4. PICK ws : ws = <<w>>
    OBVIOUS
  <2>5. IsFiniteSet(UNION {DOMAIN ws[i].env : i \in DOMAIN ws})
    BY <2>3, <2>4, OneHasNoKeys
  <2>6. UNCHANGED <<request, onNode>>
    BY <1>3 DEF BuildNetwork
  <2> QED
    BY <2>2, <2>4, <2>5, <2>6, RegisterSigns
<1>4. ASSUME NEW c \in Senders, BuildVm(c) PROVE HashInv'
  <2>1. PICK metadata, seed : Register(c, metadata, VmWorkloads(c, seed), "vm")
    BY <1>4 DEF BuildVm
  <2>2. PICK ws : ws = VmWorkloads(c, seed)
    OBVIOUS
  <2>3. IsFiniteSet(UNION {DOMAIN ws[i].env : i \in DOMAIN ws})
    BY <2>2, VmKeysAreFinite DEF HashInv
  <2>4. UNCHANGED <<request, onNode>>
    BY <1>4 DEF BuildVm
  <2> QED
    BY <2>1, <2>2, <2>3, <2>4, RegisterSigns
<1>5. ASSUME NEW c \in Senders, BuildGateway(c) PROVE HashInv'
  <2>1. PICK metadata : Register(c, metadata, <<GatewayWorkload(c)>>, "gateway")
    BY <1>5 DEF BuildGateway
  <2>2. PICK w : w = GatewayWorkload(c)
    OBVIOUS
  <2>3. w.env = NoEnv
    BY <2>2 DEF GatewayWorkload, Workload
  <2>4. PICK ws : ws = <<w>>
    OBVIOUS
  <2>5. IsFiniteSet(UNION {DOMAIN ws[i].env : i \in DOMAIN ws})
    BY <2>3, <2>4, OneHasNoKeys
  <2>6. UNCHANGED <<request, onNode>>
    BY <1>5 DEF BuildGateway
  <2> QED
    BY <2>1, <2>2, <2>4, <2>5, <2>6, RegisterSigns
<1>6. ASSUME NEW c \in Senders, SendDeployment(c) PROVE HashInv'
  <2>1. PICK d : d = deployment[c] /\ Signed(chainHash[c], d)
    BY <1>6 DEF SendDeployment, HashInv
  <2>2. Signed(chainHash[c], [d EXCEPT !.contract = 1])
    BY <2>1, StaysSigned
  <2>3. /\ onNode'[c] = onNode[c] \union {[d EXCEPT !.contract = 1]}
        /\ \A k \in Senders : k # c => onNode'[k] = onNode[k] /\ doing'[k] = doing[k]
        /\ doing'[c] \notin {"network", "vm", "gateway"}
        /\ UNCHANGED <<request, deployment, chainHash>>
        /\ DOMAIN doing' = Senders /\ DOMAIN onNode' = Senders
    BY <1>6, <2>1 DEF SendDeployment, HashInv
  <2>4. \A k \in Senders : \A x \in onNode'[k] : Signed(chainHash'[k], x)
    BY <2>2, <2>3 DEF HashInv
  <2> QED
    BY <2>3, <2>4 DEF HashInv
<1>7. ASSUME NEW c \in Senders, ReadBack(c) PROVE HashInv'
  <2>1. /\ UNCHANGED <<request, deployment, chainHash, onNode>> /\ DOMAIN doing' = Senders
        /\ doing'[c] \notin {"network", "vm", "gateway"}
        /\ \A k \in Senders : k # c => doing'[k] = doing[k]
    BY <1>7 DEF ReadBack, HashInv
  <2> QED
    BY <2>1 DEF HashInv
<1> QED
  BY <1>1, <1>2, <1>3, <1>4, <1>5, <1>6, <1>7 DEF RequestsNext

(* For every environment: what a node is sent is what was signed and what  *)
(* was registered, in whatever order the map is walked each time.          *)
THEOREM HashesSurvive == RequestsSpec => []HashSurvives
<1>1. RequestsInit => HashInv
  BY DEF RequestsInit, HashInv
<1>2. HashInv => HashSurvives
  BY DEF HashInv, Signed, HashSurvives
<1> QED
  BY <1>1, <1>2, HashStep, PTL DEF RequestsSpec

-----------------------------------------------------------------------------
(* Requests: what is reported.                                             *)

(* The workloads of a VM, by their types and names.                        *)
VmShape(ws, r, name) ==
    \E ips \in {0, 1}, n \in Nat :
        /\ n = Len(r.volumes) /\ DOMAIN r.volumes = 1 .. n
        /\ DOMAIN ws = 1 .. (ips + n + 1) /\ Len(ws) = ips + n + 1
        /\ ips = 1 => r.kind = "vm" /\ ws[1].type = "ip" /\ ws[1].name = PublicIpName(name)
        /\ \A i \in 1 .. n : /\ ws[ips + i].type = "volume"
                             /\ ws[ips + i].name = r.volumes[i].name
        /\ ws[ips + n + 1].name = name
        /\ ws[ips + n + 1].type \in {"zmachine", "zmachine-light"}

(* The one workload of a gateway.                                          *)
GatewayShape(ws) == DOMAIN ws = {1} /\ Len(ws) = 1 /\ ws[1].type # "ip"

(* build_vm and build_vm_light list what VmShape says.                     *)
LEMMA VmIsShaped ==
    ASSUME NEW c \in Senders, request[c] \in Requested, NEW seed, NEW ws,
           ws = VmWorkloads(c, seed)
    PROVE  VmShape(ws, request[c], VmName(c))
<1> DEFINE ips == Ips(c)
           n == Volumes(c)
<1>1. /\ ips \in {0, 1} /\ n \in Nat
      /\ Len(ws) = ips + n + 1 /\ DOMAIN ws = 1 .. (ips + n + 1)
      /\ ips = 1 => ws[1] = IpWorkloads(c)[1]
      /\ \A i \in 1 .. n : ws[ips + i] = VolumeWorkload(request[c].volumes[i])
      /\ ws[ips + n + 1] = MachineWorkload(c, seed)
  BY VmWorkloadList
<1>2. n = Len(request[c].volumes) /\ DOMAIN request[c].volumes = 1 .. n
  BY VolumesAreListed DEF Volumes
<1>3. ips = 1 => /\ request[c].kind = "vm"
                 /\ ws[1].type = "ip" /\ ws[1].name = PublicIpName(VmName(c))
  BY <1>1 DEF Ips, IpWorkloads, Workload
<1> HIDE DEF ips, n
<1>4. \A i \in 1 .. n : /\ ws[ips + i].type = "volume"
                        /\ ws[ips + i].name = request[c].volumes[i].name
  <2>1. \A v : VolumeWorkload(v).type = "volume" /\ VolumeWorkload(v).name = v.name
    BY DEF VolumeWorkload, Workload
  <2> TAKE i \in 1 .. n
  <2>2. ws[ips + i] = VolumeWorkload(request[c].volumes[i])
    BY <1>1
  <2> QED
    BY <2>1, <2>2
<1>5. /\ ws[ips + n + 1].name = VmName(c)
      /\ ws[ips + n + 1].type \in {"zmachine", "zmachine-light"}
  BY <1>1 DEF MachineWorkload, Workload
<1> QED
  BY <1>1, <1>2, <1>3, <1>4, <1>5 DEF VmShape

(* The name of a VM is a text, and that of its public IP another.          *)
LEMMA IpNameDiffers ==
    ASSUME NEW c \in Senders, request[c] \in Requested
    PROVE  PublicIpName(VmName(c)) # VmName(c)
<1>1. \A t, s : <<t, s>> \in Seq({t, s})
  OBVIOUS
<1>2. \E S : VmName(c) \in Seq(S)
  BY <1>1, RequestsAssumption DEF VmName, OrElse, Named, JsonText
<1>3. PICK S, v : v = VmName(c) /\ v \in Seq(S)
  BY <1>2
<1>4. v \in Seq(S \union {"ip"})
  BY <1>3
<1>5. Len(Append(v, "ip")) = Len(v) + 1 /\ Len(v) \in Nat
  BY <1>4
<1>6. Append(v, "ip") # v
  BY <1>5
<1> QED
  BY <1>3, <1>6 DEF PublicIpName

(* `find` answers a workload of that name if there is one.                 *)
LEMMA FirstIsNamed ==
    ASSUME NEW ws, NEW answer, DOMAIN answer \subseteq Nat, NEW name, NEW first,
           first = FirstOf(ws, answer, name)
    PROVE  /\ first # 0 => first \in Range(answer) /\ ws[first].name = name
           /\ (\E i \in Range(answer) : ws[i].name = name) =>
                 first \in Range(answer) /\ ws[first].name = name
<1> DEFINE S == {k \in DOMAIN answer : ws[answer[k]].name = name}
<1>1. S \subseteq Nat
  OBVIOUS
<1>2. CASE S = {}
  <2>1. first = 0
    BY <1>2 DEF FirstOf
  <2>2. ~\E i \in Range(answer) : ws[i].name = name
    BY <1>2 DEF Range
  <2> QED
    BY <2>1, <2>2
<1>3. CASE S # {}
  <2>1. \E k \in S : \A j \in S : k <= j
    <3> HIDE DEF S
    <3> QED
      BY <1>1, <1>3, LeastExists
  <2>2. PICK k : k = CHOOSE i \in S : \A j \in S : i <= j
    OBVIOUS
  <2>3. k \in S
    <3> HIDE DEF S
    <3> QED
      BY <2>1, <2>2
  <2>4. first = answer[k]
    BY <1>3, <2>2 DEF FirstOf
  <2> QED
    BY <2>3, <2>4 DEF Range
<1> QED
  BY <1>2, <1>3

(* An answer lists workloads of the deployment.                            *)
LEMMA AnswersList ==
    ASSUME NEW n \in Nat, NEW answer \in SetToAllKPermutations(1 .. n)
    PROVE  DOMAIN answer \subseteq Nat /\ Range(answer) \subseteq 1 .. n
<1>1. PICK S \in SUBSET (1 .. n) : answer \in SetToSeqs(S)
  BY DEF SetToAllKPermutations
<1>2. answer \in [1 .. Cardinality(S) -> S]
  BY <1>1 DEF SetToSeqs
<1>3. Cardinality(S) \in Nat
  <2>1. IsFiniteSet(1 .. n)
    BY FS_Interval
  <2>2. IsFiniteSet(S)
    BY <2>1, FS_Subset
  <2> QED
    BY <2>2, FS_CardinalityType
<1>4. PICK m \in Nat : answer \in [1 .. m -> S]
  BY <1>2, <1>3
<1>5. DOMAIN answer = 1 .. m /\ \A x \in 1 .. m : answer[x] \in S
  BY <1>4
<1>6. DOMAIN answer \subseteq Nat
  BY <1>5
<1>7. ASSUME NEW y \in Range(answer) PROVE y \in 1 .. n
  BY <1>5, <1>7 DEF Range
<1> QED
  BY <1>6, <1>7

(* What a call for a VM reports when it reads an answer about ws.          *)
LEMMA VmReports ==
    ASSUME NEW r, NEW name, NEW ws, VmShape(ws, r, name), PublicIpName(name) # name,
           NEW answer \in SetToAllKPermutations(DOMAIN ws), NEW okay \in SUBSET Range(answer),
           NEW ip, ip = PublicIpOf(ws, answer, okay, name)
    PROVE  /\ ip # 0 => ws[ip].type = "ip"
           /\ \A i \in okay : ws[i].type = "ip" =>
                 /\ r.kind = "vm"
                 /\ (\A k \in DOMAIN r.volumes : r.volumes[k].name # ws[i].name) => ip = i
           /\ ws[Len(ws)].name = name
           /\ (\A k \in DOMAIN r.volumes : r.volumes[k].name # name) =>
                 FirstOf(ws, answer, name) \in {0, Len(ws)}
<1>1. PICK ips \in {0, 1}, n \in Nat :
        /\ n = Len(r.volumes) /\ DOMAIN r.volumes = 1 .. n
        /\ DOMAIN ws = 1 .. (ips + n + 1) /\ Len(ws) = ips + n + 1
        /\ ips = 1 => r.kind = "vm" /\ ws[1].type = "ip" /\ ws[1].name = PublicIpName(name)
        /\ \A i \in 1 .. n : /\ ws[ips + i].type = "volume"
                             /\ ws[ips + i].name = r.volumes[i].name
        /\ ws[ips + n + 1].name = name
        /\ ws[ips + n + 1].type \in {"zmachine", "zmachine-light"}
  BY DEF VmShape
<1>2. DOMAIN answer \subseteq Nat /\ Range(answer) \subseteq DOMAIN ws
  <2>1. ips + n + 1 \in Nat
    BY <1>1
  <2> QED
    BY <1>1, <2>1, AnswersList
<1>3. ASSUME NEW i \in DOMAIN ws
      PROVE  \/ i = 1 /\ ips = 1
             \/ i = ips + n + 1
             \/ i - ips \in 1 .. n /\ ips + (i - ips) = i
  BY <1>1
<1>4. ASSUME NEW i \in DOMAIN ws
      PROVE  \/ i = 1 /\ ips = 1 /\ ws[i].type = "ip" /\ ws[i].name = PublicIpName(name)
             \/ i = Len(ws) /\ ws[i].type \in {"zmachine", "zmachine-light"} /\ ws[i].name = name
             \/ /\ ws[i].type = "volume"
                /\ \E k \in DOMAIN r.volumes : ws[i].name = r.volumes[k].name
  <2>1. CASE i = 1 /\ ips = 1
    BY <1>1, <2>1
  <2>2. CASE i = ips + n + 1
    BY <1>1, <2>2
  <2>3. CASE i - ips \in 1 .. n /\ ips + (i - ips) = i
    <3>1. PICK k \in 1 .. n : k = i - ips /\ ips + k = i
      BY <2>3
    <3>2. ws[ips + k].type = "volume" /\ ws[ips + k].name = r.volumes[k].name
      BY <1>1, <3>1
    <3> QED
      BY <1>1, <3>1, <3>2
  <2> QED
    BY <1>3, <2>1, <2>2, <2>3
<1>5. Len(ws) \in DOMAIN ws /\ ws[Len(ws)].name = name
  BY <1>1
<1>6. PICK f : f = FirstOf(ws, answer, PublicIpName(name))
  OBVIOUS
<1>7. ip = IF f \in okay /\ ws[f].type \in {"ip", "zmachine"} THEN f ELSE 0
  BY <1>6 DEF PublicIpOf
<1>8. ASSUME ip # 0 PROVE ws[ip].type = "ip"
  <2>1. f # 0 /\ ip = f /\ f \in Range(answer) /\ ws[f].type \in {"ip", "zmachine"}
    BY <1>7, <1>8
  <2>2. ws[f].name = PublicIpName(name) /\ f \in DOMAIN ws
    BY <1>2, <1>6, <2>1, FirstIsNamed
  <2> QED
    BY <1>4, <2>1, <2>2
<1>9. ASSUME NEW i \in okay, ws[i].type = "ip"
      PROVE  /\ r.kind = "vm"
             /\ (\A k \in DOMAIN r.volumes : r.volumes[k].name # ws[i].name) => ip = i
  <2>1. i \in Range(answer) /\ i \in DOMAIN ws
    BY <1>2
  <2>2. i = 1 /\ ips = 1 /\ ws[i].name = PublicIpName(name)
    BY <1>4, <1>9, <2>1
  <2>3. f \in Range(answer) /\ ws[f].name = PublicIpName(name)
    BY <1>2, <1>6, <2>1, <2>2, FirstIsNamed
  <2>4. ASSUME \A k \in DOMAIN r.volumes : r.volumes[k].name # ws[i].name PROVE f = i
    BY <1>2, <1>4, <2>2, <2>3, <2>4
  <2> QED
    BY <1>1, <1>7, <1>9, <2>2, <2>4
<1>10. ASSUME \A k \in DOMAIN r.volumes : r.volumes[k].name # name,
              FirstOf(ws, answer, name) # 0
       PROVE  FirstOf(ws, answer, name) = Len(ws)
  <2>1. PICK i : i = FirstOf(ws, answer, name)
    OBVIOUS
  <2>2. i \in DOMAIN ws /\ ws[i].name = name
    BY <1>2, <1>10, <2>1, FirstIsNamed
  <2> QED
    BY <1>4, <1>10, <2>1, <2>2
<1> QED
  BY <1>5, <1>8, <1>9, <1>10

(* w is the network of c, with some key.                                   *)
IsNetworkOf(c, w) == \E key \in Text : w = NetworkWorkload(c, key)

(* How far a call is with what it reports.                                 *)
Own(c) ==
    /\ doing[c] \notin {"idle", "refused", "failed"} => Valid(request[c])
    /\ doing[c] \in {"build_network", "network", "build_vm", "vm"} => ~IsGateway(request[c])
    /\ doing[c] \in {"build_gateway", "gateway"} => IsGateway(request[c])
    /\ doing[c] \in {"vm", "sent", "done"} /\ ~IsGateway(request[c])
          => VmShape(deployment[c].workloads, request[c], VmName(c))
    /\ doing[c] \in {"gateway", "sent", "done"} /\ IsGateway(request[c])
          => GatewayShape(deployment[c].workloads)
    /\ doing[c] = "network" => IsNetworkOf(c, deployment[c].workloads[1])
    /\ ~IsGateway(request[c]) /\ request[c].net.create =>
          /\ doing[c] \in {"network", "build_vm", "vm", "sent", "done"}
                => vmIp[c] = VmIp(SubnetOf(c)) /\ vmNet[c] = NetworkName(c)
          /\ doing[c] \in {"build_vm", "vm", "sent", "done"}
                => \E d \in onNode[c] : IsNetworkOf(c, d.workloads[1])

(* What a finished call has reported.                                      *)
Reported(c) ==
    LET ws == deployment[c].workloads
    IN \E answer \in SetToAllKPermutations(DOMAIN ws) : \E okay \in SUBSET Range(answer) :
          /\ outcome[c] = Reading(c, ws, answer, okay)
          /\ outcome[c].machine = 0 => IsGateway(request[c])

OwnInv ==
    /\ DOMAIN suffix = Senders /\ DOMAIN outcome = Senders
    /\ DOMAIN vmNet = Senders /\ DOMAIN vmIp = Senders
    /\ \A c \in Senders : Own(c) /\ (doing[c] = "done" => Reported(c))

(* The names and networks of a call are those of its request and second.   *)
LEMMA NamesStay ==
    ASSUME NEW k, request'[k] = request[k], suffix'[k] = suffix[k]
    PROVE  /\ VmName(k)' = VmName(k) /\ SubnetOf(k)' = SubnetOf(k)
           /\ NetworkName(k)' = NetworkName(k)
           /\ \A w : IsNetworkOf(k, w)' <=> IsNetworkOf(k, w)
           /\ \A ws, answer, okay : Reading(k, ws, answer, okay)' = Reading(k, ws, answer, okay)
<1>1. /\ VmName(k)' = VmName(k) /\ SubnetOf(k)' = SubnetOf(k)
      /\ NetworkName(k)' = NetworkName(k) /\ RangeOf(k)' = RangeOf(k)
  BY DEF VmName, SubnetOf, NetworkName, RangeOf
<1>2. \A key : NetworkWorkload(k, key)' = NetworkWorkload(k, key)
  BY <1>1 DEF NetworkWorkload
<1>3. \A w : IsNetworkOf(k, w)' <=> IsNetworkOf(k, w)
  BY <1>2 DEF IsNetworkOf
<1>4. \A ws, answer, okay : Reading(k, ws, answer, okay)' = Reading(k, ws, answer, okay)
  BY <1>1 DEF Reading
<1> QED
  BY <1>1, <1>3, <1>4

(* A step of one call does not touch another.                              *)
LEMMA OthersKeepTheirs ==
    ASSUME NEW k \in Senders, Own(k), doing[k] = "done" => Reported(k),
           request'[k] = request[k], doing'[k] = doing[k], suffix'[k] = suffix[k],
           vmNet'[k] = vmNet[k], vmIp'[k] = vmIp[k], deployment'[k] = deployment[k],
           onNode'[k] = onNode[k], outcome'[k] = outcome[k]
    PROVE  Own(k)' /\ (doing'[k] = "done" => Reported(k)')
<1>1. Own(k)'
  BY NamesStay DEF Own
<1>2. doing'[k] = "done" => Reported(k)'
  BY NamesStay DEF Reported
<1> QED
  BY <1>1, <1>2

(* What Register leaves in the deployment.                                 *)
LEMMA RegisterLists ==
    ASSUME HashInv, NEW c \in Senders, NEW metadata, NEW workloads, NEW next,
           Register(c, metadata, workloads, next)
    PROVE  /\ deployment'[c].workloads = workloads /\ doing'[c] = next
           /\ \A k \in Senders : k # c => /\ deployment'[k] = deployment[k]
                                          /\ doing'[k] = doing[k]
<1> DEFINE d == [NoDeployment EXCEPT !.metadata = metadata, !.workloads = workloads]
<1>1. d.workloads = workloads /\ DOMAIN d = DeploymentFields
  BY DEF NoDeployment, DeploymentFields
<1>2. PICK text : /\ deployment' = [deployment EXCEPT ![c] = [d EXCEPT !.signature = text]]
                  /\ doing' = [doing EXCEPT ![c] = next]
  BY DEF Register
<1>3. [d EXCEPT !.signature = text].workloads = workloads
  <2> HIDE DEF d
  <2> QED
    BY <1>1 DEF DeploymentFields
<1> HIDE DEF d
<1> QED
  BY <1>2, <1>3 DEF HashInv

(* No step of a request mixes up what is its own.                          *)
LEMMA OwnStep == HashInv /\ OwnInv /\ [RequestsNext]_requestVars => OwnInv'
<1> SUFFICES ASSUME HashInv, OwnInv, [RequestsNext]_requestVars PROVE OwnInv'
  OBVIOUS
<1>1. CASE UNCHANGED requestVars
  <2>1. \A k \in Senders : Own(k)' /\ (doing'[k] = "done" => Reported(k)')
    BY <1>1, OthersKeepTheirs DEF requestVars, OwnInv
  <2> QED
    BY <1>1, <2>1 DEF requestVars, OwnInv
<1>2. ASSUME NEW c \in Senders,
             Begin(c) \/ BuildNetwork(c) \/ BuildVm(c) \/ BuildGateway(c)
               \/ SendDeployment(c) \/ ReadBack(c)
      PROVE  /\ DOMAIN suffix' = Senders /\ DOMAIN outcome' = Senders
             /\ DOMAIN vmNet' = Senders /\ DOMAIN vmIp' = Senders /\ request' = request
             /\ \A k \in Senders : k # c =>
                   Own(k)' /\ (doing'[k] = "done" => Reported(k)')
  <2>1. /\ DOMAIN suffix' = Senders /\ DOMAIN outcome' = Senders
        /\ DOMAIN vmNet' = Senders /\ DOMAIN vmIp' = Senders /\ request' = request
        /\ \A k \in Senders : k # c =>
              /\ suffix'[k] = suffix[k] /\ vmNet'[k] = vmNet[k] /\ vmIp'[k] = vmIp[k]
              /\ onNode'[k] = onNode[k] /\ outcome'[k] = outcome[k]
    BY <1>2 DEF Begin, BuildNetwork, BuildVm, BuildGateway, SendDeployment, ReadBack,
                HashInv, OwnInv
  <2>2. \A k \in Senders : k # c => deployment'[k] = deployment[k] /\ doing'[k] = doing[k]
    <3>1. CASE \E metadata, workloads, next : Register(c, metadata, workloads, next)
      BY <3>1, RegisterLists
    <3>2. CASE Begin(c) \/ SendDeployment(c) \/ ReadBack(c)
      BY <3>2 DEF Begin, SendDeployment, ReadBack, HashInv
    <3> QED
      BY <1>2, <3>1, <3>2 DEF BuildNetwork, BuildVm, BuildGateway
  <2> QED
    BY <2>1, <2>2, OthersKeepTheirs DEF OwnInv
<1>3. ASSUME NEW c \in Senders, Begin(c)
      PROVE  Own(c)' /\ (doing'[c] = "done" => Reported(c)')
  <2>1. /\ request' = request
        /\ doing'[c] = IF ~Valid(request[c]) THEN "refused"
                       ELSE IF IsGateway(request[c]) THEN "build_gateway"
                       ELSE IF request[c].net.create THEN "build_network" ELSE "build_vm"
    BY <1>3 DEF Begin, HashInv
  <2> QED
    BY <2>1 DEF Own
<1>4. ASSUME NEW c \in Senders, BuildNetwork(c)
      PROVE  Own(c)' /\ (doing'[c] = "done" => Reported(c)')
  <2>1. PICK w, metadata : IsNetworkOf(c, w) /\ Register(c, metadata, <<w>>, "network")
    <3>1. PICK random \in Secrets :
             LET w == NetworkWorkload(c, OrElse(request[c].net.key, random))
             IN Register(c, Metadata(w.type, w.name, <<"Network">>), <<w>>, "network")
      BY <1>4 DEF BuildNetwork
    <3>2. OrElse(request[c].net.key, random) \in Text
      BY <3>1, RequestsAssumption DEF OrElse, HashInv
    <3> QED
      BY <3>1, <3>2 DEF IsNetworkOf
  <2>2. deployment'[c].workloads = <<w>> /\ doing'[c] = "network"
    BY <2>1, RegisterLists
  <2>3. /\ request' = request /\ suffix' = suffix /\ doing[c] = "build_network"
        /\ vmNet'[c] = NetworkName(c) /\ vmIp'[c] = VmIp(SubnetOf(c))
    BY <1>4 DEF BuildNetwork, OwnInv
  <2>4. deployment'[c].workloads[1] = w
    BY <2>2
  <2> QED
    BY <2>1, <2>2, <2>3, <2>4, NamesStay DEF Own, OwnInv
<1>5. ASSUME NEW c \in Senders, BuildVm(c)
      PROVE  Own(c)' /\ (doing'[c] = "done" => Reported(c)')
  <2>1. PICK metadata, seed : Register(c, metadata, VmWorkloads(c, seed), "vm")
    BY <1>5 DEF BuildVm
  <2>2. PICK ws : ws = VmWorkloads(c, seed)
    OBVIOUS
  <2>3. deployment'[c].workloads = ws /\ doing'[c] = "vm"
    BY <2>1, <2>2, RegisterLists
  <2>4. VmShape(ws, request[c], VmName(c))
    BY <2>2, VmIsShaped DEF HashInv
  <2>5. /\ request' = request /\ suffix' = suffix /\ doing[c] = "build_vm"
        /\ vmNet' = vmNet /\ vmIp' = vmIp /\ onNode' = onNode
    BY <1>5 DEF BuildVm
  <2> QED
    BY <2>3, <2>4, <2>5, NamesStay DEF Own, OwnInv
<1>6. ASSUME NEW c \in Senders, BuildGateway(c)
      PROVE  Own(c)' /\ (doing'[c] = "done" => Reported(c)')
  <2>1. PICK metadata, w : /\ Register(c, metadata, <<w>>, "gateway")
                           /\ w.type = request[c].kind
    <3>1. PICK metadata : Register(c, metadata, <<GatewayWorkload(c)>>, "gateway")
      BY <1>6 DEF BuildGateway
    <3>2. GatewayWorkload(c).type = request[c].kind
      BY DEF GatewayWorkload, Workload
    <3> QED
      BY <3>1, <3>2
  <2>2. deployment'[c].workloads = <<w>> /\ doing'[c] = "gateway"
    BY <2>1, RegisterLists
  <2>3. request' = request /\ IsGateway(request[c]) /\ Valid(request[c])
    BY <1>6 DEF BuildGateway, OwnInv, Own
  <2>4. GatewayShape(<<w>>)
    BY <2>1, <2>3 DEF GatewayShape, IsGateway
  <2> QED
    BY <2>2, <2>3, <2>4 DEF Own
<1>7. ASSUME NEW c \in Senders, SendDeployment(c)
      PROVE  Own(c)' /\ (doing'[c] = "done" => Reported(c)')
  <2>1. PICK d : d = deployment[c] /\ DOMAIN d = DeploymentFields
    BY <1>7 DEF SendDeployment, HashInv, Signed
  <2>2. [d EXCEPT !.contract = 1].workloads = d.workloads
    BY <2>1 DEF DeploymentFields
  <2>3. /\ request' = request /\ suffix' = suffix /\ vmNet' = vmNet /\ vmIp' = vmIp
        /\ deployment' = deployment /\ doing[c] \in {"network", "vm", "gateway"}
        /\ onNode'[c] = onNode[c] \union {[d EXCEPT !.contract = 1]}
        /\ doing'[c] = IF doing[c] = "network" THEN "build_vm" ELSE "sent"
    BY <1>7, <2>1 DEF SendDeployment, HashInv
  <2>5. Own(c)
    BY DEF OwnInv
  <2>6. CASE doing[c] = "network"
    <3>1. IsNetworkOf(c, [d EXCEPT !.contract = 1].workloads[1])
      BY <2>1, <2>2, <2>5, <2>6 DEF Own
    <3>2. \E e \in onNode'[c] : IsNetworkOf(c, e.workloads[1])
      BY <2>3, <3>1
    <3>3. doing'[c] = "build_vm"
      BY <2>3, <2>6
    <3> QED
      BY <2>3, <2>5, <2>6, <3>2, <3>3, NamesStay DEF Own
  <2>7. CASE doing[c] # "network"
    <3>1. doing'[c] = "sent" /\ doing[c] \in {"vm", "gateway"}
      BY <2>3, <2>7
    <3>2. onNode[c] \subseteq onNode'[c]
      BY <2>3
    <3> QED
      BY <2>3, <2>5, <3>1, <3>2, NamesStay DEF Own
  <2> QED
    BY <2>6, <2>7
<1>8. ASSUME NEW c \in Senders, ReadBack(c)
      PROVE  Own(c)' /\ (doing'[c] = "done" => Reported(c)')
  <2>1. /\ request' = request /\ suffix' = suffix /\ vmNet' = vmNet /\ vmIp' = vmIp
        /\ deployment' = deployment /\ onNode' = onNode /\ doing[c] = "sent"
        /\ doing'[c] \in {"failed", "done"}
    BY <1>8 DEF ReadBack, HashInv
  <2>2. Own(c)'
    BY <2>1, NamesStay DEF Own, OwnInv
  <2>3. ASSUME doing'[c] = "done" PROVE Reported(c)'
    <3>1. PICK ws : ws = deployment[c].workloads
      OBVIOUS
    <3>2. \E answer \in SetToAllKPermutations(DOMAIN ws) : \E okay \in SUBSET Range(answer) :
             /\ Reading(c, ws, answer, okay).machine = 0 => IsGateway(request[c])
             /\ outcome'[c] = Reading(c, ws, answer, okay)
      BY <1>8, <2>3, <3>1 DEF ReadBack, HashInv, OwnInv
    <3> QED
      BY <2>1, <3>1, <3>2, NamesStay DEF Reported
  <2> QED
    BY <2>2, <2>3
<1>9. ASSUME NEW c \in Senders,
             Begin(c) \/ BuildNetwork(c) \/ BuildVm(c) \/ BuildGateway(c)
               \/ SendDeployment(c) \/ ReadBack(c)
      PROVE  OwnInv'
  <2>1. Own(c)' /\ (doing'[c] = "done" => Reported(c)')
    BY <1>3, <1>4, <1>5, <1>6, <1>7, <1>8, <1>9
  <2> QED
    BY <1>2, <1>9, <2>1 DEF OwnInv
<1> QED
  BY <1>1, <1>9 DEF RequestsNext

(* What is read back from a network workload is what it was built with.    *)
LEMMA MiddleOfThree ==
    ASSUME NEW S, NEW a \in Seq(S), NEW s \in Seq(S), NEW k \in Seq(S)
    PROVE  LET d == (a \o s) \o k
           IN /\ SubSeq(d, 1, Len(a)) = a
              /\ SubSeq(d, Len(a) + 1, Len(a) + Len(s)) = s
<1> DEFINE d == (a \o s) \o k
<1>1. d \in Seq(S) /\ Len(d) = Len(a) + Len(s) + Len(k)
  OBVIOUS
<1>2. \A i \in 1 .. Len(a) : d[i] = a[i]
  OBVIOUS
<1>3. \A i \in 1 .. Len(s) : d[Len(a) + i] = s[i]
  OBVIOUS
<1> HIDE DEF d
<1>4. Len(a) \in Nat /\ Len(s) \in Nat /\ Len(k) \in Nat
  OBVIOUS
<1>5. SubSeq(d, 1, Len(a)) = [i \in 1 .. Len(a) |-> d[i]]
  BY <1>1, <1>4
<1>6. SubSeq(d, 1, Len(a)) = a
  <2>1. a = [i \in 1 .. Len(a) |-> a[i]]
    OBVIOUS
  <2> QED
    BY <1>2, <1>5, <2>1
<1>7. SubSeq(d, Len(a) + 1, Len(a) + Len(s)) = s
  <2>1. SubSeq(d, Len(a) + 1, Len(a) + Len(s))
           = [i \in 1 .. Len(s) |-> d[Len(a) + i]]
    BY <1>1, <1>4
  <2>2. s = [i \in 1 .. Len(s) |-> s[i]]
    OBVIOUS
  <2> QED
    BY <1>3, <2>1, <2>2
<1> QED
  BY <1>6, <1>7 DEF d

(* The subnet of a call has its octets and its mask.                       *)
LEMMA SubnetHasFive ==
    ASSUME NEW c \in Senders, request[c] \in Requested, Valid(request[c]),
           ~IsGateway(request[c]), request[c].net.create
    PROVE  \E S : /\ SubnetOf(c) \in Seq(S) /\ Len(SubnetOf(c)) = 5 /\ RangeOf(c) \in Seq(S)
                  /\ STRING \subseteq S /\ "<nil>" \in S
<1>1. PICK o : o = Octet(suffix[c])
  OBVIOUS
<1> DEFINE S == STRING \union {o, "10", "2", "0", "/24", "/16", "<nil>"}
<1>2. <<"10", o, "2", "0", "/24">> \in Seq(S) /\ <<"10", o, "0", "0", "/16">> \in Seq(S)
  <2>1. o \in S /\ "10" \in S /\ "2" \in S /\ "0" \in S /\ "/24" \in S /\ "/16" \in S
    OBVIOUS
  <2> HIDE DEF S
  <2> QED
    BY <2>1
<1>3. request[c].net.subnet \in Seq(S) /\ request[c].net.range \in Seq(S)
  BY RequestsAssumption DEF Text
<1>4. SubnetOf(c) \in Seq(S) /\ RangeOf(c) \in Seq(S)
  BY <1>1, <1>2, <1>3 DEF SubnetOf, RangeOf, OrElse
<1>5. Len(SubnetOf(c)) = 5
  BY <1>1 DEF Valid, ValidNetwork, IsSubnet, SubnetOf, OrElse
<1> QED
  BY <1>4, <1>5

(* The network that was sent has the range and the subnet of the call.     *)
LEMMA NetworkIsSent ==
    ASSUME NEW c \in Senders, request[c] \in Requested, Valid(request[c]),
           ~IsGateway(request[c]), request[c].net.create, NEW w, IsNetworkOf(c, w)
    PROVE  /\ w.type \in {"network", "network-light"} /\ w.name = NetworkName(c)
           /\ SentSubnet(c, w) = SubnetOf(c)
           /\ request[c].kind = "vm" => SentRange(c, w) = RangeOf(c)
<1>1. PICK key \in Text : w = NetworkWorkload(c, key)
  BY DEF IsNetworkOf
<1>2. PICK head : head = IF request[c].kind = "vm" THEN RangeOf(c) ELSE <<"<nil>">>
  OBVIOUS
<1>3. w.data = (head \o SubnetOf(c)) \o key
  BY <1>1, <1>2 DEF NetworkWorkload, Workload
<1>4. w.type \in {"network", "network-light"} /\ w.name = NetworkName(c)
  BY <1>1 DEF NetworkWorkload, Workload
<1>5. PICK S : /\ SubnetOf(c) \in Seq(S) /\ Len(SubnetOf(c)) = 5 /\ RangeOf(c) \in Seq(S)
               /\ STRING \subseteq S /\ "<nil>" \in S
  BY SubnetHasFive
<1>6. key \in Seq(S) /\ head \in Seq(S)
  <2>1. <<"<nil>">> \in Seq(S)
    BY <1>5
  <2>2. head \in Seq(S)
    BY <1>2, <1>5, <2>1
  <2>3. key \in Seq(STRING) /\ STRING \subseteq S
    BY <1>1, <1>5 DEF Text
  <2>4. key \in Seq(S)
    <3>1. PICK T : T = STRING
      OBVIOUS
    <3>2. key \in Seq(T) /\ T \subseteq S
      BY <2>3, <3>1
    <3> QED
      BY <3>2
  <2> QED
    BY <2>2, <2>4
<1>7. Len(head) = RangeLength(c)
  BY <1>2 DEF RangeLength
<1>8. /\ SubSeq(w.data, 1, Len(head)) = head
      /\ SubSeq(w.data, Len(head) + 1, Len(head) + 5) = SubnetOf(c)
  <2>1. PICK s : s = SubnetOf(c) /\ s \in Seq(S) /\ Len(s) = 5
    BY <1>5
  <2>2. LET d == (head \o s) \o key
        IN /\ SubSeq(d, 1, Len(head)) = head
           /\ SubSeq(d, Len(head) + 1, Len(head) + Len(s)) = s
    BY <1>6, <2>1, MiddleOfThree
  <2> QED
    BY <1>3, <2>1, <2>2
<1> QED
  BY <1>2, <1>4, <1>7, <1>8 DEF SentSubnet, SentRange

(* An address that vm_ip_from_subnet makes is inside a subnet of whole     *)
(* octets; so is a subnet inside a range, both chosen by the client.       *)
LEMMA AddressOfSubnet ==
    ASSUME NEW c \in Senders, request[c] \in Requested, Valid(request[c]),
           ~IsGateway(request[c]), request[c].net.create
    PROVE  /\ Inside(VmIp(SubnetOf(c)), SubnetOf(c))
           /\ request[c].net.range = None /\ request[c].net.subnet = None =>
                 Inside(SubnetOf(c), RangeOf(c))
<1>1. PICK s, o : s = SubnetOf(c) /\ o = Octet(suffix[c])
  OBVIOUS
<1>2. request[c].net.range = None /\ request[c].net.subnet = None =>
         s = <<"10", o, "2", "0", "/24">> /\ RangeOf(c) = <<"10", o, "0", "0", "/16">>
  BY <1>1 DEF SubnetOf, RangeOf, OrElse
<1>3. Inside(<<"10", o, "2", "0", "/24">>, <<"10", o, "0", "0", "/16">>)
  BY DEF Inside, Octets
<1>4. PICK S : s \in Seq(S) /\ Len(s) = 5
  BY <1>1, SubnetHasFive
<1>5. PICK n \in 1 .. 3 : n = Octets(s[5])
  BY DEF Octets
<1>6. SubSeq(<<s[1], s[2], s[3], "5">>, 1, n) = SubSeq(s, 1, n)
  <2> DEFINE v == <<s[1], s[2], s[3], "5">>
             T == {s[1], s[2], s[3], "5"}
  <2>1. v \in Seq(T) /\ Len(v) = 4 /\ v[1] = s[1] /\ v[2] = s[2] /\ v[3] = s[3]
    <3>1. s[1] \in T /\ s[2] \in T /\ s[3] \in T /\ "5" \in T
      OBVIOUS
    <3> HIDE DEF T
    <3> QED
      BY <3>1
  <2> HIDE DEF v
  <2>2. SubSeq(v, 1, n) = [i \in 1 .. n |-> v[i]]
    BY <2>1
  <2>3. SubSeq(s, 1, n) = [i \in 1 .. n |-> s[i]]
    BY <1>4
  <2>4. \A i \in 1 .. n : v[i] = s[i]
    BY <2>1
  <2> QED
    BY <2>2, <2>3, <2>4 DEF v
<1> QED
  BY <1>1, <1>2, <1>3, <1>5, <1>6 DEF VmIp, Inside

(* For every request and every order in which the node answers: a call     *)
(* reports the address of its own "ip" workload and its own machine, where *)
(* no volume has taken the name it looks for, and the VM has an address of *)
(* the subnet its network was sent with, if the mask is of whole octets.   *)
THEOREM OutcomesAreOwn == RequestsSpec => []OutcomeIsOwn
<1>1. RequestsInit => HashInv /\ OwnInv
  <2> SUFFICES ASSUME RequestsInit PROVE HashInv /\ OwnInv
    OBVIOUS
  <2>1. HashInv
    BY DEF RequestsInit, HashInv
  <2>2. \A c \in Senders : doing[c] = "idle"
    BY DEF RequestsInit
  <2>3. OwnInv
    BY <2>2 DEF RequestsInit, OwnInv, Own
  <2> QED
    BY <2>1, <2>3
<1>2. HashInv /\ OwnInv => OutcomeIsOwn
  <2> SUFFICES ASSUME HashInv, OwnInv, NEW c \in Senders, doing[c] = "done", NEW ws, NEW r,
                      ws = deployment[c].workloads, r = request[c]
               PROVE  /\ outcome[c].publicIp # 0 => ws[outcome[c].publicIp].type = "ip"
                      /\ \A i \in outcome[c].okay :
                            /\ ws[i].type = "ip"
                            /\ \A k \in DOMAIN r.volumes : r.volumes[k].name # ws[i].name
                            => outcome[c].publicIp = i
                      /\ (\A k \in DOMAIN r.volumes : r.volumes[k].name # ws[Len(ws)].name) =>
                            \/ outcome[c].machine = Len(ws)
                            \/ outcome[c].machine = 0 /\ IsGateway(r)
                      /\ ~IsGateway(r) /\ r.net.create =>
                            \E d \in onNode[c] :
                               /\ d.workloads[1].type \in {"network", "network-light"}
                               /\ d.workloads[1].name = vmNet[c]
                               /\ Inside(vmIp[c], SentSubnet(c, d.workloads[1]))
                               /\ r.kind = "vm" /\ r.net.range = None /\ r.net.subnet = None =>
                                     Inside(SentSubnet(c, d.workloads[1]),
                                            SentRange(c, d.workloads[1]))
    BY DEF OutcomeIsOwn
  <2>1. r \in Requested /\ Own(c) /\ Reported(c)
    BY DEF HashInv, OwnInv
  <2>0. PICK answer \in SetToAllKPermutations(DOMAIN ws) :
           \E okay \in SUBSET Range(answer) :
              /\ outcome[c] = Reading(c, ws, answer, okay)
              /\ outcome[c].machine = 0 => IsGateway(r)
    BY <2>1 DEF Reported
  <2>2. PICK okay \in SUBSET Range(answer) :
           /\ outcome[c] = Reading(c, ws, answer, okay)
           /\ outcome[c].machine = 0 => IsGateway(r)
    BY <2>0
  <2>3. PICK ip : ip = PublicIpOf(ws, answer, okay, VmName(c))
    OBVIOUS
  <2>4. /\ outcome[c].okay = okay
        /\ outcome[c].publicIp = IF r.kind = "vm" THEN ip ELSE 0
        /\ outcome[c].machine = IF r.kind = "fqdn" THEN 0
                                ELSE FirstOf(ws, answer, ws[Len(ws)].name)
    BY <2>2, <2>3 DEF Reading
  <2>5. CASE IsGateway(r)
    <3>1. GatewayShape(ws)
      BY <2>1, <2>5 DEF Own
    <3>2. r.kind # "vm"
      BY <2>5 DEF IsGateway
    <3>3. DOMAIN answer \subseteq Nat /\ Range(answer) \subseteq {1}
      <4>1. DOMAIN ws = 1 .. 1
        BY <3>1 DEF GatewayShape
      <4>2. answer \in SetToAllKPermutations(1 .. 1)
        BY <4>1
      <4>3. DOMAIN answer \subseteq Nat /\ Range(answer) \subseteq 1 .. 1
        BY <4>2, AnswersList
      <4> QED
        BY <4>3
    <3>4. FirstOf(ws, answer, ws[Len(ws)].name) \in {0, 1}
      BY <3>3, FirstIsNamed
    <3> QED
      BY <2>4, <2>5, <3>1, <3>2, <3>3, <3>4 DEF GatewayShape
  <2>6. CASE ~IsGateway(r)
    <3>1. PICK name : name = VmName(c)
      OBVIOUS
    <3>2. VmShape(ws, r, name) /\ PublicIpName(name) # name
      BY <2>1, <2>6, <3>1, IpNameDiffers DEF Own
    <3>3. /\ ip # 0 => ws[ip].type = "ip"
          /\ \A i \in okay : ws[i].type = "ip" =>
                /\ r.kind = "vm"
                /\ (\A k \in DOMAIN r.volumes : r.volumes[k].name # ws[i].name) => ip = i
          /\ ws[Len(ws)].name = name
          /\ (\A k \in DOMAIN r.volumes : r.volumes[k].name # name) =>
                FirstOf(ws, answer, name) \in {0, Len(ws)}
      BY <2>3, <3>1, <3>2, VmReports
    <3>4. r.kind # "fqdn"
      BY <2>6 DEF IsGateway
    <3>5. ASSUME r.net.create
          PROVE  \E d \in onNode[c] :
                    /\ d.workloads[1].type \in {"network", "network-light"}
                    /\ d.workloads[1].name = vmNet[c]
                    /\ Inside(vmIp[c], SentSubnet(c, d.workloads[1]))
                    /\ r.kind = "vm" /\ r.net.range = None /\ r.net.subnet = None =>
                          Inside(SentSubnet(c, d.workloads[1]), SentRange(c, d.workloads[1]))
      <4>1. PICK d \in onNode[c] : IsNetworkOf(c, d.workloads[1])
        BY <2>1, <2>6, <3>5 DEF Own
      <4>2. Valid(r) /\ vmIp[c] = VmIp(SubnetOf(c)) /\ vmNet[c] = NetworkName(c)
        BY <2>1, <2>6, <3>5 DEF Own
      <4> QED
        BY <2>1, <2>6, <3>5, <4>1, <4>2, NetworkIsSent, AddressOfSubnet
    <3> QED
      BY <2>2, <2>4, <2>6, <3>3, <3>4, <3>5
  <2> QED
    BY <2>5, <2>6
<1> QED
  BY <1>1, <1>2, HashStep, OwnStep, PTL DEF RequestsSpec

-----------------------------------------------------------------------------
(* Requests: which hashes differ.                                          *)

(* The atoms of texts: given ones, formatted ones and the client's own,    *)
(* which tlapm does not know to be strings.                                *)
Words == {Comma, "{", "}", "=", "0", "2", "5", "10", "/16", "/24", "<nil>", "twin", "ip",
          "rust_vm_", "rust_vm_light_", "rust_net_", "rust_net_light_", "Network",
          "network", "network-light", "volume", "zmachine", "zmachine-light", "gateway",
          "vm", "light", "name", "fqdn"}
Atoms == STRING \union Words \union {ToString(v) : v \in Nat \union BOOLEAN}
Texts == Seq(Atoms)
MarkFree == Seq(Atoms \ {Comma})

(* A text of few atoms is one of more.                                     *)
LEMMA SeqGrows ==
    ASSUME NEW S, NEW T, S \subseteq T
    PROVE  \A s \in Seq(S) : s \in Seq(T)
OBVIOUS

(* The texts of a request.                                                 *)
LEMMA RequestTexts ==
    ASSUME NEW r \in Requested
    PROVE  /\ r.kind \in Words \ {Comma} /\ r.name \in MarkFree /\ r.net.name \in MarkFree
           /\ r.flist \in Texts /\ r.entrypoint \in Texts /\ r.seed \in Texts
           /\ r.net.range \in Texts /\ r.net.subnet \in Texts /\ r.net.ip \in Texts
           /\ r.net.key \in Texts /\ r.fqdn \in Texts /\ r.backends \in Seq(Texts)
           /\ DOMAIN r.env \subseteq Nat /\ \A k \in DOMAIN r.env : r.env[k] \in Texts
           /\ r.volumes \in Seq([VolumeFields -> Texts])
           /\ r.mounts \in Seq([{"name", "mountpoint"} -> Texts])
<1>1. r.kind \in Words \ {Comma}
  <2>1. r.kind \in {"vm", "light", "name", "fqdn"}
    BY RequestsAssumption
  <2> QED
    BY <2>1 DEF Words, Comma
<1>2. (\A t \in Text : t \in Texts) /\ \A t \in JsonText : t \in MarkFree
  <2>1. STRING \subseteq Atoms /\ STRING \ {Comma} \subseteq Atoms \ {Comma}
    BY DEF Atoms
  <2> HIDE DEF Atoms
  <2> QED
    BY <2>1, SeqGrows, Zenon DEF Text, Texts, JsonText, MarkFree
<1>3. /\ \A ts \in Seq(Text) : ts \in Seq(Texts)
      /\ \A F : \A fs \in Seq([F -> Text]) : fs \in Seq([F -> Texts])
  <2> HIDE DEF Text, Texts
  <2>1. \A F : \A f \in [F -> Text] : f \in [F -> Texts]
    BY <1>2
  <2> QED
    BY <1>2, <2>1
<1> QED
  BY <1>1, <1>2, <1>3, RequestsAssumption

(* Texts of few atoms, and texts put together.                             *)
LEMMA TextsAreMade ==
    /\ <<>> \in Texts /\ \A a \in Atoms : <<a>> \in Texts
    /\ \A a, b \in Atoms : <<a, b>> \in Texts
    /\ \A a, b, c \in Atoms : <<a, b, c>> \in Texts
    /\ \A a, b, c, d \in Atoms : <<a, b, c, d>> \in Texts
    /\ \A a, b, c, d, e \in Atoms : <<a, b, c, d, e>> \in Texts
    /\ \A s, t \in Texts : s \o t \in Texts
    /\ \A s \in MarkFree : s \in Texts
<1>1. Atoms \ {Comma} \subseteq Atoms
  OBVIOUS
<1>2. \A s \in MarkFree : s \in Texts
  <2> HIDE DEF Atoms
  <2> QED
    BY <1>1, SeqGrows, Zenon DEF Texts, MarkFree
<1> HIDE DEF Atoms
<1> QED
  BY <1>2 DEF Texts

(* The client's words are atoms, and so is what it formats.                *)
LEMMA AtomsOfTheClient ==
    /\ \A w \in Words : w \in Atoms
    /\ \A v \in Nat : ToString(v) \in Atoms
    /\ \A v \in BOOLEAN : ToString(v) \in Atoms
BY DEF Atoms

(* Names that are left to the client have no mark in them either.          *)
LEMMA NamesAreMarkFree ==
    ASSUME NEW c \in Senders, request[c] \in Requested, suffix[c] \in Seconds
    PROVE  VmName(c) \in MarkFree /\ NetworkName(c) \in MarkFree
<1>1. ToString(suffix[c]) \in Atoms \ {Comma}
  BY AtomsOfTheClient, RequestsAssumption
<1>2. \A w \in {"rust_vm_", "rust_vm_light_", "rust_net_", "rust_net_light_"} :
         Named(w, suffix[c]) \in MarkFree
  <2> TAKE w \in {"rust_vm_", "rust_vm_light_", "rust_net_", "rust_net_light_"}
  <2>1. w \in Words \ {Comma}
    BY DEF Words, Comma
  <2>2. w \in Atoms \ {Comma}
    BY <2>1, AtomsOfTheClient
  <2>3. \A S : \A a, b \in S : <<a, b>> \in Seq(S)
    OBVIOUS
  <2> HIDE DEF Atoms
  <2> QED
    BY <1>1, <2>2, <2>3, Zenon DEF Named, MarkFree
<1>3. request[c].name \in MarkFree /\ request[c].net.name \in MarkFree
  BY RequestTexts
<1> QED
  BY <1>2, <1>3 DEF VmName, NetworkName, OrElse

(* A workload whose fields are texts, the values of its environment too.   *)
IsWritten(w) ==
    /\ w.name \in Texts /\ w.type \in Atoms /\ w.description \in Texts /\ w.data \in Texts
    /\ DOMAIN w.env \subseteq Nat /\ \A k \in DOMAIN w.env : w.env[k] \in Texts

(* keys.sort() keeps the keys.                                             *)
LEMMA SortedKeysAreKeys ==
    ASSUME NEW d, IsFiniteSet(Keys(d)), Keys(d) \subseteq Nat, NEW walk \in Walks(d)
    PROVE  /\ Cardinality(Keys(d)) \in Nat /\ DOMAIN walk = 1 .. Cardinality(Keys(d))
           /\ \A i \in DOMAIN walk : SortedKeys(walk)[i] \in Keys(d)
<1>1. DOMAIN walk = 1 .. Cardinality(Keys(d)) /\ Range(walk) = Keys(d)
  BY WalksMeetAllKeys
<1>2. \A i \in 1 .. Cardinality(Keys(d)) : NthOf(Keys(d), i) \in Keys(d)
  BY NthIsThere
<1> QED
  BY <1>1, <1>2, FS_CardinalityType DEF SortedKeys

(* What the environment adds to the challenge is a text.                   *)
LEMMA EnvIsText ==
    ASSUME NEW env, DOMAIN env \subseteq Nat, \A k \in DOMAIN env : env[k] \in Texts,
           NEW walk, NEW n \in Nat, DOMAIN walk = 1 .. n,
           \A i \in 1 .. n : SortedKeys(walk)[i] \in DOMAIN env
    PROVE  EnvText(env, walk) \in Texts
<1> DEFINE pairs == [i \in DOMAIN walk |->
                        <<ToString(SortedKeys(walk)[i]), "=">> \o env[SortedKeys(walk)[i]]]
<1>1. ASSUME NEW i \in 1 .. n
      PROVE  <<ToString(SortedKeys(walk)[i]), "=">> \o env[SortedKeys(walk)[i]] \in Texts
  <2>1. PICK k, s : k = SortedKeys(walk)[i] /\ s = ToString(k)
    OBVIOUS
  <2>2. "=" \in Words
    BY DEF Words
  <2>3. k \in DOMAIN env /\ s \in Atoms /\ "=" \in Atoms
    BY <2>1, <2>2, AtomsOfTheClient
  <2>4. <<s, "=">> \in Texts /\ env[k] \in Texts
    BY <2>3, TextsAreMade
  <2> QED
    BY <2>1, <2>4, TextsAreMade
<1>2. pairs \in Seq(Texts)
  BY <1>1
<1>3. FlattenSeq(pairs) \in Texts
  <2> HIDE DEF pairs
  <2> QED
    BY <1>2, Flattened DEF Texts
<1> QED
  BY <1>3 DEF EnvText

(* After its metadata comes more text in the challenge of a deployment.    *)
LEMMA ChallengeOpens ==
    ASSUME NEW d, NEW n \in Nat, DOMAIN d.workloads = 1 .. n,
           \A i \in 1 .. n : /\ IsWritten(d.workloads[i])
                             /\ DOMAIN d.workloads[i].env \in {{}, Keys(d)},
           IsFiniteSet(Keys(d)), NEW walk \in Walks(d)
    PROVE  \E rest \in Texts :
              Challenge(d, walk) = <<"0", "twin">> \o d.metadata \o <<"0">> \o rest
<1> DEFINE W(i) == WorkloadChallenge(d.workloads[i],
                         IF DOMAIN d.workloads[i].env = {} THEN <<>> ELSE walk)
           ws == [i \in DOMAIN d.workloads |-> W(i)]
<1>1. Keys(d) \subseteq Nat
  BY DEF Keys, IsWritten
<1>2. /\ Cardinality(Keys(d)) \in Nat /\ DOMAIN walk = 1 .. Cardinality(Keys(d))
      /\ \A i \in DOMAIN walk : SortedKeys(walk)[i] \in Keys(d)
  BY <1>1, SortedKeysAreKeys
<1>3. ASSUME NEW i \in 1 .. n PROVE W(i) \in Texts
  <2>1. PICK w, v : w = d.workloads[i] /\ v = IF DOMAIN w.env = {} THEN <<>> ELSE walk
    OBVIOUS
  <2>2. IsWritten(w) /\ DOMAIN w.env \in {{}, Keys(d)}
    BY <2>1
  <2>3. EnvText(w.env, v) \in Texts
    <3>1. CASE DOMAIN w.env = {}
      <4>1. 0 \in Nat /\ DOMAIN v = 1 .. 0
        BY <2>1, <3>1
      <4>2. DOMAIN w.env \subseteq Nat /\ \A k \in DOMAIN w.env : w.env[k] \in Texts
        BY <2>2 DEF IsWritten
      <4>3. \A j \in 1 .. 0 : SortedKeys(v)[j] \in DOMAIN w.env
        OBVIOUS
      <4>4. PICK env : env = w.env
        OBVIOUS
      <4> QED
        BY <4>1, <4>2, <4>3, <4>4, EnvIsText
    <3>2. CASE DOMAIN w.env # {}
      <4>1. DOMAIN w.env = Keys(d) /\ v = walk
        BY <2>1, <2>2, <3>2
      <4> QED
        BY <1>2, <2>2, <4>1, EnvIsText DEF IsWritten
    <3> QED
      BY <3>1, <3>2
  <2>4. <<"0">> \in Texts /\ <<w.type>> \in Texts
    BY <2>2, AtomsOfTheClient, TextsAreMade DEF Words, IsWritten
  <2>5. WorkloadChallenge(w, v) \in Texts
    BY <2>2, <2>3, <2>4, TextsAreMade DEF IsWritten, WorkloadChallenge
  <2> QED
    BY <2>1, <2>5
<1> HIDE DEF W
<1>4. ws \in Seq(Texts)
  BY <1>3
<1>5. FlattenSeq(ws) \in Texts
  <2> HIDE DEF ws
  <2> QED
    BY <1>4, Flattened DEF Texts
<1>6. Challenge(d, walk) = <<"0", "twin">> \o d.metadata \o <<"0">> \o FlattenSeq(ws)
  BY DEF Challenge, W
<1> HIDE DEF ws
<1> QED
  BY <1>5, <1>6

(* Two parts of a text, atom by atom.                                      *)
IsJoined(u, s, t) ==
    /\ u \in Texts /\ Len(u) = Len(s) + Len(t) /\ Len(s) \in Nat /\ Len(t) \in Nat
    /\ \A i \in 1 .. Len(s) : u[i] = s[i]
    /\ \A i \in 1 .. Len(t) : u[Len(s) + i] = t[i]

(* So it is with two texts put together.                                   *)
LEMMA Joined ==
    ASSUME NEW s \in Texts, NEW t \in Texts
    PROVE  IsJoined(s \o t, s, t)
<1> HIDE DEF Atoms
<1> QED
  BY DEF Texts, IsJoined

(* A challenge, from its metadata on.                                      *)
Opening(kind, name, project, rest) ==
    <<"0", "twin">> \o Metadata(kind, name, project) \o <<"0">> \o rest

(* Where the kind and the name stand in the metadata, and the mark behind. *)
LEMMA KindAndNameStand ==
    ASSUME NEW kind \in Atoms, NEW name \in MarkFree, NEW project \in Texts,
           NEW rest \in Texts, NEW x, x = Opening(kind, name, project, rest)
    PROVE  /\ x[4] = kind /\ x[6 + Len(name)] = Comma /\ Len(name) \in Nat
           /\ \A i \in 1 .. Len(name) : x[5 + i] = name[i]
<1> DEFINE a == <<"{", kind, Comma>>
           b == a \o name
           c == b \o <<Comma>>
           d == c \o project
           m == d \o <<"}">>
           p == <<"0", "twin">>
           e == p \o m
           f == e \o <<"0">>
<1>1. \A w \in {"{", Comma, "}", "0", "twin"} : w \in Atoms
  BY AtomsOfTheClient DEF Words
<1>2. /\ a \in Texts /\ <<Comma>> \in Texts /\ <<"}">> \in Texts /\ <<"0">> \in Texts
      /\ p \in Texts /\ name \in Texts
  BY <1>1, TextsAreMade
<1>3. a[2] = kind /\ Len(a) = 3 /\ Len(p) = 2 /\ <<Comma>>[1] = Comma /\ Len(<<Comma>>) = 1
  OBVIOUS
<1>4. x = f \o rest
  BY DEF Opening, Metadata
<1>5. m = d \o <<"}">> /\ e = p \o m /\ f = e \o <<"0">> /\ b = a \o name /\ c = b \o <<Comma>>
      /\ d = c \o project
  OBVIOUS
<1> HIDE DEF a, b, c, d, m, p, e, f
<1>6. /\ b \in Texts /\ Len(b) = 3 + Len(name) /\ b[2] = kind /\ Len(name) \in Nat
      /\ \A i \in 1 .. Len(name) : b[3 + i] = name[i]
  <2>1. IsJoined(b, a, name)
    BY <1>2, <1>5, Joined
  <2> QED
    BY <1>3, <2>1 DEF IsJoined
<1>7. /\ c \in Texts /\ Len(c) = 4 + Len(name) /\ c[4 + Len(name)] = Comma
      /\ \A i \in 1 .. 3 + Len(name) : c[i] = b[i]
  <2>1. PICK mark : mark = <<Comma>>
    OBVIOUS
  <2>2. IsJoined(c, b, mark)
    BY <1>2, <1>5, <1>6, <2>1, Joined
  <2>3. Len(mark) = 1 /\ mark[1] = Comma
    BY <2>1
  <2> QED
    BY <1>6, <2>2, <2>3 DEF IsJoined
<1>8. IsJoined(d, c, project)
  BY <1>5, <1>7, Joined
<1>9. IsJoined(m, d, <<"}">>)
  <2>1. d \in Texts
    BY <1>8 DEF IsJoined
  <2> QED
    BY <1>2, <1>5, <2>1, Joined
<1>10. IsJoined(e, p, m)
  <2>1. m \in Texts
    BY <1>9 DEF IsJoined
  <2> QED
    BY <1>2, <1>5, <2>1, Joined
<1>11. IsJoined(f, e, <<"0">>)
  <2>1. e \in Texts
    BY <1>10 DEF IsJoined
  <2> QED
    BY <1>2, <1>5, <2>1, Joined
<1>12. IsJoined(x, f, rest)
  <2>1. f \in Texts
    BY <1>11 DEF IsJoined
  <2> QED
    BY <1>4, <2>1, Joined
<1>13. ASSUME NEW i \in 1 .. 4 + Len(name) PROVE x[2 + i] = c[i]
  <2>0. /\ \A j \in 1 .. Len(c) : d[j] = c[j] /\ j \in 1 .. Len(d)
        /\ \A j \in 1 .. Len(d) : m[j] = d[j] /\ j \in 1 .. Len(m)
    <3>1. /\ Len(d) = Len(c) + Len(project) /\ Len(c) \in Nat /\ Len(project) \in Nat
          /\ \A j \in 1 .. Len(c) : d[j] = c[j]
      BY <1>8 DEF IsJoined
    <3>2. PICK brace : brace = <<"}">>
      OBVIOUS
    <3>3. /\ Len(m) = Len(d) + Len(brace) /\ Len(d) \in Nat /\ Len(brace) \in Nat
          /\ \A j \in 1 .. Len(d) : m[j] = d[j]
      BY <1>9, <3>2 DEF IsJoined
    <3> QED
      BY <3>1, <3>3
  <2>1. i \in 1 .. Len(c) /\ m[i] = d[i] /\ d[i] = c[i] /\ i \in 1 .. Len(m)
    <3>1. i \in 1 .. Len(c)
      BY <1>7
    <3> QED
      BY <2>0, <3>1
  <2>2. e[2 + i] = m[i] /\ 2 + i \in 1 .. Len(e)
    BY <1>3, <1>10, <2>1 DEF IsJoined
  <2>3. f[2 + i] = e[2 + i] /\ 2 + i \in 1 .. Len(f)
    BY <1>11, <2>2 DEF IsJoined
  <2>4. x[2 + i] = f[2 + i]
    BY <1>12, <2>3 DEF IsJoined
  <2> QED
    BY <2>1, <2>2, <2>3, <2>4
<1>14. x[2 + 2] = c[2] /\ c[2] = kind
  BY <1>6, <1>7, <1>13
<1>15. x[2 + (4 + Len(name))] = Comma
  BY <1>6, <1>7, <1>13
<1>16. ASSUME NEW i \in 1 .. Len(name) PROVE x[2 + (3 + i)] = name[i]
  BY <1>6, <1>7, <1>13
<1> QED
  BY <1>6, <1>14, <1>15, <1>16

(* Texts that open alike have one kind and one name.                       *)
LEMMA OpeningsTellApart ==
    ASSUME NEW k \in Atoms, NEW n \in MarkFree, NEW p \in Texts, NEW r \in Texts,
           NEW l \in Atoms, NEW o \in MarkFree, NEW q \in Texts, NEW s \in Texts,
           Opening(k, n, p, r) = Opening(l, o, q, s)
    PROVE  k = l /\ n = o
<1>1. PICK x : x = Opening(k, n, p, r) /\ x = Opening(l, o, q, s)
  OBVIOUS
<1>2. /\ x[4] = k /\ x[6 + Len(n)] = Comma /\ Len(n) \in Nat
      /\ \A i \in 1 .. Len(n) : x[5 + i] = n[i]
  BY <1>1, KindAndNameStand
<1>3. /\ x[4] = l /\ x[6 + Len(o)] = Comma /\ Len(o) \in Nat
      /\ \A i \in 1 .. Len(o) : x[5 + i] = o[i]
  BY <1>1, KindAndNameStand
<1>4. /\ \A i \in 1 .. Len(n) : n[i] # Comma
      /\ \A i \in 1 .. Len(o) : o[i] # Comma
      /\ n = [i \in 1 .. Len(n) |-> n[i]] /\ o = [i \in 1 .. Len(o) |-> o[i]]
  BY DEF MarkFree
<1>5. ~(Len(n) < Len(o))
  <2> SUFFICES ASSUME Len(n) < Len(o) PROVE FALSE
    OBVIOUS
  <2>1. 1 + Len(n) \in 1 .. Len(o) /\ 5 + (1 + Len(n)) = 6 + Len(n)
    BY <1>2, <1>3
  <2>2. o[1 + Len(n)] = x[6 + Len(n)] /\ o[1 + Len(n)] # Comma
    BY <1>3, <1>4, <2>1
  <2> QED
    BY <1>2, <2>2
<1>6. ~(Len(o) < Len(n))
  <2> SUFFICES ASSUME Len(o) < Len(n) PROVE FALSE
    OBVIOUS
  <2>1. 1 + Len(o) \in 1 .. Len(n) /\ 5 + (1 + Len(o)) = 6 + Len(o)
    BY <1>2, <1>3
  <2>2. n[1 + Len(o)] = x[6 + Len(o)] /\ n[1 + Len(o)] # Comma
    BY <1>2, <1>4, <2>1
  <2> QED
    BY <1>3, <2>2
<1>7. Len(n) = Len(o)
  BY <1>2, <1>3, <1>5, <1>6
<1>8. \A i \in 1 .. Len(n) : n[i] = o[i]
  BY <1>2, <1>3, <1>7
<1> QED
  BY <1>2, <1>3, <1>4, <1>7, <1>8

(* Mounts, addresses and ranges are texts.                                 *)
LEMMA MountsAreText ==
    ASSUME NEW F, "name" \in F, "mountpoint" \in F, NEW ms \in Seq([F -> Texts])
    PROVE  MountsText(ms) \in Texts
<1> DEFINE ts == [i \in DOMAIN ms |-> ms[i].name \o ms[i].mountpoint]
<1>1. ASSUME NEW m \in [F -> Texts] PROVE m.name \o m.mountpoint \in Texts
  <2>1. m.name \in Texts /\ m.mountpoint \in Texts
    OBVIOUS
  <2> QED
    BY <2>1, TextsAreMade
<1>2. ts \in Seq(Texts)
  <2>1. PICK n \in Nat : DOMAIN ms = 1 .. n /\ \A i \in 1 .. n : ms[i] \in [F -> Texts]
    OBVIOUS
  <2>2. \A i \in 1 .. n : ms[i].name \o ms[i].mountpoint \in Texts
    BY <1>1, <2>1
  <2> QED
    BY <2>1, <2>2
<1>3. FlattenSeq(ts) \in Texts
  <2> HIDE DEF ts
  <2> QED
    BY <1>2, Flattened DEF Texts
<1> QED
  BY <1>3 DEF MountsText

(* So are the range of a network and the subnet of its node.               *)
LEMMA RangesAreText ==
    ASSUME NEW c \in Senders, request[c] \in Requested, suffix[c] \in Seconds
    PROVE  RangeOf(c) \in Texts /\ SubnetOf(c) \in Texts
<1>1. 10 + (suffix[c] % 180) \in Nat
  BY RequestsAssumption
<1>2. Octet(suffix[c]) \in Atoms
  BY <1>1, AtomsOfTheClient DEF Octet
<1>3. \A w \in {"10", "0", "2", "/16", "/24"} : w \in Atoms
  BY AtomsOfTheClient DEF Words
<1>4. /\ <<"10", Octet(suffix[c]), "0", "0", "/16">> \in Texts
      /\ <<"10", Octet(suffix[c]), "2", "0", "/24">> \in Texts
  BY <1>2, <1>3, TextsAreMade
<1> QED
  BY <1>4, RequestTexts DEF RangeOf, SubnetOf, OrElse

(* The address of a VM in a new network is a text.                         *)
LEMMA AddressIsText ==
    ASSUME NEW c \in Senders, request[c] \in Requested, suffix[c] \in Seconds,
           Valid(request[c]), ~IsGateway(request[c]), request[c].net.create
    PROVE  VmIp(SubnetOf(c)) \in Texts
<1>1. PICK s : s = SubnetOf(c) /\ s \in Texts
  BY RangesAreText
<1>2. Len(s) = 5
  <2>1. CASE request[c].net.subnet = None
    <3>1. s = <<"10", Octet(suffix[c]), "2", "0", "/24">>
      BY <1>1, <2>1 DEF SubnetOf, OrElse
    <3> QED
      BY <3>1
  <2>2. CASE request[c].net.subnet # None
    BY <1>1, <2>2 DEF SubnetOf, OrElse, Valid, ValidNetwork, IsSubnet
  <2> QED
    BY <2>1, <2>2
<1>3. s[1] \in Atoms /\ s[2] \in Atoms /\ s[3] \in Atoms
  <2>1. \A A : \A t \in Seq(A) : \A i \in 1 .. Len(t) : t[i] \in A
    OBVIOUS
  <2>2. \A i \in 1 .. Len(s) : s[i] \in Atoms
    BY <1>1, <2>1, Zenon DEF Texts
  <2> HIDE DEF Atoms
  <2> QED
    BY <1>2, <2>2
<1>4. "5" \in Atoms
  BY AtomsOfTheClient DEF Words
<1> QED
  BY <1>1, <1>3, <1>4, TextsAreMade DEF VmIp

(* The workloads the client builds are texts.                              *)
LEMMA NetworkIsWritten ==
    ASSUME NEW c \in Senders, request[c] \in Requested, suffix[c] \in Seconds,
           NEW key \in Texts
    PROVE  IsWritten(NetworkWorkload(c, key))
<1>1. RangeOf(c) \in Texts /\ SubnetOf(c) \in Texts /\ NetworkName(c) \in Texts
  BY RangesAreText, NamesAreMarkFree, TextsAreMade
<1>2. \A w \in {"network", "network-light", "<nil>"} : w \in Atoms
  BY AtomsOfTheClient DEF Words
<1>3. <<"network">> \in Texts /\ <<"<nil>">> \in Texts
  BY <1>2, TextsAreMade
<1>4. ((IF request[c].kind = "vm" THEN RangeOf(c) ELSE <<"<nil>">>) \o SubnetOf(c)) \o key
         \in Texts
  BY <1>1, <1>3, TextsAreMade
<1>5. DOMAIN NoEnv = {}
  BY DEF NoEnv
<1> QED
  BY <1>1, <1>2, <1>3, <1>4, <1>5 DEF NetworkWorkload, Workload, IsWritten

(* So is the workload of a gateway.                                        *)
LEMMA GatewayIsWritten ==
    ASSUME NEW c \in Senders, request[c] \in Requested
    PROVE  IsWritten(GatewayWorkload(c))
<1>1. PICK r \in Requested : r = request[c]
  OBVIOUS
<1>2. r.name \in Texts /\ r.fqdn \in Texts /\ r.backends \in Seq(Texts) /\ r.kind \in Atoms
  BY RequestTexts, TextsAreMade, AtomsOfTheClient
<1>3. FlattenSeq(r.backends) \in Texts
  BY <1>2, Flattened DEF Texts
<1>4. <<"gateway">> \in Texts
  BY AtomsOfTheClient, TextsAreMade DEF Words
<1>5. (IF r.kind = "name" THEN r.name ELSE r.fqdn) \o FlattenSeq(r.backends) \in Texts
  BY <1>2, <1>3, TextsAreMade
<1>6. DOMAIN NoEnv = {}
  BY DEF NoEnv
<1> QED
  BY <1>1, <1>2, <1>4, <1>5, <1>6 DEF GatewayWorkload, Workload, IsWritten

(* So is the workload of a machine, whatever its seed and address.         *)
LEMMA MachineIsWritten ==
    ASSUME NEW c \in Senders, request[c] \in Requested, suffix[c] \in Seconds,
           vmNet[c] \in Texts, vmIp[c] \in Texts, NEW seed \in Texts
    PROVE  IsWritten(MachineWorkload(c, seed))
<1>1. PICK r \in Requested : r = request[c]
  OBVIOUS
<1>2. /\ r.flist \in Texts /\ r.entrypoint \in Texts
      /\ r.volumes \in Seq([VolumeFields -> Texts])
      /\ r.mounts \in Seq([{"name", "mountpoint"} -> Texts])
      /\ DOMAIN r.env \subseteq Nat /\ \A k \in DOMAIN r.env : r.env[k] \in Texts
  BY RequestTexts
<1>3. MountsText(r.volumes) \in Texts
  <2>1. "name" \in VolumeFields /\ "mountpoint" \in VolumeFields
    BY DEF VolumeFields
  <2> QED
    BY <1>2, <2>1, MountsAreText
<1>4. MountsText(r.mounts) \in Texts
  <2>1. PICK F : F = {"name", "mountpoint"}
    OBVIOUS
  <2> QED
    BY <1>2, <2>1, MountsAreText
<1>5. VmName(c) \in Texts
  BY NamesAreMarkFree, TextsAreMade
<1>6. \A w \in {"zmachine", "zmachine-light", "ip"} : w \in Atoms
  BY AtomsOfTheClient DEF Words
<1>7. PublicIpName(VmName(c)) \in Texts
  <2>1. \A t \in Texts : \A a \in Atoms : Append(t, a) \in Texts
    <3> HIDE DEF Atoms
    <3> QED
      BY DEF Texts
  <2> QED
    BY <1>5, <1>6, <2>1 DEF PublicIpName
<1>8. <<>> \in Texts
  BY TextsAreMade
<1> DEFINE ip == IF IpWorkloads(c) = <<>> THEN <<>> ELSE PublicIpName(VmName(c))
           mounts == IF r.kind = "light" THEN MountsText(r.mounts) ELSE <<>>
           t1 == r.flist \o ip
           t2 == t1 \o vmNet[c]
           t3 == t2 \o vmIp[c]
           t4 == t3 \o seed
           t5 == t4 \o MountsText(r.volumes)
           t6 == t5 \o mounts
           t7 == t6 \o r.entrypoint
<1>9. t7 \in Texts
  <2>1. ip \in Texts /\ mounts \in Texts
    BY <1>4, <1>7, <1>8
  <2> HIDE DEF ip, mounts
  <2>2. t3 \in Texts
    BY <1>2, <2>1, TextsAreMade
  <2>3. t5 \in Texts
    <3> HIDE DEF t3
    <3> QED
      BY <1>3, <2>2, TextsAreMade
  <2> HIDE DEF t5
  <2> QED
    BY <1>2, <2>1, <2>3, TextsAreMade
<1>10. PICK w : w = MachineWorkload(c, seed)
  OBVIOUS
<1>11. /\ w.name = VmName(c) /\ w.description = <<>> /\ w.env = r.env /\ w.data = t7
       /\ w.type \in {"zmachine", "zmachine-light"}
  BY <1>1, <1>10 DEF MachineWorkload, Workload
<1> HIDE DEF t7
<1>12. IsWritten(w)
  BY <1>2, <1>5, <1>6, <1>8, <1>9, <1>11 DEF IsWritten
<1> QED
  BY <1>10, <1>12

(* So are those of its public IP and its volumes.                          *)
LEMMA OthersAreWritten ==
    ASSUME NEW c \in Senders, request[c] \in Requested, suffix[c] \in Seconds
    PROVE  /\ Ips(c) = 1 => IsWritten(IpWorkloads(c)[1])
           /\ \A i \in 1 .. Volumes(c) : IsWritten(VolumeWorkload(request[c].volumes[i]))
<1>1. DOMAIN NoEnv = {} /\ <<>> \in Texts
  BY TextsAreMade DEF NoEnv
<1>2. VmName(c) \in Texts
  BY NamesAreMarkFree, TextsAreMade
<1>3. \A w \in {"ip", "volume"} : w \in Atoms
  BY AtomsOfTheClient DEF Words
<1>4. ASSUME Ips(c) = 1 PROVE IsWritten(IpWorkloads(c)[1])
  <2>1. PublicIpName(VmName(c)) \in Texts
    <3>1. \A t \in Texts : \A a \in Atoms : Append(t, a) \in Texts
      <4> HIDE DEF Atoms
      <4> QED
        BY DEF Texts
    <3> QED
      BY <1>2, <1>3, <3>1 DEF PublicIpName
  <2>2. request[c].v4 \in BOOLEAN /\ request[c].v6 \in BOOLEAN
    BY RequestsAssumption
  <2>3. <<ToString(request[c].v4), ToString(request[c].v6)>> \in Texts
    BY <2>2, AtomsOfTheClient, TextsAreMade
  <2>4. PICK w : w = IpWorkloads(c)[1]
    OBVIOUS
  <2>5. /\ w.type = "ip" /\ w.name = PublicIpName(VmName(c)) /\ w.description = <<>>
        /\ w.data = <<ToString(request[c].v4), ToString(request[c].v6)>> /\ w.env = NoEnv
    BY <1>4, <2>4 DEF Ips, IpWorkloads, Workload
  <2>6. IsWritten(w)
    BY <1>1, <1>3, <2>1, <2>3, <2>5 DEF IsWritten
  <2> QED
    BY <2>4, <2>6
<1>5. ASSUME NEW i \in 1 .. Volumes(c)
      PROVE  IsWritten(VolumeWorkload(request[c].volumes[i]))
  <2>1. request[c].volumes \in Seq([VolumeFields -> Texts])
    BY RequestTexts
  <2>2. PICK v \in [VolumeFields -> Texts] : v = request[c].volumes[i]
    BY <2>1 DEF Volumes
  <2>3. v.name \in Texts /\ v.description \in Texts /\ v.size \in Texts
    BY DEF VolumeFields
  <2>4. IsWritten(VolumeWorkload(v))
    BY <1>1, <1>3, <2>3 DEF VolumeWorkload, Workload, IsWritten
  <2> QED
    BY <2>2, <2>4
<1> QED
  BY <1>4, <1>5

(* n workloads that are texts, with at most one environment.               *)
AllWritten(ws, n) ==
    /\ n \in Nat \ {0} /\ DOMAIN ws = 1 .. n /\ Len(ws) = n
    /\ \A i \in 1 .. n :
          /\ IsWritten(ws[i])
          /\ DOMAIN ws[i].env \in {{}, UNION {DOMAIN ws[j].env : j \in DOMAIN ws}}

(* Those of a VM are such, and the machine has the name of the VM.         *)
LEMMA VmIsWritten ==
    ASSUME NEW c \in Senders, request[c] \in Requested, suffix[c] \in Seconds,
           vmNet[c] \in Texts, vmIp[c] \in Texts, NEW seed \in Texts, NEW ws,
           ws = VmWorkloads(c, seed)
    PROVE  \E n : AllWritten(ws, n) /\ ws[n].name = VmName(c)
<1> DEFINE n == Ips(c) + Volumes(c) + 1
           K == DOMAIN request[c].env
<1>1. /\ Ips(c) \in {0, 1} /\ Volumes(c) \in Nat
      /\ Len(ws) = Ips(c) + Volumes(c) + 1 /\ DOMAIN ws = 1 .. (Ips(c) + Volumes(c) + 1)
      /\ Ips(c) = 1 => ws[1] = IpWorkloads(c)[1]
      /\ \A i \in 1 .. Volumes(c) : ws[Ips(c) + i] = VolumeWorkload(request[c].volumes[i])
      /\ ws[Ips(c) + Volumes(c) + 1] = MachineWorkload(c, seed)
  BY VmWorkloadList
<1>2. n \in Nat \ {0} /\ DOMAIN ws = 1 .. n /\ Len(ws) = n
  BY <1>1
<1>3. DOMAIN NoEnv = {}
  BY DEF NoEnv
<1>4. ASSUME NEW i \in 1 .. n
      PROVE  IsWritten(ws[i]) /\ (i # n => DOMAIN ws[i].env = {})
  <2>1. CASE i <= Ips(c)
    <3>1. i = 1 /\ Ips(c) = 1 /\ i # n
      BY <1>1, <2>1
    <3>2. ws[i].env = NoEnv
      BY <1>1, <3>1 DEF Ips, IpWorkloads, Workload
    <3> QED
      BY <1>1, <1>3, <3>1, <3>2, OthersAreWritten
  <2>2. CASE i = n
    <3>1. ws[i] = MachineWorkload(c, seed)
      BY <1>1, <2>2
    <3> QED
      BY <2>2, <3>1, MachineIsWritten
  <2>3. CASE i > Ips(c) /\ i # n
    <3>1. PICK k \in 1 .. Volumes(c) : i = Ips(c) + k
      <4>1. i - Ips(c) \in 1 .. Volumes(c) /\ i = Ips(c) + (i - Ips(c))
        BY <1>1, <2>3
      <4> QED
        BY <4>1
    <3>2. ws[i] = VolumeWorkload(request[c].volumes[k])
      BY <1>1, <3>1
    <3>3. ws[i].env = NoEnv
      BY <3>2 DEF VolumeWorkload, Workload
    <3> QED
      BY <1>3, <2>3, <3>2, <3>3, OthersAreWritten
  <2> QED
    BY <1>1, <2>1, <2>2, <2>3
<1>5. ws[n].env = request[c].env /\ ws[n].name = VmName(c)
  BY <1>1 DEF MachineWorkload, Workload
<1> HIDE DEF n
<1>6. UNION {DOMAIN ws[j].env : j \in DOMAIN ws} = DOMAIN ws[n].env
  <2>1. n \in DOMAIN ws
    BY <1>2
  <2> QED
    BY <1>2, <1>4, <2>1
<1>7. \A i \in 1 .. n : /\ IsWritten(ws[i])
                        /\ DOMAIN ws[i].env \in {{}, UNION {DOMAIN ws[j].env : j \in DOMAIN ws}}
  BY <1>4, <1>6
<1> QED
  BY <1>2, <1>5, <1>7 DEF AllWritten

(* What the chain was given begins with its kind and its name.             *)
Registered(h) ==
    /\ h.kind \in Atoms /\ h.name \in MarkFree
    /\ \E project, rest \in Texts : h.hash = Opening(h.kind, h.name, project, rest)

TextInv ==
    \A c \in Senders :
        /\ doing[c] # "idle" => suffix[c] \in Seconds
        /\ doing[c] = "build_network" => request[c].net.create
        /\ vmNet[c] \in Texts /\ vmIp[c] \in Texts
        /\ \A h \in chainHash[c] : Registered(h)

(* The kind is the second atom of the metadata.                            *)
LEMMA KindIsSecond ==
    ASSUME NEW kind \in Atoms, NEW name \in MarkFree, NEW project \in Texts
    PROVE  Metadata(kind, name, project)[2] = kind
<1> DEFINE a == <<"{", kind, Comma>>
           b == a \o name
           c == b \o <<Comma>>
           d == c \o project
           m == d \o <<"}">>
<1>1. "{" \in Atoms /\ "}" \in Atoms /\ Comma \in Atoms
  BY AtomsOfTheClient DEF Words
<1>2. /\ a \in Texts /\ <<Comma>> \in Texts /\ <<"}">> \in Texts /\ name \in Texts
  BY <1>1, TextsAreMade
<1>3. a[2] = kind /\ Len(a) = 3
  OBVIOUS
<1>4. Metadata(kind, name, project) = m
  BY DEF Metadata
<1>5. m = d \o <<"}">> /\ b = a \o name /\ c = b \o <<Comma>> /\ d = c \o project
  OBVIOUS
<1> HIDE DEF a, b, c, d, m
<1>6. \A u, s, t : IsJoined(u, s, t) /\ Len(s) >= 2 =>
                        u \in Texts /\ u[2] = s[2] /\ Len(u) >= 2
  BY DEF IsJoined
<1>7. b \in Texts /\ b[2] = kind /\ Len(b) >= 2
  <2>1. IsJoined(b, a, name)
    BY <1>2, <1>5, Joined
  <2> QED
    BY <1>3, <1>6, <2>1
<1>8. c \in Texts /\ c[2] = kind /\ Len(c) >= 2
  BY <1>2, <1>5, <1>6, <1>7, Joined
<1>9. d \in Texts /\ d[2] = kind /\ Len(d) >= 2
  BY <1>5, <1>6, <1>8, Joined
<1>10. m[2] = kind
  BY <1>2, <1>5, <1>6, <1>9, Joined
<1> QED
  BY <1>4, <1>10

(* What Register adds to the chain begins with its kind and its name.      *)
LEMMA RegisterOpens ==
    ASSUME HashInv, TextInv, NEW c \in Senders, NEW kind \in Atoms, NEW name \in MarkFree,
           NEW project \in Texts, NEW ws, NEW next, NEW n,
           AllWritten(ws, n), ws[n].name = name,
           IsFiniteSet(UNION {DOMAIN ws[j].env : j \in DOMAIN ws}),
           Register(c, Metadata(kind, name, project), ws, next)
    PROVE  /\ \A h \in chainHash'[c] : Registered(h)
           /\ \A e \in Senders : e # c => chainHash'[e] = chainHash[e] /\ doing'[e] = doing[e]
<1> DEFINE metadata == Metadata(kind, name, project)
           d == [NoDeployment EXCEPT !.metadata = metadata, !.workloads = ws]
<1>1. metadata[2] = kind
  BY KindIsSecond
<1> HIDE DEF metadata
<1>2. /\ d.workloads = ws /\ d.metadata = metadata /\ DOMAIN d = DeploymentFields
  BY DEF NoDeployment, DeploymentFields
<1>3. PICK v, w \in Walks(d) :
        /\ deployment' = [deployment EXCEPT ![c] = [d EXCEPT !.signature = Challenge(d, v)]]
        /\ chainHash' = [chainHash EXCEPT ![c] = @ \union
              {[kind |-> metadata[2], name |-> ws[Len(ws)].name,
                hash |-> Challenge(deployment'[c], w)]}]
        /\ doing' = [doing EXCEPT ![c] = next]
  BY DEF Register, metadata
<1> DEFINE e == [d EXCEPT !.signature = Challenge(d, v)]
<1>4. /\ e.workloads = ws /\ e.metadata = metadata
  BY <1>2 DEF DeploymentFields
<1>5. deployment'[c] = e
  BY <1>3 DEF HashInv
<1> HIDE DEF d, e
<1>6. Walks(d) = Walks(e) /\ Keys(d) = Keys(e)
  BY <1>2, <1>4, ChallengeOfText
<1>7. Keys(e) = UNION {DOMAIN ws[j].env : j \in DOMAIN ws}
  BY <1>4 DEF Keys
<1>8. PICK rest \in Texts : Challenge(e, w) = <<"0", "twin">> \o e.metadata \o <<"0">> \o rest
  BY <1>3, <1>4, <1>6, <1>7, ChallengeOpens DEF AllWritten
<1>9. Challenge(e, w) = Opening(kind, name, project, rest)
  BY <1>4, <1>8 DEF Opening, metadata
<1>10. PICK g : g = [kind |-> metadata[2], name |-> ws[Len(ws)].name,
                     hash |-> Challenge(deployment'[c], w)]
  OBVIOUS
<1>11. g.kind = kind /\ g.name = name /\ g.hash = Opening(kind, name, project, rest)
  BY <1>1, <1>5, <1>9, <1>10 DEF AllWritten
<1>12. Registered(g)
  BY <1>11 DEF Registered
<1>13. chainHash' = [chainHash EXCEPT ![c] = @ \union {g}]
  BY <1>3, <1>10
<1>14. /\ chainHash'[c] = chainHash[c] \union {g}
       /\ \A k \in Senders : k # c => chainHash'[k] = chainHash[k] /\ doing'[k] = doing[k]
  BY <1>3, <1>13 DEF HashInv
<1> QED
  BY <1>12, <1>14 DEF TextInv

(* So it does for the one workload of a network or a gateway.              *)
LEMMA OneIsRegistered ==
    ASSUME HashInv, TextInv, NEW c \in Senders, NEW kind \in Atoms, NEW project \in Texts,
           NEW w, IsWritten(w), w.name \in MarkFree, DOMAIN w.env = {}, NEW next,
           Register(c, Metadata(kind, w.name, project), <<w>>, next)
    PROVE  /\ \A h \in chainHash'[c] : Registered(h)
           /\ \A e \in Senders : e # c => chainHash'[e] = chainHash[e] /\ doing'[e] = doing[e]
<1>1. PICK ws, n : ws = <<w>> /\ n = 1
  OBVIOUS
<1>2. /\ n \in Nat \ {0} /\ DOMAIN ws = 1 .. n /\ Len(ws) = n /\ ws[n] = w
      /\ \A i \in 1 .. n : ws[i] = w
  BY <1>1
<1>3. UNION {DOMAIN ws[j].env : j \in DOMAIN ws} = {}
  BY <1>2
<1>4. IsFiniteSet(UNION {DOMAIN ws[j].env : j \in DOMAIN ws})
  BY <1>3, FS_EmptySet
<1>5. AllWritten(ws, n)
  BY <1>2 DEF AllWritten
<1>6. Register(c, Metadata(kind, w.name, project), ws, next)
  BY <1>1
<1> QED
  BY <1>2, <1>4, <1>5, <1>6, RegisterOpens

(* No step of a request gives the chain anything else.                     *)
LEMMA TextStep == HashInv /\ OwnInv /\ TextInv /\ [RequestsNext]_requestVars => TextInv'
<1> SUFFICES ASSUME HashInv, OwnInv, TextInv, [RequestsNext]_requestVars PROVE TextInv'
  OBVIOUS
<1>1. CASE UNCHANGED requestVars
  BY <1>1 DEF requestVars, TextInv
<1>2. ASSUME NEW c \in Senders, Begin(c) PROVE TextInv'
  <2>1. \A e \in Senders : /\ suffix'[e] \in Seconds \/ (e # c /\ suffix'[e] = suffix[e])
                           /\ e # c => doing'[e] = doing[e]
    BY <1>2 DEF Begin, HashInv, OwnInv
  <2>2. request[c].net.name \in Texts /\ request[c].net.ip \in Texts
    BY RequestTexts, TextsAreMade DEF HashInv
  <2>3. \A e \in Senders : vmNet'[e] \in Texts /\ vmIp'[e] \in Texts
    BY <1>2, <2>2 DEF Begin, TextInv, OwnInv
  <2>4. UNCHANGED <<request, chainHash>>
    BY <1>2 DEF Begin
  <2>5. doing'[c] = "build_network" => request[c].net.create
    BY <1>2 DEF Begin, HashInv
  <2> QED
    BY <2>1, <2>3, <2>4, <2>5 DEF TextInv
<1>3. ASSUME NEW c \in Senders, BuildNetwork(c) PROVE TextInv'
  <2>1. PICK random \in Secrets :
          LET w == NetworkWorkload(c, OrElse(request[c].net.key, random))
          IN Register(c, Metadata(w.type, w.name, <<"Network">>), <<w>>, "network")
    BY <1>3 DEF BuildNetwork
  <2>2. PICK key : key = OrElse(request[c].net.key, random)
    OBVIOUS
  <2>3. request[c] \in Requested /\ suffix[c] \in Seconds /\ doing[c] = "build_network"
    BY <1>3 DEF BuildNetwork, HashInv, TextInv
  <2>4. key \in Texts
    <3>1. random \in Texts
      BY RequestsAssumption, SeqGrows, Zenon DEF Text, Texts, Atoms
    <3> QED
      BY <2>2, <2>3, <3>1, RequestTexts DEF OrElse
  <2>5. PICK w : w = NetworkWorkload(c, key)
    OBVIOUS
  <2>6. Register(c, Metadata(w.type, w.name, <<"Network">>), <<w>>, "network")
    BY <2>1, <2>2, <2>5
  <2>7. /\ IsWritten(w) /\ w.name \in MarkFree /\ w.type \in Atoms /\ DOMAIN w.env = {}
    <3>1. IsWritten(w)
      BY <2>3, <2>4, <2>5, NetworkIsWritten
    <3>2. w.name = NetworkName(c) /\ w.env = NoEnv
      BY <2>5 DEF NetworkWorkload, Workload
    <3> QED
      BY <2>3, <3>1, <3>2, NamesAreMarkFree DEF IsWritten, NoEnv
  <2>8. <<"Network">> \in Texts
    BY AtomsOfTheClient, TextsAreMade DEF Words
  <2>9. /\ \A h \in chainHash'[c] : Registered(h)
        /\ \A e \in Senders : e # c => chainHash'[e] = chainHash[e] /\ doing'[e] = doing[e]
    BY <2>6, <2>7, <2>8, OneIsRegistered
  <2>10. Valid(request[c]) /\ ~IsGateway(request[c])
    BY <2>3 DEF OwnInv, Own
  <2>11. vmNet'[c] \in Texts /\ vmIp'[c] \in Texts
    <3>1. NetworkName(c) \in Texts
      BY <2>3, NamesAreMarkFree, TextsAreMade
    <3>2. VmIp(SubnetOf(c)) \in Texts
      BY <2>3, <2>10, AddressIsText DEF TextInv
    <3> QED
      BY <1>3, <3>1, <3>2 DEF BuildNetwork, OwnInv
  <2>12. /\ UNCHANGED <<request, suffix>> /\ doing'[c] = "network"
         /\ \A e \in Senders : e # c => vmNet'[e] = vmNet[e] /\ vmIp'[e] = vmIp[e]
    <3>1. doing'[c] = "network"
      BY <2>6, RegisterLists
    <3> QED
      BY <1>3, <3>1 DEF BuildNetwork, OwnInv
  <2> QED
    BY <2>3, <2>9, <2>11, <2>12 DEF TextInv
<1>4. ASSUME NEW c \in Senders, BuildVm(c) PROVE TextInv'
  <2>1. PICK random \in Secrets :
          LET seed == OrElse(request[c].seed,
                             IF request[c].kind = "light" THEN random ELSE <<>>)
          IN Register(c, Metadata(request[c].kind, VmName(c), VmName(c)),
                      VmWorkloads(c, seed), "vm")
    BY <1>4 DEF BuildVm
  <2>2. PICK seed : seed = OrElse(request[c].seed,
                                  IF request[c].kind = "light" THEN random ELSE <<>>)
    OBVIOUS
  <2>3. request[c] \in Requested /\ suffix[c] \in Seconds
    BY <1>4 DEF BuildVm, HashInv, TextInv
  <2>4. seed \in Texts
    <3>1. random \in Texts
      BY RequestsAssumption, SeqGrows, Zenon DEF Text, Texts, Atoms
    <3> QED
      BY <2>2, <2>3, <3>1, RequestTexts, TextsAreMade DEF OrElse
  <2>5. PICK ws : ws = VmWorkloads(c, seed)
    OBVIOUS
  <2>6. PICK kind, name : kind = request[c].kind /\ name = VmName(c)
    OBVIOUS
  <2>7. Register(c, Metadata(kind, name, name), ws, "vm")
    BY <2>1, <2>2, <2>5, <2>6
  <2>8. kind \in Atoms /\ name \in MarkFree /\ name \in Texts
    BY <2>3, <2>6, NamesAreMarkFree, RequestTexts, AtomsOfTheClient, TextsAreMade
  <2>9. PICK n : AllWritten(ws, n) /\ ws[n].name = name
    <3>1. vmNet[c] \in Texts /\ vmIp[c] \in Texts
      BY DEF TextInv
    <3> QED
      BY <2>3, <2>4, <2>5, <2>6, <3>1, VmIsWritten
  <2>10. IsFiniteSet(UNION {DOMAIN ws[j].env : j \in DOMAIN ws})
    BY <2>3, <2>5, VmKeysAreFinite
  <2>11. /\ \A h \in chainHash'[c] : Registered(h)
         /\ \A e \in Senders : e # c => chainHash'[e] = chainHash[e] /\ doing'[e] = doing[e]
    BY <2>7, <2>8, <2>9, <2>10, RegisterOpens
  <2>12. UNCHANGED <<request, suffix, vmNet, vmIp>> /\ doing'[c] = "vm"
    BY <1>4, <2>7, RegisterLists DEF BuildVm
  <2> QED
    BY <2>3, <2>11, <2>12 DEF TextInv
<1>5. ASSUME NEW c \in Senders, BuildGateway(c) PROVE TextInv'
  <2>1. PICK w, kind : w = GatewayWorkload(c) /\ kind = request[c].kind
    OBVIOUS
  <2>2. request[c] \in Requested /\ suffix[c] \in Seconds
    BY <1>5 DEF BuildGateway, HashInv, TextInv
  <2>3. w.name = request[c].name /\ w.env = NoEnv
    BY <2>1 DEF GatewayWorkload, Workload
  <2>4. /\ kind \in Atoms /\ w.name \in MarkFree /\ w.name \in Texts
        /\ IsWritten(w) /\ DOMAIN w.env = {}
    BY <2>1, <2>2, <2>3, RequestTexts, AtomsOfTheClient, TextsAreMade, GatewayIsWritten
       DEF NoEnv
  <2>5. Register(c, Metadata(kind, w.name, w.name), <<w>>, "gateway")
    BY <1>5, <2>1, <2>3 DEF BuildGateway
  <2>6. /\ \A h \in chainHash'[c] : Registered(h)
        /\ \A e \in Senders : e # c => chainHash'[e] = chainHash[e] /\ doing'[e] = doing[e]
    BY <2>4, <2>5, OneIsRegistered
  <2>7. UNCHANGED <<request, suffix, vmNet, vmIp>> /\ doing'[c] = "gateway"
    BY <1>5, <2>5, RegisterLists DEF BuildGateway
  <2> QED
    BY <2>2, <2>6, <2>7 DEF TextInv
<1>6. ASSUME NEW c \in Senders, SendDeployment(c) \/ ReadBack(c) PROVE TextInv'
  <2>1. /\ UNCHANGED <<request, suffix, vmNet, vmIp, chainHash>>
        /\ doing[c] # "idle" /\ doing'[c] # "build_network"
        /\ \A e \in Senders : e # c => doing'[e] = doing[e]
    BY <1>6 DEF SendDeployment, ReadBack, HashInv
  <2> QED
    BY <2>1 DEF TextInv
<1> QED
  BY <1>1, <1>2, <1>3, <1>4, <1>5, <1>6 DEF RequestsNext

(* For every request and every clock: however calls interleave, no hash    *)
(* one of them gives the chain is that of a deployment of another kind or  *)
(* name, of its own or of another call.                                    *)
THEOREM HashesTellApart == RequestsSpec => []HashTellsApart
<1>1. RequestsInit => HashInv /\ OwnInv /\ TextInv
  <2> SUFFICES ASSUME RequestsInit PROVE HashInv /\ OwnInv /\ TextInv
    OBVIOUS
  <2>1. HashInv
    BY DEF RequestsInit, HashInv
  <2>2. \A c \in Senders : doing[c] = "idle"
    BY DEF RequestsInit
  <2>3. OwnInv
    BY <2>2 DEF RequestsInit, OwnInv, Own
  <2>4. TextInv
    BY <2>2, TextsAreMade DEF RequestsInit, TextInv
  <2> QED
    BY <2>1, <2>3, <2>4
<1>2. TextInv => HashTellsApart
  <2> SUFFICES ASSUME TextInv, NEW c \in Senders, NEW e \in Senders, NEW h \in chainHash[c],
                      NEW k \in chainHash[e], h.hash = k.hash
               PROVE  h.kind = k.kind /\ h.name = k.name
    BY DEF HashTellsApart
  <2>1. Registered(h) /\ Registered(k)
    BY DEF TextInv
  <2>2. PICK p, r \in Texts : h.hash = Opening(h.kind, h.name, p, r)
    BY <2>1 DEF Registered
  <2>3. PICK q, s \in Texts : k.hash = Opening(k.kind, k.name, q, s)
    BY <2>1 DEF Registered
  <2>4. PICK kind, name : kind = h.kind /\ name = h.name
    OBVIOUS
  <2>5. PICK other, another : other = k.kind /\ another = k.name
    OBVIOUS
  <2>6. /\ kind \in Atoms /\ name \in MarkFree /\ other \in Atoms /\ another \in MarkFree
        /\ Opening(kind, name, p, r) = Opening(other, another, q, s)
    BY <2>1, <2>2, <2>3, <2>4, <2>5 DEF Registered
  <2>7. kind = other /\ name = another
    BY <2>6, OpeningsTellApart
  <2> QED
    BY <2>4, <2>5, <2>7
<1> QED
  BY <1>1, <1>2, HashStep, OwnStep, TextStep, PTL DEF RequestsSpec

-----------------------------------------------------------------------------
(* ClientConfig.                                                           *)

IsUrl(u) == DOMAIN u = {"host", "slashes"}
IsUrlList(us) == /\ \E n \in Nat : DOMAIN us = 1 .. n
                 /\ \A i \in DOMAIN us : IsUrl(us[i])

(* The first URL of a list that is not blank, as it is normalized.         *)
Primary(us) ==
    IF Usable(us) = {} THEN Blank
    ELSE NormalizeUrl(us[CHOOSE i \in Usable(us) : \A j \in Usable(us) : i <= j])

(* trim_end_matches leaves a URL whose host is blank if it was.            *)
LEMMA UrlIsNormalized ==
    ASSUME NEW u, IsUrl(u)
    PROVE  /\ IsUrl(NormalizeUrl(u)) /\ NormalizeUrl(u).host = u.host
           /\ NormalizeUrl(u).slashes = 0
           /\ u.host = "" <=> NormalizeUrl(u) = Blank
<1>1. /\ NormalizeUrl(u).host = u.host /\ NormalizeUrl(u).slashes = 0
      /\ DOMAIN NormalizeUrl(u) = {"host", "slashes"}
  BY DEF IsUrl, NormalizeUrl
<1>2. NormalizeUrl(u) = [host |-> u.host, slashes |-> 0]
  BY DEF IsUrl, NormalizeUrl
<1>3. u.host = "" => NormalizeUrl(u) = Blank
  BY <1>2 DEF Blank
<1>4. u.host # "" => NormalizeUrl(u) # Blank
  <2>1. Blank.host = ""
    BY DEF Blank
  <2> QED
    BY <1>1, <2>1
<1> QED
  BY <1>1, <1>3, <1>4 DEF IsUrl

(* A list of URLs has finitely many usable places.                         *)
LEMMA UsableIsFinite ==
    ASSUME NEW us, IsUrlList(us)
    PROVE  /\ Usable(us) \subseteq Nat /\ IsFiniteSet(Usable(us))
           /\ Cardinality(Usable(us)) \in Nat
           /\ Cardinality(Usable(us)) = 0 <=> Usable(us) = {}
<1>1. PICK n \in Nat : DOMAIN us = 1 .. n
  BY DEF IsUrlList
<1>2. IsFiniteSet(1 .. n)
  BY FS_Interval
<1>3. Usable(us) \subseteq 1 .. n
  BY <1>1 DEF Usable
<1>4. IsFiniteSet(Usable(us))
  BY <1>2, <1>3, FS_Subset
<1> QED
  BY <1>3, <1>4, FS_CardinalityType, FS_EmptySet

(* The first of the usable places is the least.                            *)
LEMMA FirstPlace ==
    ASSUME NEW us, IsUrlList(us), Usable(us) # {}
    PROVE  \E i \in Usable(us) : /\ UsablePlace(us, 1) = i /\ \A j \in Usable(us) : i <= j
                                 /\ i = CHOOSE k \in Usable(us) : \A j \in Usable(us) : k <= j
<1> DEFINE S == Usable(us)
<1>1. S \subseteq Nat /\ IsFiniteSet(S) /\ S # {}
  BY UsableIsFinite
<1> HIDE DEF S
<1>2. PICK i \in S : \A j \in S : i <= j
  BY <1>1, LeastExists
<1>3. {j \in S : j <= i} = {i}
  <2>1. \A j \in S : j <= i => j = i
    BY <1>1, <1>2
  <2>2. i <= i
    BY <1>1
  <2> QED
    BY <2>1, <2>2
<1>4. Cardinality({j \in S : j <= i}) = 1
  BY <1>3, FS_Singleton
<1>5. ASSUME NEW k \in S, Cardinality({j \in S : j <= k}) = 1
      PROVE  k = i
  <2> DEFINE T == {j \in S : j <= k}
  <2>1. k \in T /\ i \in T
    BY <1>1, <1>2
  <2>2. T \subseteq S /\ Cardinality(T) = 1
    BY <1>5
  <2> HIDE DEF T
  <2>3. IsFiniteSet(T)
    BY <1>1, <2>2, FS_Subset
  <2>4. PICK x : T = {x}
    BY <2>2, <2>3, FS_Singleton
  <2> QED
    BY <2>1, <2>4
<1>6. (CHOOSE k \in S : Cardinality({j \in S : j <= k}) = 1) = i
  BY <1>4, <1>5
<1>7. ASSUME NEW k \in S, \A j \in S : k <= j
      PROVE  k = i
  BY <1>1, <1>2, <1>7
<1>8. (CHOOSE k \in S : \A j \in S : k <= j) = i
  BY <1>2, <1>7
<1> QED
  BY <1>2, <1>6, <1>8 DEF UsablePlace, S

(* Every number up to how many there are is the rank of a usable place.    *)
LEMMA PlacesAreUsable ==
    ASSUME NEW us, IsUrlList(us), NEW k \in 1 .. Cardinality(Usable(us))
    PROVE  UsablePlace(us, k) \in Usable(us)
<1> DEFINE S == Usable(us)
           Upto(i) == {j \in S : j <= i}
           m == Cardinality(S)
           rank == [i \in S |-> Cardinality(Upto(i))]
<1>1. S \subseteq Nat /\ IsFiniteSet(S) /\ m \in Nat
  BY UsableIsFinite
<1> HIDE DEF S
<1>2. ASSUME NEW i \in S
      PROVE  /\ IsFiniteSet(Upto(i)) /\ Cardinality(Upto(i)) \in 1 .. m
  <2>1. Upto(i) \subseteq S /\ i \in Upto(i)
    BY <1>1
  <2> HIDE DEF Upto
  <2>2. IsFiniteSet(Upto(i)) /\ Cardinality(Upto(i)) <= m
    BY <1>1, <2>1, FS_Subset
  <2>3. Cardinality(Upto(i)) \in Nat /\ Cardinality(Upto(i)) # 0
    BY <2>1, <2>2, FS_CardinalityType, FS_EmptySet
  <2> QED
    BY <1>1, <2>2, <2>3
<1>3. ASSUME NEW i \in S, NEW j \in S, i < j
      PROVE  Cardinality(Upto(i)) # Cardinality(Upto(j))
  <2>1. Upto(i) \subseteq Upto(j) /\ j \in Upto(j) /\ j \notin Upto(i)
    <3>1. \A x \in S : x <= i => x <= j
      BY <1>1, <1>3
    <3>2. j <= j /\ ~(j <= i)
      BY <1>1, <1>3
    <3> QED
      BY <3>1, <3>2
  <2>2. IsFiniteSet(Upto(j))
    BY <1>2
  <2> HIDE DEF Upto
  <2> QED
    BY <2>1, <2>2, FS_Subset
<1> HIDE DEF m
<1>4. rank \in [S -> 1 .. m]
  BY <1>2
<1>5. \A i, j \in S : i # j => rank[i] # rank[j]
  <2> TAKE i \in S, j \in S
  <2>1. i # j => i < j \/ j < i
    BY <1>1
  <2>2. rank[i] = Cardinality(Upto(i)) /\ rank[j] = Cardinality(Upto(j))
    OBVIOUS
  <2> HIDE DEF rank, Upto
  <2> QED
    BY <1>3, <2>1, <2>2
<1>6. IsFiniteSet(1 .. m) /\ Cardinality(1 .. m) = m
  <2>1. /\ IsFiniteSet(1 .. m)
        /\ Cardinality(1 .. m) = IF 1 > m THEN 0 ELSE m - 1 + 1
    BY <1>1, FS_Interval
  <2> QED
    BY <1>1, <2>1
<1> HIDE DEF rank
<1>7. rank \in Injection(S, 1 .. m)
  BY <1>4, <1>5 DEF Injection, IsInjective
<1>8. rank \in Surjection(S, 1 .. m)
  <2>1. Cardinality(S) = Cardinality(1 .. m)
    BY <1>6 DEF m
  <2> QED
    BY <1>1, <1>6, <1>7, <2>1, FS_Injection
<1>9. k \in 1 .. m
  BY DEF m, S
<1>10. \E i \in S : rank[i] = k
  BY <1>8, <1>9 DEF Surjection
<1>11. \E i \in S : Cardinality(Upto(i)) = k
  BY <1>10 DEF rank
<1> QED
  BY <1>11 DEF UsablePlace, S

(* normalize_urls leaves a list whose first URL is the primary one.        *)
LEMMA NormalizedList ==
    ASSUME NEW us, IsUrlList(us)
    PROVE  /\ IsUrlList(NormalizeUrls(us)) /\ FirstUrl(NormalizeUrls(us)) = Primary(us)
           /\ Primary(NormalizeUrls(us)) = Primary(us)
           /\ IsUrl(Primary(us)) /\ Primary(us).slashes = 0
           /\ NormalizeUrl(Primary(us)) = Primary(us)
           /\ Usable(us) # {} => Primary(us).host # ""
<1> DEFINE m == Cardinality(Usable(us))
           vs == NormalizeUrls(us)
<1>1. m \in Nat /\ (m = 0 <=> Usable(us) = {})
  BY UsableIsFinite
<1>2. /\ DOMAIN vs = 1 .. m
      /\ \A k \in 1 .. m : vs[k] = NormalizeUrl(us[UsablePlace(us, k)])
  BY DEF NormalizeUrls
<1> HIDE DEF vs, m
<1>3. IsUrl(Blank) /\ Blank.slashes = 0 /\ NormalizeUrl(Blank) = Blank
  <2>1. IsUrl(Blank) /\ Blank.slashes = 0 /\ Blank.host = ""
    BY DEF IsUrl, Blank
  <2> QED
    BY <2>1, UrlIsNormalized
<1>4. CASE Usable(us) = {}
  <2>1. DOMAIN vs = {} /\ m = 0
    BY <1>1, <1>2, <1>4
  <2>2. vs = <<>>
    <3>1. vs = [k \in 1 .. 0 |-> NormalizeUrl(us[UsablePlace(us, k)])]
      BY <2>1 DEF vs, m, NormalizeUrls
    <3> QED
      BY <3>1
  <2>3. IsUrlList(vs)
    BY <1>1, <1>2, <2>1 DEF IsUrlList
  <2>4. Primary(us) = Blank /\ Primary(vs) = Blank /\ FirstUrl(vs) = Blank
    BY <1>4, <2>1, <2>2 DEF Primary, Usable, FirstUrl
  <2> QED
    BY <1>3, <1>4, <2>3, <2>4 DEF vs
<1>5. CASE Usable(us) # {}
  <2>1. PICK i \in Usable(us) :
          /\ UsablePlace(us, 1) = i
          /\ i = CHOOSE k \in Usable(us) : \A j \in Usable(us) : k <= j
    BY <1>5, FirstPlace
  <2>2. Primary(us) = NormalizeUrl(us[i])
    BY <1>5, <2>1 DEF Primary
  <2>3. IsUrl(us[i]) /\ us[i].host # ""
    BY <2>1 DEF Usable, IsUrlList
  <2>4. /\ IsUrl(Primary(us)) /\ Primary(us).slashes = 0 /\ Primary(us).host # ""
        /\ NormalizeUrl(Primary(us)) = Primary(us)
    <3>1. NormalizeUrl(NormalizeUrl(us[i])) = NormalizeUrl(us[i])
      BY <2>3 DEF NormalizeUrl, IsUrl
    <3> QED
      BY <2>2, <2>3, <3>1, UrlIsNormalized
  <2>5. 1 \in DOMAIN vs /\ vs[1] = Primary(us) /\ vs # <<>>
    <3>1. 1 \in 1 .. m
      BY <1>1, <1>5
    <3>2. 1 \in DOMAIN vs /\ vs[1] = Primary(us)
      BY <1>2, <2>1, <2>2, <3>1
    <3> QED
      BY <3>2
  <2>6. IsUrlList(vs)
    <3>1. ASSUME NEW k \in 1 .. m PROVE UsablePlace(us, k) \in DOMAIN us
      BY <3>1, PlacesAreUsable DEF m, Usable
    <3>2. \A k \in DOMAIN vs : IsUrl(vs[k])
      BY <1>2, <3>1, UrlIsNormalized DEF IsUrlList
    <3> QED
      BY <1>1, <1>2, <3>2 DEF IsUrlList
  <2>7. FirstUrl(vs) = Primary(us)
    BY <2>5 DEF FirstUrl
  <2>8. Primary(vs) = Primary(us)
    <3>1. 1 \in Usable(vs) /\ Usable(vs) # {} /\ Usable(vs) \subseteq Nat
      <4>1. vs[1].host # ""
        BY <2>4, <2>5
      <4>2. 1 \in Usable(vs)
        BY <2>5, <4>1 DEF Usable
      <4>3. Usable(vs) \subseteq 1 .. m
        BY <1>2 DEF Usable
      <4> QED
        BY <4>2, <4>3
    <3>2. \A j \in Usable(vs) : 1 <= j
      <4>1. Usable(vs) \subseteq 1 .. m
        BY <1>2 DEF Usable
      <4> QED
        BY <1>1, <4>1
    <3>3. (CHOOSE k \in Usable(vs) : \A j \in Usable(vs) : k <= j) = 1
      <4>1. \A k \in Usable(vs) : (\A j \in Usable(vs) : k <= j) => k = 1
        BY <3>1, <3>2
      <4> QED
        BY <3>1, <3>2, <4>1
    <3>4. Primary(vs) = NormalizeUrl(Primary(us))
      BY <2>5, <3>1, <3>3 DEF Primary
    <3> QED
      BY <2>4, <3>4
  <2> QED
    BY <2>4, <2>6, <2>7, <2>8 DEF vs
<1> QED
  BY <1>4, <1>5

-----------------------------------------------------------------------------
(* The calls to setters, with values of the type of each.                  *)
SetterCalls ==
    [what : {"network"}, e : {"all"}, value : DOMAIN Spellings]
    \union [what : {"timeout"}, e : {"all"}, value : Timeouts]
    \union [what : {"url"}, e : Endpoints, value : Urls]
    \union [what : {"urls"}, e : Endpoints, value : UrlLists]

(* A set of numbers with an upper bound has a greatest one.                *)
LEMMA GreatestExists ==
    ASSUME NEW n \in Nat, NEW T, T \subseteq 0 .. n, T # {}
    PROVE  \E x \in T : \A y \in T : y <= x
<1> DEFINE U == {n - y : y \in T}
<1>0. \A y \in T : y \in Nat /\ y <= n
  OBVIOUS
<1>1. U \subseteq Nat /\ U # {}
  <2>1. PICK y \in T : TRUE
    OBVIOUS
  <2>2. n - y \in U
    OBVIOUS
  <2> QED
    BY <1>0, <2>2
<1>2. PICK u \in U : \A v \in U : u <= v
  <2> HIDE DEF U
  <2> QED
    BY <1>1, LeastExists
<1>3. PICK x \in T : u = n - x
  BY <1>2
<1>4. \A y \in T : n - x <= n - y
  BY <1>2, <1>3
<1>5. \A y \in T : y <= x
  BY <1>0, <1>4
<1> QED
  BY <1>5

(* What one more call changes in which call was the last of its kind.      *)
LEMMA LastAfterCall ==
    ASSUME NEW n \in Nat, NEW ss, NEW tt, DOMAIN ss = 1 .. n, DOMAIN tt = 1 .. (n + 1),
           \A i \in 1 .. n : tt[i] = ss[i], NEW what, NEW e
    PROVE  /\ LastSetter(ss, what, e) \in 0 .. n
           /\ LastSetter(tt, what, e) =
                 IF tt[n + 1].what = what /\ tt[n + 1].e = e
                 THEN n + 1 ELSE LastSetter(ss, what, e)
<1> DEFINE x == tt[n + 1]
<1>1. /\ DOMAIN ss = 1 .. n /\ DOMAIN tt = 1 .. (n + 1) /\ tt[n + 1] = x
      /\ \A i \in 1 .. n : tt[i] = ss[i]
  OBVIOUS
<1> HIDE DEF x
<1>2. /\ LastSetter(ss, what, e) \in 0 .. n
      /\ LastSetter(tt, what, e) = IF x.what = what /\ x.e = e
                                   THEN n + 1 ELSE LastSetter(ss, what, e)
  <2> DEFINE S == {i \in DOMAIN ss : ss[i].what = what /\ ss[i].e = e}
             T == {i \in DOMAIN tt : tt[i].what = what /\ tt[i].e = e}
             max(R) == IF R = {} THEN 0 ELSE CHOOSE i \in R : \A j \in R : j <= i
  <2>1. LastSetter(ss, what, e) = max(S) /\ LastSetter(tt, what, e) = max(T)
    BY DEF LastSetter
  <2>2. S \subseteq 1 .. n
    BY <1>1
  <2>3. ASSUME x.what = what /\ x.e = e PROVE max(T) = n + 1
    <3>1. n + 1 \in T /\ T \subseteq 1 .. (n + 1)
      BY <1>1, <2>3
    <3> HIDE DEF T
    <3>2. \A i \in T : (\A j \in T : j <= i) <=> i = n + 1
      BY <1>1, <3>1
    <3> QED
      BY <3>1, <3>2
  <2>4. ASSUME ~(x.what = what /\ x.e = e) PROVE max(T) = max(S)
    <3>1. T = S
      <4>1. n + 1 \notin T
        BY <1>1, <2>4
      <4>2. T \subseteq 1 .. n
        BY <1>1, <4>1
      <4>3. \A i \in 1 .. n : i \in T <=> i \in S
        BY <1>1
      <4> HIDE DEF S, T
      <4> QED
        BY <2>2, <4>2, <4>3
    <3> HIDE DEF S, T
    <3> QED
      BY <3>1
  <2>5. max(S) \in 0 .. n
    <3> HIDE DEF S
    <3>1. CASE S = {}
      BY <1>1, <3>1
    <3>2. CASE S # {}
      <4>1. S \subseteq 0 .. n
        BY <1>1, <2>2
      <4>2. \E i \in S : \A j \in S : j <= i
        BY <1>1, <3>2, <4>1, GreatestExists
      <4>3. max(S) \in S
        BY <3>2, <4>2
      <4> QED
        BY <4>1, <4>3
    <3> QED
      BY <3>1, <3>2
  <2> HIDE DEF max, S, T
  <2> QED
    BY <2>1, <2>3, <2>4, <2>5
<1> QED
  BY <1>1, <1>2

(* The last call of a kind is one of them.                                 *)
LEMMA LastIsACall ==
    ASSUME NEW ss \in Seq(SetterCalls), NEW what, NEW e, LastSetter(ss, what, e) # 0
    PROVE  /\ LastSetter(ss, what, e) \in DOMAIN ss
           /\ ss[LastSetter(ss, what, e)].what = what
           /\ ss[LastSetter(ss, what, e)].e = e
<1> DEFINE S == {i \in DOMAIN ss : ss[i].what = what /\ ss[i].e = e}
<1>1. LastSetter(ss, what, e) = IF S = {} THEN 0 ELSE CHOOSE i \in S : \A j \in S : j <= i
  BY DEF LastSetter
<1>2. S \subseteq 0 .. Len(ss) /\ Len(ss) \in Nat
  OBVIOUS
<1>3. S # {}
  BY <1>1
<1>4. LastSetter(ss, what, e) \in S
  <2> HIDE DEF S
  <2>1. \E i \in S : \A j \in S : j <= i
    BY <1>2, <1>3, GreatestExists
  <2> QED
    BY <1>1, <1>3, <2>1
<1> QED
  BY <1>4

(* What the fields of the builder hold after these calls.                  *)
ListOf(ss, e) ==
    IF Relisted(ss, e) THEN CandidatesOf(ss, e) ELSE NormalizeUrls(CandidatesOf(ss, e))
SingleOf(ss, e) ==
    IF Pinned(ss, e) THEN PinOf(ss, e)
    ELSE IF Relisted(ss, e) THEN Blank ELSE Primary(CandidatesOf(ss, e))

(* The fields of endpoint e follow from three of the calls.                *)
LEMMA FieldsFollowCalls ==
    ASSUME NEW ss \in Seq(SetterCalls), NEW tt, NEW e,
           \A i \in 1 .. Len(ss) : tt[i] = ss[i],
           \A what, f : LastSetter(ss, what, f) \in 0 .. Len(ss),
           LastNetwork(tt) = LastNetwork(ss),
           LastSetter(tt, "urls", e) = LastSetter(ss, "urls", e)
    PROVE  /\ Chosen(tt) = Chosen(ss) /\ Relisted(tt, e) = Relisted(ss, e)
           /\ CandidatesOf(tt, e) = CandidatesOf(ss, e)
           /\ LastSetter(tt, "url", e) = LastSetter(ss, "url", e) =>
                 ListOf(tt, e) = ListOf(ss, e) /\ SingleOf(tt, e) = SingleOf(ss, e)
<1>1. Len(ss) \in Nat
  OBVIOUS
<1>2. PICK n \in 0 .. Len(ss), p \in 0 .. Len(ss), u \in 0 .. Len(ss) :
         /\ n = LastNetwork(ss) /\ p = LastSetter(ss, "urls", e) /\ u = LastSetter(ss, "url", e)
  BY DEF LastNetwork
<1>3. Chosen(tt) = Chosen(ss)
  <2>1. CASE n = 0
    BY <1>2, <2>1 DEF Chosen
  <2>2. CASE n # 0
    <3>1. tt[n] = ss[n]
      BY <1>1, <2>2
    <3> QED
      BY <1>2, <3>1 DEF Chosen
  <2> QED
    BY <2>1, <2>2
<1>4. Relisted(tt, e) = Relisted(ss, e) /\ (Relisted(ss, e) <=> p > n)
  BY <1>2 DEF Relisted
<1>5. CandidatesOf(tt, e) = CandidatesOf(ss, e)
  <2>1. CASE p > n
    <3>1. tt[p] = ss[p]
      BY <1>1, <2>1
    <3> QED
      BY <1>2, <1>4, <2>1, <3>1 DEF CandidatesOf
  <2>2. CASE ~(p > n)
    BY <1>2, <1>3, <1>4, <2>2 DEF CandidatesOf
  <2> QED
    BY <2>1, <2>2
<1>6. ASSUME LastSetter(tt, "url", e) = LastSetter(ss, "url", e)
      PROVE  ListOf(tt, e) = ListOf(ss, e) /\ SingleOf(tt, e) = SingleOf(ss, e)
  <2>1. Pinned(tt, e) = Pinned(ss, e) /\ (Pinned(ss, e) <=> u > n /\ u > p)
    BY <1>2, <1>6 DEF Pinned
  <2>2. Pinned(ss, e) => PinOf(tt, e) = PinOf(ss, e)
    <3>1. u > n => tt[u] = ss[u]
      BY <1>1
    <3> QED
      BY <1>2, <1>6, <2>1, <3>1 DEF PinOf
  <2> QED
    BY <1>4, <1>5, <2>1, <2>2 DEF ListOf, SingleOf
<1> QED
  BY <1>3, <1>4, <1>5, <1>6

(* Candidates and pinned URLs are URLs.                                    *)
LEMMA CandidatesAreUrls ==
    ASSUME NEW ss \in Seq(SetterCalls), Chosen(ss) \in DOMAIN Presets, NEW e \in Endpoints
    PROVE  IsUrlList(CandidatesOf(ss, e)) /\ (Pinned(ss, e) => IsUrl(PinOf(ss, e)))
<1>1. \A u \in Urls : IsUrl(u)
  BY ConfigAssumption DEF IsUrl
<1>2. ASSUME NEW us \in Seq(Urls) PROVE IsUrlList(us)
  <2>1. Len(us) \in Nat /\ DOMAIN us = 1 .. Len(us) /\ \A i \in DOMAIN us : us[i] \in Urls
    OBVIOUS
  <2> QED
    BY <1>1, <2>1 DEF IsUrlList
<1>3. \A what, f : LastSetter(ss, what, f) \in Nat
  <2>1. Len(ss) \in Nat /\ DOMAIN ss = 1 .. Len(ss)
    OBVIOUS
  <2> QED
    BY <2>1, LastIsACall
<1>4. ASSUME Relisted(ss, e)
      PROVE  ss[LastSetter(ss, "urls", e)].value \in UrlLists
  <2>1. LastSetter(ss, "urls", e) # 0
    BY <1>3, <1>4 DEF Relisted, LastNetwork
  <2>2. /\ LastSetter(ss, "urls", e) \in DOMAIN ss
        /\ ss[LastSetter(ss, "urls", e)].what = "urls"
    BY <2>1, LastIsACall
  <2>3. PICK x \in SetterCalls : x = ss[LastSetter(ss, "urls", e)] /\ x.what = "urls"
    BY <2>2
  <2>4. x.value \in UrlLists
    BY <2>3 DEF SetterCalls
  <2> QED
    BY <2>3, <2>4
<1>5. IsUrlList(CandidatesOf(ss, e))
  <2>1. CASE Relisted(ss, e)
    BY <1>2, <1>4, <2>1, ConfigAssumption DEF CandidatesOf
  <2>2. CASE ~Relisted(ss, e)
    <3>1. Presets[Chosen(ss)][e] \in Seq(Urls)
      BY ConfigAssumption
    <3> QED
      BY <1>2, <2>2, <3>1 DEF CandidatesOf
  <2> QED
    BY <2>1, <2>2
<1>6. ASSUME Pinned(ss, e) PROVE IsUrl(PinOf(ss, e))
  <2>1. LastSetter(ss, "url", e) # 0
    BY <1>3, <1>6 DEF Pinned, LastNetwork
  <2>2. /\ LastSetter(ss, "url", e) \in DOMAIN ss
        /\ ss[LastSetter(ss, "url", e)].what = "url"
    BY <2>1, LastIsACall
  <2>3. PICK x \in SetterCalls : x = ss[LastSetter(ss, "url", e)] /\ x.what = "url"
    BY <2>2
  <2>4. x.value \in Urls
    BY <2>3 DEF SetterCalls
  <2> QED
    BY <1>1, <2>3, <2>4 DEF PinOf
<1> QED
  BY <1>5, <1>6

ConfigInv ==
    /\ setters \in Seq(SetterCalls)
    /\ DOMAIN list = Endpoints /\ DOMAIN single = Endpoints
    /\ timeout = IF LastTimeout(setters) = 0 THEN 30 ELSE setters[LastTimeout(setters)].value
    /\ built = "no" =>
          /\ Chosen(setters) \in DOMAIN Presets
          /\ \A e \in Endpoints : /\ list[e] = ListOf(setters, e)
                                  /\ single[e] = SingleOf(setters, e)
    /\ BuiltAsDocumented

(* What every setter does to the calls.                                    *)
LEMMA SetterCalled ==
    ASSUME ConfigInv, NEW what, NEW f, NEW value, Setter(what, f, value),
           [what |-> what, e |-> f, value |-> value] \in SetterCalls
    PROVE  /\ built = "no" /\ setters' \in Seq(SetterCalls) /\ Len(setters) \in Nat
           /\ setters'[Len(setters) + 1].value = value
           /\ \A i \in 1 .. Len(setters) : setters'[i] = setters[i]
           /\ \A w, e : /\ LastSetter(setters, w, e) \in 0 .. Len(setters)
                        /\ LastSetter(setters', w, e) = IF what = w /\ f = e
                              THEN Len(setters) + 1 ELSE LastSetter(setters, w, e)
<1>a. PICK ss \in Seq(SetterCalls), x \in SetterCalls :
         /\ ss = setters /\ setters' = Append(ss, x)
         /\ x = [what |-> what, e |-> f, value |-> value]
  BY DEF Setter, ConfigInv
<1>b. Append(ss, x) \in Seq(SetterCalls)
  OBVIOUS
<1>1. PICK tt \in Seq(SetterCalls) :
         /\ ss = setters /\ tt = setters' /\ tt = Append(ss, x)
         /\ x = [what |-> what, e |-> f, value |-> value]
  BY <1>a, <1>b
<1>2. x.what = what /\ x.e = f /\ x.value = value
  BY <1>1
<1>3. Len(ss) \in Nat
  OBVIOUS
<1>4. /\ tt \in Seq(SetterCalls) /\ tt[Len(ss) + 1] = x
      /\ \A i \in 1 .. Len(ss) : tt[i] = ss[i]
      /\ \A w, e : /\ LastSetter(ss, w, e) \in 0 .. Len(ss)
                   /\ LastSetter(tt, w, e) = IF x.what = w /\ x.e = e
                        THEN Len(ss) + 1 ELSE LastSetter(ss, w, e)
  <2>1. tt = Append(ss, x)
    BY <1>1
  <2>2. /\ tt \in Seq(SetterCalls) /\ tt[Len(ss) + 1] = x
        /\ \A i \in 1 .. Len(ss) : tt[i] = ss[i]
    BY <2>1
  <2>3. ASSUME NEW w, NEW e
        PROVE  /\ LastSetter(ss, w, e) \in 0 .. Len(ss)
               /\ LastSetter(tt, w, e) = IF x.what = w /\ x.e = e
                     THEN Len(ss) + 1 ELSE LastSetter(ss, w, e)
    <3>1. PICK n \in Nat : /\ n = Len(ss) /\ DOMAIN ss = 1 .. n /\ DOMAIN tt = 1 .. (n + 1)
                           /\ \A i \in 1 .. n : tt[i] = ss[i]
      BY <1>3, <2>1
    <3>2. /\ LastSetter(ss, w, e) \in 0 .. n
          /\ LastSetter(tt, w, e) = IF tt[n + 1].what = w /\ tt[n + 1].e = e
                                    THEN n + 1 ELSE LastSetter(ss, w, e)
      BY <3>1, LastAfterCall
    <3> QED
      BY <2>2, <3>1, <3>2
  <2> QED
    BY <2>2, <2>3
<1> QED
  BY <1>1, <1>2, <1>3, <1>4 DEF Setter

(* All but set_timeout leave the timeout as it was called for.             *)
LEMMA TimeoutKept ==
    ASSUME ConfigInv, UNCHANGED timeout, LastTimeout(setters) \in 0 .. Len(setters),
           \A i \in 1 .. Len(setters) : setters'[i] = setters[i],
           LastTimeout(setters') = LastTimeout(setters)
    PROVE  timeout' = IF LastTimeout(setters') = 0 THEN 30
                      ELSE setters'[LastTimeout(setters')].value
<1>1. PICK t : t = LastTimeout(setters)
  OBVIOUS
<1>2. Len(setters) \in Nat
  BY DEF ConfigInv
<1>3. t # 0 => setters'[t] = setters[t]
  BY <1>1, <1>2
<1> QED
  BY <1>1, <1>3 DEF ConfigInv

(* A setter for endpoint f leaves the other endpoints alone.               *)
LEMMA OtherEndpoints ==
    ASSUME ConfigInv, NEW what, NEW f, NEW value, what # "network", Setter(what, f, value),
           [what |-> what, e |-> f, value |-> value] \in SetterCalls
    PROVE  /\ Chosen(setters') = Chosen(setters)
           /\ \A e : what \notin {"url", "urls"} \/ e # f =>
                 /\ ListOf(setters', e) = ListOf(setters, e)
                 /\ SingleOf(setters', e) = SingleOf(setters, e)
           /\ \A e : what # "urls" \/ e # f =>
                 /\ Relisted(setters', e) = Relisted(setters, e)
                 /\ CandidatesOf(setters', e) = CandidatesOf(setters, e)
<1>1. PICK ss \in Seq(SetterCalls), tt \in Seq(SetterCalls) : ss = setters /\ tt = setters'
  BY SetterCalled DEF ConfigInv
<1>2. /\ \A i \in 1 .. Len(ss) : tt[i] = ss[i]
      /\ \A w, e : /\ LastSetter(ss, w, e) \in 0 .. Len(ss)
                   /\ LastSetter(tt, w, e) = IF what = w /\ f = e
                        THEN Len(ss) + 1 ELSE LastSetter(ss, w, e)
  BY <1>1, SetterCalled
<1>3. LastNetwork(tt) = LastNetwork(ss)
  BY <1>2 DEF LastNetwork
<1>4. ASSUME NEW e, what # "urls" \/ e # f
      PROVE  /\ Chosen(tt) = Chosen(ss) /\ Relisted(tt, e) = Relisted(ss, e)
             /\ CandidatesOf(tt, e) = CandidatesOf(ss, e)
             /\ what # "url" \/ e # f =>
                   ListOf(tt, e) = ListOf(ss, e) /\ SingleOf(tt, e) = SingleOf(ss, e)
  <2>1. LastSetter(tt, "urls", e) = LastSetter(ss, "urls", e)
    BY <1>2, <1>4
  <2>2. what # "url" \/ e # f => LastSetter(tt, "url", e) = LastSetter(ss, "url", e)
    BY <1>2
  <2> QED
    BY <1>2, <1>3, <2>1, <2>2, FieldsFollowCalls
<1>5. Chosen(tt) = Chosen(ss)
  <2>1. PICK n : n = LastNetwork(ss) /\ n \in 0 .. Len(ss)
    BY <1>2 DEF LastNetwork
  <2>2. Len(ss) \in Nat
    OBVIOUS
  <2>3. n # 0 => tt[n] = ss[n]
    BY <1>2, <2>1, <2>2
  <2> QED
    BY <1>3, <2>1, <2>3 DEF Chosen
<1> QED
  BY <1>1, <1>4, <1>5

(* No setter, and no build(), departs from what its calls amount to.       *)
LEMMA ConfigStep == ConfigInv /\ [ConfigNext]_configVars => ConfigInv'
<1> SUFFICES ASSUME ConfigInv, [ConfigNext]_configVars PROVE ConfigInv'
  OBVIOUS
<1>1. CASE UNCHANGED configVars
  BY <1>1 DEF configVars, ConfigInv, BuiltAsDocumented
<1>2. ASSUME NEW s \in DOMAIN Spellings, SetNetwork(s) PROVE ConfigInv'
  <2>1. [what |-> "network", e |-> "all", value |-> s] \in SetterCalls
    BY DEF SetterCalls
  <2>2. Setter("network", "all", s)
    BY <1>2 DEF SetNetwork
  <2>3. /\ built = "no" /\ setters' \in Seq(SetterCalls) /\ Len(setters) \in Nat
        /\ setters'[Len(setters) + 1].value = s
        /\ \A i \in 1 .. Len(setters) : setters'[i] = setters[i]
        /\ \A w, e : /\ LastSetter(setters, w, e) \in 0 .. Len(setters)
                     /\ LastSetter(setters', w, e) = IF "network" = w /\ "all" = e
                           THEN Len(setters) + 1 ELSE LastSetter(setters, w, e)
    BY <2>1, <2>2, SetterCalled
  <2>4. timeout' = IF LastTimeout(setters') = 0 THEN 30
                   ELSE setters'[LastTimeout(setters')].value
    <3>1. UNCHANGED timeout /\ LastTimeout(setters) \in 0 .. Len(setters)
          /\ LastTimeout(setters') = LastTimeout(setters)
      BY <1>2, <2>3 DEF SetNetwork, LastTimeout
    <3> QED
      BY <2>3, <3>1, TimeoutKept
  <2>5. CASE Spellings[s] = NoPreset
    <3>1. built' = "panic" /\ UNCHANGED <<single, list>>
      BY <1>2, <2>5 DEF SetNetwork
    <3> QED
      BY <2>3, <2>4, <3>1 DEF ConfigInv, BuiltAsDocumented
  <2>6. CASE Spellings[s] # NoPreset
    <3>1. /\ built' = "no" /\ list' = PresetLists(Spellings[s])
          /\ single' = [e \in Endpoints |-> FirstUrl(list'[e])]
      BY <1>2, <2>3, <2>6 DEF SetNetwork
    <3>2. Spellings[s] \in DOMAIN Presets
      BY <2>6, ConfigAssumption
    <3>3. LastNetwork(setters') = Len(setters) + 1
      BY <2>3 DEF LastNetwork
    <3>4. Chosen(setters') = Spellings[s]
      BY <2>3, <3>3 DEF Chosen
    <3>5. ASSUME NEW e \in Endpoints
          PROVE  list'[e] = ListOf(setters', e) /\ single'[e] = SingleOf(setters', e)
      <4>1. PICK us : us = Presets[Spellings[s]][e]
        OBVIOUS
      <4>2. ~Relisted(setters', e) /\ ~Pinned(setters', e)
        BY <2>3, <3>3 DEF Relisted, Pinned
      <4>3. CandidatesOf(setters', e) = us
        BY <3>4, <4>1, <4>2 DEF CandidatesOf
      <4>4. IsUrlList(us)
        BY <2>3, <3>2, <3>4, <4>3, CandidatesAreUrls
      <4>5. list'[e] = NormalizeUrls(us) /\ single'[e] = Primary(us)
        BY <3>1, <4>1, <4>4, NormalizedList DEF PresetLists
      <4> QED
        BY <4>2, <4>3, <4>5 DEF ListOf, SingleOf
    <3>6. DOMAIN list' = Endpoints /\ DOMAIN single' = Endpoints
      BY <3>1 DEF PresetLists
    <3> QED
      BY <2>3, <2>4, <3>1, <3>2, <3>4, <3>5, <3>6 DEF ConfigInv, BuiltAsDocumented
  <2> QED
    BY <2>5, <2>6
<1>3. ASSUME NEW f \in Endpoints, NEW u \in Urls, SetUrl(f, u) PROVE ConfigInv'
  <2>1. [what |-> "url", e |-> f, value |-> u] \in SetterCalls
    BY DEF SetterCalls
  <2>2. Setter("url", f, u)
    BY <1>3 DEF SetUrl
  <2>3. /\ built = "no" /\ setters' \in Seq(SetterCalls) /\ Len(setters) \in Nat
        /\ setters'[Len(setters) + 1].value = u
        /\ \A i \in 1 .. Len(setters) : setters'[i] = setters[i]
        /\ \A w, e : /\ LastSetter(setters, w, e) \in 0 .. Len(setters)
                     /\ LastSetter(setters', w, e) = IF "url" = w /\ f = e
                           THEN Len(setters) + 1 ELSE LastSetter(setters, w, e)
    BY <2>1, <2>2, SetterCalled
  <2>4. timeout' = IF LastTimeout(setters') = 0 THEN 30
                   ELSE setters'[LastTimeout(setters')].value
    <3>1. UNCHANGED timeout /\ LastTimeout(setters) \in 0 .. Len(setters)
          /\ LastTimeout(setters') = LastTimeout(setters)
      BY <1>3, <2>3 DEF SetUrl, LastTimeout
    <3> QED
      BY <2>3, <3>1, TimeoutKept
  <2>5. /\ Chosen(setters') = Chosen(setters)
        /\ \A e : e # f => /\ ListOf(setters', e) = ListOf(setters, e)
                           /\ SingleOf(setters', e) = SingleOf(setters, e)
        /\ Relisted(setters', f) = Relisted(setters, f)
        /\ CandidatesOf(setters', f) = CandidatesOf(setters, f)
    BY <2>1, <2>2, OtherEndpoints
  <2>6. Pinned(setters', f) /\ PinOf(setters', f) = u
    <3>1. /\ LastSetter(setters', "url", f) = Len(setters) + 1
          /\ LastNetwork(setters') \in 0 .. Len(setters)
          /\ LastSetter(setters', "urls", f) \in 0 .. Len(setters)
      BY <2>3 DEF LastNetwork
    <3> QED
      BY <2>3, <3>1 DEF Pinned, PinOf
  <2>7. ListOf(setters', f) = ListOf(setters, f) /\ SingleOf(setters', f) = u
    BY <2>5, <2>6 DEF ListOf, SingleOf
  <2>8. /\ list' = list /\ built' = "no" /\ single' = [single EXCEPT ![f] = u]
    BY <1>3, <2>3 DEF SetUrl
  <2>9. \A e \in Endpoints : list'[e] = ListOf(setters', e) /\ single'[e] = SingleOf(setters', e)
    BY <2>3, <2>5, <2>7, <2>8 DEF ConfigInv
  <2> QED
    BY <2>3, <2>4, <2>5, <2>8, <2>9 DEF ConfigInv, BuiltAsDocumented
<1>4. ASSUME NEW f \in Endpoints, NEW us \in UrlLists, SetUrls(f, us) PROVE ConfigInv'
  <2>1. [what |-> "urls", e |-> f, value |-> us] \in SetterCalls
    BY DEF SetterCalls
  <2>2. Setter("urls", f, us)
    BY <1>4 DEF SetUrls
  <2>3. /\ built = "no" /\ setters' \in Seq(SetterCalls) /\ Len(setters) \in Nat
        /\ setters'[Len(setters) + 1].value = us
        /\ \A i \in 1 .. Len(setters) : setters'[i] = setters[i]
        /\ \A w, e : /\ LastSetter(setters, w, e) \in 0 .. Len(setters)
                     /\ LastSetter(setters', w, e) = IF "urls" = w /\ f = e
                           THEN Len(setters) + 1 ELSE LastSetter(setters, w, e)
    BY <2>1, <2>2, SetterCalled
  <2>4. timeout' = IF LastTimeout(setters') = 0 THEN 30
                   ELSE setters'[LastTimeout(setters')].value
    <3>1. UNCHANGED timeout /\ LastTimeout(setters) \in 0 .. Len(setters)
          /\ LastTimeout(setters') = LastTimeout(setters)
      BY <1>4, <2>3 DEF SetUrls, LastTimeout
    <3> QED
      BY <2>3, <3>1, TimeoutKept
  <2>5. /\ Chosen(setters') = Chosen(setters)
        /\ \A e : e # f => /\ ListOf(setters', e) = ListOf(setters, e)
                           /\ SingleOf(setters', e) = SingleOf(setters, e)
    BY <2>1, <2>2, OtherEndpoints
  <2>6. Relisted(setters', f) /\ CandidatesOf(setters', f) = us /\ ~Pinned(setters', f)
    <3>1. /\ LastSetter(setters', "urls", f) = Len(setters) + 1
          /\ LastNetwork(setters') \in 0 .. Len(setters)
          /\ LastSetter(setters', "url", f) \in 0 .. Len(setters)
      BY <2>3 DEF LastNetwork
    <3>2. Relisted(setters', f) /\ ~Pinned(setters', f)
      BY <2>3, <3>1 DEF Relisted, Pinned
    <3> QED
      BY <2>3, <3>1, <3>2 DEF CandidatesOf
  <2>7. ListOf(setters', f) = us /\ SingleOf(setters', f) = Blank
    BY <2>6 DEF ListOf, SingleOf
  <2>8. /\ list' = [list EXCEPT ![f] = us] /\ built' = "no"
        /\ single' = [single EXCEPT ![f] = Blank]
    BY <1>4, <2>3 DEF SetUrls
  <2>9. \A e \in Endpoints : list'[e] = ListOf(setters', e) /\ single'[e] = SingleOf(setters', e)
    BY <2>3, <2>5, <2>7, <2>8 DEF ConfigInv
  <2> QED
    BY <2>3, <2>4, <2>5, <2>8, <2>9 DEF ConfigInv, BuiltAsDocumented
<1>5. ASSUME NEW t \in Timeouts, SetTimeout(t) PROVE ConfigInv'
  <2>1. [what |-> "timeout", e |-> "all", value |-> t] \in SetterCalls
    BY DEF SetterCalls
  <2>2. Setter("timeout", "all", t)
    BY <1>5 DEF SetTimeout
  <2>3. /\ built = "no" /\ setters' \in Seq(SetterCalls) /\ Len(setters) \in Nat
        /\ setters'[Len(setters) + 1].value = t
        /\ LastTimeout(setters') = Len(setters) + 1
    BY <2>1, <2>2, SetterCalled DEF LastTimeout
  <2>4. timeout' = IF LastTimeout(setters') = 0 THEN 30
                   ELSE setters'[LastTimeout(setters')].value
    BY <1>5, <2>3 DEF SetTimeout
  <2>5. /\ Chosen(setters') = Chosen(setters)
        /\ \A e : /\ ListOf(setters', e) = ListOf(setters, e)
                  /\ SingleOf(setters', e) = SingleOf(setters, e)
    BY <2>1, <2>2, OtherEndpoints
  <2>6. UNCHANGED <<list, single, built>>
    BY <1>5 DEF SetTimeout
  <2> QED
    BY <2>3, <2>4, <2>5, <2>6 DEF ConfigInv, BuiltAsDocumented
<1>6. CASE Build
  <2>1. /\ built = "no" /\ built' = "yes" /\ UNCHANGED <<timeout, setters>>
        /\ list' = [e \in Endpoints |-> NormalizeUrls(list[e])]
        /\ single' = [e \in Endpoints |-> ChoosePrimary(single[e], list'[e])]
    BY <1>6 DEF Build
  <2>2. ASSUME NEW e \in Endpoints, NEW us, us = CandidatesOf(setters, e)
        PROVE  LET pinned == Pinned(setters, e) /\ PinOf(setters, e).host # ""
               IN /\ single'[e].slashes = 0
                  /\ pinned => single'[e].host = PinOf(setters, e).host
                  /\ ~pinned /\ Usable(us) # {} =>
                        \E i \in Usable(us) : /\ single'[e].host = us[i].host
                                              /\ \A j \in Usable(us) : i <= j
                  /\ ~pinned /\ Usable(us) = {} => single'[e] = Blank
    <3>1. IsUrlList(us) /\ (Pinned(setters, e) => IsUrl(PinOf(setters, e)))
      BY <2>1, <2>2, CandidatesAreUrls DEF ConfigInv
    <3>2. IsUrlList(list[e]) /\ FirstUrl(NormalizeUrls(list[e])) = Primary(us)
      <4>1. list[e] = us \/ list[e] = NormalizeUrls(us)
        BY <2>1, <2>2 DEF ConfigInv, ListOf
      <4> QED
        BY <3>1, <4>1, NormalizedList
    <3>3. single'[e] = ChoosePrimary(single[e], NormalizeUrls(list[e]))
      BY <2>1
    <3>4. IsUrl(Primary(us)) /\ Primary(us).slashes = 0 /\ (Usable(us) # {} => Primary(us).host # "")
      BY <3>1, NormalizedList
    <3>5. ASSUME Pinned(setters, e), PinOf(setters, e).host # ""
          PROVE  single'[e].slashes = 0 /\ single'[e].host = PinOf(setters, e).host
      <4>1. single[e] = PinOf(setters, e)
        BY <2>1, <3>5 DEF ConfigInv, SingleOf
      <4> QED
        BY <3>1, <3>3, <3>5, <4>1, UrlIsNormalized DEF ChoosePrimary
    <3>6. ASSUME ~(Pinned(setters, e) /\ PinOf(setters, e).host # "")
          PROVE  single'[e] = Primary(us)
      <4>1. single[e] = SingleOf(setters, e)
        BY <2>1 DEF ConfigInv
      <4>2. IsUrl(Blank) /\ Blank.host = ""
        BY DEF IsUrl, Blank
      <4>3. CASE Pinned(setters, e) \/ Relisted(setters, e)
        <5>1. IsUrl(single[e]) /\ single[e].host = ""
          BY <3>1, <3>6, <4>1, <4>2, <4>3 DEF SingleOf
        <5>2. NormalizeUrl(single[e]) = Blank
          BY <5>1, UrlIsNormalized
        <5> QED
          BY <3>2, <3>3, <5>2 DEF ChoosePrimary
      <4>4. CASE ~(Pinned(setters, e) \/ Relisted(setters, e))
        <5>1. single[e] = Primary(us)
          BY <2>2, <4>1, <4>4 DEF SingleOf
        <5>2. NormalizeUrl(Primary(us)) = Primary(us)
          BY <3>1, NormalizedList
        <5> QED
          BY <3>2, <3>3, <5>1, <5>2 DEF ChoosePrimary
      <4> QED
        BY <4>3, <4>4
    <3>7. Usable(us) = {} => Primary(us) = Blank
      BY DEF Primary
    <3>8. ASSUME Usable(us) # {}
          PROVE  \E i \in Usable(us) : /\ Primary(us).host = us[i].host
                                       /\ \A j \in Usable(us) : i <= j
      <4>1. PICK i \in Usable(us) :
              /\ \A j \in Usable(us) : i <= j
              /\ i = CHOOSE k \in Usable(us) : \A j \in Usable(us) : k <= j
        BY <3>1, <3>8, FirstPlace
      <4>2. Primary(us) = NormalizeUrl(us[i])
        BY <3>8, <4>1 DEF Primary
      <4>3. IsUrl(us[i])
        BY <3>1 DEF IsUrlList, Usable
      <4> QED
        BY <4>1, <4>2, <4>3, UrlIsNormalized
    <3> QED
      BY <3>4, <3>5, <3>6, <3>7, <3>8
  <2>3. BuiltAsDocumented'
    BY <2>1, <2>2 DEF ConfigInv, BuiltAsDocumented
  <2> QED
    BY <2>1, <2>3 DEF ConfigInv
<1> QED
  BY <1>1, <1>2, <1>3, <1>4, <1>5, <1>6 DEF ConfigNext

(* For any number of setters called in any order: what build() returns is  *)
(* what the README's "Override behavior" says of those calls.              *)
THEOREM BuildsAsDocumented == ConfigSpec => []BuiltAsDocumented
<1>1. ConfigInit => ConfigInv
  <2> SUFFICES ASSUME ConfigInit PROVE ConfigInv
    OBVIOUS
  <2>1. /\ setters = <<>> /\ built = "no" /\ timeout = 30
        /\ list = [e \in Endpoints |-> NormalizeUrls(Presets["dev"][e])]
        /\ single = [e \in Endpoints |-> FirstUrl(list[e])]
    BY DEF ConfigInit, PresetLists
  <2>2. \A what, e : LastSetter(setters, what, e) = 0
    BY <2>1 DEF LastSetter
  <2>3. setters \in Seq(SetterCalls)
    BY <2>1
  <2>4. Chosen(setters) = "dev" /\ "dev" \in DOMAIN Presets
    BY <2>2, ConfigAssumption DEF Chosen, LastNetwork
  <2>5. ASSUME NEW e \in Endpoints
        PROVE  list[e] = ListOf(setters, e) /\ single[e] = SingleOf(setters, e)
    <3>1. ~Relisted(setters, e) /\ ~Pinned(setters, e)
      BY <2>2 DEF Relisted, Pinned, LastNetwork
    <3>2. PICK us : us = Presets["dev"][e] /\ CandidatesOf(setters, e) = us
      BY <2>4, <3>1 DEF CandidatesOf
    <3>3. IsUrlList(us)
      BY <2>3, <2>4, <3>2, CandidatesAreUrls
    <3>4. list[e] = NormalizeUrls(us) /\ single[e] = Primary(us)
      BY <2>1, <3>2, <3>3, NormalizedList
    <3> QED
      BY <3>1, <3>2, <3>4 DEF ListOf, SingleOf
  <2> QED
    BY <2>1, <2>2, <2>3, <2>4, <2>5 DEF ConfigInv, BuiltAsDocumented, LastTimeout
<1>2. ConfigInv => BuiltAsDocumented
  BY DEF ConfigInv
<1> QED
  BY <1>1, <1>2, ConfigStep, PTL DEF ConfigSpec

-----------------------------------------------------------------------------
(* Workloads: what is rebuilt and matched.                                 *)

(* The n-th smallest number grows with n.                                  *)
LEMMA NthGrows ==
    ASSUME NEW S, S \subseteq Nat, IsFiniteSet(S), NEW n \in 1 .. Cardinality(S),
           NEW r \in 1 .. Cardinality(S), n < r
    PROVE  NthOf(S, n) < NthOf(S, r)
<1> DEFINE Upto(i) == {j \in S : j <= i}
<1>1. PICK i, j : i = NthOf(S, n) /\ j = NthOf(S, r)
  OBVIOUS
<1>2. i \in S /\ Cardinality(Upto(i)) = n /\ j \in S /\ Cardinality(Upto(j)) = r
  <2>1. NthOf(S, n) \in S /\ Cardinality(Upto(NthOf(S, n))) = n
    BY NthIsThere
  <2>2. NthOf(S, r) \in S /\ Cardinality(Upto(NthOf(S, r))) = r
    BY NthIsThere
  <2> HIDE DEF Upto
  <2> QED
    BY <1>1, <2>1, <2>2
<1>3. SUFFICES ASSUME j <= i PROVE FALSE
  <2> HIDE DEF Upto
  <2>1. i \in Nat /\ j \in Nat
    BY <1>2
  <2> QED
    BY <1>1, <2>1
<1>4. Upto(j) \in SUBSET Upto(i) /\ Upto(i) \in SUBSET S
  <2>1. i \in Nat /\ j \in Nat
    <3> HIDE DEF Upto
    <3> QED
      BY <1>2
  <2>2. \A k \in S : k <= j => k <= i
    BY <1>3, <2>1
  <2> QED
    BY <2>2
<1> HIDE DEF Upto
<1>5. IsFiniteSet(Upto(i))
  BY <1>4, FS_Subset
<1>6. Cardinality(Upto(j)) <= Cardinality(Upto(i))
  BY <1>4, <1>5, FS_Subset
<1>7. Cardinality(S) \in Nat
  BY FS_CardinalityType
<1> QED
  BY <1>2, <1>6, <1>7

(* f ascends through m numbers.                                            *)
Ascends(f, m) ==
    /\ m \in Nat /\ \A n \in 1 .. m : f[n] \in Nat
    /\ \A n, r \in 1 .. m : n < r => f[n] < f[r]

(* Two that have the same members are one.                                 *)
LEMMA AscentsAgree ==
    ASSUME NEW f, NEW m, Ascends(f, m), NEW g, NEW p, Ascends(g, p),
           \A n \in 1 .. m : \E r \in 1 .. p : g[r] = f[n],
           \A r \in 1 .. p : \E n \in 1 .. m : f[n] = g[r]
    PROVE  m <= p /\ \A n \in 1 .. m : f[n] = g[n]
<1> DEFINE Bad == {n \in 1 .. m : n > p \/ f[n] # g[n]}
<1>1. m \in Nat /\ p \in Nat
  BY DEF Ascends
<1>2. SUFFICES ASSUME Bad # {} PROVE FALSE
  <2>1. Bad = {} => m <= p
    <3>1. CASE m = 0
      BY <1>1, <3>1
    <3>2. CASE m # 0
      <4>1. m \in 1 .. m
        BY <1>1, <3>2
      <4> QED
        BY <1>1, <4>1
    <3> QED
      BY <3>1, <3>2
  <2> QED
    BY <1>1, <2>1
<1>3. PICK n \in Bad : \A k \in Bad : n <= k
  <2>1. Bad \subseteq Nat
    BY <1>1
  <2> HIDE DEF Bad
  <2> QED
    BY <1>2, <2>1, LeastExists
<1>4. n \in 1 .. m /\ (n > p \/ f[n] # g[n])
  OBVIOUS
<1>5. \A k \in 1 .. m : k < n => k <= p /\ f[k] = g[k]
  <2> TAKE k \in 1 .. m
  <2> HAVE k < n
  <2>1. k \notin Bad
    <3> HIDE DEF Bad
    <3> QED
      BY <1>1, <1>3, <1>4
  <2> QED
    BY <1>1, <2>1
<1> HIDE DEF Bad
<1>6. PICK r \in 1 .. p : g[r] = f[n]
  BY <1>4
<1>7. ~(r < n)
  <2> SUFFICES ASSUME r < n PROVE FALSE
    OBVIOUS
  <2>1. r \in 1 .. m /\ f[r] = g[r]
    BY <1>1, <1>4, <1>5
  <2>2. f[r] < f[n] /\ f[r] \in Nat
    BY <1>4, <2>1 DEF Ascends
  <2> QED
    BY <1>6, <2>1, <2>2 DEF Ascends
<1>8. n <= p /\ n \in 1 .. p /\ f[n] # g[n]
  BY <1>1, <1>4, <1>7
<1>9. g[n] < f[n]
  <2>1. r # n
    BY <1>6, <1>8
  <2>2. n < r
    BY <1>1, <1>4, <1>7, <2>1
  <2> QED
    BY <1>6, <1>8, <2>2 DEF Ascends
<1>10. PICK k \in 1 .. m : f[k] = g[n]
  BY <1>8
<1>11. CASE k < n
  <2>1. f[k] = g[k] /\ k \in 1 .. p
    BY <1>1, <1>5, <1>11
  <2>2. g[k] < g[n] /\ g[n] \in Nat
    BY <1>8, <1>11, <2>1 DEF Ascends
  <2> QED
    BY <1>10, <2>1, <2>2
<1>12. CASE n <= k
  <2>1. f[n] <= f[k] /\ f[n] \in Nat /\ f[k] \in Nat
    <3>1. CASE n = k
      BY <1>4, <3>1 DEF Ascends
    <3>2. CASE n < k
      <4>1. f[n] \in Nat /\ f[k] \in Nat
        BY <1>4 DEF Ascends
      <4>2. f[n] < f[k]
        BY <1>4, <3>2 DEF Ascends
      <4> QED
        BY <4>1, <4>2
    <3> QED
      BY <1>1, <1>4, <1>12, <3>1, <3>2
  <2> QED
    BY <1>8, <1>9, <1>10, <2>1 DEF Ascends
<1> QED
  BY <1>1, <1>4, <1>11, <1>12


(* The lists that match_deployments sorts.                                 *)
RankedLists == Lists \ {"gateways"}

(* The lists, and those that match_deployments ranks.                      *)
LEMMA ListsAre ==
    /\ Lists = {"disks", "volumes", "zdbs", "vms", "lights", "qsfs", "gateways"}
    /\ RankedLists = {"disks", "volumes", "qsfs", "zdbs", "vms", "lights"}
    /\ DOMAIN RankOrder = 1 .. 6 /\ Range(RankOrder) = RankedLists
    /\ \A j, k \in 1 .. 6 : RankOrder[j] = RankOrder[k] => j = k
<1>1. Lists = {"disks", "volumes", "zdbs", "vms", "lights", "qsfs", "gateways"}
  <2>1. DOMAIN ListNames = {1, 2, 3, 4, 5, 6, 7}
    BY DEF ListNames
  <2>2. \A x : x \in Lists <=> \E i \in {1, 2, 3, 4, 5, 6, 7} : x = ListNames[i]
    BY <2>1 DEF Lists, Range
  <2> QED
    BY <2>2 DEF ListNames
<1>2. RankedLists = {"disks", "volumes", "qsfs", "zdbs", "vms", "lights"}
  BY <1>1 DEF RankedLists
<1>3. 1 .. 6 = {1, 2, 3, 4, 5, 6} /\ DOMAIN RankOrder = {1, 2, 3, 4, 5, 6}
  BY DEF RankOrder
<1>4. Range(RankOrder) = {"disks", "volumes", "qsfs", "zdbs", "vms", "lights"}
  <2>1. \A x : x \in Range(RankOrder) <=> \E i \in {1, 2, 3, 4, 5, 6} : x = RankOrder[i]
    BY <1>3 DEF Range
  <2> QED
    BY <2>1 DEF RankOrder
<1>5. \A j, k \in {1, 2, 3, 4, 5, 6} : RankOrder[j] = RankOrder[k] => j = k
  BY DEF RankOrder
<1> QED
  BY <1>1, <1>2, <1>3, <1>4, <1>5

(* What is not declared is behind all that is.                             *)
Placing(a, x, y, j) ==
    IF \E i \in 1 .. a : y[j] = x[i] THEN CHOOSE i \in 1 .. a : y[j] = x[i] ELSE a + j

(* x: declared names, y: loaded ones, key: their ranks.                    *)
AreRanked(a, x, b, y, base, key) ==
    /\ a \in Nat /\ DOMAIN x = 1 .. a /\ b \in Nat /\ DOMAIN y = 1 .. b /\ base \in Nat
    /\ \A i, k \in 1 .. a : x[i] = x[k] => i = k
    /\ \A j, k \in 1 .. b : y[j] = y[k] => j = k
    /\ \A j \in 1 .. b : key[j] \in Nat
    /\ \A j \in 1 .. b : \A i \in 1 .. a :
          y[j] = x[i] => key[j] = base + i - 1 /\ key[j] < 10000
    /\ \A j \in 1 .. b : (\A i \in 1 .. a : y[j] # x[i]) => key[j] = 10000

(* The places of names, and how they follow the ranks.                     *)
LEMMA PlacesFollowRanks ==
    ASSUME NEW a, NEW x, NEW b, NEW y, NEW base, NEW key, AreRanked(a, x, b, y, base, key)
    PROVE  /\ \A j \in 1 .. b : Placing(a, x, y, j) \in Nat
           /\ \A j \in 1 .. b : \A i \in 1 .. a : y[j] = x[i] => Placing(a, x, y, j) = i
           /\ \A j \in 1 .. b : (\A i \in 1 .. a : y[j] # x[i]) => Placing(a, x, y, j) = a + j
           /\ \A j, k \in 1 .. b : key[j] < key[k] \/ (key[j] = key[k] /\ j < k) =>
                 Placing(a, x, y, j) < Placing(a, x, y, k)
<1>1. ASSUME NEW j \in 1 .. b, NEW i \in 1 .. a, y[j] = x[i]
      PROVE  Placing(a, x, y, j) = i /\ key[j] = base + i - 1 /\ key[j] < 10000
  BY <1>1 DEF AreRanked, Placing
<1>2. ASSUME NEW j \in 1 .. b, \A i \in 1 .. a : y[j] # x[i]
      PROVE  Placing(a, x, y, j) = a + j /\ key[j] = 10000
  BY <1>2 DEF AreRanked, Placing
<1>3. a \in Nat /\ b \in Nat /\ base \in Nat
  BY DEF AreRanked
<1>4. ASSUME NEW j \in 1 .. b, NEW k \in 1 .. b, key[j] < key[k] \/ (key[j] = key[k] /\ j < k)
      PROVE  Placing(a, x, y, j) < Placing(a, x, y, k)
  <2>0. key[j] \in Nat /\ key[k] \in Nat /\ j # k
    BY <1>4 DEF AreRanked
  <2>1. CASE \E i \in 1 .. a : y[j] = x[i]
    <3>1. PICK i \in 1 .. a : y[j] = x[i]
      BY <2>1
    <3>2. Placing(a, x, y, j) = i /\ key[j] = base + i - 1 /\ key[j] < 10000
      BY <1>1, <3>1
    <3>3. CASE \E e \in 1 .. a : y[k] = x[e]
      <4>1. PICK e \in 1 .. a : y[k] = x[e]
        BY <3>3
      <4>2. Placing(a, x, y, k) = e /\ key[k] = base + e - 1
        BY <1>1, <4>1
      <4>3. i # e
        BY <2>0, <3>1, <4>1 DEF AreRanked
      <4> QED
        BY <1>3, <1>4, <3>2, <4>2, <4>3
    <3>4. CASE \A e \in 1 .. a : y[k] # x[e]
      BY <1>2, <1>3, <3>2, <3>4
    <3> QED
      BY <3>3, <3>4
  <2>2. CASE \A i \in 1 .. a : y[j] # x[i]
    <3>1. Placing(a, x, y, j) = a + j /\ key[j] = 10000
      BY <1>2, <2>2
    <3>2. CASE \E e \in 1 .. a : y[k] = x[e]
      <4>1. key[k] < 10000
        BY <1>1, <3>2
      <4> QED
        BY <1>4, <2>0, <3>1, <4>1
    <3>3. CASE \A e \in 1 .. a : y[k] # x[e]
      <4>1. Placing(a, x, y, k) = a + k /\ key[k] = 10000
        BY <1>2, <3>3
      <4> QED
        BY <1>3, <1>4, <3>1, <4>1
    <3> QED
      BY <3>2, <3>3
  <2> QED
    BY <2>1, <2>2
<1>5. \A j \in 1 .. b : Placing(a, x, y, j) \in Nat
  <2> TAKE j \in 1 .. b
  <2>1. CASE \E i \in 1 .. a : y[j] = x[i]
    BY <1>1, <1>3, <2>1
  <2>2. CASE \A i \in 1 .. a : y[j] # x[i]
    BY <1>2, <1>3, <2>2
  <2> QED
    BY <2>1, <2>2
<1> QED
  BY <1>1, <1>2, <1>4, <1>5

(* Places of x with a name of y, and places of y with no name of x.        *)
Shared(a, x, b, y) == {i \in 1 .. a : \E j \in 1 .. b : y[j] = x[i]}
Unshared(a, x, b, y) == {j \in 1 .. b : \A i \in 1 .. a : y[j] # x[i]}

(* The n-th place of what is shared, then of what is not.                  *)
InTurn(a, x, b, y, n) ==
    IF n <= Cardinality(Shared(a, x, b, y)) THEN NthOf(Shared(a, x, b, y), n)
    ELSE a + NthOf(Unshared(a, x, b, y), n - Cardinality(Shared(a, x, b, y)))

(* Every member of a finite set of numbers is its n-th for some n.         *)
LEMMA AllAreNth ==
    ASSUME NEW S, S \subseteq Nat, IsFiniteSet(S), NEW i \in S
    PROVE  \E n \in 1 .. Cardinality(S) : NthOf(S, n) = i
<1>1. PICK s : s = [k \in Nat |-> k]
  OBVIOUS
<1>2. PICK n \in 1 .. Cardinality(S) : EntriesAt(s, S)[n] = s[i]
  BY EntriesAreKept
<1>3. NthOf(S, n) \in S /\ EntriesAt(s, S)[n] = s[NthOf(S, n)]
  BY EntryIsKept
<1> QED
  BY <1>1, <1>2, <1>3

(* g takes s shared and t other places in turn.                            *)
AreInTurn(a, x, b, y, S, T, s, t, g) ==
    /\ a \in Nat /\ b \in Nat /\ S = Shared(a, x, b, y) /\ T = Unshared(a, x, b, y)
    /\ s = Cardinality(S) /\ t = Cardinality(T)
    /\ \A n \in 1 .. (s + t) : g[n] = InTurn(a, x, b, y, n)

(* Taken in turn, places ascend.                                           *)
LEMMA InTurnAscends ==
    ASSUME NEW a, NEW x, NEW b, NEW y, NEW S, NEW T, NEW s, NEW t, NEW g,
           AreInTurn(a, x, b, y, S, T, s, t, g)
    PROVE  /\ s \in Nat /\ t \in Nat /\ IsFiniteSet(S) /\ IsFiniteSet(T)
           /\ S \subseteq 1 .. a /\ T \subseteq 1 .. b
           /\ \A n \in 1 .. s : InTurn(a, x, b, y, n) = NthOf(S, n) /\ NthOf(S, n) \in S
           /\ \A n \in 1 .. t : InTurn(a, x, b, y, s + n) = a + NthOf(T, n) /\ NthOf(T, n) \in T
           /\ Ascends(g, s + t)
<1>0. /\ a \in Nat /\ b \in Nat /\ S = Shared(a, x, b, y) /\ T = Unshared(a, x, b, y)
      /\ s = Cardinality(S) /\ t = Cardinality(T)
      /\ \A n \in 1 .. (s + t) : g[n] = InTurn(a, x, b, y, n)
  BY DEF AreInTurn
<1>1. S \subseteq 1 .. a /\ T \subseteq 1 .. b
  BY <1>0 DEF Shared, Unshared
<1>2. IsFiniteSet(S) /\ IsFiniteSet(T)
  <2>1. IsFiniteSet(1 .. a) /\ IsFiniteSet(1 .. b)
    BY <1>0, FS_Interval
  <2> QED
    BY <1>1, <2>1, FS_Subset
<1>3. s \in Nat /\ t \in Nat
  BY <1>0, <1>2, FS_CardinalityType
<1>4. S \subseteq Nat /\ T \subseteq Nat
  BY <1>1
<1>5. ASSUME NEW n \in 1 .. s
      PROVE  InTurn(a, x, b, y, n) = NthOf(S, n) /\ NthOf(S, n) \in S /\ NthOf(S, n) \in 1 .. a
  <2>1. n <= s
    BY <1>3
  <2>2. InTurn(a, x, b, y, n) = NthOf(S, n)
    BY <1>0, <2>1 DEF InTurn
  <2>3. NthOf(S, n) \in S
    BY <1>0, <1>2, <1>4, NthIsThere
  <2> QED
    BY <1>1, <2>2, <2>3
<1>6. ASSUME NEW n \in 1 .. t
      PROVE  /\ InTurn(a, x, b, y, s + n) = a + NthOf(T, n)
             /\ NthOf(T, n) \in T /\ NthOf(T, n) \in 1 .. b
  <2>1. ~(s + n <= s) /\ (s + n) - s = n
    BY <1>3
  <2>2. InTurn(a, x, b, y, s + n) = a + NthOf(T, n)
    BY <1>0, <2>1 DEF InTurn
  <2>3. NthOf(T, n) \in T
    BY <1>0, <1>2, <1>4, NthIsThere
  <2> QED
    BY <1>1, <2>2, <2>3
<1>7. ASSUME NEW n \in 1 .. (s + t)
      PROVE  \/ n \in 1 .. s
             \/ \E k \in 1 .. t : n = s + k
  <2>1. CASE n <= s
    BY <1>3, <2>1
  <2>2. CASE ~(n <= s)
    <3>1. n - s \in 1 .. t /\ n = s + (n - s)
      BY <1>3, <2>2
    <3> QED
      BY <3>1
  <2> QED
    BY <2>1, <2>2
<1>8. ASSUME NEW n \in 1 .. (s + t)
      PROVE  g[n] \in Nat
  <2>1. CASE n \in 1 .. s
    BY <1>0, <1>5, <2>1
  <2>2. CASE \E k \in 1 .. t : n = s + k
    <3>1. PICK k \in 1 .. t : n = s + k
      BY <2>2
    <3>2. g[n] = a + NthOf(T, k) /\ NthOf(T, k) \in 1 .. b
      BY <1>0, <1>6, <3>1
    <3> QED
      BY <1>0, <3>2
  <2> QED
    BY <1>7, <2>1, <2>2
<1>9. ASSUME NEW n \in 1 .. (s + t), NEW r \in 1 .. (s + t), n < r
      PROVE  g[n] < g[r]
  <2>1. CASE n \in 1 .. s
    <3>1. g[n] = NthOf(S, n) /\ NthOf(S, n) \in 1 .. a
      BY <1>0, <1>5, <2>1
    <3>2. CASE r \in 1 .. s
      <4>1. NthOf(S, n) < NthOf(S, r)
        BY <1>0, <1>2, <1>4, <1>9, <2>1, <3>2, NthGrows
      <4>2. g[r] = NthOf(S, r)
        BY <1>0, <1>5, <3>2
      <4> QED
        BY <3>1, <4>1, <4>2
    <3>3. CASE \E k \in 1 .. t : r = s + k
      <4>1. PICK k \in 1 .. t : r = s + k
        BY <3>3
      <4>2. g[r] = a + NthOf(T, k) /\ NthOf(T, k) \in 1 .. b
        BY <1>0, <1>6, <4>1
      <4> QED
        BY <1>0, <3>1, <4>2
    <3> QED
      BY <1>7, <3>2, <3>3
  <2>2. CASE \E k \in 1 .. t : n = s + k
    <3>1. PICK k \in 1 .. t : n = s + k
      BY <2>2
    <3>2. g[n] = a + NthOf(T, k) /\ NthOf(T, k) \in 1 .. b
      BY <1>0, <1>6, <3>1
    <3>3. ~(r \in 1 .. s)
      BY <1>3, <1>9, <3>1
    <3>4. PICK e \in 1 .. t : r = s + e
      BY <1>7, <3>3
    <3>5. g[r] = a + NthOf(T, e) /\ NthOf(T, e) \in 1 .. b
      BY <1>0, <1>6, <3>4
    <3>6. k < e
      BY <1>3, <1>9, <3>1, <3>4
    <3>7. NthOf(T, k) < NthOf(T, e)
      BY <1>0, <1>2, <1>4, <3>6, NthGrows
    <3> QED
      BY <1>0, <3>2, <3>5, <3>7
  <2> QED
    BY <1>7, <2>1, <2>2
<1>10. Ascends(g, s + t)
  <2>1. s + t \in Nat
    BY <1>3
  <2> QED
    BY <1>8, <1>9, <2>1 DEF Ascends
<1> QED
  BY <1>1, <1>2, <1>3, <1>5, <1>6, <1>10

(* Sorted by their ranks, what was loaded is first what is declared, in    *)
(* the declared order, and then the rest as it was loaded.                 *)
LEMMA RankedAreInTurn ==
    ASSUME NEW a, NEW x, NEW b, NEW y, NEW base, NEW key, AreRanked(a, x, b, y, base, key),
           NEW S, S = Shared(a, x, b, y), NEW T, T = Unshared(a, x, b, y),
           NEW s, s = Cardinality(S), NEW t, t = Cardinality(T)
    PROVE  /\ b = s + t
           /\ \A n \in 1 .. s : y[Sorting(1 .. b, key, n)] = x[NthOf(S, n)]
           /\ \A n \in 1 .. t : y[Sorting(1 .. b, key, s + n)] = y[NthOf(T, n)]
<1> DEFINE pl(j) == Placing(a, x, y, j)
           sig(n) == Sorting(1 .. b, key, n)
           f == [n \in 1 .. b |-> pl(sig(n))]
           g == [n \in 1 .. (s + t) |-> InTurn(a, x, b, y, n)]
<1>1. a \in Nat /\ b \in Nat /\ DOMAIN y = 1 .. b /\ \A k \in 1 .. b : key[k] \in Nat
  BY DEF AreRanked
<1>2. /\ \A j \in 1 .. b : pl(j) \in Nat
      /\ \A j \in 1 .. b : \A i \in 1 .. a : y[j] = x[i] => pl(j) = i
      /\ \A j \in 1 .. b : (\A i \in 1 .. a : y[j] # x[i]) => pl(j) = a + j
      /\ \A j, k \in 1 .. b : key[j] < key[k] \/ (key[j] = key[k] /\ j < k) => pl(j) < pl(k)
  BY PlacesFollowRanks
<1>3. /\ \A n \in 1 .. b : /\ sig(n) \in 1 .. b
                           /\ RankIn(ByKey(1 .. b, key), 1 .. b, sig(n)) = n
      /\ \A j \in 1 .. b : \E n \in 1 .. b : sig(n) = j
  BY <1>1, SortingTakesAll
<1>4. /\ s \in Nat /\ t \in Nat /\ IsFiniteSet(S) /\ IsFiniteSet(T)
      /\ S \subseteq 1 .. a /\ T \subseteq 1 .. b
      /\ \A n \in 1 .. s : InTurn(a, x, b, y, n) = NthOf(S, n) /\ NthOf(S, n) \in S
      /\ \A n \in 1 .. t : InTurn(a, x, b, y, s + n) = a + NthOf(T, n) /\ NthOf(T, n) \in T
      /\ Ascends(g, s + t)
  <2>1. \A n \in 1 .. (s + t) : g[n] = InTurn(a, x, b, y, n)
    OBVIOUS
  <2> HIDE DEF g
  <2>2. AreInTurn(a, x, b, y, S, T, s, t, g)
    BY <1>1, <2>1 DEF AreInTurn
  <2> QED
    BY <2>2, InTurnAscends
<1>5. /\ \A i \in 1 .. a : i \in S <=> \E j \in 1 .. b : y[j] = x[i]
      /\ \A j \in 1 .. b : j \in T <=> \A i \in 1 .. a : y[j] # x[i]
  BY DEF Shared, Unshared
<1>6. S \subseteq Nat /\ T \subseteq Nat
  BY <1>4
<1>7. \A n \in 1 .. s : n \in 1 .. (s + t) /\ g[n] = NthOf(S, n)
  BY <1>4
<1>8. \A n \in 1 .. t : s + n \in 1 .. (s + t) /\ g[s + n] = a + NthOf(T, n)
  BY <1>4
<1>9. \A n \in 1 .. (s + t) : n \in 1 .. s \/ \E k \in 1 .. t : n = s + k
  <2> TAKE n \in 1 .. (s + t)
  <2>1. CASE n <= s
    BY <1>4, <2>1
  <2>2. CASE ~(n <= s)
    <3>1. n - s \in 1 .. t /\ n = s + (n - s)
      BY <1>4, <2>2
    <3> QED
      BY <3>1
  <2> QED
    BY <2>1, <2>2
<1>10. \A n \in 1 .. b : f[n] = pl(sig(n))
  OBVIOUS
<1> HIDE DEF pl, sig, g, f
<1>11. Ascends(f, b)
  <2>1. \A n \in 1 .. b : f[n] \in Nat
    BY <1>2, <1>3, <1>10
  <2>2. ASSUME NEW n \in 1 .. b, NEW r \in 1 .. b, n < r
        PROVE  f[n] < f[r]
    <3>1. sig(n) \in 1 .. b /\ sig(r) \in 1 .. b
      BY <1>3
    <3>2. PICK i \in 1 .. b : i = sig(n) /\ RankIn(ByKey(1 .. b, key), 1 .. b, i) = n
      BY <1>3, <3>1
    <3>3. PICK j \in 1 .. b : j = sig(r) /\ RankIn(ByKey(1 .. b, key), 1 .. b, j) = r
      BY <1>3, <3>1
    <3>4. key[i] < key[j] \/ (key[i] = key[j] /\ i < j)
      BY <1>1, <2>2, <3>2, <3>3, SortingIsOrdered
    <3> QED
      BY <1>2, <1>10, <3>2, <3>3, <3>4
  <2> QED
    BY <1>1, <2>1, <2>2 DEF Ascends
<1>12. \A n \in 1 .. b : \E r \in 1 .. (s + t) : g[r] = f[n]
  <2> TAKE n \in 1 .. b
  <2>1. sig(n) \in 1 .. b
    BY <1>3
  <2>2. CASE \E i \in 1 .. a : y[sig(n)] = x[i]
    <3>1. PICK i \in 1 .. a : y[sig(n)] = x[i]
      BY <2>2
    <3>2. i \in S /\ f[n] = i
      BY <1>2, <1>5, <1>10, <2>1, <3>1
    <3>3. PICK r \in 1 .. s : NthOf(S, r) = i
      BY <1>4, <1>6, <3>2, AllAreNth
    <3> QED
      BY <1>7, <3>2, <3>3
  <2>3. CASE \A i \in 1 .. a : y[sig(n)] # x[i]
    <3>1. sig(n) \in T /\ f[n] = a + sig(n)
      BY <1>2, <1>5, <1>10, <2>1, <2>3
    <3>2. PICK r \in 1 .. t : NthOf(T, r) = sig(n)
      BY <1>4, <1>6, <3>1, AllAreNth
    <3> QED
      BY <1>8, <3>1, <3>2
  <2> QED
    BY <2>2, <2>3
<1>13. \A r \in 1 .. (s + t) : \E n \in 1 .. b : f[n] = g[r]
  <2> TAKE r \in 1 .. (s + t)
  <2>1. CASE r \in 1 .. s
    <3>1. NthOf(S, r) \in S /\ g[r] = NthOf(S, r)
      BY <1>4, <1>7, <2>1
    <3>2. PICK j \in 1 .. b : y[j] = x[NthOf(S, r)]
      BY <1>4, <1>5, <3>1
    <3>3. PICK n \in 1 .. b : sig(n) = j
      BY <1>3
    <3>4. pl(j) = NthOf(S, r)
      BY <1>2, <1>4, <3>1, <3>2
    <3> QED
      BY <1>10, <3>1, <3>3, <3>4
  <2>2. CASE \E k \in 1 .. t : r = s + k
    <3>1. PICK k \in 1 .. t : r = s + k
      BY <2>2
    <3>2. NthOf(T, k) \in T /\ g[r] = a + NthOf(T, k)
      BY <1>4, <1>8, <3>1
    <3>3. PICK n \in 1 .. b : sig(n) = NthOf(T, k)
      BY <1>3, <1>4, <3>2
    <3>4. pl(NthOf(T, k)) = a + NthOf(T, k)
      BY <1>2, <1>4, <1>5, <3>2
    <3> QED
      BY <1>10, <3>2, <3>3, <3>4
  <2> QED
    BY <1>9, <2>1, <2>2
<1>14. b = s + t
  <2>1. b <= s + t
    BY <1>4, <1>11, <1>12, <1>13, AscentsAgree
  <2>2. s + t <= b
    BY <1>4, <1>11, <1>12, <1>13, AscentsAgree
  <2>3. b \in Nat /\ s \in Nat /\ t \in Nat
    BY <1>1, <1>4
  <2> QED
    BY <2>1, <2>2, <2>3
<1>15. \A n \in 1 .. b : f[n] = g[n]
  BY <1>4, <1>11, <1>12, <1>13, AscentsAgree
<1>16. ASSUME NEW n \in 1 .. b
       PROVE  \/ \E i \in 1 .. a : y[sig(n)] = x[i] /\ f[n] = i
              \/ f[n] = a + sig(n) /\ sig(n) \in 1 .. b
  BY <1>2, <1>3, <1>10
<1>17. \A n \in 1 .. s : y[sig(n)] = x[NthOf(S, n)]
  <2> TAKE n \in 1 .. s
  <2>1. n \in 1 .. b /\ f[n] = NthOf(S, n) /\ NthOf(S, n) \in 1 .. a
    BY <1>4, <1>7, <1>14, <1>15
  <2>2. ~(f[n] = a + sig(n) /\ sig(n) \in 1 .. b)
    BY <1>1, <2>1
  <2> QED
    BY <1>16, <2>1, <2>2
<1>18. \A n \in 1 .. t : y[sig(s + n)] = y[NthOf(T, n)]
  <2> TAKE n \in 1 .. t
  <2>1. s + n \in 1 .. b /\ f[s + n] = a + NthOf(T, n) /\ NthOf(T, n) \in 1 .. b
    BY <1>4, <1>8, <1>14, <1>15
  <2>2. ~\E i \in 1 .. a : f[s + n] = i
    BY <1>1, <2>1
  <2>3. f[s + n] = a + sig(s + n) /\ sig(s + n) \in 1 .. b
    BY <1>16, <2>1, <2>2
  <2>4. sig(s + n) = NthOf(T, n)
    BY <1>1, <2>1, <2>3
  <2> QED
    BY <2>4
<1> QED
  BY <1>14, <1>17, <1>18 DEF sig

(* What the user declares.                                                 *)
IsDeployment(d) ==
    /\ d = [l \in Lists |-> d[l]]
    /\ \A l \in Lists : d[l] \in Seq(ItemsOf(l))

(* What has the lists of a deployment, whatever is in them.                *)
HasLists(d) == DOMAIN d = Lists /\ \A l \in Lists : \E T : d[l] \in Seq(T)

(* A declared deployment has its lists.                                    *)
LEMMA DeploymentsHaveLists ==
    ASSUME NEW d, IsDeployment(d)
    PROVE  HasLists(d)
BY DEF IsDeployment, HasLists

(* Every list of a deployment has items with names.                        *)
LEMMA ItemsHaveNames ==
    ASSUME NEW d, HasLists(d), NEW l \in Lists
    PROVE  /\ Len(d[l]) \in Nat /\ DOMAIN d[l] = 1 .. Len(d[l])
           /\ NamesOf(d[l]) = [i \in 1 .. Len(d[l]) |-> d[l][i].name]
           /\ \A x : x \in NameSet(d, l) <=> \E i \in 1 .. Len(d[l]) : x = d[l][i].name
<1>1. PICK T : d[l] \in Seq(T)
  BY DEF HasLists
<1>2. Len(d[l]) \in Nat /\ DOMAIN d[l] = 1 .. Len(d[l])
  BY <1>1
<1>3. NamesOf(d[l]) = [i \in 1 .. Len(d[l]) |-> d[l][i].name]
  BY <1>2 DEF NamesOf
<1>4. \A x : x \in NameSet(d, l) <=> \E i \in 1 .. Len(d[l]) : x = d[l][i].name
  BY <1>3 DEF NameSet, Range
<1> QED
  BY <1>2, <1>3, <1>4

(* The places of a name, one by one.                                       *)
LEMMA PlacesAre ==
    ASSUME NEW d, NEW name
    PROVE  \A p : p \in Places(d, name) <=>
              \E k \in 1 .. 6 : \E i \in DOMAIN d[RankOrder[k]] :
                 d[RankOrder[k]][i].name = name /\ p = <<k, i>>
<1> QED
  BY DEF Places

(* When no two workloads share a name, a declared name has the rank of its *)
(* place, below that of a name that is nowhere.                            *)
LEMMA RanksOfNames ==
    ASSUME NEW d, HasLists(d), Clear(d), RanksFit(d), NEW l \in RankedLists
    PROVE  /\ Base(d, l) \in Nat
           /\ \A i \in 1 .. Len(d[l]) : /\ Rank(d, d[l][i].name) = Base(d, l) + i - 1
                                        /\ Rank(d, d[l][i].name) < 10000
           /\ \A name : (\A m \in RankedLists : name \notin NameSet(d, m)) =>
                 Rank(d, name) = 10000
<1>1. \A m \in Lists : Len(d[m]) \in Nat /\ DOMAIN d[m] = 1 .. Len(d[m])
  BY ItemsHaveNames
<1>2. Base(d, l) \in Nat
  <2>1. Len(d["disks"]) \in Nat /\ Len(d["volumes"]) \in Nat /\ Len(d["qsfs"]) \in Nat
        /\ Len(d["zdbs"]) \in Nat
    BY <1>1, ListsAre
  <2>2. l \in {"disks", "volumes", "qsfs", "zdbs", "vms", "lights"}
    BY ListsAre
  <2>9. \A m, n \in Nat : m + n \in Nat
    OBVIOUS
  <2>3. CASE l = "disks"
    BY <2>3 DEF Base
  <2>4. CASE l = "volumes"
    BY <2>1, <2>4 DEF Base
  <2>5. CASE l = "qsfs"
    <3>1. Base(d, l) = Len(d["disks"]) + Len(d["volumes"])
      BY <2>5 DEF Base
    <3> QED
      BY <2>1, <2>9, <3>1, Zenon
  <2>6. CASE l = "zdbs"
    <3>1. Base(d, l) = (Len(d["disks"]) + Len(d["volumes"])) + Len(d["qsfs"])
      BY <2>6 DEF Base
    <3>2. Len(d["disks"]) + Len(d["volumes"]) \in Nat
      BY <2>1, <2>9, Zenon
    <3> QED
      BY <2>1, <2>9, <3>1, <3>2, Zenon
  <2>7. CASE l = "vms"
    BY <2>7 DEF Base
  <2>8. CASE l = "lights"
    BY <2>8 DEF Base
  <2> QED
    BY <2>2, <2>3, <2>4, <2>5, <2>6, <2>7, <2>8
<1>3. l \in Lists /\ RankedLists \subseteq Lists
  BY DEF RankedLists
<1>4. PICK k \in 1 .. 6 : RankOrder[k] = l
  BY ListsAre DEF Range
<1>5. \A j \in 1 .. 6 : RankOrder[j] \in RankedLists
  BY ListsAre DEF Range
<1>6. \A m, o \in Lists : m # o => NameSet(d, m) \intersect NameSet(d, o) = {}
  BY DEF Clear
<1>7. ASSUME NEW i \in 1 .. Len(d[l]), NEW name, name = d[l][i].name
      PROVE  Rank(d, name) = Base(d, l) + i - 1 /\ Rank(d, name) < 10000
  <2>1. <<k, i>> \in Places(d, name)
    BY <1>1, <1>3, <1>4, <1>7, PlacesAre
  <2>2. ASSUME NEW p \in Places(d, name)
        PROVE  p = <<k, i>>
    <3>1. PICK j \in 1 .. 6 : \E e \in DOMAIN d[RankOrder[j]] :
                 d[RankOrder[j]][e].name = name /\ p = <<j, e>>
      BY PlacesAre
    <3>2. PICK e \in DOMAIN d[RankOrder[j]] : d[RankOrder[j]][e].name = name /\ p = <<j, e>>
      BY <3>1
    <3>3. RankOrder[j] \in Lists
      BY <1>3, <1>5
    <3>4. name \in NameSet(d, RankOrder[j]) /\ name \in NameSet(d, l)
      <4>1. e \in 1 .. Len(d[RankOrder[j]])
        BY <1>1, <3>3
      <4> QED
        BY <1>3, <1>7, <3>2, <3>3, <4>1, ItemsHaveNames
    <3>5. RankOrder[j] = l
      BY <1>3, <1>6, <3>3, <3>4
    <3>6. j = k
      BY <1>4, <3>5, ListsAre
    <3>7. e = i
      <4>1. IsInjective(NamesOf(d[l]))
        BY <1>3 DEF Clear
      <4>2. e \in 1 .. Len(d[l]) /\ NamesOf(d[l])[e] = NamesOf(d[l])[i]
        <5>1. e \in 1 .. Len(d[l]) /\ d[l][e].name = d[l][i].name
          BY <1>1, <1>3, <1>7, <3>2, <3>5
        <5>2. NamesOf(d[l]) = [n \in 1 .. Len(d[l]) |-> d[l][n].name]
          BY <1>3, ItemsHaveNames
        <5> QED
          BY <5>1, <5>2
      <4>3. DOMAIN NamesOf(d[l]) = 1 .. Len(d[l])
        BY <1>3, ItemsHaveNames
      <4> QED
        BY <4>1, <4>2, <4>3 DEF IsInjective
    <3> QED
      BY <3>2, <3>6, <3>7
  <2> DEFINE p == CHOOSE x \in Places(d, name) : \A y \in Places(d, name) :
                     y[1] < x[1] \/ (y[1] = x[1] /\ y[2] <= x[2])
  <2>3. p = <<k, i>>
    <3>1. \E x \in Places(d, name) : \A y \in Places(d, name) :
                     y[1] < x[1] \/ (y[1] = x[1] /\ y[2] <= x[2])
      BY <2>1, <2>2
    <3>2. p \in Places(d, name)
      BY <3>1
    <3> QED
      BY <2>2, <3>2
  <2>4. Rank(d, name) = Base(d, RankOrder[p[1]]) + p[2] - 1
    BY <2>1 DEF Rank
  <2> HIDE DEF p
  <2>5. p[1] = k /\ p[2] = i
    BY <2>3
  <2>6. Rank(d, name) = Base(d, l) + i - 1
    BY <1>4, <2>4, <2>5
  <2>7. Base(d, l) + Len(d[l]) <= 10000
    BY ListsAre DEF RanksFit
  <2> QED
    BY <1>1, <1>2, <1>3, <2>6, <2>7
<1>8. ASSUME NEW name, \A m \in RankedLists : name \notin NameSet(d, m)
      PROVE  Rank(d, name) = 10000
  <2>1. SUFFICES ASSUME Places(d, name) # {} PROVE FALSE
    BY DEF Rank
  <2>2. PICK j \in 1 .. 6 : \E e \in DOMAIN d[RankOrder[j]] : d[RankOrder[j]][e].name = name
    BY <2>1, PlacesAre
  <2>3. RankOrder[j] \in RankedLists /\ RankOrder[j] \in Lists
    BY <1>3, <1>5
  <2>4. name \in NameSet(d, RankOrder[j])
    BY <1>1, <2>2, <2>3, ItemsHaveNames
  <2> QED
    BY <1>8, <2>3, <2>4
<1> QED
  BY <1>2, <1>7, <1>8

(* Two sequences put together, place by place.                             *)
LEMMA BothAreThere ==
    ASSUME NEW T, NEW u \in Seq(T), NEW v \in Seq(T), NEW s, s = Len(u), NEW t, t = Len(v)
    PROVE  /\ s \in Nat /\ t \in Nat /\ u \o v \in Seq(T) /\ Len(u \o v) = s + t
           /\ DOMAIN (u \o v) = 1 .. (s + t)
           /\ \A n \in 1 .. s : (u \o v)[n] = u[n]
           /\ \A n \in 1 .. t : (u \o v)[s + n] = v[n]
OBVIOUS

(* The first m entries of s are in T.                                      *)
AreAmong(s, m, T) == m \in Nat /\ \A i \in 1 .. m : s[i] \in T

(* Entries of a sequence are a sequence.                                   *)
LEMMA EntriesAreASequence ==
    ASSUME NEW T, NEW m, NEW s, AreAmong(s, m, T), NEW S, S \subseteq 1 .. m
    PROVE  EntriesAt(s, S) \in Seq(T) /\ Len(EntriesAt(s, S)) = Cardinality(S)
<1>1. IsFiniteSet(S) /\ S \subseteq Nat
  <2>1. IsFiniteSet(1 .. m) /\ S \in SUBSET (1 .. m) /\ S \subseteq Nat
    BY FS_Interval DEF AreAmong
  <2>2. IsFiniteSet(S)
    BY <2>1, FS_Subset
  <2> QED
    BY <2>1, <2>2
<1>2. Cardinality(S) \in Nat /\ \A n \in 1 .. Cardinality(S) : NthOf(S, n) \in S
  BY <1>1, EntriesAreKept
<1>3. \A n \in 1 .. Cardinality(S) : s[NthOf(S, n)] \in T
  BY <1>2 DEF AreAmong
<1> QED
  BY <1>2, <1>3 DEF EntriesAt

(* s has m entries, and each has a key.                                    *)
CanBeSorted(s, m, key) ==
    m \in Nat /\ DOMAIN s = 1 .. m /\ \A k \in 1 .. m : key[k] \in Nat

(* Sorted, it has m entries of its own.                                    *)
LEMMA SortedPlaces ==
    ASSUME NEW s, NEW m, NEW key, CanBeSorted(s, m, key)
    PROVE  /\ DOMAIN SortedByKey(s, key) = 1 .. m
           /\ \A n \in 1 .. m : /\ Sorting(1 .. m, key, n) \in 1 .. m
                               /\ SortedByKey(s, key)[n] = s[Sorting(1 .. m, key, n)]
<1>1. m \in Nat /\ DOMAIN s = 1 .. m /\ \A k \in 1 .. m : key[k] \in Nat
  BY DEF CanBeSorted
<1>2. DOMAIN SortedByKey(s, key) = 1 .. m
  BY <1>1, SortingIsSound
<1>3. \A n \in 1 .. m : Sorting(1 .. m, key, n) \in 1 .. m
  BY <1>1, SortingTakesAll
<1>4. ASSUME NEW n \in 1 .. m
      PROVE  SortedByKey(s, key)[n] = s[Sorting(1 .. m, key, n)]
  BY <1>1, SortingIsSound
<1> QED
  BY <1>2, <1>3, <1>4

(* match_deployments on a list: places of the result, and its names.       *)
LEMMA ListIsMatched ==
    ASSUME NEW d, HasLists(d), Clear(d), RanksFit(d), NEW e, HasLists(e), Clear(e),
           Compatible(d, e), NEW l \in RankedLists
    PROVE  NamesOf(SortedLike(d, e[l])) =
              NamesAmong(d, l, NameSet(e, l))
              \o NamesAmong(e, l, NameSet(e, l) \ NameSet(d, l))
<1> DEFINE a == Len(d[l])
           x == NamesOf(d[l])
           b == Len(e[l])
           y == NamesOf(e[l])
           key == [k \in DOMAIN e[l] |-> Rank(d, e[l][k].name)]
           S == Shared(a, x, b, y)
           T == Unshared(a, x, b, y)
           s == Cardinality(S)
           t == Cardinality(T)
<1>0. l \in Lists /\ RankedLists \subseteq Lists
  BY DEF RankedLists
<1>1. /\ a \in Nat /\ DOMAIN d[l] = 1 .. a /\ x = [i \in 1 .. a |-> d[l][i].name]
      /\ \A n : n \in NameSet(d, l) <=> \E i \in 1 .. a : n = d[l][i].name
  BY <1>0, ItemsHaveNames
<1>2. /\ b \in Nat /\ DOMAIN e[l] = 1 .. b /\ y = [j \in 1 .. b |-> e[l][j].name]
      /\ \A n : n \in NameSet(e, l) <=> \E j \in 1 .. b : n = e[l][j].name
  BY <1>0, ItemsHaveNames
<1>3. /\ \A i \in 1 .. a : x[i] = d[l][i].name
      /\ \A j \in 1 .. b : y[j] = e[l][j].name /\ key[j] = Rank(d, y[j])
      /\ DOMAIN x = 1 .. a /\ DOMAIN y = 1 .. b
  BY <1>1, <1>2
<1>4. /\ \A i, k \in 1 .. a : x[i] = x[k] => i = k
      /\ \A j, k \in 1 .. b : y[j] = y[k] => j = k
  <2>1. IsInjective(x) /\ IsInjective(y)
    BY <1>0 DEF Clear
  <2> QED
    BY <1>3, <2>1 DEF IsInjective
<1>5. SortedLike(d, e[l]) = SortedByKey(e[l], key)
  BY DEF SortedLike
<1>6. /\ NamesAmong(d, l, NameSet(e, l)) =
            EntriesAt(x, {i \in DOMAIN d[l] : d[l][i].name \in NameSet(e, l)})
      /\ NamesAmong(e, l, NameSet(e, l) \ NameSet(d, l)) =
            EntriesAt(y, {j \in DOMAIN e[l] : e[l][j].name \in NameSet(e, l) \ NameSet(d, l)})
  BY DEF NamesAmong
<1> HIDE DEF a, x, b, y, key
<1>7. /\ Base(d, l) \in Nat
      /\ \A i \in 1 .. a : /\ Rank(d, x[i]) = Base(d, l) + i - 1 /\ Rank(d, x[i]) < 10000
      /\ \A n : (\A m \in RankedLists : n \notin NameSet(d, m)) => Rank(d, n) = 10000
  <2>1. a = Len(d[l])
    BY DEF a
  <2> QED
    BY <1>3, <2>1, RanksOfNames
<1>8. ASSUME NEW j \in 1 .. b
      PROVE  /\ \A i \in 1 .. a :
                   y[j] = x[i] => key[j] = Base(d, l) + i - 1 /\ key[j] < 10000
             /\ (\A i \in 1 .. a : y[j] # x[i]) => key[j] = 10000
             /\ key[j] \in Nat
  <2>1. key[j] = Rank(d, y[j]) /\ y[j] = e[l][j].name /\ y[j] \in NameSet(e, l)
    BY <1>2, <1>3
  <2>2. \A i \in 1 .. a : y[j] = x[i] => key[j] = Base(d, l) + i - 1 /\ key[j] < 10000
    BY <1>7, <2>1
  <2>3. ASSUME \A i \in 1 .. a : y[j] # x[i]
        PROVE  key[j] = 10000
    <3>1. y[j] \notin NameSet(d, l)
      BY <1>1, <1>3, <2>3
    <3>2. \A m \in RankedLists : y[j] \notin NameSet(d, m)
      <4> TAKE m \in RankedLists
      <4>1. CASE m = l
        BY <3>1, <4>1
      <4>2. CASE m # l
        BY <1>0, <2>1, <4>2 DEF Compatible
      <4> QED
        BY <4>1, <4>2
    <3> QED
      BY <1>7, <2>1, <3>2
  <2>4. key[j] \in Nat
    <3>1. CASE \E i \in 1 .. a : y[j] = x[i]
      <4>1. PICK i \in 1 .. a : y[j] = x[i]
        BY <3>1
      <4>2. key[j] = Base(d, l) + i - 1
        BY <2>2, <4>1
      <4> QED
        BY <1>1, <1>7, <4>2
    <3>2. CASE \A i \in 1 .. a : y[j] # x[i]
      BY <2>3, <3>2
    <3> QED
      BY <3>1, <3>2
  <2> QED
    BY <2>2, <2>3, <2>4
<1>9. AreRanked(a, x, b, y, Base(d, l), key)
  BY <1>1, <1>2, <1>3, <1>4, <1>7, <1>8 DEF AreRanked
<1>10. /\ S \subseteq 1 .. a /\ T \subseteq 1 .. b
       /\ S = {i \in DOMAIN d[l] : d[l][i].name \in NameSet(e, l)}
       /\ T = {j \in DOMAIN e[l] : e[l][j].name \in NameSet(e, l) \ NameSet(d, l)}
  <2>1. \A i \in 1 .. a : i \in S <=> d[l][i].name \in NameSet(e, l)
    BY <1>2, <1>3 DEF Shared
  <2>2. \A j \in 1 .. b : j \in T <=> e[l][j].name \in NameSet(e, l) \ NameSet(d, l)
    BY <1>1, <1>2, <1>3 DEF Unshared
  <2>3. S \subseteq 1 .. a /\ T \subseteq 1 .. b
    BY DEF Shared, Unshared
  <2> HIDE DEF S, T
  <2> QED
    BY <1>1, <1>2, <2>1, <2>2, <2>3
<1>11. /\ b = s + t
       /\ \A n \in 1 .. s : y[Sorting(1 .. b, key, n)] = x[NthOf(S, n)]
       /\ \A n \in 1 .. t : y[Sorting(1 .. b, key, s + n)] = y[NthOf(T, n)]
  BY <1>9, RankedAreInTurn
<1> HIDE DEF S, T
<1>12. /\ DOMAIN SortedByKey(e[l], key) = 1 .. b
       /\ \A n \in 1 .. b : /\ Sorting(1 .. b, key, n) \in 1 .. b
                           /\ SortedByKey(e[l], key)[n] = e[l][Sorting(1 .. b, key, n)]
  <2>1. CanBeSorted(e[l], b, key)
    BY <1>2, <1>8 DEF CanBeSorted
  <2> QED
    BY <2>1, SortedPlaces
<1>13. NamesOf(SortedLike(d, e[l])) = [n \in 1 .. b |-> y[Sorting(1 .. b, key, n)]]
  BY <1>3, <1>5, <1>12 DEF NamesOf
<1> DEFINE N == NameSet(d, l) \union NameSet(e, l)
<1>14. AreAmong(x, a, N) /\ AreAmong(y, b, N)
  BY <1>1, <1>2, <1>3 DEF AreAmong
<1> HIDE DEF N
<1>15. EntriesAt(x, S) \in Seq(N) /\ Len(EntriesAt(x, S)) = s
  BY <1>10, <1>14, EntriesAreASequence
<1>16. EntriesAt(y, T) \in Seq(N) /\ Len(EntriesAt(y, T)) = t
  BY <1>10, <1>14, EntriesAreASequence
<1> HIDE DEF s, t
<1>17. PICK u, v : u = EntriesAt(x, S) /\ v = EntriesAt(y, T)
  OBVIOUS
<1>18. /\ s \in Nat /\ t \in Nat /\ u \o v \in Seq(N) /\ Len(u \o v) = s + t
       /\ \A n \in 1 .. s : (u \o v)[n] = u[n]
       /\ \A n \in 1 .. t : (u \o v)[s + n] = v[n]
  <2>1. u \in Seq(N) /\ v \in Seq(N) /\ Len(u) = s /\ Len(v) = t
    BY <1>15, <1>16, <1>17
  <2>2. /\ s \in Nat /\ t \in Nat /\ u \o v \in Seq(N) /\ Len(u \o v) = s + t
    BY <2>1
  <2>3. \A n \in 1 .. s : (u \o v)[n] = u[n]
    BY <2>1
  <2>4. \A n \in 1 .. t : (u \o v)[s + n] = v[n]
    BY <2>1
  <2> QED
    BY <2>2, <2>3, <2>4
<1>19. /\ \A n \in 1 .. s : u[n] = x[NthOf(S, n)]
       /\ \A n \in 1 .. t : v[n] = y[NthOf(T, n)]
  BY <1>17 DEF EntriesAt, s, t
<1>20. \A n \in 1 .. b : (u \o v)[n] = y[Sorting(1 .. b, key, n)]
  <2> TAKE n \in 1 .. b
  <2>1. CASE n <= s
    <3>1. n \in 1 .. s
      BY <1>18, <2>1
    <3> QED
      BY <1>11, <1>18, <1>19, <3>1
  <2>2. CASE ~(n <= s)
    <3>1. PICK k \in 1 .. t : n = s + k
      <4>1. n - s \in 1 .. t /\ n = s + (n - s)
        BY <1>11, <1>18, <2>2
      <4> QED
        BY <4>1
    <3>2. (u \o v)[n] = v[k]
      BY <1>18, <3>1
    <3>3. v[k] = y[NthOf(T, k)]
      BY <1>19
    <3> QED
      BY <1>11, <3>1, <3>2, <3>3
  <2> QED
    BY <2>1, <2>2
<1>21. u \o v = [n \in 1 .. b |-> y[Sorting(1 .. b, key, n)]]
  <2>1. u \o v \in Seq(N) /\ Len(u \o v) = b
    BY <1>11, <1>18
  <2>2. \A w \in Seq(N) : w = [n \in 1 .. Len(w) |-> w[n]]
    OBVIOUS
  <2>3. u \o v = [n \in 1 .. b |-> (u \o v)[n]]
    BY <2>1, <2>2
  <2> QED
    BY <1>20, <2>3
<1> QED
  BY <1>6, <1>10, <1>13, <1>17, <1>21

(* A workload as it is sent.                                               *)
WorkloadOf(t, n, s) == [type |-> t, name |-> n, secret |-> s]

(* The one that stands for the public IP of VM n.                          *)
AddressOf(n) == WorkloadOf("ip", IpName(n), FALSE)

(* What an item becomes: itself and, for a VM, its public IP.              *)
Becomes(l, it, w) ==
    \/ w = WorkloadOf(l, it.name, it.secret)
    \/ l = "vms" /\ it.publicIp /\ w = AddressOf(it.name)

(* Two sequences of one make a sequence of two.                            *)
LEMMA PairIsBoth ==
    ASSUME NEW p, NEW v
    PROVE  <<p>> \o <<v>> = <<p, v>>
<1> DEFINE T == {p, v}
<1>1. PICK x, y : x = <<p>> /\ y = <<v>>
  OBVIOUS
<1>2. x \in Seq(T) /\ y \in Seq(T) /\ Len(x) = 1 /\ Len(y) = 1 /\ x[1] = p /\ y[1] = v
  BY <1>1
<1> HIDE DEF T
<1>3. PICK z, s, t : z = x \o y /\ s = Len(x) /\ t = Len(y)
  OBVIOUS
<1>4. /\ z \in Seq(T) /\ Len(z) = s + t
      /\ \A n \in 1 .. s : z[n] = x[n]
      /\ \A n \in 1 .. t : z[s + n] = y[n]
  <2>1. x \in Seq(T) /\ y \in Seq(T) /\ s = Len(x) /\ t = Len(y)
    BY <1>2, <1>3
  <2>2. /\ x \o y \in Seq(T) /\ Len(x \o y) = s + t
        /\ \A n \in 1 .. s : (x \o y)[n] = x[n]
        /\ \A n \in 1 .. t : (x \o y)[s + n] = y[n]
    BY <2>1, BothAreThere
  <2> QED
    BY <1>3, <2>2
<1>5. z \in Seq(T) /\ Len(z) = 2 /\ z[1] = p /\ z[2] = v
  <2>1. s = 1 /\ t = 1 /\ 1 \in 1 .. 1 /\ 1 + 1 = 2
    BY <1>2, <1>3
  <2> QED
    BY <1>2, <1>4, <2>1
<1>6. z = <<p, v>>
  BY <1>5
<1> QED
  BY <1>1, <1>3, <1>6

(* zos_workload makes a sequence of just these.                            *)
LEMMA ItemBecomes ==
    ASSUME NEW l, NEW it, NEW T, \A w : Becomes(l, it, w) => w \in T
    PROVE  /\ ZosWorkload(l, it) \in Seq(T)
           /\ \A w : w \in Range(ZosWorkload(l, it)) <=> Becomes(l, it, w)
<1>1. PICK v, p : v = WorkloadOf(l, it.name, it.secret) /\ p = AddressOf(it.name)
  OBVIOUS
<1>2. \A w : Becomes(l, it, w) <=> w = v \/ (l = "vms" /\ it.publicIp /\ w = p)
  BY <1>1 DEF Becomes
<1>3. ZosWorkload(l, it) =
         (IF l = "vms" /\ it.publicIp THEN <<p>> ELSE <<>>) \o <<v>>
  BY <1>1 DEF ZosWorkload, WorkloadOf, AddressOf
<1>4. v \in T
  BY <1>2
<1>5. CASE l = "vms" /\ it.publicIp
  <2>1. p \in T
    BY <1>2, <1>5
  <2>2. ZosWorkload(l, it) = <<p, v>>
    <3>1. <<p>> \o <<v>> = <<p, v>>
      BY PairIsBoth
    <3> QED
      BY <1>3, <1>5, <3>1
  <2>3. \A w : w \in Range(<<p, v>>) <=> w = p \/ w = v
    BY DEF Range
  <2>4. <<p, v>> \in Seq(T)
    BY <1>4, <2>1
  <2>5. \A w : Becomes(l, it, w) <=> w = p \/ w = v
    BY <1>2, <1>5
  <2> QED
    BY <2>2, <2>3, <2>4, <2>5
<1>6. CASE ~(l = "vms" /\ it.publicIp)
  <2>1. ZosWorkload(l, it) = <<v>>
    <3>1. <<>> \o <<v>> = <<v>>
      BY <1>4
    <3> QED
      BY <1>3, <1>6, <3>1
  <2>2. \A w : w \in Range(<<v>>) <=> w = v
    BY DEF Range
  <2>3. <<v>> \in Seq(T)
    BY <1>4
  <2> QED
    BY <1>2, <1>6, <2>1, <2>2, <2>3
<1> QED
  BY <1>5, <1>6

(* zos_deployment makes what the items of all lists become.                *)
LEMMA DeploymentBecomes ==
    ASSUME NEW d, IsDeployment(d)
    PROVE  /\ \E T : ZosDeployment(d) \in Seq(T)
           /\ \A w : w \in Range(ZosDeployment(d)) <=>
                 \E l \in Lists : \E i \in 1 .. Len(d[l]) : Becomes(l, d[l][i], w)
<1>0. HasLists(d)
  BY DeploymentsHaveLists
<1>1. \A l \in Lists : Len(d[l]) \in Nat /\ DOMAIN d[l] = 1 .. Len(d[l])
  BY <1>0, ItemsHaveNames
<1> DEFINE N == UNION {NameSet(d, l) : l \in Lists}
           M == N \union {IpName(n) : n \in N}
           T == {WorkloadOf(t, n, s) : t \in Lists \union {"ip"}, n \in M, s \in BOOLEAN}
           Of(l) == [i \in DOMAIN d[l] |-> ZosWorkload(l, d[l][i])]
           ss == [k \in 1 .. 7 |-> FlattenSeq(Of(ListNames[k]))]
<1>2. ASSUME NEW l \in Lists, NEW i \in 1 .. Len(d[l]), NEW w, Becomes(l, d[l][i], w)
      PROVE  w \in T
  <2>1. d[l][i].name \in N
    BY <1>0, ItemsHaveNames
  <2>2. d[l][i].name \in M /\ IpName(d[l][i].name) \in M
    BY <2>1
  <2>3. d[l][i].secret \in BOOLEAN
    <3>1. d[l][i] \in ItemsOf(l)
      BY <1>1 DEF IsDeployment
    <3> QED
      BY <3>1 DEF ItemsOf
  <2> HIDE DEF M
  <2>4. l \in Lists \union {"ip"} /\ "ip" \in Lists \union {"ip"} /\ FALSE \in BOOLEAN
    OBVIOUS
  <2>7. \A t \in Lists \union {"ip"}, n \in M, s \in BOOLEAN : WorkloadOf(t, n, s) \in T
    OBVIOUS
  <2> HIDE DEF T
  <2>5. CASE w = WorkloadOf(l, d[l][i].name, d[l][i].secret)
    BY <2>2, <2>3, <2>4, <2>5, <2>7
  <2>6. CASE w = AddressOf(d[l][i].name)
    BY <2>2, <2>4, <2>6, <2>7, Zenon DEF AddressOf
  <2> QED
    BY <1>2, <2>5, <2>6, Zenon DEF Becomes
<1> HIDE DEF T
<1>3. ASSUME NEW l \in Lists
      PROVE  /\ FlattenSeq(Of(l)) \in Seq(T)
             /\ \A w : w \in Range(FlattenSeq(Of(l))) <=>
                   \E i \in 1 .. Len(d[l]) : Becomes(l, d[l][i], w)
  <2>1. \A i \in 1 .. Len(d[l]) :
           /\ ZosWorkload(l, d[l][i]) \in Seq(T)
           /\ \A w : w \in Range(ZosWorkload(l, d[l][i])) <=> Becomes(l, d[l][i], w)
    <3> TAKE i \in 1 .. Len(d[l])
    <3>1. PICK it : it = d[l][i]
      OBVIOUS
    <3>2. \A w : Becomes(l, it, w) => w \in T
      BY <1>2, <3>1
    <3> QED
      BY <3>1, <3>2, ItemBecomes
  <2>2. Of(l) \in Seq(Seq(T)) /\ DOMAIN Of(l) = 1 .. Len(d[l])
    BY <1>1, <2>1
  <2>3. \A i \in 1 .. Len(d[l]) : Of(l)[i] = ZosWorkload(l, d[l][i])
    BY <1>1
  <2> HIDE DEF Of
  <2>4. /\ FlattenSeq(Of(l)) \in Seq(T)
        /\ \A w : w \in Range(FlattenSeq(Of(l))) <=>
              \E i \in DOMAIN Of(l) : w \in Range(Of(l)[i])
    BY <2>2, Flattened
  <2> QED
    BY <2>1, <2>2, <2>3, <2>4
<1>4. ZosDeployment(d) = FlattenSeq(ss)
  <2>1. Len(ListNames) = 7
    BY DEF ListNames
  <2> QED
    BY <2>1 DEF ZosDeployment
<1>5. /\ \A k \in 1 .. 7 : ListNames[k] \in Lists
      /\ \A l \in Lists : \E k \in 1 .. 7 : l = ListNames[k]
  <2>1. DOMAIN ListNames = 1 .. 7
    BY DEF ListNames
  <2> QED
    BY <2>1 DEF Lists, Range
<1> HIDE DEF Of
<1>6. \A k \in 1 .. 7 : ss[k] = FlattenSeq(Of(ListNames[k])) /\ ss[k] \in Seq(T)
  BY <1>3, <1>5
<1>7. ss \in Seq(Seq(T)) /\ DOMAIN ss = 1 .. 7
  BY <1>6
<1> HIDE DEF ss
<1>8. /\ FlattenSeq(ss) \in Seq(T)
      /\ \A w : w \in Range(FlattenSeq(ss)) <=> \E k \in 1 .. 7 : w \in Range(ss[k])
  BY <1>7, Flattened
<1>9. ASSUME NEW w
      PROVE  (\E k \in 1 .. 7 : w \in Range(ss[k])) <=>
                \E l \in Lists : \E i \in 1 .. Len(d[l]) : Becomes(l, d[l][i], w)
  <2>1. ASSUME NEW k \in 1 .. 7, w \in Range(ss[k])
        PROVE  \E l \in Lists : \E i \in 1 .. Len(d[l]) : Becomes(l, d[l][i], w)
    BY <1>3, <1>5, <1>6, <2>1
  <2>2. ASSUME NEW l \in Lists, NEW i \in 1 .. Len(d[l]), Becomes(l, d[l][i], w)
        PROVE  \E k \in 1 .. 7 : w \in Range(ss[k])
    <3>1. PICK k \in 1 .. 7 : l = ListNames[k]
      BY <1>5
    <3>2. w \in Range(FlattenSeq(Of(l)))
      BY <1>3, <2>2
    <3> QED
      BY <1>6, <3>1, <3>2
  <2> QED
    BY <2>1, <2>2
<1> QED
  BY <1>4, <1>8, <1>9

(* find: nothing, or a workload of that name.                              *)
LEMMA FirstIsOne ==
    ASSUME NEW ws, NEW n \in Nat, DOMAIN ws = 1 .. n, NEW name
    PROVE  /\ (\A i \in 1 .. n : ws[i].name # name) => FirstNamed(ws, name) = {}
           /\ (\E i \in 1 .. n : ws[i].name = name) =>
                 \E k \in 1 .. n : ws[k].name = name /\ FirstNamed(ws, name) = {ws[k]}
<1> DEFINE S == {i \in DOMAIN ws : ws[i].name = name}
           k == CHOOSE i \in S : \A j \in S : i <= j
<1>1. FirstNamed(ws, name) = IF S = {} THEN {} ELSE {ws[k]}
  BY DEF FirstNamed
<1>2. S \subseteq Nat /\ \A i \in 1 .. n : i \in S <=> ws[i].name = name
  OBVIOUS
<1>3. \A i \in S : i \in 1 .. n
  OBVIOUS
<1> HIDE DEF S
<1>4. S # {} => k \in S
  <2> SUFFICES ASSUME S # {} PROVE k \in S
    OBVIOUS
  <2>1. \E i \in S : \A j \in S : i <= j
    BY <1>2, LeastExists
  <2> QED
    BY <2>1
<1> HIDE DEF k
<1> QED
  BY <1>1, <1>2, <1>3, <1>4

(* The workload itself, without its result.                                *)
PlainOf(w) == WorkloadOf(w.type, w.name, w.secret)

(* ws has what the items of d become, all of it okay.                      *)
Holds(d, ws) ==
    /\ \E n \in Nat : DOMAIN ws = 1 .. n
    /\ \A i \in DOMAIN ws :
          ws[i].okay /\ \E l \in Lists : \E k \in 1 .. Len(d[l]) :
                           Becomes(l, d[l][k], PlainOf(ws[i]))
    /\ \A l \in Lists : \A k \in 1 .. Len(d[l]) :
          \A w : Becomes(l, d[l][k], w) => \E i \in DOMAIN ws : w = PlainOf(ws[i])

(* Workloads are equal only when all that is sent of them is.              *)
LEMMA WorkloadsDiffer ==
    ASSUME NEW t, NEW n, NEW s, NEW u, NEW m, NEW r, WorkloadOf(t, n, s) = WorkloadOf(u, m, r)
    PROVE  t = u /\ n = m /\ s = r
<1>1. /\ WorkloadOf(t, n, s).type = t /\ WorkloadOf(u, m, r).type = u
      /\ WorkloadOf(t, n, s).name = n /\ WorkloadOf(u, m, r).name = m
      /\ WorkloadOf(t, n, s).secret = s /\ WorkloadOf(u, m, r).secret = r
  BY DEF WorkloadOf
<1> QED
  BY <1>1

(* One that stands for a public IP is of no other type and name.           *)
LEMMA AddressesDiffer ==
    ASSUME NEW n, NEW u, NEW m, NEW r, WorkloadOf(u, m, r) = AddressOf(n)
    PROVE  u = "ip" /\ m = IpName(n)
<1>1. WorkloadOf(u, m, r).type = u /\ WorkloadOf(u, m, r).name = m
  BY DEF WorkloadOf
<1>2. AddressOf(n).type = "ip" /\ AddressOf(n).name = IpName(n)
  BY DEF WorkloadOf, AddressOf
<1> QED
  BY <1>1, <1>2

(* A name with "ip" behind it is some one name's.                          *)
LEMMA IpNamesDiffer ==
    ASSUME NEW n \in Seq(STRING), NEW m \in Seq(STRING), IpName(n) = IpName(m)
    PROVE  n = m
<1>1. PICK x, y, i : /\ i = "ip" /\ x = Append(n, i) /\ y = Append(m, i)
  OBVIOUS
<1>2. x = y
  BY <1>1 DEF IpName
<1>3. /\ Len(x) = Len(n) + 1 /\ Len(y) = Len(m) + 1
      /\ \A k \in 1 .. Len(n) : x[k] = n[k]
      /\ \A k \in 1 .. Len(m) : y[k] = m[k]
  <2>1. n \in Seq(STRING \union {i}) /\ m \in Seq(STRING \union {i}) /\ i \in STRING \union {i}
    OBVIOUS
  <2> QED
    BY <1>1, <2>1
<1>4. Len(n) = Len(m)
  BY <1>2, <1>3
<1>5. \A k \in 1 .. Len(n) : n[k] = m[k]
  BY <1>2, <1>3, <1>4
<1> QED
  BY <1>4, <1>5

(* What stands for a VM's public IP is found when the VM has one, and only *)
(* then.                                                                   *)
LEMMA AddressesAreFound ==
    ASSUME NEW d, IsDeployment(d), Clear(d), NEW ws, Holds(d, ws),
           NEW k \in 1 .. Len(d["vms"]), NEW it, it = d["vms"][k]
    PROVE  HasPublicIp(ws, it.name) <=> it.publicIp
<1>0. HasLists(d) /\ "vms" \in Lists /\ "ip" \notin Lists
  BY DeploymentsHaveLists, ListsAre
<1>1. PICK n \in Nat : DOMAIN ws = 1 .. n
  BY DEF Holds
<1>2. \A l \in Lists : \A i \in 1 .. Len(d[l]) : d[l][i] \in ItemsOf(l) /\ d[l][i].name \in Seq(STRING)
  <2> TAKE l \in Lists
  <2> TAKE i \in 1 .. Len(d[l])
  <2>1. d[l][i] \in ItemsOf(l)
    BY DEF IsDeployment
  <2> QED
    BY <2>1 DEF ItemsOf
<1>3. it.name \in NameSet(d, "vms")
  BY <1>0, ItemsHaveNames
<1>4. ASSUME NEW i \in 1 .. n, ws[i].name = IpName(it.name)
      PROVE  it.publicIp /\ ws[i].type = "ip" /\ ws[i].okay
  <2>0. PICK l \in Lists : \E e \in 1 .. Len(d[l]) : Becomes(l, d[l][e], PlainOf(ws[i]))
    BY <1>1 DEF Holds
  <2>1. PICK e \in 1 .. Len(d[l]) : Becomes(l, d[l][e], PlainOf(ws[i]))
    BY <2>0
  <2>2. ws[i].okay
    BY <1>1 DEF Holds
  <2>3. CASE PlainOf(ws[i]) = WorkloadOf(l, d[l][e].name, d[l][e].secret)
    <3>1. IpName(it.name) = d[l][e].name
      BY <1>4, <2>3, WorkloadsDiffer DEF PlainOf
    <3>2. IpName(it.name) \in NameSet(d, l)
      BY <1>0, <3>1, ItemsHaveNames
    <3> QED
      BY <1>3, <3>2 DEF Clear
  <2>4. CASE l = "vms" /\ d[l][e].publicIp /\ PlainOf(ws[i]) = AddressOf(d[l][e].name)
    <3>1. ws[i].type = "ip" /\ IpName(it.name) = IpName(d[l][e].name)
      BY <1>4, <2>4, AddressesDiffer DEF PlainOf
    <3>2. it.name = d[l][e].name
      BY <1>0, <1>2, <3>1, IpNamesDiffer
    <3>3. k = e
      <4>1. IsInjective(NamesOf(d[l]))
        BY DEF Clear
      <4>2. NamesOf(d[l]) = [j \in 1 .. Len(d[l]) |-> d[l][j].name]
        BY <1>0, ItemsHaveNames
      <4>3. k \in 1 .. Len(d[l]) /\ d[l][k].name = d[l][e].name
        BY <2>4, <3>2
      <4> QED
        BY <4>1, <4>2, <4>3 DEF IsInjective
    <3> QED
      BY <2>2, <2>4, <3>1, <3>3
  <2> QED
    BY <2>1, <2>3, <2>4 DEF Becomes
<1>5. CASE \A i \in 1 .. n : ws[i].name # IpName(it.name)
  <2>1. ~HasPublicIp(ws, it.name)
    BY <1>1, <1>5, FirstIsOne DEF HasPublicIp
  <2>2. ASSUME it.publicIp PROVE FALSE
    <3>1. Becomes("vms", d["vms"][k], AddressOf(it.name))
      BY <2>2 DEF Becomes
    <3>2. PICK i \in DOMAIN ws : AddressOf(it.name) = PlainOf(ws[i])
      BY <1>0, <3>1 DEF Holds
    <3>3. IpName(it.name) = ws[i].name
      BY <3>2, AddressesDiffer DEF PlainOf
    <3> QED
      BY <1>1, <1>5, <3>3
  <2> QED
    BY <2>1, <2>2
<1>6. CASE \E i \in 1 .. n : ws[i].name = IpName(it.name)
  <2>1. PICK i \in 1 .. n : ws[i].name = IpName(it.name) /\ FirstNamed(ws, IpName(it.name)) = {ws[i]}
    BY <1>1, <1>6, FirstIsOne
  <2>2. it.publicIp /\ ws[i].type = "ip" /\ ws[i].okay
    BY <1>4, <2>1
  <2>3. HasPublicIp(ws, it.name)
    BY <2>1, <2>2 DEF HasPublicIp
  <2> QED
    BY <2>2, <2>3
<1> QED
  BY <1>5, <1>6

(* What is read back of a list is what was declared in it.                 *)
LEMMA ItemsAreReadBack ==
    ASSUME NEW d, IsDeployment(d), Clear(d), NEW ws, Holds(d, ws), NEW l \in RankedLists,
           \A k \in 1 .. Len(d[l]) : ~d[l][k].secret
    PROVE  /\ \A i \in DOMAIN ws : ws[i].type = l =>
                 \E k \in 1 .. Len(d[l]) : ItemOf(ws, ws[i]) = d[l][k]
           /\ \A k \in 1 .. Len(d[l]) : \E i \in DOMAIN ws :
                 ws[i].type = l /\ ItemOf(ws, ws[i]) = d[l][k]
<1>0. HasLists(d) /\ l \in Lists /\ "ip" \notin Lists
  BY DeploymentsHaveLists, ListsAre
<1>1. ASSUME NEW i \in DOMAIN ws, NEW k \in 1 .. Len(d[l]), ws[i].type = l,
             ws[i].name = d[l][k].name
      PROVE  ItemOf(ws, ws[i]) = d[l][k]
  <2>1. PICK it : it = d[l][k]
    OBVIOUS
  <2>2. it \in ItemsOf(l)
    BY <1>0, <2>1 DEF IsDeployment
  <2>3. it = [name |-> it.name, publicIp |-> it.publicIp, secret |-> it.secret]
        /\ it.publicIp \in BOOLEAN /\ (l # "vms" => it.publicIp = FALSE) /\ it.secret \in BOOLEAN
    BY <2>2 DEF ItemsOf
  <2>4. it.secret = FALSE
    BY <2>1, <2>3
  <2>5. (ws[i].type = "vms" /\ HasPublicIp(ws, ws[i].name)) <=> it.publicIp
    <3>1. CASE l = "vms"
      <4>1. k \in 1 .. Len(d["vms"]) /\ it = d["vms"][k]
        BY <2>1, <3>1
      <4>2. HasPublicIp(ws, it.name) <=> it.publicIp
        BY <4>1, AddressesAreFound
      <4> QED
        BY <1>1, <2>1, <3>1, <4>2
    <3>2. CASE l # "vms"
      BY <1>1, <2>3, <3>2
    <3> QED
      BY <3>1, <3>2
  <2>6. (ws[i].type = "vms" /\ HasPublicIp(ws, ws[i].name)) = it.publicIp
    BY <2>3, <2>5
  <2>7. ItemOf(ws, ws[i]) = [name |-> it.name, publicIp |-> it.publicIp, secret |-> FALSE]
    BY <1>1, <2>1, <2>6 DEF ItemOf
  <2> QED
    BY <2>1, <2>3, <2>4, <2>7
<1>2. ASSUME NEW i \in DOMAIN ws, ws[i].type = l
      PROVE  \E k \in 1 .. Len(d[l]) : ItemOf(ws, ws[i]) = d[l][k]
  <2>0. PICK m \in Lists : \E k \in 1 .. Len(d[m]) : Becomes(m, d[m][k], PlainOf(ws[i]))
    BY DEF Holds
  <2>1. PICK k \in 1 .. Len(d[m]) : Becomes(m, d[m][k], PlainOf(ws[i]))
    BY <2>0
  <2>2. PlainOf(ws[i]) # AddressOf(d[m][k].name)
    BY <1>0, <1>2, AddressesDiffer DEF PlainOf
  <2>3. PlainOf(ws[i]) = WorkloadOf(m, d[m][k].name, d[m][k].secret)
    BY <2>1, <2>2 DEF Becomes
  <2>4. m = l /\ ws[i].name = d[m][k].name
    BY <1>2, <2>3, WorkloadsDiffer DEF PlainOf
  <2> QED
    BY <1>1, <1>2, <2>4
<1>3. ASSUME NEW k \in 1 .. Len(d[l])
      PROVE  \E i \in DOMAIN ws : ws[i].type = l /\ ItemOf(ws, ws[i]) = d[l][k]
  <2>1. Becomes(l, d[l][k], WorkloadOf(l, d[l][k].name, d[l][k].secret))
    BY DEF Becomes
  <2>2. PICK i \in DOMAIN ws : WorkloadOf(l, d[l][k].name, d[l][k].secret) = PlainOf(ws[i])
    BY <1>0, <2>1 DEF Holds
  <2>3. ws[i].type = l /\ ws[i].name = d[l][k].name
    BY <2>2, WorkloadsDiffer DEF PlainOf
  <2> QED
    BY <1>1, <2>3
<1> QED
  BY <1>2, <1>3

(* When the node was sent what has the items of d, it holds d.             *)
LEMMA HeldIsDeclared ==
    ASSUME NEW d, IsDeployment(d), NEW e, IsDeployment(e), SameItems(e, d),
           NEW ws, NEW n \in Nat, DOMAIN ws = 1 .. n, \A i \in DOMAIN ws : ws[i].okay,
           ZosDeployment(e) = [i \in DOMAIN ws |-> [type |-> ws[i].type, name |-> ws[i].name,
                                                    secret |-> ws[i].secret]]
    PROVE  Holds(d, ws)
<1>1. \A w : w \in Range(ZosDeployment(e)) <=> \E i \in DOMAIN ws : w = PlainOf(ws[i])
  <2>1. ZosDeployment(e) = [i \in DOMAIN ws |-> PlainOf(ws[i])]
    BY DEF PlainOf, WorkloadOf
  <2> QED
    BY <2>1 DEF Range
<1>2. \A w : w \in Range(ZosDeployment(e)) <=>
                 \E l \in Lists : \E i \in 1 .. Len(e[l]) : Becomes(l, e[l][i], w)
  BY DeploymentBecomes
<1>3. /\ \A l \in Lists : \A i \in 1 .. Len(e[l]) : \E k \in 1 .. Len(d[l]) : e[l][i] = d[l][k]
      /\ \A l \in Lists : \A k \in 1 .. Len(d[l]) : \E i \in 1 .. Len(e[l]) : e[l][i] = d[l][k]
  <2>1. HasLists(d) /\ HasLists(e)
    BY DeploymentsHaveLists
  <2>2. \A l \in Lists : DOMAIN e[l] = 1 .. Len(e[l]) /\ DOMAIN d[l] = 1 .. Len(d[l])
    BY <2>1, ItemsHaveNames
  <2>3. ASSUME NEW l \in Lists
        PROVE  /\ \A i \in 1 .. Len(e[l]) : \E k \in 1 .. Len(d[l]) : e[l][i] = d[l][k]
               /\ \A k \in 1 .. Len(d[l]) : \E i \in 1 .. Len(e[l]) : e[l][i] = d[l][k]
    <3>1. Range(e[l]) = Range(d[l])
      BY DEF SameItems
    <3>2. \A x : x \in Range(e[l]) <=> \E i \in 1 .. Len(e[l]) : x = e[l][i]
      BY <2>2 DEF Range
    <3>3. \A x : x \in Range(d[l]) <=> \E k \in 1 .. Len(d[l]) : x = d[l][k]
      BY <2>2 DEF Range
    <3> QED
      BY <3>1, <3>2, <3>3
  <2> QED
    BY <2>3
<1>4. ASSUME NEW i \in DOMAIN ws
      PROVE  \E l \in Lists : \E k \in 1 .. Len(d[l]) : Becomes(l, d[l][k], PlainOf(ws[i]))
  <2>1. PICK w : w = PlainOf(ws[i])
    OBVIOUS
  <2>2. PICK l \in Lists : \E j \in 1 .. Len(e[l]) : Becomes(l, e[l][j], w)
    BY <1>1, <1>2, <2>1
  <2>3. PICK j \in 1 .. Len(e[l]) : Becomes(l, e[l][j], w)
    BY <2>2
  <2>4. PICK k \in 1 .. Len(d[l]) : e[l][j] = d[l][k]
    BY <1>3
  <2> QED
    BY <2>1, <2>3, <2>4
<1>5. ASSUME NEW l \in Lists, NEW k \in 1 .. Len(d[l]), NEW w, Becomes(l, d[l][k], w)
      PROVE  \E i \in DOMAIN ws : w = PlainOf(ws[i])
  <2>1. PICK j \in 1 .. Len(e[l]) : e[l][j] = d[l][k]
    BY <1>3
  <2>2. Becomes(l, e[l][j], w)
    BY <1>5, <2>1
  <2> QED
    BY <1>1, <1>2, <2>2
<1> QED
  BY <1>4, <1>5 DEF Holds

(* Each list of e has the workloads of its type in ws, and nothing else.   *)
HasWhatIsHeld(e, ws) ==
    /\ HasLists(e)
    /\ \A l \in RankedLists :
          /\ \A j \in 1 .. Len(e[l]) : \E i \in DOMAIN ws :
                ws[i].type = l /\ e[l][j] = ItemOf(ws, ws[i])
          /\ \A i \in DOMAIN ws : ws[i].type = l =>
                \E j \in 1 .. Len(e[l]) : e[l][j] = ItemOf(ws, ws[i])

(* new_deployment_from_zos_deployment reads back just what is held.        *)
LEMMA RebuiltLists ==
    ASSUME NEW ws, \E n \in Nat : DOMAIN ws = 1 .. n, NEW e, e = Rebuilt(ws)
    PROVE  HasWhatIsHeld(e, ws)
<1>0. PICK n \in Nat : DOMAIN ws = 1 .. n
  OBVIOUS
<1>1. DOMAIN e = Lists /\ e["gateways"] = <<>>
  BY ListsAre DEF Rebuilt
<1>2. ASSUME NEW l \in RankedLists
      PROVE  /\ \E T : e[l] \in Seq(T)
             /\ \A j \in 1 .. Len(e[l]) : \E i \in DOMAIN ws :
                   ws[i].type = l /\ e[l][j] = ItemOf(ws, ws[i])
             /\ \A i \in DOMAIN ws : ws[i].type = l =>
                   \E j \in 1 .. Len(e[l]) : e[l][j] = ItemOf(ws, ws[i])
  <2> DEFINE S == {i \in DOMAIN ws : ws[i].type = l}
             kept == EntriesAt(ws, S)
             m == Cardinality(S)
  <2>1. l \in Lists /\ l # "gateways"
    BY DEF RankedLists
  <2>2. e[l] = [j \in DOMAIN kept |-> ItemOf(ws, kept[j])]
    BY <2>1 DEF Rebuilt
  <2>3. S \subseteq 1 .. n /\ \A i \in DOMAIN ws : i \in S <=> ws[i].type = l
    BY <1>0
  <2>4. S \subseteq Nat /\ IsFiniteSet(S)
    <3> HIDE DEF S
    <3>1. PICK I : I = 1 .. n
      OBVIOUS
    <3>2. S \in SUBSET I /\ S \subseteq Nat
      BY <2>3, <3>1
    <3>4. IsFiniteSet(I)
      BY <3>1, FS_Interval
    <3>3. IsFiniteSet(S)
      BY <3>2, <3>4, FS_Subset
    <3> QED
      BY <3>2, <3>3
  <2> HIDE DEF S
  <2>5. /\ m \in Nat /\ DOMAIN kept = 1 .. m
        /\ \A j \in 1 .. m : NthOf(S, j) \in S /\ kept[j] = ws[NthOf(S, j)]
        /\ \A i \in S : \E j \in 1 .. m : kept[j] = ws[i]
    <3>1. Cardinality(S) \in Nat /\ DOMAIN EntriesAt(ws, S) = 1 .. Cardinality(S)
      BY <2>4, EntriesAreKept
    <3>2. \A j \in 1 .. Cardinality(S) : /\ NthOf(S, j) \in S
                                        /\ EntriesAt(ws, S)[j] = ws[NthOf(S, j)]
      <4> TAKE j \in 1 .. Cardinality(S)
      <4> QED
        BY <2>4, EntryIsKept
    <3>3. \A i \in S : \E j \in 1 .. Cardinality(S) : EntriesAt(ws, S)[j] = ws[i]
      <4> TAKE i \in S
      <4>1. PICK j \in 1 .. Cardinality(S) : NthOf(S, j) = i
        BY <2>4, AllAreNth
      <4> QED
        BY <3>2, <4>1
    <3> QED
      BY <3>1, <3>2, <3>3
  <2> HIDE DEF kept, m
  <2>6. e[l] = [j \in 1 .. m |-> ItemOf(ws, kept[j])]
    BY <2>2, <2>5
  <2> DEFINE T == {ItemOf(ws, kept[j]) : j \in 1 .. m}
  <2>7. e[l] \in Seq(T) /\ Len(e[l]) = m /\ \A j \in 1 .. m : e[l][j] = ItemOf(ws, kept[j])
    <3>1. PICK f : f = [j \in 1 .. m |-> ItemOf(ws, kept[j])]
      OBVIOUS
    <3>2. \A j \in 1 .. m : f[j] = ItemOf(ws, kept[j]) /\ f[j] \in T
      BY <3>1
    <3>3. f = [j \in 1 .. m |-> f[j]]
      BY <3>1, <3>2
    <3> HIDE DEF T
    <3>4. f \in Seq(T) /\ Len(f) = m
      BY <2>5, <3>2, <3>3
    <3> QED
      BY <2>6, <3>1, <3>2, <3>4
  <2>8. \A j \in 1 .. m : \E i \in DOMAIN ws : ws[i].type = l /\ e[l][j] = ItemOf(ws, ws[i])
    <3> HIDE DEF T
    <3> TAKE j \in 1 .. m
    <3>1. PICK i : i = NthOf(S, j)
      OBVIOUS
    <3>2. i \in S /\ kept[j] = ws[i]
      <4>1. NthOf(S, j) \in S /\ kept[j] = ws[NthOf(S, j)]
        BY <2>5
      <4> QED
        BY <3>1, <4>1
    <3>3. i \in DOMAIN ws /\ ws[i].type = l
      BY <1>0, <2>3, <3>2
    <3> QED
      BY <2>7, <3>2, <3>3
  <2>9. \A i \in DOMAIN ws : ws[i].type = l => \E j \in 1 .. m : e[l][j] = ItemOf(ws, ws[i])
    <3> HIDE DEF T
    <3> TAKE i \in DOMAIN ws
    <3> HAVE ws[i].type = l
    <3>1. PICK j \in 1 .. m : kept[j] = ws[i]
      BY <2>3, <2>5
    <3> QED
      BY <2>7, <3>1
  <2> QED
    BY <2>7, <2>8, <2>9
<1>3. \A l \in Lists : l \in RankedLists \/ l = "gateways"
  BY DEF RankedLists
<1>4. \A l \in Lists : \E T : e[l] \in Seq(T)
  <2>1. e["gateways"] \in Seq({})
    BY <1>1
  <2> QED
    BY <1>2, <1>3, <2>1
<1> QED
  BY <1>1, <1>2, <1>4 DEF HasLists, HasWhatIsHeld

(* The n-th of the first a numbers is n.                                   *)
LEMMA NthOfAll ==
    ASSUME NEW a \in Nat, NEW n \in 1 .. a
    PROVE  NthOf(1 .. a, n) = n /\ Cardinality(1 .. a) = a
<1>1. IsFiniteSet(1 .. a) /\ Cardinality(1 .. a) = a
  BY FS_Interval
<1>2. Cardinality({j \in 1 .. a : j <= n}) = n
  <2>1. {j \in 1 .. a : j <= n} = 1 .. n
    OBVIOUS
  <2>2. Cardinality(1 .. n) = n
    BY FS_Interval
  <2> QED
    BY <2>1, <2>2
<1>3. PICK S : S = 1 .. a
  OBVIOUS
<1>4. /\ S \subseteq Nat /\ IsFiniteSet(S) /\ n \in 1 .. Cardinality(S) /\ n \in S
      /\ Cardinality({j \in S : j <= n}) = n
  BY <1>1, <1>2, <1>3
<1>5. n = NthOf(S, n)
  <2>1. \A i \in S : Cardinality({j \in S : j <= i}) = n => i = NthOf(S, n)
    BY <1>4, NthIsThere
  <2> QED
    BY <1>4, <2>1
<1> QED
  BY <1>1, <1>3, <1>5

(* The place k steps after f, counted from 1, is a number.                 *)
LEMMA StepsOn ==
    ASSUME NEW f \in Nat, NEW k \in Nat, 1 <= k, NEW r, r = f + k - 1
    PROVE  r \in Nat
OBVIOUS

(* A list that was loaded as it was declared, but for its order, is        *)
(* brought into that order.                                                *)
LEMMA ListIsRestored ==
    ASSUME NEW d, IsDeployment(d), Clear(d), RanksFit(d), NEW e, HasLists(e), Clear(e),
           Compatible(d, e), NEW l \in RankedLists,
           \A j \in 1 .. Len(e[l]) : \E k \in 1 .. Len(d[l]) : e[l][j] = d[l][k],
           \A k \in 1 .. Len(d[l]) : \E j \in 1 .. Len(e[l]) : e[l][j] = d[l][k]
    PROVE  SortedLike(d, e[l]) = d[l]
<1> DEFINE a == Len(d[l])
           b == Len(e[l])
           x == NamesOf(d[l])
           y == NamesOf(e[l])
           key == [k \in DOMAIN e[l] |-> Rank(d, e[l][k].name)]
<1>0. HasLists(d) /\ l \in Lists
  BY DeploymentsHaveLists DEF RankedLists
<1>1. /\ a \in Nat /\ DOMAIN d[l] = 1 .. a /\ x = [i \in 1 .. a |-> d[l][i].name]
      /\ \A n : n \in NameSet(d, l) <=> \E i \in 1 .. a : n = d[l][i].name
  BY <1>0, ItemsHaveNames
<1>2. /\ b \in Nat /\ DOMAIN e[l] = 1 .. b /\ y = [j \in 1 .. b |-> e[l][j].name]
      /\ \A n : n \in NameSet(e, l) <=> \E j \in 1 .. b : n = e[l][j].name
  BY <1>0, ItemsHaveNames
<1>3. NameSet(e, l) = NameSet(d, l)
  <2>1. ASSUME NEW n \in NameSet(e, l)
        PROVE  n \in NameSet(d, l)
    <3>1. PICK j \in 1 .. b : n = e[l][j].name
      BY <1>2
    <3>2. PICK k \in 1 .. a : e[l][j] = d[l][k]
      OBVIOUS
    <3> HIDE DEF a, b
    <3> QED
      BY <1>1, <3>1, <3>2
  <2>2. ASSUME NEW n \in NameSet(d, l)
        PROVE  n \in NameSet(e, l)
    <3>1. PICK k \in 1 .. a : n = d[l][k].name
      BY <1>1
    <3>2. PICK j \in 1 .. b : e[l][j] = d[l][k]
      OBVIOUS
    <3> HIDE DEF a, b
    <3> QED
      BY <1>2, <3>1, <3>2
  <2> QED
    BY <2>1, <2>2
<1>4. NamesOf(SortedLike(d, e[l])) =
         NamesAmong(d, l, NameSet(d, l)) \o NamesAmong(e, l, NameSet(d, l) \ NameSet(d, l))
  BY <1>0, <1>3, ListIsMatched
<1>5. NamesAmong(d, l, NameSet(d, l)) = x
  <2>1. {i \in DOMAIN d[l] : d[l][i].name \in NameSet(d, l)} = 1 .. a
    BY <1>1
  <2>2. NamesAmong(d, l, NameSet(d, l)) = [n \in 1 .. Cardinality(1 .. a) |-> x[NthOf(1 .. a, n)]]
    BY <2>1 DEF NamesAmong, EntriesAt
  <2>3. Cardinality(1 .. a) = a
    BY <1>1, FS_Interval
  <2>4. \A n \in 1 .. a : NthOf(1 .. a, n) = n
    BY <1>1, NthOfAll
  <2> HIDE DEF a, x
  <2> QED
    BY <1>1, <2>2, <2>3, <2>4
<1>6. NamesAmong(e, l, NameSet(d, l) \ NameSet(d, l)) = <<>>
  <2>1. {j \in DOMAIN e[l] : e[l][j].name \in NameSet(d, l) \ NameSet(d, l)} = {}
    OBVIOUS
  <2>2. NamesAmong(e, l, NameSet(d, l) \ NameSet(d, l)) =
           [n \in 1 .. Cardinality({}) |-> y[NthOf({}, n)]]
    BY <2>1 DEF NamesAmong, EntriesAt
  <2>3. Cardinality({}) = 0
    BY FS_EmptySet
  <2> HIDE DEF y
  <2> QED
    BY <2>2, <2>3
<1>7. NamesOf(SortedLike(d, e[l])) = x
  <2>1. x \in Seq(NameSet(d, l))
    BY <1>1
  <2>2. x \o <<>> = x
    BY <2>1
  <2> QED
    BY <1>4, <1>5, <1>6, <2>2
<1>8. /\ DOMAIN SortedLike(d, e[l]) = 1 .. b
      /\ \A n \in 1 .. b : \E j \in 1 .. b : SortedLike(d, e[l])[n] = e[l][j]
      /\ SortedLike(d, e[l]) = [n \in 1 .. b |-> SortedLike(d, e[l])[n]]
  <2>1. SortedLike(d, e[l]) = SortedByKey(e[l], key)
    BY DEF SortedLike
  <2>2. \A j \in 1 .. b : key[j] \in Nat
    <3> TAKE j \in 1 .. b
    <3>1. PICK k \in 1 .. a : e[l][j] = d[l][k]
      OBVIOUS
    <3>2. Base(d, l) \in Nat /\ Rank(d, d[l][k].name) = Base(d, l) + k - 1
      BY <1>0, RanksOfNames
    <3>3. key[j] = Rank(d, d[l][k].name)
      BY <1>2, <3>1
    <3>4. PICK r, f : r = key[j] /\ f = Base(d, l)
      OBVIOUS
    <3>5. r = f + k - 1 /\ f \in Nat /\ k \in Nat /\ 1 <= k
      BY <1>1, <3>2, <3>3, <3>4
    <3>6. r \in Nat
      BY <3>5, StepsOn
    <3> QED
      BY <3>4, <3>6
  <2> HIDE DEF key, b
  <2>3. CanBeSorted(e[l], b, key)
    BY <1>2, <2>2 DEF CanBeSorted
  <2>4. /\ DOMAIN SortedByKey(e[l], key) = 1 .. b
        /\ \A n \in 1 .. b : /\ Sorting(1 .. b, key, n) \in 1 .. b
                            /\ SortedByKey(e[l], key)[n] = e[l][Sorting(1 .. b, key, n)]
    BY <2>3, SortedPlaces
  <2>5. SortedByKey(e[l], key) = [n \in 1 .. b |-> SortedByKey(e[l], key)[n]]
    BY <1>2 DEF SortedByKey
  <2> QED
    BY <2>1, <2>4, <2>5
<1>9. PICK z : z = SortedLike(d, e[l])
  OBVIOUS
<1> HIDE DEF key, y
<1>10. NamesOf(z) = [n \in 1 .. b |-> z[n].name]
  BY <1>8, <1>9 DEF NamesOf
<1>11. b = a
  <2>1. 1 .. b = 1 .. a
    BY <1>1, <1>7, <1>9, <1>10
  <2> HIDE DEF a, b
  <2> QED
    BY <1>1, <1>2, <2>1
<1>12. \A n \in 1 .. a : z[n] = d[l][n]
  <2> TAKE n \in 1 .. a
  <2>1. PICK j \in 1 .. b : z[n] = e[l][j]
    BY <1>8, <1>9, <1>11
  <2>2. PICK k \in 1 .. a : e[l][j] = d[l][k]
    OBVIOUS
  <2>3. d[l][k].name = d[l][n].name
    <3>1. NamesOf(z)[n] = z[n].name
      BY <1>10, <1>11
    <3>2. x[n] = d[l][n].name
      BY <1>1
    <3>3. NamesOf(z) = x
      BY <1>7, <1>9
    <3> HIDE DEF x
    <3> QED
      BY <2>1, <2>2, <3>1, <3>2, <3>3
  <2>4. IsInjective(x)
    BY <1>0 DEF Clear
  <2>5. k = n
    BY <1>1, <2>3, <2>4 DEF IsInjective
  <2> QED
    BY <2>1, <2>2, <2>5
<1>13. z = [n \in 1 .. a |-> d[l][n]]
  BY <1>8, <1>9, <1>11, <1>12
<1>14. d[l] = [n \in 1 .. a |-> d[l][n]]
  <2>1. PICK T : d[l] \in Seq(T)
    BY <1>0 DEF HasLists
  <2> QED
    BY <2>1
<1> QED
  BY <1>9, <1>13, <1>14

(* What is loaded is rebuilt from the node, and what is matched from both. *)
WorkloadsInv ==
    /\ \E n \in Nat : DOMAIN held = 1 .. n
    /\ stage \in {"declared", "deployed", "loaded"} => declared \in Declared
    /\ stage \in {"loaded", "matched"} => loaded = Rebuilt(held)
    /\ stage = "matched" => intended \in Declared /\ declared = Matched(intended, loaded)

(* What may be declared is a deployment.                                   *)
LEMMA DeclaredIsDeployment ==
    ASSUME NEW d \in Declared
    PROVE  IsDeployment(d)
BY WorkloadsAssumption DEF IsDeployment

(* Matching restores what was declared, as far as the node has it.         *)
LEMMA MatchedIsRestored == WorkloadsInv => MatchRestores
<1> SUFFICES ASSUME WorkloadsInv, stage = "matched", Clear(intended), Clear(loaded),
                    Compatible(intended, loaded), RanksFit(intended)
             PROVE  /\ \A l \in Lists \ {"gateways"} :
                          NamesOf(declared[l]) =
                             NamesAmong(intended, l, NameSet(loaded, l))
                             \o NamesAmong(loaded, l, NameSet(loaded, l) \ NameSet(intended, l))
                    /\ /\ \A i \in DOMAIN held : held[i].okay
                       /\ \A l \in Lists : \A i \in DOMAIN intended[l] : ~intended[l][i].secret
                       /\ \E d \in Declared :
                             SameItems(d, intended) /\ ZosDeployment(d) = PlainHeld
                       => declared = intended
  BY DEF MatchRestores
<1>1. PICK n \in Nat : DOMAIN held = 1 .. n
  BY DEF WorkloadsInv
<1>2. /\ loaded = Rebuilt(held) /\ IsDeployment(intended)
      /\ declared = Matched(intended, loaded)
  BY DeclaredIsDeployment DEF WorkloadsInv
<1>3. /\ HasLists(loaded) /\ HasLists(intended)
      /\ \A l \in RankedLists :
            /\ \A j \in 1 .. Len(loaded[l]) : \E i \in DOMAIN held :
                  held[i].type = l /\ loaded[l][j] = ItemOf(held, held[i])
            /\ \A i \in DOMAIN held : held[i].type = l =>
                  \E j \in 1 .. Len(loaded[l]) : loaded[l][j] = ItemOf(held, held[i])
  <2>1. HasLists(intended)
    BY <1>2, DeploymentsHaveLists
  <2>2. HasWhatIsHeld(loaded, held)
    BY <1>1, <1>2, RebuiltLists
  <2> QED
    BY <2>1, <2>2 DEF HasWhatIsHeld
<1>4. \A l \in RankedLists : l \in Lists /\ declared[l] = SortedLike(intended, loaded[l])
  BY <1>2 DEF RankedLists, Matched
<1>5. \A l \in RankedLists :
         NamesOf(declared[l]) =
            NamesAmong(intended, l, NameSet(loaded, l))
            \o NamesAmong(loaded, l, NameSet(loaded, l) \ NameSet(intended, l))
  BY <1>3, <1>4, ListIsMatched
<1>6. ASSUME \A i \in DOMAIN held : held[i].okay,
             \A l \in Lists : \A i \in DOMAIN intended[l] : ~intended[l][i].secret,
             NEW d \in Declared, SameItems(d, intended), ZosDeployment(d) = PlainHeld
      PROVE  declared = intended
  <2>1. IsDeployment(d)
    BY DeclaredIsDeployment
  <2>2. ZosDeployment(d) = [i \in DOMAIN held |->
                               [type |-> held[i].type, name |-> held[i].name,
                                secret |-> held[i].secret]]
    BY <1>6 DEF PlainHeld
  <2>3. Holds(intended, held)
    BY <1>1, <1>2, <1>6, <2>1, <2>2, HeldIsDeclared
  <2>4. ASSUME NEW l \in RankedLists
        PROVE  declared[l] = intended[l]
    <3>1. \A k \in 1 .. Len(intended[l]) : ~intended[l][k].secret
      BY <1>3, <1>4, <1>6, ItemsHaveNames
    <3>2. /\ \A i \in DOMAIN held : held[i].type = l =>
                \E k \in 1 .. Len(intended[l]) : ItemOf(held, held[i]) = intended[l][k]
          /\ \A k \in 1 .. Len(intended[l]) : \E i \in DOMAIN held :
                held[i].type = l /\ ItemOf(held, held[i]) = intended[l][k]
      BY <1>2, <2>3, <3>1, ItemsAreReadBack
    <3>3. \A j \in 1 .. Len(loaded[l]) : \E k \in 1 .. Len(intended[l]) :
             loaded[l][j] = intended[l][k]
      <4> TAKE j \in 1 .. Len(loaded[l])
      <4>1. PICK i \in DOMAIN held : held[i].type = l /\ loaded[l][j] = ItemOf(held, held[i])
        BY <1>3
      <4>2. PICK k \in 1 .. Len(intended[l]) : ItemOf(held, held[i]) = intended[l][k]
        BY <3>2, <4>1
      <4> QED
        BY <4>1, <4>2
    <3>4. \A k \in 1 .. Len(intended[l]) : \E j \in 1 .. Len(loaded[l]) :
             loaded[l][j] = intended[l][k]
      <4> TAKE k \in 1 .. Len(intended[l])
      <4>1. PICK i \in DOMAIN held : held[i].type = l /\ ItemOf(held, held[i]) = intended[l][k]
        BY <3>2
      <4>2. PICK j \in 1 .. Len(loaded[l]) : loaded[l][j] = ItemOf(held, held[i])
        BY <1>3, <4>1
      <4> QED
        BY <4>1, <4>2
    <3>5. SortedLike(intended, loaded[l]) = intended[l]
      <4>1. IsDeployment(intended) /\ HasLists(loaded)
        BY <1>2, <1>3
      <4> QED
        BY <3>3, <3>4, <4>1, ListIsRestored
    <3> QED
      BY <1>4, <3>5
  <2>5. declared["gateways"] = intended["gateways"]
    BY <1>2, ListsAre DEF Matched
  <2>6. \A l \in Lists : declared[l] = intended[l]
    BY <2>4, <2>5 DEF RankedLists
  <2>7. declared = [l \in Lists |-> declared[l]]
    BY <1>2 DEF Matched
  <2>8. intended = [l \in Lists |-> intended[l]]
    BY <1>2 DEF IsDeployment
  <2> QED
    BY <2>6, <2>7, <2>8
<1> QED
  BY <1>5, <1>6 DEF RankedLists

(* Nothing is held or loaded at first.                                     *)
LEMMA WorkloadsStart == WorkloadsInit => WorkloadsInv
<1> SUFFICES ASSUME WorkloadsInit PROVE WorkloadsInv
  OBVIOUS
<1>1. DOMAIN held = 1 .. 0
  BY DEF WorkloadsInit
<1> QED
  BY <1>1 DEF WorkloadsInit, WorkloadsInv

(* No step loads or matches anything else.                                 *)
LEMMA WorkloadsStep == WorkloadsInv /\ [WorkloadsNext]_workloadVars => WorkloadsInv'
<1> SUFFICES ASSUME WorkloadsInv, [WorkloadsNext]_workloadVars
             PROVE  WorkloadsInv'
  OBVIOUS
<1>1. CASE DeployDeclared
  <2>1. declared \in Declared /\ stage' = "deployed" /\ declared' = declared
    BY <1>1 DEF DeployDeclared, WorkloadsInv
  <2>2. PICK T : ZosDeployment(declared) \in Seq(T)
    BY <2>1, DeclaredIsDeployment, DeploymentBecomes
  <2>3. PICK m \in Nat : DOMAIN ZosDeployment(declared) = 1 .. m
    BY <2>2
  <2>4. DOMAIN held' = 1 .. m
    <3>1. PICK ok \in [DOMAIN ZosDeployment(declared) -> BOOLEAN] :
             held' = [i \in DOMAIN ok |->
                         LET w == ZosDeployment(declared)[i]
                         IN [type |-> w.type, name |-> w.name, secret |-> w.secret,
                             okay |-> ok[i]]]
      BY <1>1 DEF DeployDeclared
    <3> QED
      BY <2>3, <3>1
  <2> QED
    BY <2>1, <2>4 DEF WorkloadsInv
<1>2. CASE LoadHeld
  <2>1. /\ stage = "deployed" /\ stage' = "loaded" /\ loaded' = Rebuilt(held)
        /\ held' = held /\ declared' = declared
    BY <1>2 DEF LoadHeld
  <2> QED
    BY <2>1 DEF WorkloadsInv
<1>3. CASE MatchDeployments
  <2>1. /\ stage = "loaded" /\ stage' = "matched" /\ intended' = declared
        /\ declared' = Matched(declared, loaded) /\ held' = held /\ loaded' = loaded
    BY <1>3 DEF MatchDeployments
  <2>2. declared \in Declared /\ loaded = Rebuilt(held) /\ \E n \in Nat : DOMAIN held = 1 .. n
    BY <2>1 DEF WorkloadsInv
  <2> QED
    BY <2>1, <2>2 DEF WorkloadsInv
<1>4. CASE Nullify
  <2>1. stage' = "null" /\ held' = held
    BY <1>4 DEF Nullify
  <2> QED
    BY <2>1 DEF WorkloadsInv
<1>5. ASSUME NEW d \in Declared, Edit(d)
      PROVE  WorkloadsInv'
  <2>1. stage = "deployed" /\ stage' = stage /\ held' = held /\ declared' = d
    BY <1>5 DEF Edit
  <2> QED
    BY <2>1 DEF WorkloadsInv
<1>6. CASE UNCHANGED workloadVars
  BY <1>6 DEF WorkloadsInv, workloadVars
<1> QED
  BY <1>1, <1>2, <1>3, <1>4, <1>5, <1>6 DEF WorkloadsNext

(* For every declaration, node and edit in between in which each list      *)
(* names a workload once (Clear), no name means one thing here and another *)
(* there (Compatible) and the declared places stay below the rank of an    *)
(* unknown name (RanksFit): load and match_deployments give back what was  *)
(* declared, in the declared order, with what else the node holds behind   *)
(* it; and all of it when the node has it all.                             *)
THEOREM MatchingRestores == WorkloadsSpec => []MatchRestores
<1>1. WorkloadsSpec => []WorkloadsInv
  BY WorkloadsStart, WorkloadsStep, PTL DEF WorkloadsSpec
<1>2. WorkloadsInv => MatchRestores
  BY MatchedIsRestored
<1> QED
  BY <1>1, <1>2, PTL
=============================================================================
