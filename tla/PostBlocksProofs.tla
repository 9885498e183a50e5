-------------------------- MODULE PostBlocksProofs --------------------------
(***************************************************************************)
(* The invariants of PostBlocks, proved for any number of posts, pages of  *)
(* any size and any number of requests on their way at once.               *)
(***************************************************************************)
EXTENDS PostBlocks, FiniteSetTheorems, SequenceTheorems, TLAPS

-----------------------------------------------------------------------------
\* Orders and ranks.

\* The members of S that R puts before x.
Before(S, R, x) == {y \in S : <<y, x>> \in R}

StrictOrder(S, R) ==
  /\ \A x \in S : <<x, x>> \notin R
  /\ \A x, y \in S : x # y => <<x, y>> \in R \/ <<y, x>> \in R
  /\ \A x, y, z \in S : <<x, y>> \in R /\ <<y, z>> \in R => <<x, z>> \in R

\* A strict total order of a finite set numbers its members.
LEMMA Ranks ==
  ASSUME NEW S, IsFiniteSet(S), NEW R, StrictOrder(S, R)
  PROVE  /\ \A x \in S : Cardinality(Before(S, R, x)) \in 0..(Cardinality(S) - 1)
         /\ \A x, y \in S : <<x, y>> \in R =>
              Cardinality(Before(S, R, x)) < Cardinality(Before(S, R, y))
         /\ \A n \in 0..(Cardinality(S) - 1) :
              \E x \in S : Cardinality(Before(S, R, x)) = n
<1> DEFINE rank == [x \in S |-> Cardinality(Before(S, R, x))]
           ranks == 0..(Cardinality(S) - 1)
<1>1. Cardinality(S) \in Nat
  BY FS_CardinalityType
<1>2. ASSUME NEW x \in S
      PROVE  IsFiniteSet(Before(S, R, x)) /\ Cardinality(Before(S, R, x)) \in ranks
  <2>1. Before(S, R, x) \in SUBSET (S \ {x})
    BY DEF Before, StrictOrder
  <2>2. IsFiniteSet(S \ {x}) /\ Cardinality(S \ {x}) = Cardinality(S) - 1
    BY FS_RemoveElement
  <2>3. /\ IsFiniteSet(Before(S, R, x))
        /\ Cardinality(Before(S, R, x)) <= Cardinality(S \ {x})
    BY <2>1, <2>2, FS_Subset
  <2>4. Cardinality(Before(S, R, x)) \in Nat
    BY <2>3, FS_CardinalityType
  <2> QED
    BY <1>1, <2>2, <2>3, <2>4
<1>3. ASSUME NEW x \in S, NEW y \in S, <<x, y>> \in R
      PROVE  Cardinality(Before(S, R, x)) < Cardinality(Before(S, R, y))
  <2>1. Before(S, R, x) \cup {x} \in SUBSET Before(S, R, y) /\ x \notin Before(S, R, x)
    BY <1>3 DEF Before, StrictOrder
  <2>2. IsFiniteSet(Before(S, R, x)) /\ IsFiniteSet(Before(S, R, y))
    BY <1>2
  <2>3. Cardinality(Before(S, R, x) \cup {x}) = Cardinality(Before(S, R, x)) + 1
    BY <2>1, <2>2, FS_AddElement
  <2>4. Cardinality(Before(S, R, x) \cup {x}) <= Cardinality(Before(S, R, y))
    BY <2>1, <2>2, FS_Subset
  <2> QED
    BY <1>2, <2>3, <2>4
<1>4. rank \in Injection(S, ranks)
  <2>1. rank \in [S -> ranks]
    BY <1>2
  <2>2. ASSUME NEW x \in S, NEW y \in S, rank[x] = rank[y]
        PROVE  x = y
    <3>1. Cardinality(Before(S, R, x)) = Cardinality(Before(S, R, y))
      BY <2>2
    <3>2. Cardinality(Before(S, R, x)) \in Int
      BY <1>2
    <3>3. <<x, y>> \notin R
      BY <1>3, <3>1, <3>2
    <3>4. <<y, x>> \notin R
      BY <1>3, <3>1, <3>2
    <3> QED
      BY <3>3, <3>4 DEF StrictOrder
  <2> QED
    BY <2>1, <2>2 DEF Injection, IsInjective
<1>5. IsFiniteSet(ranks) /\ Cardinality(ranks) = Cardinality(S)
  <2>1. 0 \in Int /\ Cardinality(S) - 1 \in Int
    BY <1>1
  <2> QED
    BY <1>1, <2>1, FS_Interval
<1>6. rank \in Surjection(S, ranks)
  <2> HIDE DEF rank, ranks
  <2> QED
    BY <1>4, <1>5, FS_Injection
<1>7. \A n \in ranks : \E x \in S : rank[x] = n
  <2> HIDE DEF rank, ranks
  <2> QED
    BY <1>6 DEF Surjection
<1> QED
  BY <1>2, <1>3, <1>7

\* Nth numbers a finite set of numbers from below.
LEMMA NthProperties ==
  ASSUME NEW S \in SUBSET Nat, IsFiniteSet(S)
  PROVE  /\ Cardinality(S) \in Nat
         /\ \A n \in 1..Cardinality(S) : Nth(S, n) \in S
         /\ \A m, n \in 1..Cardinality(S) : m < n => Nth(S, m) < Nth(S, n)
         /\ \A x \in S : \E n \in 1..Cardinality(S) : x = Nth(S, n)
<1> DEFINE R == {p \in S \X S : p[1] < p[2]}
<1>1. StrictOrder(S, R)
  BY DEF StrictOrder
<1>2. \A x \in S : Before(S, R, x) = {y \in S : y < x}
  BY DEF Before
<1>3. \A x, y \in S : <<x, y>> \in R <=> x < y
  OBVIOUS
<1>4. Cardinality(S) \in Nat
  BY FS_CardinalityType
<1> HIDE DEF R
<1>5. /\ \A x \in S : Cardinality({y \in S : y < x}) \in 0..(Cardinality(S) - 1)
      /\ \A x, y \in S : x < y =>
           Cardinality({z \in S : z < x}) < Cardinality({z \in S : z < y})
      /\ \A n \in 0..(Cardinality(S) - 1) : \E x \in S : Cardinality({y \in S : y < x}) = n
  <2>1. /\ \A x \in S : Cardinality(Before(S, R, x)) \in 0..(Cardinality(S) - 1)
        /\ \A x, y \in S : <<x, y>> \in R =>
             Cardinality(Before(S, R, x)) < Cardinality(Before(S, R, y))
        /\ \A n \in 0..(Cardinality(S) - 1) :
             \E x \in S : Cardinality(Before(S, R, x)) = n
    BY <1>1, Ranks
  <2>2. \A x \in S : Cardinality({y \in S : y < x}) = Cardinality(Before(S, R, x))
    BY <1>2
  <2> QED
    BY <1>3, <2>1, <2>2
<1>6. ASSUME NEW n \in 1..Cardinality(S)
      PROVE  Nth(S, n) \in S /\ Cardinality({y \in S : y < Nth(S, n)}) = n - 1
  <2>1. n - 1 \in 0..(Cardinality(S) - 1)
    BY <1>4
  <2>2. \E x \in S : Cardinality({y \in S : y < x}) = n - 1
    BY <1>5, <2>1
  <2> QED
    BY <2>2 DEF Nth
<1>7. ASSUME NEW m \in 1..Cardinality(S), NEW n \in 1..Cardinality(S), m < n
      PROVE  Nth(S, m) < Nth(S, n)
  <2>1. PICK x \in S : x = Nth(S, m) /\ Cardinality({y \in S : y < x}) = m - 1
    BY <1>6
  <2>2. PICK z \in S : z = Nth(S, n) /\ Cardinality({y \in S : y < z}) = n - 1
    BY <1>6
  <2>3. CASE z < x
    <3>1. n - 1 < m - 1
      BY <1>5, <2>1, <2>2, <2>3
    <3> QED
      BY <1>4, <1>7, <3>1
  <2>4. CASE z = x
    BY <1>4, <1>7, <2>1, <2>2, <2>4
  <2> QED
    BY <2>1, <2>2, <2>3, <2>4
<1>8. ASSUME NEW x \in S
      PROVE  \E n \in 1..Cardinality(S) : x = Nth(S, n)
  <2>1. PICK r \in 0..(Cardinality(S) - 1) : Cardinality({y \in S : y < x}) = r
    BY <1>5
  <2>2. r + 1 \in 1..Cardinality(S) /\ (r + 1) - 1 = r
    BY <1>4
  <2>3. PICK z \in S : z = Nth(S, r + 1) /\ Cardinality({y \in S : y < z}) = r
    BY <1>6, <2>2
  <2>4. ~(x < z) /\ ~(z < x)
    BY <1>5, <2>1, <2>3
  <2> QED
    BY <2>2, <2>3, <2>4
<1> QED
  BY <1>4, <1>6, <1>7, <1>8

\* The least member.
LEMMA LeastProperties ==
  ASSUME NEW S \in SUBSET Nat, IsFiniteSet(S), S # {}
  PROVE  \E x \in S : \A y \in S : x <= y
<1>1. Cardinality(S) \in Nat \ {0} /\ \A x \in S : x \in Nat
  BY NthProperties, FS_EmptySet
<1>2. 1 \in 1..Cardinality(S) /\ Nth(S, 1) \in S
  BY <1>1, NthProperties
<1>3. ASSUME NEW y \in S
      PROVE  Nth(S, 1) <= y
  <2>1. PICK n \in 1..Cardinality(S) : y = Nth(S, n)
    BY NthProperties
  <2>2. 1 < n => Nth(S, 1) < Nth(S, n)
    BY <1>2, NthProperties
  <2>3. n = 1 \/ 1 < n
    BY <1>1
  <2>4. y \in Nat /\ Nth(S, 1) \in Nat
    BY <1>1, <1>2
  <2> QED
    BY <2>1, <2>2, <2>3, <2>4
<1> QED
  BY <1>2, <1>3

\* The greatest member.
LEMMA GreatestProperties ==
  ASSUME NEW S \in SUBSET Nat, IsFiniteSet(S), S # {}
  PROVE  \E x \in S : \A y \in S : y <= x
<1>1. Cardinality(S) \in Nat \ {0} /\ \A x \in S : x \in Nat
  BY NthProperties, FS_EmptySet
<1> DEFINE last == Nth(S, Cardinality(S))
<1>2. Cardinality(S) \in 1..Cardinality(S) /\ last \in S
  BY <1>1, NthProperties
<1>3. ASSUME NEW y \in S
      PROVE  y <= last
  <2>1. PICK n \in 1..Cardinality(S) : y = Nth(S, n)
    BY NthProperties
  <2>5. n = Cardinality(S) => y = last
    BY <2>1
  <2>2. n < Cardinality(S) => Nth(S, n) < last
    BY <1>2, NthProperties
  <2>3. n = Cardinality(S) \/ n < Cardinality(S)
    BY <1>1
  <2>4. y \in Nat /\ last \in Nat
    BY <1>1, <1>2
  <2> HIDE DEF last
  <2> QED
    BY <2>1, <2>2, <2>3, <2>4, <2>5
<1> QED
  BY <1>2, <1>3


LEMMA UpTo ==
  ASSUME NEW n \in Nat
  PROVE  IsFiniteSet(1..n) /\ Cardinality(1..n) = n
<1>1. 1 \in Int /\ n \in Int
  OBVIOUS
<1> QED
  BY <1>1, FS_Interval

\* Kept reads the members at some indices, in their order.
LEMMA KeptProperties ==
  ASSUME NEW T, NEW s \in Seq(T), NEW D \in SUBSET (DOMAIN s)
  PROVE  /\ Kept(s, D) \in Seq(T)
         /\ Cardinality(D) \in 0..Len(s)
         /\ Len(Kept(s, D)) = Cardinality(D)
         /\ Cardinality(D) = Len(s) => D = DOMAIN s
         /\ \A n \in 1..Cardinality(D) : Nth(D, n) \in D /\ Kept(s, D)[n] = s[Nth(D, n)]
         /\ \A m, n \in 1..Cardinality(D) : m < n => Nth(D, m) < Nth(D, n)
         /\ \A i \in D : \E n \in 1..Cardinality(D) : i = Nth(D, n)
<1>1. Len(s) \in Nat /\ DOMAIN s = 1..Len(s)
  OBVIOUS
<1>2. IsFiniteSet(DOMAIN s) /\ Cardinality(DOMAIN s) = Len(s)
  <2>1. IsFiniteSet(1..Len(s)) /\ Cardinality(1..Len(s)) = Len(s)
    BY <1>1, UpTo
  <2> QED
    BY <1>1, <2>1
<1>3. /\ IsFiniteSet(D) /\ Cardinality(D) <= Len(s)
      /\ Cardinality(D) = Len(s) => D = DOMAIN s
  BY <1>2, FS_Subset
<1>4. D \in SUBSET Nat
  BY <1>1
<1>5. /\ Cardinality(D) \in Nat
      /\ \A n \in 1..Cardinality(D) : Nth(D, n) \in D
      /\ \A m, n \in 1..Cardinality(D) : m < n => Nth(D, m) < Nth(D, n)
      /\ \A i \in D : \E n \in 1..Cardinality(D) : i = Nth(D, n)
  BY <1>3, <1>4, NthProperties
<1>6. \A n \in 1..Cardinality(D) : s[Nth(D, n)] \in T
  BY <1>5
<1>7. /\ Kept(s, D) \in Seq(T) /\ Len(Kept(s, D)) = Cardinality(D)
      /\ \A n \in 1..Cardinality(D) : Kept(s, D)[n] = s[Nth(D, n)]
  BY <1>5, <1>6 DEF Kept
<1> QED
  BY <1>1, <1>3, <1>5, <1>7

\* Listed from the newest to the oldest post, none twice.
Decreasing(s) == \A i, j \in DOMAIN s : i < j => s[i] > s[j]

LEMMA KeptMembers ==
  ASSUME NEW s \in Seq(Nat), NEW D \in SUBSET (DOMAIN s)
  PROVE  /\ ToSet(Kept(s, D)) = {s[i] : i \in D}
         /\ Decreasing(s) => Decreasing(Kept(s, D))
<1> DEFINE t == Kept(s, D)
<1>1. DOMAIN t = 1..Cardinality(D)
  BY KeptProperties
<1>2. \A n \in DOMAIN t : Nth(D, n) \in D /\ t[n] = s[Nth(D, n)]
  BY <1>1, KeptProperties
<1>3. \A i \in D : \E n \in DOMAIN t : i = Nth(D, n)
  <2>1. \A i \in D : \E n \in 1..Cardinality(D) : i = Nth(D, n)
    BY KeptProperties
  <2> HIDE DEF t
  <2> QED
    BY <1>1, <2>1
<1>4. \A m, n \in DOMAIN t : m < n => Nth(D, m) < Nth(D, n)
  BY <1>1, KeptProperties
<1>5. ToSet(t) = {t[n] : n \in DOMAIN t}
  BY DEF ToSet
<1> HIDE DEF t
<1>6. ToSet(t) = {s[i] : i \in D}
  BY <1>2, <1>3, <1>5
<1>7. Decreasing(s) => Decreasing(t)
  <2>1. \A n \in DOMAIN t : Nth(D, n) \in DOMAIN s
    BY <1>2
  <2> QED
    BY <1>2, <1>4, <2>1 DEF Decreasing
<1> QED
  BY <1>6, <1>7 DEF t

LEMMA NewestFirstProperties ==
  ASSUME NEW S \in SUBSET Nat, IsFiniteSet(S)
  PROVE  /\ NewestFirst(S) \in Seq(S)
         /\ ToSet(NewestFirst(S)) = S
         /\ Decreasing(NewestFirst(S))
<1> DEFINE c == Cardinality(S)
           t == NewestFirst(S)
<1>1. /\ c \in Nat
      /\ \A n \in 1..c : Nth(S, n) \in S
      /\ \A m, n \in 1..c : m < n => Nth(S, m) < Nth(S, n)
      /\ \A x \in S : \E n \in 1..c : x = Nth(S, n)
  BY NthProperties
<1>2. t = [n \in 1..c |-> Nth(S, c + 1 - n)]
  BY DEF NewestFirst
<1> HIDE DEF c, t
<1>3. \A n \in 1..c : c + 1 - n \in 1..c
  BY <1>1
<1>4. t \in Seq(S) /\ DOMAIN t = 1..c /\ \A n \in 1..c : t[n] = Nth(S, c + 1 - n)
  BY <1>1, <1>2, <1>3
<1>5. ToSet(t) = S
  <2>1. ASSUME NEW x \in S
        PROVE  x \in ToSet(t)
    <3>1. PICK n \in 1..c : x = Nth(S, n)
      BY <1>1
    <3>2. c + 1 - n \in 1..c /\ c + 1 - (c + 1 - n) = n
      BY <1>1
    <3>3. x = t[c + 1 - n]
      BY <1>4, <3>1, <3>2
    <3> QED
      BY <1>4, <3>2, <3>3 DEF ToSet
  <2>2. \A n \in 1..c : t[n] \in S
    BY <1>1, <1>3, <1>4
  <2>3. ToSet(t) = {t[n] : n \in 1..c}
    BY <1>4 DEF ToSet
  <2> QED
    BY <2>1, <2>2, <2>3
<1>6. Decreasing(t)
  <2> SUFFICES ASSUME NEW i \in 1..c, NEW j \in 1..c, i < j
               PROVE  t[i] > t[j]
    BY <1>4 DEF Decreasing
  <2>1. c + 1 - i \in 1..c /\ c + 1 - j \in 1..c /\ c + 1 - j < c + 1 - i
    BY <1>1
  <2>2. Nth(S, c + 1 - j) < Nth(S, c + 1 - i)
    BY <1>1, <2>1
  <2>3. Nth(S, c + 1 - j) \in Nat /\ Nth(S, c + 1 - i) \in Nat
    BY <1>1, <2>1
  <2> QED
    BY <1>4, <2>2, <2>3
<1> QED
  BY <1>4, <1>5, <1>6 DEF t

\* Where a decreasing order begins and ends, and how much it lists.
LEMMA DecreasingProperties ==
  ASSUME NEW s \in Seq(Nat)
  PROVE  /\ s # <<>> => Head(s) \in ToSet(s) /\ Last(s) \in ToSet(s)
         /\ s = <<>> <=> ToSet(s) = {}
         /\ ToSet(s) \subseteq Nat /\ IsFiniteSet(ToSet(s))
         /\ Decreasing(s) => /\ \A x \in ToSet(s) : x <= Head(s) /\ Last(s) <= x
                             /\ Cardinality(ToSet(s)) = Len(s)
<1>1. Len(s) \in Nat /\ DOMAIN s = 1..Len(s) /\ ToSet(s) = {s[i] : i \in 1..Len(s)}
  BY DEF ToSet
<1>0. s = <<>> <=> Len(s) = 0
  BY EmptySeq
<1>2. s # <<>> => 1 \in 1..Len(s) /\ Len(s) \in 1..Len(s) /\ Head(s) = s[1] /\ Last(s) = s[Len(s)]
  BY <1>1 DEF Last
<1>3. s # <<>> => Head(s) \in ToSet(s) /\ Last(s) \in ToSet(s)
  BY <1>1, <1>2
<1>4. s = <<>> => ToSet(s) = {}
  BY <1>1
<1>5. ToSet(s) \subseteq Nat
  BY <1>1
<1>6. s \in Surjection(1..Len(s), ToSet(s))
  BY <1>1 DEF Surjection
<1>7. IsFiniteSet(1..Len(s)) /\ Cardinality(1..Len(s)) = Len(s)
  BY <1>1, UpTo
<1>8. /\ IsFiniteSet(ToSet(s))
      /\ s \in Injection(1..Len(s), ToSet(s)) => Cardinality(ToSet(s)) = Len(s)
  BY <1>6, <1>7, FS_Surjection
<1>9. ASSUME Decreasing(s)
      PROVE  /\ \A x \in ToSet(s) : x <= Head(s) /\ Last(s) <= x
             /\ Cardinality(ToSet(s)) = Len(s)
  <2>1. \A i, j \in 1..Len(s) : i < j => s[i] > s[j]
    BY <1>1, <1>9 DEF Decreasing
  <2>2. \A i \in 1..Len(s) : s[i] \in Nat
    BY <1>1
  <2>3. ASSUME NEW i \in 1..Len(s)
        PROVE  s[i] <= Head(s) /\ Last(s) <= s[i]
    <3>1. Len(s) # 0 /\ (i = 1 \/ 1 < i) /\ (i = Len(s) \/ i < Len(s))
      <4>1. \A n \in Nat : \A k \in 1..n : n # 0 /\ (k = 1 \/ 1 < k) /\ (k = n \/ k < n)
        OBVIOUS
      <4> QED
        BY <1>1, <4>1
    <3>2. s # <<>>
      BY <1>0, <3>1
    <3> QED
      BY <1>2, <2>1, <2>2, <3>1, <3>2
  <2>4. \A i, j \in 1..Len(s) : s[i] = s[j] => i = j
    BY <2>1, <2>2
  <2>5. s \in [1..Len(s) -> ToSet(s)]
    BY <1>1
  <2>6. s \in Injection(1..Len(s), ToSet(s))
    BY <2>4, <2>5 DEF Injection, IsInjective
  <2> QED
    BY <1>1, <1>8, <2>3, <2>6
<1> QED
  BY <1>3, <1>4, <1>5, <1>8, <1>9

-----------------------------------------------------------------------------
\* mergePostBlocks, step by step.

LEMMA BlockProperties ==
  ASSUME NEW b \in BlockRecords
  PROVE  /\ b.order \in Seq(Ids) /\ b.order \in Seq(Nat)
         /\ b.recent \in BOOLEAN /\ b.oldest \in BOOLEAN
         /\ Listed(b) \in SUBSET Ids /\ Listed(b) \in SUBSET Nat /\ IsFiniteSet(Listed(b))
         /\ b.order = <<>> <=> Listed(b) = {}
         /\ b.order # <<>> => Head(b.order) \in Listed(b) /\ Last(b.order) \in Listed(b)
         /\ Decreasing(b.order) =>
              \A x \in Listed(b) : x <= Head(b.order) /\ Last(b.order) <= x
<1>1. b.order \in Seq(Ids) /\ b.recent \in BOOLEAN /\ b.oldest \in BOOLEAN
  BY DEF BlockRecords
<1>2. Ids \subseteq Nat
  BY BlocksAssumption DEF Ids
<1>3. b.order \in Seq(Nat)
  BY <1>1, <1>2, SeqMonotonic
<1>4. Listed(b) \subseteq Ids
  BY <1>1 DEF Listed, ToSet
<1> QED
  BY <1>1, <1>2, <1>3, <1>4, DecreasingProperties DEF Listed

\* The blocks can be sorted: there is at most one, or each has a first post.
Headed(bs) == Len(bs) <= 1 \/ \A i \in DOMAIN bs : bs[i].order # <<>>

LEMMA Sorting ==
  ASSUME NEW bs \in Seq(BlockRecords), Headed(bs)
  PROVE  \E p \in [DOMAIN bs -> DOMAIN bs] :
           /\ SortedBlocks(bs) = [k \in DOMAIN bs |-> bs[p[k]]]
           /\ \A k, l \in DOMAIN bs : p[k] = p[l] => k = l
           /\ \A i \in DOMAIN bs : \E k \in DOMAIN bs : p[k] = i
           /\ \A k, l \in DOMAIN bs :
                k < l => Head(bs[p[k]].order) >= Head(bs[p[l]].order)
<1> DEFINE D == DOMAIN bs
           head(i) == Head(bs[i].order)
           R == {q \in D \X D : q[1] \in Ahead(bs, q[2])}
<1>1. D = 1..Len(bs) /\ Len(bs) \in Nat /\ IsFiniteSet(D) /\ Cardinality(D) = Len(bs)
  <2>1. D = 1..Len(bs) /\ Len(bs) \in Nat
    OBVIOUS
  <2>2. IsFiniteSet(1..Len(bs)) /\ Cardinality(1..Len(bs)) = Len(bs)
    BY <2>1, UpTo
  <2> QED
    BY <2>1, <2>2
<1>2. \A i, j \in D : <<j, i>> \in R <=> j # i /\ (head(j) > head(i) \/ (head(j) = head(i) /\ j < i))
  BY DEF Ahead
<1>3. \A i \in D : Before(D, R, i) = Ahead(bs, i)
  BY DEF Before, Ahead
<1>4. StrictOrder(D, R)
  <2> HIDE DEF R
  <2>1. CASE Len(bs) > 1
    <3>1. \A i \in D : head(i) \in Nat /\ i \in Nat
      <4> TAKE i \in D
      <4>1. bs[i] \in BlockRecords /\ bs[i].order # <<>>
        BY <1>1, <2>1 DEF Headed
      <4>2. head(i) \in Listed(bs[i]) /\ Listed(bs[i]) \in SUBSET Nat
        BY <4>1, BlockProperties
      <4> QED
        BY <1>1, <4>2
    <3> HIDE DEF head, D
    <3>2. \A i \in D : <<i, i>> \notin R
      BY <1>2
    <3>3. \A i, j \in D : i # j => <<i, j>> \in R \/ <<j, i>> \in R
      <4>1. \A a, b, m, n \in Nat :
              m # n => a > b \/ (a = b /\ m < n) \/ b > a \/ (b = a /\ n < m)
        OBVIOUS
      <4> QED
        BY <1>2, <3>1, <4>1
    <3>4. \A i, j, k \in D : <<i, j>> \in R /\ <<j, k>> \in R => <<i, k>> \in R
      <4>1. \A a, b, c, l, m, n \in Nat :
              /\ a > b \/ (a = b /\ l < m)
              /\ b > c \/ (b = c /\ m < n)
              => (a > c \/ (a = c /\ l < n)) /\ (l = n => a > c)
        OBVIOUS
      <4>2. \A a \in Nat : ~(a > a)
        OBVIOUS
      <4> QED
        BY <1>2, <3>1, <4>1, <4>2
    <3> QED
      BY <3>2, <3>3, <3>4 DEF StrictOrder
  <2>2. CASE ~(Len(bs) > 1)
    <3>1. \A i, j \in D : i = j
      BY <1>1, <2>2
    <3> HIDE DEF D, head
    <3> QED
      BY <1>2, <3>1 DEF StrictOrder
  <2> QED
    BY <2>1, <2>2
<1> HIDE DEF R
<1>5. /\ \A i \in D : Cardinality(Ahead(bs, i)) \in 0..(Len(bs) - 1)
      /\ \A i, j \in D : <<i, j>> \in R => Cardinality(Ahead(bs, i)) < Cardinality(Ahead(bs, j))
      /\ \A n \in 0..(Len(bs) - 1) : \E i \in D : Cardinality(Ahead(bs, i)) = n
  <2> HIDE DEF D
  <2>1. /\ \A i \in D : Cardinality(Before(D, R, i)) \in 0..(Cardinality(D) - 1)
        /\ \A i, j \in D : <<i, j>> \in R =>
             Cardinality(Before(D, R, i)) < Cardinality(Before(D, R, j))
        /\ \A n \in 0..(Cardinality(D) - 1) : \E i \in D : Cardinality(Before(D, R, i)) = n
    BY <1>1, <1>4, Ranks
  <2>2. \A i \in D : Cardinality(Before(D, R, i)) = Cardinality(Ahead(bs, i))
    BY <1>3
  <2>3. Cardinality(D) = Len(bs)
    BY <1>1
  <2> QED
    BY <2>1, <2>2, <2>3
<1> DEFINE p == [k \in D |-> CHOOSE i \in D : Cardinality(Ahead(bs, i)) = k - 1]
<1>6. SortedBlocks(bs) = [k \in D |-> bs[p[k]]]
  BY DEF SortedBlocks
<1>7. \A k \in D : p[k] \in D /\ Cardinality(Ahead(bs, p[k])) = k - 1
  <2> TAKE k \in D
  <2>1. k - 1 \in 0..(Len(bs) - 1)
    BY <1>1
  <2>2. \E i \in D : Cardinality(Ahead(bs, i)) = k - 1
    BY <1>5, <2>1
  <2> QED
    BY <2>2
<1>8. p \in [D -> D]
  BY <1>7
<1> HIDE DEF p
<1>9. \A k, l \in D : p[k] = p[l] => k = l
  <2> TAKE k, l \in D
  <2> HAVE p[k] = p[l]
  <2>1. k - 1 = l - 1 /\ k \in Nat /\ l \in Nat
    BY <1>1, <1>7
  <2> QED
    BY <2>1
<1>10. ASSUME NEW i \in D
       PROVE  \E k \in D : p[k] = i
  <2>1. PICK n \in 0..(Len(bs) - 1) : Cardinality(Ahead(bs, i)) = n
    BY <1>5
  <2>2. n + 1 \in D /\ (n + 1) - 1 = n
    BY <1>1
  <2>3. p[n + 1] \in D /\ Cardinality(Ahead(bs, p[n + 1])) = n
    BY <1>7, <2>2
  <2>4. <<i, p[n + 1]>> \notin R /\ <<p[n + 1], i>> \notin R
    BY <1>5, <2>1, <2>3
  <2> QED
    BY <1>4, <2>2, <2>3, <2>4 DEF StrictOrder
<1>11. ASSUME NEW k \in D, NEW l \in D, k < l
       PROVE  head(p[k]) >= head(p[l])
  <2>1. p[k] \in D /\ p[l] \in D
    BY <1>7
  <2>2. Cardinality(Ahead(bs, p[k])) = k - 1 /\ Cardinality(Ahead(bs, p[l])) = l - 1
    BY <1>7
  <2>3. k \in Nat /\ l \in Nat /\ k - 1 < l - 1 /\ ~(l - 1 < k - 1) /\ k - 1 # l - 1
    BY <1>1, <1>11
  <2>4. p[k] # p[l] /\ <<p[l], p[k]>> \notin R
    BY <1>5, <2>1, <2>2, <2>3
  <2>5. <<p[k], p[l]>> \in R
    BY <1>4, <2>1, <2>4 DEF StrictOrder
  <2>6. head(p[k]) > head(p[l]) \/ head(p[k]) = head(p[l])
    BY <1>2, <2>1, <2>5
  <2>7. Len(bs) > 1
    BY <1>1, <1>11
  <2>8. ASSUME NEW i \in D
        PROVE  head(i) \in Nat
    <3>1. bs[i] \in BlockRecords /\ bs[i].order # <<>>
      BY <1>1, <2>7 DEF Headed
    <3>2. head(i) \in Listed(bs[i]) /\ Listed(bs[i]) \in SUBSET Nat
      BY <3>1, BlockProperties
    <3> QED
      BY <3>2
  <2>9. head(p[k]) \in Nat /\ head(p[l]) \in Nat
    BY <2>1, <2>8
  <2> HIDE DEF head
  <2> QED
    BY <2>6, <2>9
<1> QED
  BY <1>6, <1>8, <1>9, <1>10, <1>11


\* sb has some of the blocks bs, all that list a post, and begins with the one
\* that begins last.
Rearranged(bs, sb) ==
  /\ sb \in Seq(BlockRecords) /\ Len(sb) <= Len(bs) /\ Headed(sb)
  /\ \E p \in [DOMAIN sb -> DOMAIN bs] :
       /\ \A k \in DOMAIN sb : sb[k] = bs[p[k]]
       /\ \A k, l \in DOMAIN sb : p[k] = p[l] => k = l
       /\ \A i \in DOMAIN bs : bs[i].order # <<>> => \E k \in DOMAIN sb : p[k] = i
  /\ \A k, l \in DOMAIN sb : k < l => Head(sb[k].order) >= Head(sb[l].order)

LEMMA Rearranging ==
  ASSUME NEW bs \in Seq(BlockRecords), Headed(RemoveNonRecentEmpty(bs))
  PROVE  Rearranged(bs, SortedBlocks(RemoveNonRecentEmpty(bs)))
<1> DEFINE D == {i \in DOMAIN bs : bs[i].order # <<>> \/ bs[i].recent}
           kept == RemoveNonRecentEmpty(bs)
           sb == SortedBlocks(kept)
<1>1. kept = Kept(bs, D) /\ D \in SUBSET (DOMAIN bs)
  BY DEF RemoveNonRecentEmpty
<1>2. \A i \in DOMAIN bs : bs[i].order # <<>> => i \in D
  OBVIOUS
<1> HIDE DEF D, kept
<1> DEFINE n == Cardinality(D)
<1>3. /\ kept \in Seq(BlockRecords) /\ Len(kept) = n /\ n \in 0..Len(bs)
      /\ \A k \in 1..n : Nth(D, k) \in D /\ kept[k] = bs[Nth(D, k)]
      /\ \A k, l \in 1..n : k < l => Nth(D, k) < Nth(D, l)
      /\ \A i \in D : \E k \in 1..n : i = Nth(D, k)
  <2>1. /\ Kept(bs, D) \in Seq(BlockRecords) /\ Len(Kept(bs, D)) = n /\ n \in 0..Len(bs)
        /\ \A k \in 1..n : Nth(D, k) \in D /\ Kept(bs, D)[k] = bs[Nth(D, k)]
        /\ \A k, l \in 1..n : k < l => Nth(D, k) < Nth(D, l)
        /\ \A i \in D : \E k \in 1..n : i = Nth(D, k)
    <3>1. D \in SUBSET (DOMAIN bs)
      BY <1>1
    <3> QED
      BY <3>1, KeptProperties
  <2> HIDE DEF n
  <2> QED
    BY <1>1, <2>1
<1> HIDE DEF n
<1>4. n \in Nat /\ Len(bs) \in Nat /\ DOMAIN kept = 1..n /\ \A k \in 1..n : Nth(D, k) \in Nat
  BY <1>1, <1>3
<1>5. Headed(kept)
  BY DEF kept
<1> DEFINE K == DOMAIN kept
<1>a. PICK q \in [K -> K] :
        /\ SortedBlocks(kept) = [k \in K |-> kept[q[k]]]
        /\ \A k, l \in K : q[k] = q[l] => k = l
        /\ \A i \in K : \E k \in K : q[k] = i
        /\ \A k, l \in K : k < l => Head(kept[q[k]].order) >= Head(kept[q[l]].order)
  BY <1>3, <1>5, Sorting
<1>b. K = 1..n
  BY <1>4
<1> HIDE DEF K
<1>6. /\ q \in [1..n -> 1..n]
      /\ SortedBlocks(kept) = [k \in 1..n |-> kept[q[k]]]
      /\ \A k, l \in 1..n : q[k] = q[l] => k = l
      /\ \A i \in 1..n : \E k \in 1..n : q[k] = i
      /\ \A k, l \in 1..n : k < l => Head(kept[q[k]].order) >= Head(kept[q[l]].order)
  BY <1>a, <1>b
<1> DEFINE p == [k \in 1..n |-> Nth(D, q[k])]
<1>7. sb \in Seq(BlockRecords) /\ Len(sb) = n /\ DOMAIN sb = 1..n
      /\ \A k \in 1..n : sb[k] = kept[q[k]]
  <2>1. \A k \in 1..n : kept[q[k]] \in BlockRecords
    <3>1. \A k \in 1..n : q[k] \in 1..n
      BY <1>6
    <3>2. \A i \in 1..n : kept[i] \in BlockRecords
      BY <1>3, ElementOfSeq
    <3> QED
      BY <3>1, <3>2
  <2> QED
    BY <1>4, <1>6, <2>1
<1> HIDE DEF sb
<1>8. Headed(sb)
  <2>1. CASE n <= 1
    BY <1>7, <2>1 DEF Headed
  <2>2. CASE ~(n <= 1)
    <3>1. \A i \in 1..n : kept[i].order # <<>>
      BY <1>3, <1>4, <1>5, <2>2 DEF Headed
    <3>2. \A k \in 1..n : q[k] \in 1..n
      BY <1>6
    <3>3. \A k \in DOMAIN sb : sb[k].order # <<>>
      BY <1>7, <3>1, <3>2
    <3> QED
      BY <3>3 DEF Headed
  <2> QED
    BY <2>1, <2>2
<1>9. p \in [1..n -> DOMAIN bs]
  BY <1>1, <1>3, <1>6
<1>10. \A k \in 1..n : sb[k] = bs[p[k]]
  BY <1>3, <1>6, <1>7
<1>11. \A k, l \in 1..n : p[k] = p[l] => k = l
  <2> TAKE k, l \in 1..n
  <2> HAVE p[k] = p[l]
  <2>1. q[k] \in 1..n /\ q[l] \in 1..n /\ Nth(D, q[k]) = Nth(D, q[l])
    BY <1>6
  <2>2. Nth(D, q[k]) \in Nat /\ Nth(D, q[l]) \in Nat
    BY <1>4, <2>1
  <2>3. ~(q[k] < q[l]) /\ ~(q[l] < q[k])
    BY <1>3, <2>1, <2>2
  <2>4. q[k] = q[l]
    BY <1>4, <2>1, <2>3
  <2> QED
    BY <1>6, <2>4
<1>12. \A i \in DOMAIN bs : bs[i].order # <<>> => \E k \in 1..n : p[k] = i
  <2> TAKE i \in DOMAIN bs
  <2> HAVE bs[i].order # <<>>
  <2>1. PICK m \in 1..n : i = Nth(D, m)
    BY <1>2, <1>3
  <2>2. PICK k \in 1..n : q[k] = m
    BY <1>6
  <2> QED
    BY <2>1, <2>2
<1>13. \A k, l \in 1..n : k < l => Head(sb[k].order) >= Head(sb[l].order)
  <2> TAKE k, l \in 1..n
  <2>1. sb[k] = kept[q[k]] /\ sb[l] = kept[q[l]]
    BY <1>7
  <2>2. k < l => Head(kept[q[k]].order) >= Head(kept[q[l]].order)
    BY <1>6
  <2> QED
    BY <2>1, <2>2
<1> HIDE DEF p
<1>14. Len(sb) <= Len(bs)
  BY <1>3, <1>7
<1>15. Rearranged(bs, sb)
  <2> DEFINE B == DOMAIN sb
  <2>1. B = 1..n
    BY <1>7
  <2> HIDE DEF B
  <2>2. /\ p \in [B -> DOMAIN bs]
        /\ \A k \in B : sb[k] = bs[p[k]]
        /\ \A k, l \in B : p[k] = p[l] => k = l
        /\ \A i \in DOMAIN bs : bs[i].order # <<>> => \E k \in B : p[k] = i
        /\ \A k, l \in B : k < l => Head(sb[k].order) >= Head(sb[l].order)
    BY <1>9, <1>10, <1>11, <1>12, <1>13, <2>1
  <2>3. sb \in Seq(BlockRecords)
    BY <1>7
  <2> QED
    BY <1>8, <1>14, <2>2, <2>3 DEF Rearranged, B
<1> QED
  BY <1>15 DEF sb, kept

\* Every block is in a run, and the last one is the end of one.
LEMMA EndsProperties ==
  ASSUME NEW bs \in Seq(BlockRecords)
  PROVE  /\ Ends(bs) \in SUBSET (1..Len(bs))
         /\ Ends(bs) \in SUBSET Nat /\ IsFiniteSet(Ends(bs))
         /\ Cardinality(Ends(bs)) \in 0..Len(bs)
         /\ Cardinality(Ends(bs)) = Len(bs) => Ends(bs) = 1..Len(bs)
         /\ \A i \in 1..Len(bs) : \E e \in Ends(bs) : i \in Run(bs, e)
         /\ \A e \in Ends(bs) : e \in Run(bs, e) /\ Run(bs, e) \in SUBSET (DOMAIN bs)
<1>1. DOMAIN bs = 1..Len(bs) /\ Len(bs) \in Nat
  OBVIOUS
<1>2. IsFiniteSet(1..Len(bs)) /\ Cardinality(1..Len(bs)) = Len(bs)
  BY <1>1, UpTo
<1>3. Ends(bs) \in SUBSET (1..Len(bs)) /\ Ends(bs) \in SUBSET Nat
  BY <1>1 DEF Ends
<1>4. /\ IsFiniteSet(Ends(bs)) /\ Cardinality(Ends(bs)) <= Len(bs)
      /\ Cardinality(Ends(bs)) = Len(bs) => Ends(bs) = 1..Len(bs)
  BY <1>2, <1>3, FS_Subset
<1>5. Cardinality(Ends(bs)) \in Nat
  BY <1>4, FS_CardinalityType
<1>6. ASSUME NEW i \in 1..Len(bs)
      PROVE  \E e \in Ends(bs) : i \in Run(bs, e)
  <2> DEFINE later == {k \in Ends(bs) : i <= k}
  <2>1. Len(bs) \in later
    BY <1>1 DEF Ends
  <2>2. later \in SUBSET Ends(bs)
    OBVIOUS
  <2>3. later \in SUBSET Nat /\ IsFiniteSet(later)
    BY <1>3, <1>4, <2>2, FS_Subset
  <2>4. later # {}
    BY <2>1
  <2> HIDE DEF later
  <2>5. PICK e \in later : \A k \in later : e <= k
    BY <2>3, <2>4, LeastProperties
  <2>6. e \in Ends(bs) /\ i <= e /\ \A k \in Ends(bs) : i <= k => e <= k
    BY <2>5 DEF later
  <2>7. i \in 1..e /\ \A k \in Ends(bs) : k < e => k < i
    BY <1>1, <1>3, <2>6
  <2> QED
    BY <2>6, <2>7 DEF Run
<1>7. \A e \in Ends(bs) : e \in Run(bs, e) /\ Run(bs, e) \in SUBSET (DOMAIN bs)
  BY <1>1, <1>3 DEF Run
<1> QED
  BY <1>1, <1>3, <1>4, <1>5, <1>6, <1>7

AllDecreasing(bs) == \A i \in DOMAIN bs : Decreasing(bs[i].order)

\* The order of a run of blocks lists what they list.
LEMMA MergeOrderProperties ==
  ASSUME NEW bs \in Seq(BlockRecords), NEW run \in SUBSET (DOMAIN bs), run # {}
  PROVE  /\ MergeOrder(bs, run) \in Seq(Ids)
         /\ ToSet(MergeOrder(bs, run)) = UNION {Listed(bs[i]) : i \in run}
         /\ AllDecreasing(bs) => Decreasing(MergeOrder(bs, run))
<1> DEFINE all == UNION {Listed(bs[i]) : i \in run}
           i0 == CHOOSE i \in run : \A j \in run : i <= j
<1>1. DOMAIN bs = 1..Len(bs) /\ Len(bs) \in Nat
  OBVIOUS
<1>2. IsFiniteSet(run) /\ run \in SUBSET Nat
  <2>1. IsFiniteSet(1..Len(bs))
    BY <1>1, UpTo
  <2> QED
    BY <1>1, <2>1, FS_Subset
<1>3. i0 \in run /\ i0 \in DOMAIN bs
  <2>1. \E i \in run : \A j \in run : i <= j
    BY <1>2, LeastProperties
  <2> QED
    BY <2>1
<1>4. all \in SUBSET Ids
  BY BlockProperties
<1>5. all \in SUBSET Nat /\ IsFiniteSet(all)
  <2> HIDE DEF all
  <2>1. MaxPosts \in Nat
    BY BlocksAssumption
  <2>2. IsFiniteSet(1..MaxPosts)
    BY <2>1, UpTo
  <2> QED
    <3>1. Ids \subseteq Nat
      BY <2>1 DEF Ids
    <3>2. IsFiniteSet(all)
      BY <1>4, <2>2, FS_Subset DEF Ids
    <3> QED
      BY <1>4, <3>1, <3>2
<1>6. MergeOrder(bs, run) = IF all = Listed(bs[i0]) THEN bs[i0].order ELSE NewestFirst(all)
  BY DEF MergeOrder
<1> HIDE DEF all, i0
<1>7. CASE all = Listed(bs[i0])
  <2>1. bs[i0] \in BlockRecords
    BY <1>3
  <2>2. MergeOrder(bs, run) = bs[i0].order
    BY <1>6, <1>7
  <2>3. bs[i0].order \in Seq(Ids)
    BY <2>1, BlockProperties
  <2>4. ToSet(bs[i0].order) = all
    BY <1>7 DEF Listed
  <2>5. AllDecreasing(bs) => Decreasing(bs[i0].order)
    BY <1>3 DEF AllDecreasing
  <2> QED
    BY <2>2, <2>3, <2>4, <2>5 DEF all
<1>8. CASE all # Listed(bs[i0])
  <2>1. MergeOrder(bs, run) = NewestFirst(all)
    BY <1>6, <1>8
  <2>2. /\ NewestFirst(all) \in Seq(all) /\ ToSet(NewestFirst(all)) = all
        /\ Decreasing(NewestFirst(all))
    BY <1>5, NewestFirstProperties
  <2>3. NewestFirst(all) \in Seq(Ids)
    BY <1>4, <2>2, SeqMonotonic
  <2> QED
    BY <2>1, <2>2, <2>3 DEF all
<1> QED
  BY <1>7, <1>8


\* All posts of b are newer than x, or all are older.
Apart(b, x) == (\A y \in Listed(b) : x < y) \/ (\A y \in Listed(b) : y < x)

Overlap(b, c) == Listed(b) \cap Listed(c) # {}

\* A run does not close over a post that no block lists.
LEMMA RunApart ==
  ASSUME NEW bs \in Seq(BlockRecords), Headed(bs),
         \A k, l \in DOMAIN bs : k < l => Head(bs[k].order) >= Head(bs[l].order),
         NEW x \in Nat, \A i \in DOMAIN bs : Apart(bs[i], x), NEW e \in Ends(bs)
  PROVE  \/ \A i \in Run(bs, e) : \A y \in Listed(bs[i]) : x < y
         \/ \A i \in Run(bs, e) : \A y \in Listed(bs[i]) : y < x
<1>1. DOMAIN bs = 1..Len(bs) /\ Len(bs) \in Nat
  OBVIOUS
<1>2. Run(bs, e) \in SUBSET (DOMAIN bs) /\ e \in Run(bs, e) /\ e \in 1..Len(bs)
  BY EndsProperties
<1>3. CASE Len(bs) <= 1
  <2>1. \A i \in Run(bs, e) : i = e
    BY <1>1, <1>2, <1>3
  <2> QED
    BY <1>2, <2>1 DEF Apart
<1>4. CASE ~(Len(bs) <= 1)
  <2> DEFINE above(i) == Head(bs[i].order) > x
             D == DOMAIN bs
             head(i) == Head(bs[i].order)
             last(i) == Last(bs[i].order)
  <2>1. \A i \in D : /\ head(i) \in Listed(bs[i]) /\ last(i) \in Listed(bs[i])
                     /\ head(i) \in Nat /\ last(i) \in Nat
    <3> TAKE i \in D
    <3>1. bs[i] \in BlockRecords /\ bs[i].order # <<>>
      BY <1>1, <1>4 DEF Headed
    <3> QED
      BY <3>1, BlockProperties
  <2>2. \A i \in D : head(i) > x => \A y \in Listed(bs[i]) : x < y
    BY <2>1 DEF Apart
  <2>3. \A i \in D : ~(head(i) > x) => \A y \in Listed(bs[i]) : y < x
    BY <2>1 DEF Apart
  <2> SUFFICES ASSUME NEW i \in Run(bs, e), head(i) > x, NEW j \in Run(bs, e), ~(head(j) > x)
               PROVE  FALSE
    BY <1>2, <2>2, <2>3
  <2> DEFINE ups == {k \in Run(bs, e) : head(k) > x}
  <2>4. ups \in SUBSET Nat /\ IsFiniteSet(ups) /\ ups # {}
    <3>1. ups \in SUBSET (1..Len(bs)) /\ i \in ups
      BY <1>1, <1>2
    <3>2. IsFiniteSet(1..Len(bs))
      BY <1>1, UpTo
    <3> HIDE DEF ups
    <3>3. IsFiniteSet(ups)
      BY <3>1, <3>2, FS_Subset
    <3>4. 1..Len(bs) \in SUBSET Nat
      BY <1>1
    <3> QED
      BY <3>1, <3>3, <3>4
  <2>5. PICK k \in ups : \A m \in ups : m <= k
    <3> HIDE DEF ups
    <3> QED
      BY <2>4, GreatestProperties
  <2>6. k \in Run(bs, e) /\ head(k) > x /\ k \in D
    BY <1>2, <2>5
  <2>7. \A m \in D : m <= k => last(m) > x
    <3> TAKE m \in D
    <3> HAVE m <= k
    <3>1. head(m) >= head(k)
      BY <1>1, <2>1, <2>6
    <3>2. head(m) > x
      BY <2>1, <2>6, <3>1
    <3> QED
      BY <2>1, <2>2, <3>2
  <2>8. j \in D /\ j <= e /\ e \in Nat /\ head(j) < x
    <3>1. j \in D /\ j \in 1..e
      BY <1>2 DEF Run
    <3>2. head(j) < x
      BY <2>1, <2>3, <3>1
    <3> QED
      BY <1>1, <1>2, <3>1, <3>2
  <2>9. k < j
    <3>1. j <= k => head(j) >= head(k)
      BY <1>1, <2>1, <2>6, <2>8
    <3>2. head(j) < head(k)
      BY <2>1, <2>6, <2>8
    <3> QED
      BY <1>1, <2>1, <2>6, <2>8, <3>1, <3>2
  <2>10. \A m \in D : k < m => head(m) < x
    <3> TAKE m \in D
    <3> HAVE k < m
    <3>1. CASE m <= e
      <4>1. \A n \in Ends(bs) : n < e => n < m
        <5> TAKE n \in Ends(bs)
        <5> HAVE n < e
        <5>1. n < k /\ n \in 1..Len(bs)
          BY <2>6, EndsProperties DEF Run
        <5> QED
          BY <1>1, <2>6, <5>1
      <4>2. m \in Run(bs, e)
        BY <1>1, <1>2, <3>1, <4>1 DEF Run
      <4>3. m \notin ups
        BY <1>1, <2>5, <2>6
      <4>4. ~(head(m) > x)
        BY <4>2, <4>3
      <4> QED
        BY <2>1, <2>3, <4>4
    <3>2. CASE e < m
      <4>1. j < m
        BY <1>1, <2>8, <3>2
      <4>2. head(j) >= head(m)
        BY <2>8, <4>1
      <4> QED
        BY <2>1, <2>8, <4>2
    <3> QED
      BY <1>1, <1>2, <3>1, <3>2
  <2>11. \A m, n \in D : m <= k /\ k < n => last(m) > head(n)
    <3> TAKE m, n \in D
    <3> HAVE m <= k /\ k < n
    <3>1. last(m) > x /\ head(n) < x /\ last(m) \in Nat /\ head(n) \in Nat
      BY <2>1, <2>7, <2>10
    <3> HIDE DEF last, head
    <3> QED
      BY <3>1
  <2>12. k \in Ends(bs)
    BY <2>6, <2>11 DEF Ends
  <2>13. k < e
    BY <1>1, <2>6, <2>8, <2>9
  <2>14. k < k
    BY <2>6, <2>12, <2>13 DEF Run
  <2> QED
    BY <1>1, <2>6, <2>14
<1> QED
  BY <1>3, <1>4

\* Blocks that share a post are in one run.
LEMMA RunOverlap ==
  ASSUME NEW bs \in Seq(BlockRecords), AllDecreasing(bs),
         NEW i \in DOMAIN bs, NEW j \in DOMAIN bs, Overlap(bs[i], bs[j]),
         NEW e \in Ends(bs), i \in Run(bs, e)
  PROVE  j \in Run(bs, e)
<1>1. DOMAIN bs = 1..Len(bs) /\ Len(bs) \in Nat
  OBVIOUS
<1>2. bs[i] \in BlockRecords /\ bs[j] \in BlockRecords
  OBVIOUS
<1>3. PICK y \in Listed(bs[i]) : y \in Listed(bs[j])
  BY DEF Overlap
<1>4. bs[i].order # <<>> /\ bs[j].order # <<>> /\ y \in Nat
  BY <1>2, <1>3, BlockProperties
<1>5. /\ Last(bs[i].order) <= y /\ y <= Head(bs[i].order)
      /\ Last(bs[j].order) <= y /\ y <= Head(bs[j].order)
      /\ Last(bs[i].order) \in Nat /\ Head(bs[i].order) \in Nat
      /\ Last(bs[j].order) \in Nat /\ Head(bs[j].order) \in Nat
  BY <1>2, <1>3, <1>4, BlockProperties DEF AllDecreasing
<1>6. ~(Last(bs[i].order) > Head(bs[j].order)) /\ ~(Last(bs[j].order) > Head(bs[i].order))
  BY <1>4, <1>5
<1>7. \A k \in Ends(bs) : ~(i <= k /\ k < j) /\ ~(j <= k /\ k < i)
  BY <1>6 DEF Ends
<1>8. i \in 1..e /\ \A k \in Ends(bs) : k \in 1..Len(bs) /\ (k < e => k < i)
  BY EndsProperties DEF Run
<1>9. j \in 1..e
  BY <1>1, <1>7, <1>8
<1>10. \A k \in Ends(bs) : k < e => k < j
  BY <1>1, <1>7, <1>8
<1> QED
  BY <1>9, <1>10 DEF Run

\* m are the runs of bs, each as one block.
Joins(bs, m) ==
  /\ m \in Seq(BlockRecords)
  /\ \A k \in DOMAIN m : \E run \in SUBSET (DOMAIN bs) :
       /\ Listed(m[k]) = UNION {Listed(bs[i]) : i \in run}
       /\ m[k].recent => \E i \in run :
            bs[i].recent /\ (Listed(m[k]) = {} \/ Listed(bs[i]) # {})
       /\ AllDecreasing(bs) =>
            \A i \in run, j \in DOMAIN bs : Overlap(bs[i], bs[j]) => j \in run
       /\ AllDecreasing(bs) => Decreasing(m[k].order)
       /\ \A x \in Nat : (\A i \in DOMAIN bs : Apart(bs[i], x)) => Apart(m[k], x)
  /\ \A i \in DOMAIN bs : \A y \in Listed(bs[i]) : \E k \in DOMAIN m : y \in Listed(m[k])

LEMMA Joining ==
  ASSUME NEW bs \in Seq(BlockRecords), Headed(bs),
         \A k, l \in DOMAIN bs : k < l => Head(bs[k].order) >= Head(bs[l].order)
  PROVE  /\ Joins(bs, MergeRuns(bs))
         /\ Len(MergeRuns(bs)) = Cardinality(Ends(bs))
<1> DEFINE c == Cardinality(Ends(bs))
           end(n) == Nth(Ends(bs), n)
           m == MergeRuns(bs)
<1>1. /\ c \in 0..Len(bs) /\ Ends(bs) \in SUBSET Nat /\ IsFiniteSet(Ends(bs))
      /\ \A i \in 1..Len(bs) : \E e \in Ends(bs) : i \in Run(bs, e)
      /\ \A e \in Ends(bs) : e \in Run(bs, e) /\ Run(bs, e) \in SUBSET (DOMAIN bs)
  BY EndsProperties
<1>2. /\ \A n \in 1..c : end(n) \in Ends(bs)
      /\ \A e \in Ends(bs) : \E n \in 1..c : e = end(n)
  BY <1>1, NthProperties
<1> DEFINE merged(n) == Block(MergeOrder(bs, Run(bs, end(n))),
                              \E i \in Run(bs, end(n)) : bs[i].recent,
                              \E i \in Run(bs, end(n)) : bs[i].oldest)
<1>3. \A n \in 1..c : /\ merged(n) \in BlockRecords
                      /\ merged(n).order = MergeOrder(bs, Run(bs, end(n)))
                      /\ merged(n).recent <=> \E i \in Run(bs, end(n)) : bs[i].recent
  <2> TAKE n \in 1..c
  <2>1. Run(bs, end(n)) \in SUBSET (DOMAIN bs) /\ Run(bs, end(n)) # {}
    BY <1>1, <1>2
  <2>2. MergeOrder(bs, Run(bs, end(n))) \in Seq(Ids)
    BY <2>1, MergeOrderProperties
  <2> QED
    BY <2>2 DEF Block, BlockRecords
<1>4. /\ m \in Seq(BlockRecords) /\ Len(m) = c /\ DOMAIN m = 1..c
      /\ \A n \in 1..c : /\ m[n].order = MergeOrder(bs, Run(bs, end(n)))
                         /\ m[n].recent <=> \E i \in Run(bs, end(n)) : bs[i].recent
  <2>1. m = [n \in 1..c |-> merged(n)]
    BY DEF MergeRuns
  <2>2. c \in Nat
    BY <1>1
  <2> HIDE DEF m, c, end, merged
  <2>3. \A n \in 1..c : m[n] = merged(n)
    BY <2>1
  <2>4. m \in Seq(BlockRecords) /\ Len(m) = c /\ DOMAIN m = 1..c
    BY <1>3, <2>1, <2>2
  <2> QED
    BY <1>3, <2>3, <2>4
<1> HIDE DEF m, c, end, merged
<1>5. ASSUME NEW n \in 1..c
      PROVE  LET run == Run(bs, end(n)) IN
             /\ run \in SUBSET (DOMAIN bs)
             /\ Listed(m[n]) = UNION {Listed(bs[i]) : i \in run}
             /\ m[n].recent => \E i \in run :
                  bs[i].recent /\ (Listed(m[n]) = {} \/ Listed(bs[i]) # {})
             /\ AllDecreasing(bs) =>
                  \A i \in run, j \in DOMAIN bs : Overlap(bs[i], bs[j]) => j \in run
             /\ AllDecreasing(bs) => Decreasing(m[n].order)
             /\ \A x \in Nat : (\A i \in DOMAIN bs : Apart(bs[i], x)) => Apart(m[n], x)
  <2> DEFINE run == Run(bs, end(n))
  <2>1. end(n) \in Ends(bs) /\ end(n) \in run /\ run \in SUBSET (DOMAIN bs)
    BY <1>1, <1>2
  <2>2. /\ Listed(m[n]) = UNION {Listed(bs[i]) : i \in run}
        /\ AllDecreasing(bs) => Decreasing(m[n].order)
    BY <1>4, <2>1, MergeOrderProperties DEF Listed
  <2>3. ASSUME m[n].recent
        PROVE  \E i \in run : bs[i].recent /\ (Listed(m[n]) = {} \/ Listed(bs[i]) # {})
    <3>1. PICK i \in run : bs[i].recent
      BY <1>4, <2>3
    <3>2. CASE Len(bs) <= 1
      <4>1. \A j \in run : j = i
        BY <2>1, <3>2
      <4>2. Listed(m[n]) = Listed(bs[i])
        BY <2>2, <4>1
      <4> QED
        BY <3>1, <4>2
    <3>3. CASE ~(Len(bs) <= 1)
      <4>1. bs[i] \in BlockRecords /\ bs[i].order # <<>>
        BY <2>1, <3>3 DEF Headed
      <4>2. Listed(bs[i]) # {}
        BY <4>1, BlockProperties
      <4> QED
        BY <3>1, <4>2
    <3> QED
      BY <3>2, <3>3
  <2>4. AllDecreasing(bs) =>
          \A i \in run, j \in DOMAIN bs : Overlap(bs[i], bs[j]) => j \in run
    BY <2>1, RunOverlap
  <2>5. ASSUME NEW x \in Nat, \A i \in DOMAIN bs : Apart(bs[i], x)
        PROVE  Apart(m[n], x)
    <3>1. \/ \A i \in run : \A y \in Listed(bs[i]) : x < y
          \/ \A i \in run : \A y \in Listed(bs[i]) : y < x
      BY <2>1, <2>5, RunApart
    <3> HIDE DEF run
    <3> QED
      BY <2>2, <3>1 DEF Apart
  <2> QED
    BY <2>1, <2>2, <2>3, <2>4, <2>5
<1>6. ASSUME NEW i \in DOMAIN bs, NEW y \in Listed(bs[i])
      PROVE  \E n \in 1..c : y \in Listed(m[n])
  <2>1. PICK n \in 1..c : i \in Run(bs, end(n))
    <3>1. PICK e \in Ends(bs) : i \in Run(bs, e)
      BY <1>1
    <3> QED
      BY <1>2, <3>1
  <2>2. y \in Listed(m[n])
    BY <1>5, <2>1
  <2> QED
    BY <2>2
<1>7. Joins(bs, m)
  BY <1>4, <1>5, <1>6 DEF Joins
<1> QED
  BY <1>4, <1>7 DEF m, c


LEMMA Merging ==
  ASSUME NEW bs \in Seq(BlockRecords), Headed(RemoveNonRecentEmpty(bs))
  PROVE  Joins(bs, MergePostBlocks(bs))
<1> DEFINE sb == SortedBlocks(RemoveNonRecentEmpty(bs))
           m == MergeRuns(sb)
<1>1. MergePostBlocks(bs) = IF m = <<>> \/ Len(m) = Len(bs) THEN bs ELSE m
  BY DEF MergePostBlocks, Merged
<1>2. Rearranged(bs, sb)
  BY Rearranging
<1> HIDE DEF sb
<1>3. /\ sb \in Seq(BlockRecords) /\ Len(sb) <= Len(bs) /\ Headed(sb)
      /\ \A k, l \in DOMAIN sb : k < l => Head(sb[k].order) >= Head(sb[l].order)
  BY <1>2 DEF Rearranged
<1>4. Joins(sb, m) /\ Len(m) = Cardinality(Ends(sb))
  BY <1>3, Joining
<1> HIDE DEF m
<1>5. PICK p \in [DOMAIN sb -> DOMAIN bs] :
       /\ \A k \in DOMAIN sb : sb[k] = bs[p[k]]
       /\ \A k, l \in DOMAIN sb : p[k] = p[l] => k = l
       /\ \A i \in DOMAIN bs : bs[i].order # <<>> => \E k \in DOMAIN sb : p[k] = i
  BY <1>2 DEF Rearranged
<1>6. AllDecreasing(bs) => AllDecreasing(sb)
  BY <1>5 DEF AllDecreasing
<1>7. ASSUME NEW i \in DOMAIN bs, Listed(bs[i]) # {}
      PROVE  \E k \in DOMAIN sb : p[k] = i
  <2>1. bs[i] \in BlockRecords
    OBVIOUS
  <2>2. bs[i].order # <<>>
    BY <1>7, <2>1, BlockProperties
  <2> QED
    BY <1>5, <2>2
<1>8. CASE ~(m = <<>> \/ Len(m) = Len(bs))
  <2>1. ASSUME NEW k \in DOMAIN m
        PROVE  \E run \in SUBSET (DOMAIN bs) :
                 /\ Listed(m[k]) = UNION {Listed(bs[i]) : i \in run}
                 /\ m[k].recent => \E i \in run :
                      bs[i].recent /\ (Listed(m[k]) = {} \/ Listed(bs[i]) # {})
                 /\ AllDecreasing(bs) =>
                      \A i \in run, j \in DOMAIN bs : Overlap(bs[i], bs[j]) => j \in run
                 /\ AllDecreasing(bs) => Decreasing(m[k].order)
                 /\ \A x \in Nat : (\A i \in DOMAIN bs : Apart(bs[i], x)) => Apart(m[k], x)
    <3>1. PICK run \in SUBSET (DOMAIN sb) :
            /\ Listed(m[k]) = UNION {Listed(sb[i]) : i \in run}
            /\ m[k].recent => \E i \in run :
                 sb[i].recent /\ (Listed(m[k]) = {} \/ Listed(sb[i]) # {})
            /\ AllDecreasing(sb) =>
                 \A i \in run, j \in DOMAIN sb : Overlap(sb[i], sb[j]) => j \in run
            /\ AllDecreasing(sb) => Decreasing(m[k].order)
            /\ \A x \in Nat : (\A i \in DOMAIN sb : Apart(sb[i], x)) => Apart(m[k], x)
      BY <1>4 DEF Joins
    <3> DEFINE old == {p[i] : i \in run}
    <3>2. old \in SUBSET (DOMAIN bs)
      BY <1>5
    <3>3. Listed(m[k]) = UNION {Listed(bs[i]) : i \in old}
      <4>1. \A i \in run : Listed(sb[i]) = Listed(bs[p[i]])
        BY <1>5
      <4> QED
        BY <3>1, <4>1
    <3>4. m[k].recent => \E i \in old :
            bs[i].recent /\ (Listed(m[k]) = {} \/ Listed(bs[i]) # {})
      <4> HAVE m[k].recent
      <4>1. PICK i \in run : sb[i].recent /\ (Listed(m[k]) = {} \/ Listed(sb[i]) # {})
        BY <3>1
      <4>2. p[i] \in old /\ sb[i] = bs[p[i]]
        BY <1>5
      <4> HIDE DEF old
      <4> QED
        BY <4>1, <4>2
    <3>5. ASSUME AllDecreasing(bs), NEW i \in old, NEW j \in DOMAIN bs, Overlap(bs[i], bs[j])
          PROVE  j \in old
      <4>1. PICK k1 \in run : i = p[k1]
        OBVIOUS
      <4>2. PICK k2 \in DOMAIN sb : j = p[k2]
        BY <1>7, <3>5 DEF Overlap
      <4>3. Overlap(sb[k1], sb[k2])
        BY <1>5, <3>5, <4>1, <4>2
      <4>4. k2 \in run
        BY <1>6, <3>1, <3>5, <4>3
      <4> QED
        BY <4>2, <4>4
    <3>6. \A x \in Nat : (\A i \in DOMAIN bs : Apart(bs[i], x)) => Apart(m[k], x)
      <4> TAKE x \in Nat
      <4> HAVE \A i \in DOMAIN bs : Apart(bs[i], x)
      <4>1. \A i \in DOMAIN sb : Apart(sb[i], x)
        BY <1>5
      <4> QED
        BY <3>1, <4>1
    <3>7. AllDecreasing(bs) => Decreasing(m[k].order)
      BY <1>6, <3>1
    <3> HIDE DEF old
    <3> QED
      BY <3>2, <3>3, <3>4, <3>5, <3>6, <3>7
  <2>2. ASSUME NEW i \in DOMAIN bs, NEW y \in Listed(bs[i])
        PROVE  \E k \in DOMAIN m : y \in Listed(m[k])
    <3>1. PICK l \in DOMAIN sb : p[l] = i
      BY <1>7
    <3>2. y \in Listed(sb[l])
      BY <1>5, <3>1
    <3> QED
      BY <1>4, <3>2 DEF Joins
  <2>3. m \in Seq(BlockRecords)
    BY <1>4 DEF Joins
  <2>4. Joins(bs, m)
    BY <2>1, <2>2, <2>3 DEF Joins
  <2> QED
    BY <1>1, <1>8, <2>4
<1>9. CASE m = <<>> \/ Len(m) = Len(bs)
  <2>1. ASSUME AllDecreasing(bs), NEW k \in DOMAIN bs, NEW j \in DOMAIN bs, Overlap(bs[k], bs[j])
        PROVE  j = k
    <3>1. PICK k1 \in DOMAIN sb : p[k1] = k
      BY <1>7, <2>1 DEF Overlap
    <3>2. PICK j1 \in DOMAIN sb : p[j1] = j
      BY <1>7, <2>1 DEF Overlap
    <3>3. /\ DOMAIN sb = 1..Len(sb) /\ Len(sb) \in Nat /\ Len(bs) \in Nat
          /\ Ends(sb) \in SUBSET (1..Len(sb)) /\ IsFiniteSet(Ends(sb))
          /\ Cardinality(Ends(sb)) \in 0..Len(sb)
          /\ Cardinality(Ends(sb)) = Len(sb) => Ends(sb) = 1..Len(sb)
          /\ \A i \in 1..Len(sb) : \E e \in Ends(sb) : i \in Run(sb, e)
          /\ \A e \in Ends(sb) : e \in Run(sb, e)
      <4>1. /\ Ends(sb) \in SUBSET (1..Len(sb)) /\ IsFiniteSet(Ends(sb))
            /\ Cardinality(Ends(sb)) \in 0..Len(sb)
            /\ Cardinality(Ends(sb)) = Len(sb) => Ends(sb) = 1..Len(sb)
        BY <1>3, EndsProperties
      <4>2. /\ \A i \in 1..Len(sb) : \E e \in Ends(sb) : i \in Run(sb, e)
            /\ \A e \in Ends(sb) : e \in Run(sb, e)
        BY <1>3, EndsProperties
      <4>3. DOMAIN sb = 1..Len(sb) /\ Len(sb) \in Nat /\ Len(bs) \in Nat
        BY <1>3
      <4> QED
        BY <4>1, <4>2, <4>3
    <3>4. m # <<>>
      <4>1. Ends(sb) # {}
        BY <3>1, <3>3
      <4>2. Cardinality(Ends(sb)) # 0
        BY <3>3, <4>1, FS_EmptySet
      <4>3. m \in Seq(BlockRecords) /\ Len(m) # 0
        BY <1>4, <4>2 DEF Joins
      <4> QED
        BY <4>3, EmptySeq
    <3>5. Ends(sb) = 1..Len(sb)
      BY <1>3, <1>4, <1>9, <3>3, <3>4
    <3>6. Overlap(sb[k1], sb[j1]) /\ Overlap(sb[j1], sb[k1])
      BY <1>5, <2>1, <3>1, <3>2 DEF Overlap
    <3>7. k1 \in Ends(sb) /\ j1 \in Ends(sb)
      BY <3>3, <3>5
    <3>8. k1 \in Run(sb, j1) /\ j1 \in Run(sb, k1)
      BY <1>3, <1>6, <2>1, <3>3, <3>6, <3>7, RunOverlap
    <3>9. k1 \in 1..j1 /\ j1 \in 1..k1
      BY <3>8 DEF Run
    <3>10. k1 = j1
      BY <3>3, <3>9
    <3> QED
      BY <3>1, <3>2, <3>10
  <2>2. ASSUME NEW k \in DOMAIN bs
        PROVE  \E run \in SUBSET (DOMAIN bs) :
                 /\ Listed(bs[k]) = UNION {Listed(bs[i]) : i \in run}
                 /\ bs[k].recent => \E i \in run :
                      bs[i].recent /\ (Listed(bs[k]) = {} \/ Listed(bs[i]) # {})
                 /\ AllDecreasing(bs) =>
                      \A i \in run, j \in DOMAIN bs : Overlap(bs[i], bs[j]) => j \in run
                 /\ AllDecreasing(bs) => Decreasing(bs[k].order)
                 /\ \A x \in Nat : (\A i \in DOMAIN bs : Apart(bs[i], x)) => Apart(bs[k], x)
    <3> DEFINE run == {k}
    <3>1. run \in SUBSET (DOMAIN bs) /\ Listed(bs[k]) = UNION {Listed(bs[i]) : i \in run}
      OBVIOUS
    <3>2. AllDecreasing(bs) =>
            \A i \in run, j \in DOMAIN bs : Overlap(bs[i], bs[j]) => j \in run
      BY <2>1
    <3>3. bs[k].recent => \E i \in run :
            bs[i].recent /\ (Listed(bs[k]) = {} \/ Listed(bs[i]) # {})
      OBVIOUS
    <3>4. AllDecreasing(bs) => Decreasing(bs[k].order)
      BY DEF AllDecreasing
    <3>5. \A x \in Nat : (\A i \in DOMAIN bs : Apart(bs[i], x)) => Apart(bs[k], x)
      OBVIOUS
    <3> HIDE DEF run
    <3> QED
      BY <3>1, <3>2, <3>3, <3>4, <3>5
  <2>3. Joins(bs, bs)
    BY <2>2 DEF Joins
  <2> QED
    BY <1>1, <1>9, <2>3
<1> QED
  BY <1>8, <1>9

-----------------------------------------------------------------------------
\* What merging keeps.

ListedOf(bs) == UNION {Listed(bs[k]) : k \in DOMAIN bs}

\* The posts of L between two posts of a block are in some block.
WholeIn(bs, L) ==
  \A k \in DOMAIN bs : \A lo, hi \in Listed(bs[k]) : \A x \in L :
    lo < x /\ x < hi => x \in ListedOf(bs)

\* The posts of L above a block that is marked as recent are in some block.
ToppedIn(bs, L) ==
  \A k \in DOMAIN bs : \A x \in L :
    bs[k].recent /\ Listed(bs[k]) # {} /\ (\A y \in Listed(bs[k]) : y < x)
    => x \in ListedOf(bs)

\* A block with a post newer than h has all the posts since h up to it.
HeardIn(bs, h) ==
  \A k \in DOMAIN bs : \A y \in Listed(bs[k]) : \A x \in (h + 1)..y : x \in Listed(bs[k])

\* The same before the blocks that share a post are merged.
HeardAcross(bs, h) ==
  \A k \in DOMAIN bs : \A y \in Listed(bs[k]) : \A x \in (h + 1)..y :
    \E j \in DOMAIN bs : Overlap(bs[k], bs[j]) /\ x \in Listed(bs[j])

LEMMA JoinKeeps ==
  ASSUME NEW bs \in Seq(BlockRecords), NEW m, Joins(bs, m),
         NEW L \in SUBSET Nat, NEW h
  PROVE  /\ m \in Seq(BlockRecords) /\ ListedOf(m) = ListedOf(bs)
         /\ WholeIn(bs, L) => WholeIn(m, L)
         /\ ToppedIn(bs, L) => ToppedIn(m, L)
         /\ AllDecreasing(bs) => AllDecreasing(m)
         /\ AllDecreasing(bs) /\ HeardAcross(bs, h) => HeardIn(m, h)
<1>1. /\ m \in Seq(BlockRecords)
      /\ \A k \in DOMAIN m : \E run \in SUBSET (DOMAIN bs) :
           /\ Listed(m[k]) = UNION {Listed(bs[i]) : i \in run}
           /\ m[k].recent => \E i \in run :
                bs[i].recent /\ (Listed(m[k]) = {} \/ Listed(bs[i]) # {})
           /\ AllDecreasing(bs) =>
                \A i \in run, j \in DOMAIN bs : Overlap(bs[i], bs[j]) => j \in run
           /\ AllDecreasing(bs) => Decreasing(m[k].order)
           /\ \A x \in Nat : (\A i \in DOMAIN bs : Apart(bs[i], x)) => Apart(m[k], x)
      /\ \A i \in DOMAIN bs : \A y \in Listed(bs[i]) : \E k \in DOMAIN m : y \in Listed(m[k])
  BY DEF Joins
<1>2. ListedOf(m) = ListedOf(bs)
  <2>1. ListedOf(bs) \subseteq ListedOf(m)
    BY <1>1 DEF ListedOf
  <2>2. ASSUME NEW k \in DOMAIN m
        PROVE  Listed(m[k]) \subseteq ListedOf(bs)
    <3>1. PICK run \in SUBSET (DOMAIN bs) : Listed(m[k]) = UNION {Listed(bs[i]) : i \in run}
      BY <1>1
    <3> QED
      BY <3>1 DEF ListedOf
  <2> QED
    BY <2>1, <2>2 DEF ListedOf
<1>3. \A i \in DOMAIN bs : Listed(bs[i]) \in SUBSET Nat
  <2> TAKE i \in DOMAIN bs
  <2>1. bs[i] \in BlockRecords
    OBVIOUS
  <2> QED
    BY <2>1, BlockProperties
<1>4. \A k \in DOMAIN m : Listed(m[k]) \in SUBSET Nat
  <2> TAKE k \in DOMAIN m
  <2>1. m[k] \in BlockRecords
    BY <1>1
  <2> QED
    BY <2>1, BlockProperties
<1>5. ASSUME WholeIn(bs, L)
      PROVE  WholeIn(m, L)
  <2> SUFFICES ASSUME NEW k \in DOMAIN m, NEW lo \in Listed(m[k]), NEW hi \in Listed(m[k]),
                      NEW x \in L, lo < x, x < hi, x \notin ListedOf(bs)
               PROVE  FALSE
    BY <1>2 DEF WholeIn
  <2>1. ASSUME NEW i \in DOMAIN bs
        PROVE  Apart(bs[i], x)
    <3>1. \A y \in Listed(bs[i]) : y # x /\ y \in Nat
      BY <1>3 DEF ListedOf
    <3>2. \A y, z \in Listed(bs[i]) : ~(y < x /\ x < z)
      BY <1>5 DEF WholeIn
    <3>3. x \in Nat
      OBVIOUS
    <3> QED
      BY <3>1, <3>2, <3>3 DEF Apart
  <2>2. Apart(m[k], x) /\ x \in Nat
    BY <1>1, <2>1
  <2>3. lo \in Nat /\ hi \in Nat
    BY <1>4
  <2> QED
    BY <2>2, <2>3 DEF Apart
<1>6. ASSUME ToppedIn(bs, L)
      PROVE  ToppedIn(m, L)
  <2> SUFFICES ASSUME NEW k \in DOMAIN m, NEW x \in L, m[k].recent, Listed(m[k]) # {},
                      \A y \in Listed(m[k]) : y < x
               PROVE  x \in ListedOf(bs)
    BY <1>2 DEF ToppedIn
  <2>1. PICK run \in SUBSET (DOMAIN bs) :
          /\ Listed(m[k]) = UNION {Listed(bs[i]) : i \in run}
          /\ \E i \in run : bs[i].recent /\ (Listed(m[k]) = {} \/ Listed(bs[i]) # {})
    BY <1>1
  <2>2. PICK i \in run : bs[i].recent /\ Listed(bs[i]) # {}
    BY <2>1
  <2>3. \A y \in Listed(bs[i]) : y < x
    BY <2>1
  <2> QED
    BY <1>6, <2>2, <2>3 DEF ToppedIn
<1>7. AllDecreasing(bs) => AllDecreasing(m)
  BY <1>1 DEF AllDecreasing
<1>8. ASSUME AllDecreasing(bs), HeardAcross(bs, h)
      PROVE  HeardIn(m, h)
  <2> SUFFICES ASSUME NEW k \in DOMAIN m, NEW y \in Listed(m[k]), NEW x \in (h + 1)..y
               PROVE  x \in Listed(m[k])
    BY DEF HeardIn
  <2>1. PICK run \in SUBSET (DOMAIN bs) :
          /\ Listed(m[k]) = UNION {Listed(bs[i]) : i \in run}
          /\ \A i \in run, j \in DOMAIN bs : Overlap(bs[i], bs[j]) => j \in run
    BY <1>1, <1>8
  <2>2. PICK i \in run : y \in Listed(bs[i])
    BY <2>1
  <2>3. PICK j \in DOMAIN bs : Overlap(bs[i], bs[j]) /\ x \in Listed(bs[j])
    BY <1>8, <2>2 DEF HeardAcross
  <2>4. j \in run
    BY <2>1, <2>3
  <2> QED
    BY <2>1, <2>3, <2>4
<1> QED
  BY <1>1, <1>2, <1>5, <1>6, <1>7, <1>8

-----------------------------------------------------------------------------
\* The server's pages.

LEMMA LiveProperties ==
  ASSUME newest \in Nat
  PROVE  /\ Live \subseteq 1..newest /\ Live \in SUBSET Nat /\ IsFiniteSet(Live)
         /\ \A S \in SUBSET Live : \A T \in SUBSET S :
              /\ IsFiniteSet(S)
              /\ Cardinality(T) \in Nat /\ Cardinality(S) \in Nat
              /\ Cardinality(T) <= Cardinality(S)
<1>1. IsFiniteSet(1..newest)
  BY UpTo
<1>2. Live \subseteq 1..newest /\ Live \in SUBSET Nat
  BY DEF Live
<1>3. IsFiniteSet(Live)
  BY <1>1, <1>2, FS_Subset
<1>4. ASSUME NEW S \in SUBSET Live, NEW T \in SUBSET S
      PROVE  /\ IsFiniteSet(S)
             /\ Cardinality(T) \in Nat /\ Cardinality(S) \in Nat
             /\ Cardinality(T) <= Cardinality(S)
  <2>1. IsFiniteSet(S)
    BY <1>3, FS_Subset
  <2>2. IsFiniteSet(T) /\ Cardinality(T) <= Cardinality(S)
    BY <2>1, FS_Subset
  <2> QED
    BY <2>1, <2>2, FS_CardinalityType
<1> QED
  BY <1>2, <1>3, <1>4

\* A page has every post between its anchor and a post it has.
LEMMA NewerProperties ==
  ASSUME newest \in Nat, NEW a \in Nat
  PROVE  /\ Newer(a) \subseteq Live /\ \A x \in Newer(a) : x > a
         /\ \A x \in Live, hi \in Newer(a) : a < x /\ x < hi => x \in Newer(a)
<1>1. Live \in SUBSET Nat
  BY LiveProperties
<1>2. ASSUME NEW x \in Live, NEW hi \in Newer(a), a < x, x < hi
      PROVE  x \in Newer(a)
  <2> DEFINE S == {y \in Live : a < y /\ y < hi}
             T == {y \in Live : a < y /\ y < x}
  <2>1. hi \in Live /\ Cardinality(S) < PageSize
    BY DEF Newer
  <2>2. S \in SUBSET Live
    OBVIOUS
  <2>3. T \in SUBSET S
    <3>1. x \in Nat /\ hi \in Nat /\ \A y \in Live : y \in Nat
      BY <1>1, <2>1
    <3>2. \A y \in Live : y < x => y < hi
      BY <1>2, <3>1
    <3> QED
      BY <3>2
  <2>4. /\ Cardinality(T) \in Nat /\ Cardinality(S) \in Nat
        /\ Cardinality(T) <= Cardinality(S)
    <3> HIDE DEF S, T
    <3> QED
      BY <2>2, <2>3, LiveProperties
  <2>5. Cardinality(T) < PageSize
    <3> HIDE DEF S, T
    <3> QED
      BY <2>1, <2>4, BlocksAssumption
  <2> QED
    BY <1>2, <2>5 DEF Newer
<1> QED
  BY <1>2 DEF Newer

LEMMA OlderProperties ==
  ASSUME newest \in Nat, NEW a \in Nat
  PROVE  /\ Older(a) \subseteq Live /\ \A x \in Older(a) : x < a
         /\ \A x \in Live, lo \in Older(a) : lo < x /\ x < a => x \in Older(a)
         /\ \A x \in Live : x < a => \E y \in Older(a) : x <= y
<1>1. Live \in SUBSET Nat
  BY LiveProperties
<1>2. ASSUME NEW x \in Live, NEW lo \in Older(a), lo < x, x < a
      PROVE  x \in Older(a)
  <2> DEFINE S == {y \in Live : lo < y /\ y < a}
             T == {y \in Live : x < y /\ y < a}
  <2>1. lo \in Live /\ Cardinality(S) < PageSize
    BY DEF Older
  <2>2. S \in SUBSET Live
    OBVIOUS
  <2>3. T \in SUBSET S
    <3>1. x \in Nat /\ lo \in Nat /\ \A y \in Live : y \in Nat
      BY <1>1, <2>1
    <3>2. \A y \in Live : x < y => lo < y
      BY <1>2, <3>1
    <3> QED
      BY <3>2
  <2>4. /\ Cardinality(T) \in Nat /\ Cardinality(S) \in Nat
        /\ Cardinality(T) <= Cardinality(S)
    <3> HIDE DEF S, T
    <3> QED
      BY <2>2, <2>3, LiveProperties
  <2>5. Cardinality(T) < PageSize
    <3> HIDE DEF S, T
    <3> QED
      BY <2>1, <2>4, BlocksAssumption
  <2> QED
    BY <1>2, <2>5 DEF Older
<1>3. ASSUME NEW x \in Live, x < a
      PROVE  \E y \in Older(a) : x <= y
  <2> DEFINE S == {y \in Live : y < a}
  <2>1. S \in SUBSET Live /\ x \in S
    BY <1>3
  <2>2. S \in SUBSET Nat /\ IsFiniteSet(S) /\ S # {}
    <3>1. IsFiniteSet(S)
      <4> HIDE DEF S
      <4> QED
        BY <2>1, LiveProperties
    <3> QED
      BY <1>1, <2>1, <3>1
  <2>3. PICK g \in S : \A y \in S : y <= g
    <3> HIDE DEF S
    <3> QED
      BY <2>2, GreatestProperties
  <2>4. {y \in Live : g < y /\ y < a} = {}
    <3>1. \A y \in Live : y \in Nat
      BY <1>1
    <3> QED
      BY <2>3, <3>1
  <2>5. Cardinality({y \in Live : g < y /\ y < a}) < PageSize
    BY <2>4, FS_EmptySet, BlocksAssumption
  <2>6. g \in Older(a)
    BY <2>5 DEF Older
  <2> QED
    BY <2>1, <2>3, <2>6
<1> QED
  BY <1>2, <1>3 DEF Older

\* A page that reaches the posts that are still to be announced has them up
\* to its anchor: there are no more of them than a page holds.
LEMMA OlderHeard ==
  ASSUME newest \in Nat, heard \in Nat, newest <= heard + MaxBacklog,
         NEW a \in Nat, NEW x \in Live, heard < x, x < a
  PROVE  x \in Older(a)
<1> DEFINE S == {y \in Live : x < y /\ y < a}
<1>1. Live \in SUBSET Nat /\ Live \subseteq 1..newest
  BY LiveProperties
<1>2. /\ PageSize \in Nat /\ MaxBacklog \in Nat /\ MaxBacklog <= PageSize
      /\ x \in Nat
  BY <1>1, BlocksAssumption
<1>3. S \subseteq (x + 1)..newest
  <2>1. \A y \in 1..newest : x < y => y \in (x + 1)..newest
    BY <1>2
  <2>2. \A y \in Live : y \in 1..newest
    BY <1>1
  <2> QED
    BY <2>1, <2>2
<1>4. IsFiniteSet((x + 1)..newest) /\ Cardinality((x + 1)..newest) = newest - x
  <2>1. x <= newest /\ x + 1 \in Int /\ newest \in Int
    BY <1>1, <1>2
  <2>2. /\ IsFiniteSet((x + 1)..newest)
        /\ Cardinality((x + 1)..newest) =
             (IF x + 1 > newest THEN 0 ELSE newest - (x + 1) + 1)
    BY <2>1, FS_Interval
  <2> QED
    BY <1>2, <2>1, <2>2
<1>5. Cardinality(S) <= newest - x /\ Cardinality(S) \in Nat
  <2>1. IsFiniteSet(S) /\ Cardinality(S) <= Cardinality((x + 1)..newest)
    <3> HIDE DEF S
    <3> QED
      BY <1>3, <1>4, FS_Subset
  <2>2. Cardinality(S) \in Nat
    <3> HIDE DEF S
    <3> QED
      BY <2>1, FS_CardinalityType
  <2> QED
    BY <1>4, <2>1, <2>2
<1>6. Cardinality(S) < PageSize
  <2> HIDE DEF S
  <2> QED
    BY <1>2, <1>5
<1> QED
  BY <1>6 DEF Older

-----------------------------------------------------------------------------
\* The requests on their way.

\* What an answer puts into a block.
Span(r) ==
  ToSet(r.order) \cup (IF r.kind \in {"after", "before"} THEN {r.anchor} ELSE {})

\* An answer has every post between two of its posts; where it claims to reach
\* the newest post it did so for those of before the channel was opened; and
\* it has no post that is still to be announced without those before it.
AnswerSound(r) ==
  /\ ToSet(r.order) \subseteq 1..newest
  /\ Decreasing(r.order)
  /\ r.kind = "after" => \A x \in ToSet(r.order) : x > r.anchor
  /\ r.kind = "before" => \A x \in ToSet(r.order) : x < r.anchor
  /\ \A lo, hi \in Span(r) : \A x \in Live : lo < x /\ x < hi => x \in Span(r)
  /\ r.recent /\ r.kind # "before" =>
       \A x \in Live : x <= Initial => \E y \in Span(r) : x <= y
  /\ early = {} =>
       \A y \in Span(r) : \A x \in (heard + 1)..y :
         x \in Span(r) \/ (r.kind = "after" /\ x < r.anchor)

\* The anchor of a page before or after it was the end of a block, and is still
\* listed unless the user has deleted it.
RequestSound(r) ==
  /\ r.kind \in {"after", "before"} => r.anchor \in 1..newest
  /\ r.kind = "after" => r.anchor \in AllListed \cup removed
  /\ r.answered => AnswerSound(r)

RequestRecords ==
  [kind : {"latest", "unread", "around", "before", "after"}, anchor : 0..(MaxPosts + 1),
   answered : BOOLEAN, order : Seq(Ids), recent : BOOLEAN, oldest : BOOLEAN]

\* The posts that are still to be announced have not been deleted here.
RemovedHeard == early = {} => \A x \in removed : x <= heard

LEMMA AnsweredSound ==
  ASSUME newest \in Nat, heard \in Nat, newest <= MaxPosts, newest <= heard + MaxBacklog,
         RemovedHeard, NEW r \in RequestRecords, RequestSound(r)
  PROVE  Answered(r) \in RequestRecords /\ RequestSound(Answered(r))
<1> DEFINE q == Answered(r)
           page == Page(r.kind, r.anchor)
           a == r.anchor
<1>1. a \in Nat /\ r.kind \in {"latest", "unread", "around", "before", "after"}
  <2>1. a \in 0..(MaxPosts + 1)
    BY DEF RequestRecords
  <2> QED
    BY <2>1 DEF RequestRecords
<1>2. /\ Live \subseteq 1..newest /\ Live \in SUBSET Nat /\ IsFiniteSet(Live)
      /\ \A S \in SUBSET Live : IsFiniteSet(S)
  BY LiveProperties
<1>3. page \in SUBSET Live
  <2>1. newest + 1 \in Nat
    OBVIOUS
  <2> QED
    BY <1>1, <2>1, NewerProperties, OlderProperties DEF Page
<1>4. NewestFirst(page) \in Seq(page) /\ ToSet(NewestFirst(page)) = page /\ Decreasing(NewestFirst(page))
  <2>1. page \in SUBSET Nat /\ IsFiniteSet(page)
    BY <1>2, <1>3
  <2> QED
    BY <2>1, NewestFirstProperties
<1>5. /\ q.kind = r.kind /\ q.anchor = a /\ q.answered = TRUE
      /\ q.order = NewestFirst(page) /\ q.order \in Seq(Ids)
      /\ q.recent <=> (r.kind = "latest" \/ \A x \in Live : x > a => x \in page)
      /\ q \in RequestRecords
  <2>1. page \in SUBSET Ids
    <3>1. 1..newest \subseteq 1..MaxPosts
      BY BlocksAssumption
    <3> QED
      BY <1>2, <1>3, <3>1 DEF Ids
  <2>2. NewestFirst(page) \in Seq(Ids)
    BY <1>4, <2>1, SeqMonotonic
  <2> DEFINE recent == r.kind = "latest" \/ \A x \in Live : x > a => x \in page
             oldest == \A x \in Live :
                         x < (IF r.kind = "latest" THEN newest + 1 ELSE a) => x \in page
  <2>3. q = [r EXCEPT !.answered = TRUE, !.order = NewestFirst(page),
                      !.recent = recent, !.oldest = oldest]
    BY DEF Answered
  <2>4. recent \in BOOLEAN /\ oldest \in BOOLEAN
    OBVIOUS
  <2> HIDE DEF q, page, recent, oldest
  <2>5. /\ q.kind = r.kind /\ q.anchor = r.anchor /\ q.answered = TRUE
        /\ q.order = NewestFirst(page) /\ q.recent = recent
        /\ q \in RequestRecords
    BY <2>2, <2>3, <2>4 DEF RequestRecords
  <2> QED
    BY <2>2, <2>4, <2>5 DEF recent
<1> HIDE DEF q
<1>6. Span(q) = page \cup (IF r.kind \in {"after", "before"} THEN {a} ELSE {})
  BY <1>4, <1>5 DEF Span
<1>7. /\ \A x \in Live, hi \in Newer(a) : a < x /\ x < hi => x \in Newer(a)
      /\ \A x \in Newer(a) : x > a
      /\ \A x \in Live, lo \in Older(a) : lo < x /\ x < a => x \in Older(a)
      /\ \A x \in Live : x < a => \E y \in Older(a) : x <= y
      /\ \A x \in Older(a) : x < a
      /\ \A x \in Live, lo \in Older(newest + 1) :
           lo < x /\ x < newest + 1 => x \in Older(newest + 1)
      /\ \A x \in Live : x < newest + 1 => \E y \in Older(newest + 1) : x <= y
  <2>1. newest + 1 \in Nat
    OBVIOUS
  <2> QED
    BY <1>1, <2>1, NewerProperties, OlderProperties
<1>8. \A x \in Live : x \in Nat /\ x < newest + 1
  BY <1>2
<1>9. /\ r.kind = "latest" => page = Older(newest + 1)
      /\ r.kind = "after" => page = Newer(a)
      /\ r.kind = "before" => page = Older(a)
      /\ r.kind \in {"unread", "around"} => page = Older(a) \cup ({a} \cap Live) \cup Newer(a)
  BY DEF Page
<1> HIDE DEF page
<1>10. ASSUME NEW lo \in Span(q), NEW hi \in Span(q), NEW x \in Live, lo < x, x < hi
       PROVE  x \in Span(q)
  <2>1. lo \in Nat /\ hi \in Nat /\ x \in Nat
    BY <1>1, <1>2, <1>3, <1>6
  <2>2. CASE r.kind = "latest"
    BY <1>6, <1>7, <1>8, <1>9, <1>10, <2>2
  <2>3. CASE r.kind = "after"
    <3>1. lo \in Newer(a) \cup {a} /\ hi \in Newer(a) \cup {a}
      BY <1>6, <1>9, <2>3
    <3>2. a <= lo
      BY <1>1, <1>7, <2>1, <3>1
    <3>3. a < x /\ hi \in Newer(a)
      BY <1>1, <1>10, <2>1, <3>1, <3>2
    <3> QED
      BY <1>6, <1>7, <1>9, <1>10, <2>3, <3>3
  <2>4. CASE r.kind = "before"
    <3>1. lo \in Older(a) \cup {a} /\ hi \in Older(a) \cup {a}
      BY <1>6, <1>9, <2>4
    <3>2. hi <= a
      BY <1>1, <1>7, <2>1, <3>1
    <3>3. x < a /\ lo \in Older(a)
      BY <1>1, <1>10, <2>1, <3>1, <3>2
    <3> QED
      BY <1>6, <1>7, <1>9, <1>10, <2>4, <3>3
  <2>5. CASE r.kind \in {"unread", "around"}
    <3>1. page = Older(a) \cup ({a} \cap Live) \cup Newer(a) /\ Span(q) = page
      BY <1>6, <1>9, <2>5
    <3>2. CASE x = a
      BY <3>1, <3>2
    <3>3. CASE x < a
      <4>1. lo \in Older(a)
        BY <1>1, <1>7, <1>10, <2>1, <3>1, <3>3
      <4> QED
        BY <1>7, <1>10, <3>1, <3>3, <4>1
    <3>4. CASE a < x
      <4>1. hi \in Newer(a)
        BY <1>1, <1>7, <1>10, <2>1, <3>1, <3>4
      <4> QED
        BY <1>7, <1>10, <3>1, <3>4, <4>1
    <3> QED
      BY <1>1, <2>1, <3>2, <3>3, <3>4
  <2> QED
    BY <1>1, <2>2, <2>3, <2>4, <2>5
<1>11. ASSUME q.recent, r.kind # "before", NEW x \in Live
       PROVE  \E y \in Span(q) : x <= y
  <2>1. x \in Nat
    BY <1>8
  <2>2. CASE r.kind = "latest"
    BY <1>6, <1>7, <1>8, <1>9, <2>2
  <2>3. CASE r.kind # "latest" /\ x > a
    <3>1. x \in page
      BY <1>5, <1>11, <2>3
    <3> QED
      BY <1>6, <2>1, <3>1
  <2>4. CASE r.kind = "after" /\ ~(x > a)
    <3>1. a \in Span(q) /\ x <= a
      BY <1>1, <1>6, <2>1, <2>4
    <3> QED
      BY <3>1
  <2>5. CASE r.kind \in {"unread", "around"} /\ ~(x > a)
    <3>1. page = Older(a) \cup ({a} \cap Live) \cup Newer(a) /\ Span(q) = page
      BY <1>6, <1>9, <2>5
    <3>2. CASE x = a
      BY <2>1, <3>1, <3>2
    <3>3. CASE x < a
      BY <1>7, <3>1, <3>3
    <3> QED
      BY <1>1, <2>1, <2>5, <3>2, <3>3
  <2> QED
    BY <1>1, <1>11, <2>2, <2>3, <2>4, <2>5
<1>12. ASSUME r.kind \in {"after", "before"}
       PROVE  a \in 1..newest
  BY <1>12 DEF RequestSound
<1>13. ASSUME early = {}, NEW y \in Span(q), NEW x \in (heard + 1)..y
       PROVE  x \in Span(q) \/ (r.kind = "after" /\ x < a)
  <2>1. y \in 1..newest
    BY <1>2, <1>3, <1>6, <1>12
  <2>2. x \in 1..newest /\ heard < x /\ x <= y /\ x \in Nat /\ y \in Nat
    BY <2>1
  <2>3. x \in Live
    <3>1. \A z \in removed : z <= heard
      BY <1>13 DEF RemovedHeard
    <3>2. ~(x <= heard)
      BY <2>2
    <3> QED
      BY <2>2, <3>1, <3>2 DEF Live
  <2>4. x < a => x \in Older(a)
    BY <1>1, <2>2, <2>3, OlderHeard
  <2>5. x \in Older(newest + 1)
    <3>1. newest + 1 \in Nat /\ x < newest + 1
      BY <2>2
    <3> QED
      BY <2>2, <2>3, <3>1, OlderHeard
  <2>6. CASE r.kind = "latest"
    BY <1>6, <1>9, <2>5, <2>6
  <2>7. CASE r.kind = "after"
    <3>1. y \in Newer(a) \cup {a}
      BY <1>6, <1>9, <2>7
    <3>2. CASE a < x
      <4>1. y \in Newer(a)
        BY <1>1, <2>2, <3>1, <3>2
      <4>2. x \in Newer(a)
        BY <1>7, <2>2, <2>3, <3>2, <4>1
      <4> QED
        BY <1>6, <1>9, <2>7, <4>2
    <3>3. CASE x = a
      BY <1>6, <2>7, <3>3
    <3> QED
      BY <1>1, <2>2, <2>7, <3>2, <3>3
  <2>8. CASE r.kind = "before"
    <3>1. y \in Older(a) \cup {a}
      BY <1>6, <1>9, <2>8
    <3>2. y <= a
      BY <1>1, <1>7, <2>2, <3>1
    <3>3. x < a \/ x = a
      BY <1>1, <2>2, <3>2
    <3> QED
      BY <1>6, <1>9, <2>4, <2>8, <3>3
  <2>9. CASE r.kind \in {"unread", "around"}
    <3>1. page = Older(a) \cup ({a} \cap Live) \cup Newer(a) /\ Span(q) = page
      BY <1>6, <1>9, <2>9
    <3>2. CASE a < x
      <4>1. y \in Newer(a)
        BY <1>1, <1>7, <2>2, <3>1, <3>2
      <4>2. x \in Newer(a)
        BY <1>7, <2>2, <2>3, <3>2, <4>1
      <4> QED
        BY <3>1, <4>2
    <3>3. CASE x = a
      BY <2>3, <3>1, <3>3
    <3> QED
      BY <1>1, <2>2, <2>4, <3>1, <3>2, <3>3
  <2> QED
    BY <1>1, <2>6, <2>7, <2>8, <2>9
<1>14. AnswerSound(q)
  <2>1. ToSet(q.order) \subseteq 1..newest /\ Decreasing(q.order)
    BY <1>2, <1>3, <1>4, <1>5
  <2>2. r.kind = "after" => \A x \in ToSet(q.order) : x > a
    BY <1>4, <1>5, <1>7, <1>9
  <2>3. r.kind = "before" => \A x \in ToSet(q.order) : x < a
    BY <1>4, <1>5, <1>7, <1>9
  <2> QED
    BY <1>5, <1>10, <1>11, <1>13, <2>1, <2>2, <2>3 DEF AnswerSound
<1> QED
  BY <1>5, <1>14 DEF RequestSound, q

-----------------------------------------------------------------------------
\* The inductive invariant.

\* The posts of before the channel was opened; those announced since are listed
\* one by one.
OldLive == {x \in Live : x <= Initial}

AnnouncedListed ==
  \A x \in (Initial + 1)..heard : x \in Live \ dropped => x \in AllListed

BlocksSound ==
  /\ AllListed \subseteq 1..newest
  /\ WholeIn(blocks, OldLive)
  /\ ToppedIn(blocks, OldLive)
  /\ early = {} => AllDecreasing(blocks) /\ HeardIn(blocks, heard)

IInv ==
  /\ TypeOK
  /\ newest <= MaxPosts /\ newest <= heard + MaxBacklog
  /\ RemovedHeard
  /\ AnnouncedListed
  /\ BlocksSound
  /\ \A r \in requests : RequestSound(r)
  /\ KeptPosts

LEMMA Numbers ==
  ASSUME TypeOK
  PROVE  /\ Initial \in Nat /\ MaxPosts \in Nat /\ MaxBacklog \in Nat
         /\ newest \in Nat /\ heard \in Nat /\ Initial <= heard /\ heard <= newest
         /\ blocks \in Seq(BlockRecords) /\ requests \subseteq RequestRecords
         /\ OldLive \in SUBSET Nat
<1>1. Initial \in Nat /\ MaxPosts \in Nat /\ MaxBacklog \in Nat
  BY BlocksAssumption
<1>2. newest \in Nat /\ heard \in Initial..newest
  BY DEF TypeOK
<1>3. blocks \in Seq(BlockRecords) /\ requests \subseteq RequestRecords
  BY DEF TypeOK, RequestRecords
<1>4. OldLive \in SUBSET Nat
  BY DEF OldLive, Live
<1> QED
  BY <1>1, <1>2, <1>3, <1>4

LEMMA Starting == Init => IInv
<1> SUFFICES ASSUME Init PROVE IInv
  OBVIOUS
<1>1. /\ Initial \in Nat /\ Initial <= MaxPosts /\ MaxBacklog \in Nat /\ MaxPosts \in Nat
  BY BlocksAssumption
<1>2. blocks = <<>> /\ DOMAIN blocks = {} /\ blocks \in Seq(BlockRecords)
  BY DEF Init
<1>3. TypeOK
  <2>1. newest \in Nat /\ heard \in Initial..newest /\ fails \in Nat
    BY <1>1 DEF Init
  <2> QED
    BY <1>2, <2>1 DEF Init, TypeOK
<1>4. newest <= MaxPosts /\ newest <= heard + MaxBacklog
  BY <1>1 DEF Init
<1>5. RemovedHeard
  BY DEF RemovedHeard, Init
<1>6. AnnouncedListed
  <2>1. (Initial + 1)..heard = {}
    BY <1>1 DEF Init
  <2> QED
    BY <2>1 DEF AnnouncedListed
<1>7. BlocksSound
  BY <1>2 DEF BlocksSound, AllListed, WholeIn, ToppedIn, AllDecreasing, HeardIn
<1>8. KeptPosts
  BY DEF KeptPosts, Init
<1>9. \A r \in requests : RequestSound(r)
  BY DEF Init
<1> QED
  BY <1>3, <1>4, <1>5, <1>6, <1>7, <1>8, <1>9 DEF IInv

\* A request stays sound while posts are made, announced and deleted, as long
\* as no listed post goes unless it is deleted.
LEMMA SoundStays ==
  ASSUME newest \in Nat, newest' \in Nat, newest <= newest',
         heard \in Nat, heard' \in Nat, heard <= heard', Initial <= newest,
         removed \subseteq removed', early' = {} => early = {},
         AllListed \cup removed \subseteq AllListed' \cup removed',
         NEW r \in RequestRecords, RequestSound(r)
  PROVE  RequestSound(r)'
<1>1. r.anchor \in Nat /\ Initial \in Nat
  <2>1. r.anchor \in 0..(MaxPosts + 1)
    BY DEF RequestRecords
  <2> QED
    BY <2>1, BlocksAssumption
<1>2. ASSUME r.answered, AnswerSound(r)
      PROVE  AnswerSound(r)'
  <2>1. Span(r) \subseteq 1..newest
    BY <1>2 DEF AnswerSound, RequestSound, Span
  <2>2. \A x \in Live' : x <= newest => x \in Live
    BY DEF Live
  <2>3. Live' \in SUBSET Nat
    BY DEF Live
  <2>4. ToSet(r.order) \subseteq 1..newest'
    <3>1. 1..newest \subseteq 1..newest'
      OBVIOUS
    <3> QED
      BY <1>2, <3>1 DEF AnswerSound
  <2>5. ASSUME NEW lo \in Span(r), NEW hi \in Span(r), NEW x \in Live', lo < x, x < hi
        PROVE  x \in Span(r)
    <3>1. x <= newest
      BY <2>1, <2>3, <2>5
    <3> QED
      BY <1>2, <2>2, <2>5, <3>1 DEF AnswerSound
  <2>6. ASSUME r.recent, r.kind # "before", NEW x \in Live', x <= Initial
        PROVE  \E y \in Span(r) : x <= y
    <3>1. x \in Live
      BY <1>1, <2>2, <2>3, <2>6
    <3> QED
      BY <1>2, <2>6, <3>1 DEF AnswerSound
  <2>7. ASSUME early' = {}, NEW y \in Span(r), NEW x \in (heard' + 1)..y
        PROVE  x \in Span(r) \/ (r.kind = "after" /\ x < r.anchor)
    <3>1. y \in Nat
      BY <2>1
    <3>2. \A a, b, c \in Nat : a <= b => \A z \in (b + 1)..c : z \in (a + 1)..c
      OBVIOUS
    <3>3. x \in (heard + 1)..y
      BY <3>1, <3>2
    <3> QED
      BY <1>2, <2>7, <3>3 DEF AnswerSound
  <2> QED
    BY <1>2, <2>4, <2>5, <2>6, <2>7 DEF AnswerSound, Span
<1>3. r.kind \in {"after", "before"} => r.anchor \in 1..newest'
  BY <1>1 DEF RequestSound
<1>4. r.kind = "after" => r.anchor \in AllListed' \cup removed'
  BY DEF RequestSound
<1> QED
  BY <1>2, <1>3, <1>4 DEF RequestSound

\* What changes only the requests, or what the list shows.
LEMMA Steady ==
  ASSUME IInv, UNCHANGED <<newest, heard, posts, loaded, blocks, removed, history>>,
         atRecent' \in BOOLEAN, missingId' \in Ids \cup {None}, fails' \in Nat,
         \A q \in requests' : q \in RequestRecords /\ RequestSound(q)
  PROVE  IInv'
<1>1. /\ newest' = newest /\ heard' = heard /\ posts' = posts /\ loaded' = loaded
      /\ blocks' = blocks /\ removed' = removed /\ dropped' = dropped /\ early' = early
  BY DEF history
<1>2. TypeOK'
  BY <1>1 DEF IInv, TypeOK, RequestRecords
<1>3. AllListed' = AllListed /\ Live' = Live /\ OldLive' = OldLive
  BY <1>1 DEF AllListed, Live, OldLive
<1>4. /\ newest' <= MaxPosts /\ newest' <= heard' + MaxBacklog
      /\ RemovedHeard' /\ AnnouncedListed' /\ KeptPosts'
  BY <1>1, <1>3 DEF IInv, RemovedHeard, AnnouncedListed, KeptPosts, Returned
<1>5. BlocksSound'
  BY <1>1, <1>3 DEF IInv, BlocksSound, WholeIn, ToppedIn, HeardIn
<1>6. ASSUME NEW q \in requests'
      PROVE  RequestSound(q)'
  <2>1. RequestSound(q)
    OBVIOUS
  <2> QED
    BY <1>1, <1>3, <2>1 DEF RequestSound, AnswerSound
<1> QED
  BY <1>2, <1>4, <1>5, <1>6 DEF IInv

LEMMA Requested ==
  ASSUME IInv, NEW kind \in {"latest", "unread", "around", "before", "after"},
         NEW anchor \in 0..(MaxPosts + 1), kind \in {"after", "before"} => anchor \in AllListed
  PROVE  Request(kind, anchor) \in RequestRecords /\ RequestSound(Request(kind, anchor))
<1>1. Request(kind, anchor) \in RequestRecords
  BY DEF Request, RequestRecords
<1>2. /\ Request(kind, anchor).kind = kind /\ Request(kind, anchor).anchor = anchor
      /\ Request(kind, anchor).answered = FALSE
  BY DEF Request
<1>3. AllListed \subseteq 1..newest
  BY DEF IInv, BlocksSound
<1> QED
  BY <1>1, <1>2, <1>3 DEF RequestSound

LEMMA Sending ==
  ASSUME IInv, NEW kind \in {"latest", "unread", "around", "before", "after"},
         NEW anchor \in 0..(MaxPosts + 1), kind \in {"after", "before"} => anchor \in AllListed,
         Send(kind, anchor), atRecent' \in BOOLEAN, missingId' \in Ids \cup {None}
  PROVE  IInv'
<1>1. requests' = requests \cup {Request(kind, anchor)}
  BY DEF Send
<1>2. requests \subseteq RequestRecords /\ \A q \in requests : RequestSound(q)
  BY Numbers DEF IInv
<1>3. \A q \in requests' : q \in RequestRecords /\ RequestSound(q)
  BY <1>1, <1>2, Requested
<1>4. fails' \in Nat
  BY DEF Send, IInv, TypeOK
<1>5. UNCHANGED <<newest, heard, posts, loaded, blocks, removed, history>>
  BY DEF Send
<1> QED
  BY <1>3, <1>4, <1>5, Steady

-----------------------------------------------------------------------------
\* The actions that leave the blocks as they are.

LEMMA OtherPostsKeeps ==
  ASSUME IInv, OtherPosts
  PROVE  IInv'
<1>1. /\ newest' = newest + 1 /\ heard' = heard /\ posts' = posts /\ loaded' = loaded
      /\ blocks' = blocks /\ removed' = removed /\ dropped' = dropped /\ early' = early
      /\ requests' = requests /\ atRecent' = atRecent /\ missingId' = missingId
      /\ fails' = fails /\ newest < MaxPosts /\ newest < heard + MaxBacklog
  BY DEF OtherPosts, history
<1>2. /\ Initial \in Nat /\ MaxPosts \in Nat /\ MaxBacklog \in Nat
      /\ newest \in Nat /\ heard \in Nat /\ Initial <= heard /\ heard <= newest
      /\ requests \subseteq RequestRecords
  BY Numbers DEF IInv
<1>3. newest' \in Nat /\ heard' \in Initial..newest'
  BY <1>1, <1>2
<1>4. TypeOK'
  BY <1>1, <1>3 DEF IInv, TypeOK
<1>5. newest' <= MaxPosts /\ newest' <= heard' + MaxBacklog
  BY <1>1, <1>2
<1>6. AllListed' = AllListed /\ RemovedHeard' /\ KeptPosts'
  BY <1>1 DEF AllListed, IInv, RemovedHeard, KeptPosts, Returned
<1>7. \A x \in Nat : x <= newest => (x \in Live' <=> x \in Live)
  BY <1>1, <1>2 DEF Live
<1>8. AnnouncedListed'
  <2> SUFFICES ASSUME NEW x \in (Initial + 1)..heard, x \in Live' \ dropped
               PROVE  x \in AllListed
    BY <1>1, <1>6 DEF AnnouncedListed
  <2>1. x \in Nat /\ x <= newest
    BY <1>2
  <2> QED
    BY <1>7, <2>1 DEF IInv, AnnouncedListed
<1>9. OldLive' = OldLive
  <2>1. \A x \in Live' : x \in Nat
    BY DEF Live
  <2>2. \A x \in Live : x \in Nat
    BY DEF Live
  <2>3. \A x \in Nat : x <= Initial => x <= newest
    BY <1>2
  <2>4. \A x : x \in Live' /\ x <= Initial <=> x \in Live /\ x <= Initial
    BY <1>7, <2>1, <2>2, <2>3
  <2> QED
    BY <2>4 DEF OldLive
<1>10. BlocksSound'
  <2>1. AllListed \subseteq 1..newest'
    <3>1. 1..newest \subseteq 1..newest'
      BY <1>1, <1>2
    <3> QED
      BY <3>1 DEF IInv, BlocksSound
  <2> QED
    BY <1>1, <1>6, <1>9, <2>1 DEF IInv, BlocksSound, WholeIn, ToppedIn, HeardIn
<1>11. ASSUME NEW r \in requests
       PROVE  RequestSound(r)'
  <2>1. RequestSound(r) /\ r \in RequestRecords
    BY <1>2 DEF IInv
  <2>2. newest <= newest' /\ heard <= heard' /\ heard' \in Nat /\ Initial <= newest
    BY <1>1, <1>2, <1>3
  <2> QED
    BY <1>1, <1>2, <1>3, <1>6, <2>1, <2>2, SoundStays
<1> QED
  BY <1>1, <1>4, <1>5, <1>6, <1>8, <1>10, <1>11 DEF IInv

LEMMA AnswerKeeps ==
  ASSUME IInv, NEW r \in requests, Answer(r)
  PROVE  IInv'
<1>1. /\ newest \in Nat /\ heard \in Nat /\ newest <= MaxPosts /\ newest <= heard + MaxBacklog
      /\ RemovedHeard /\ requests \subseteq RequestRecords
      /\ \A q \in requests : RequestSound(q)
  BY Numbers DEF IInv
<1>2. Answered(r) \in RequestRecords /\ RequestSound(Answered(r))
  BY <1>1, AnsweredSound
<1>3. requests' = (requests \ {r}) \cup {Answered(r)}
  BY DEF Answer
<1>4. \A q \in requests' : q \in RequestRecords /\ RequestSound(q)
  BY <1>1, <1>2, <1>3
<1>5. /\ UNCHANGED <<newest, heard, posts, loaded, blocks, removed, history>>
      /\ atRecent' = atRecent /\ missingId' = missingId /\ fails' = fails
  BY DEF Answer
<1>6. atRecent' \in BOOLEAN /\ missingId' \in Ids \cup {None} /\ fails' \in Nat
  BY <1>5 DEF IInv, TypeOK
<1> QED
  BY <1>4, <1>5, <1>6, Steady

\* The posts at the ends of a block, and the one LoadMissingPosts asks for.
LEMMA Anchors ==
  ASSUME IInv
  PROVE  /\ \A i \in DOMAIN blocks : blocks[i].order # <<>> =>
              /\ Head(blocks[i].order) \in AllListed /\ Last(blocks[i].order) \in AllListed
              /\ Head(blocks[i].order) \in Ids /\ Last(blocks[i].order) \in Ids
         /\ LatestPostNoChunkId \in Ids \cup {None}
         /\ Ids \subseteq 0..(MaxPosts + 1)
<1>1. blocks \in Seq(BlockRecords)
  BY Numbers DEF IInv
<1>2. ASSUME NEW i \in DOMAIN blocks, blocks[i].order # <<>>
      PROVE  /\ Head(blocks[i].order) \in AllListed /\ Last(blocks[i].order) \in AllListed
             /\ Head(blocks[i].order) \in Ids /\ Last(blocks[i].order) \in Ids
  <2>1. blocks[i] \in BlockRecords
    BY <1>1
  <2>2. /\ Head(blocks[i].order) \in Listed(blocks[i]) /\ Last(blocks[i].order) \in Listed(blocks[i])
        /\ Listed(blocks[i]) \in SUBSET Ids
    BY <1>2, <2>1, BlockProperties
  <2> QED
    BY <2>2 DEF AllListed
<1>3. LatestPostNoChunkId \in Ids \cup {None}
  <2> DEFINE others == Kept(blocks, {i \in DOMAIN blocks : ~blocks[i].recent})
  <2>1. others \in Seq(BlockRecords)
    BY <1>1, KeptProperties
  <2>2. \/ LatestPostNoChunkId = None
        \/ /\ others # <<>> /\ Head(others).order # <<>>
           /\ LatestPostNoChunkId = Head(Head(others).order)
    BY DEF LatestPostNoChunkId
  <2> HIDE DEF others
  <2>3. ASSUME others # <<>>, Head(others).order # <<>>
        PROVE  Head(Head(others).order) \in Ids
    <3>1. Head(others) \in BlockRecords
      BY <2>1, <2>3
    <3> QED
      BY <2>3, <3>1, BlockProperties
  <2> QED
    BY <2>2, <2>3
<1>4. Ids \subseteq 0..(MaxPosts + 1)
  BY BlocksAssumption DEF Ids
<1> QED
  BY <1>2, <1>3, <1>4

LEMMA AskingKeeps ==
  ASSUME IInv,
         \/ \E a \in 1..(MaxPosts + 1) : LoadUnreads(a)
         \/ LoadLatestPosts
         \/ \E id \in 1..MaxPosts : LoadPostsAround(id)
         \/ \E i \in DOMAIN blocks : GetPostsBefore(i) \/ GetPostsAfter(i)
  PROVE  IInv'
<1>1. /\ Ids \subseteq 0..(MaxPosts + 1) /\ Ids = 1..MaxPosts
      /\ atRecent \in BOOLEAN /\ missingId \in Ids \cup {None}
  BY Anchors DEF IInv, TypeOK, Ids
<1>2. ASSUME NEW a \in 1..(MaxPosts + 1), LoadUnreads(a)
      PROVE  IInv'
  <2>1. a \in 0..(MaxPosts + 1)
    BY BlocksAssumption
  <2>2. Send("unread", a) /\ atRecent' \in BOOLEAN /\ missingId' \in Ids \cup {None}
    BY <1>1, <1>2 DEF LoadUnreads, Ask
  <2> QED
    BY <2>1, <2>2, Sending
<1>3. ASSUME LoadLatestPosts
      PROVE  IInv'
  <2>1. None \in 0..(MaxPosts + 1)
    BY BlocksAssumption DEF None
  <2>2. Send("latest", None) /\ atRecent' \in BOOLEAN /\ missingId' \in Ids \cup {None}
    BY <1>1, <1>3 DEF LoadLatestPosts, Ask
  <2> QED
    BY <2>1, <2>2, Sending
<1>4. ASSUME NEW id \in 1..MaxPosts, LoadPostsAround(id)
      PROVE  IInv'
  <2>1. Send("around", id) /\ atRecent' \in BOOLEAN /\ missingId' \in Ids \cup {None}
    BY <1>1, <1>4 DEF LoadPostsAround, Ask
  <2> QED
    BY <1>1, <2>1, Sending
<1>5. ASSUME NEW i \in DOMAIN blocks, GetPostsBefore(i)
      PROVE  IInv'
  <2>1. Last(blocks[i].order) \in AllListed /\ Last(blocks[i].order) \in 0..(MaxPosts + 1)
    BY <1>1, <1>5, Anchors DEF GetPostsBefore
  <2>2. /\ Send("before", Last(blocks[i].order))
        /\ atRecent' \in BOOLEAN /\ missingId' \in Ids \cup {None}
    BY <1>1, <1>5 DEF GetPostsBefore, Ask
  <2> QED
    BY <2>1, <2>2, Sending
<1>6. ASSUME NEW i \in DOMAIN blocks, GetPostsAfter(i)
      PROVE  IInv'
  <2>1. Head(blocks[i].order) \in AllListed /\ Head(blocks[i].order) \in 0..(MaxPosts + 1)
    BY <1>1, <1>6, Anchors DEF GetPostsAfter
  <2>2. /\ Send("after", Head(blocks[i].order))
        /\ atRecent' \in BOOLEAN /\ missingId' \in Ids \cup {None}
    BY <1>1, <1>6 DEF GetPostsAfter, Ask
  <2> QED
    BY <2>1, <2>2, Sending
<1> QED
  BY <1>2, <1>3, <1>4, <1>5, <1>6

LEMMA LoadMissingPostsKeeps ==
  ASSUME IInv, LoadMissingPosts
  PROVE  IInv'
<1>1. atRecent' \in BOOLEAN /\ missingId' \in Ids \cup {None}
  BY Anchors DEF LoadMissingPosts, IInv, TypeOK
<1>2. CASE LatestPostNoChunkId # None
  <2>1. LatestPostNoChunkId \in 0..(MaxPosts + 1)
    BY <1>2, Anchors
  <2>2. Send("around", LatestPostNoChunkId)
    BY <1>2 DEF LoadMissingPosts
  <2> QED
    BY <1>1, <2>1, <2>2, Sending
<1>3. CASE LatestPostNoChunkId = None
  <2>1. /\ UNCHANGED <<newest, heard, posts, loaded, blocks, removed, history>>
        /\ requests' = requests /\ fails' = fails
    BY <1>3 DEF LoadMissingPosts
  <2>2. \A q \in requests' : q \in RequestRecords /\ RequestSound(q)
    BY <2>1, Numbers DEF IInv
  <2>3. fails' \in Nat
    BY <2>1 DEF IInv, TypeOK
  <2> QED
    BY <1>1, <2>1, <2>2, <2>3, Steady
<1> QED
  BY <1>2, <1>3

LEMMA JumpToRecentKeeps ==
  ASSUME IInv, JumpToRecent
  PROVE  IInv'
<1>1. /\ UNCHANGED <<newest, heard, posts, loaded, blocks, removed, history>>
      /\ requests' = requests /\ fails' = fails /\ missingId' = missingId /\ atRecent' = TRUE
  BY DEF JumpToRecent
<1>2. \A q \in requests' : q \in RequestRecords /\ RequestSound(q)
  BY <1>1, Numbers DEF IInv
<1>3. fails' \in Nat /\ missingId' \in Ids \cup {None} /\ atRecent' \in BOOLEAN
  BY <1>1 DEF IInv, TypeOK
<1> QED
  BY <1>1, <1>2, <1>3, Steady

LEMMA FailKeeps ==
  ASSUME IInv, NEW r \in requests, Fail(r)
  PROVE  IInv'
<1>1. /\ UNCHANGED <<newest, heard, posts, loaded, blocks, removed, history>>
      /\ missingId' = missingId
  BY DEF Fail
<1>2. fails' \in Nat /\ missingId' \in Ids \cup {None} /\ atRecent' \in BOOLEAN
  <2>1. fails \in Nat /\ missingId \in Ids \cup {None} /\ atRecent \in BOOLEAN
    BY DEF IInv, TypeOK
  <2>2. fails' = fails \/ fails' = fails + 1
    BY DEF Fail
  <2>3. fails' \in Nat
    BY <2>1, <2>2
  <2>4. UNCHANGED atRecent \/ atRecent' = TRUE
    BY DEF Fail
  <2>5. atRecent' \in BOOLEAN
    BY <2>1, <2>4, Zenon
  <2> QED
    BY <1>1, <2>1, <2>3, <2>5
<1>3. requests' \subseteq requests \cup {Request("latest", None)}
  BY DEF Fail
<1>4. requests \subseteq RequestRecords /\ \A q \in requests : RequestSound(q)
  BY Numbers DEF IInv
<1>5. Request("latest", None) \in RequestRecords /\ RequestSound(Request("latest", None))
  <2>1. None \in 0..(MaxPosts + 1)
    BY BlocksAssumption DEF None
  <2> QED
    BY <2>1, Requested
<1>6. \A q \in requests' : q \in RequestRecords /\ RequestSound(q)
  BY <1>3, <1>4, <1>5
<1> QED
  BY <1>1, <1>2, <1>6, Steady

-----------------------------------------------------------------------------
\* A new post.

LEMMA ConsProperties ==
  ASSUME NEW T, NEW x \in T, NEW s \in Seq(T)
  PROVE  /\ Cons(x, s) \in Seq(T) /\ Cons(x, s) # <<>>
         /\ ToSet(Cons(x, s)) = ToSet(s) \cup {x}
<1> DEFINE t == Cons(x, s)
<1>1. /\ t \in Seq(T) /\ Len(t) = Len(s) + 1 /\ t[1] = x
      /\ \A i \in 1..Len(s) : t[i + 1] = s[i]
      /\ \A i \in 2..Len(t) : t[i] = s[i - 1]
  BY DEF Cons
<1>2. Len(s) \in Nat
  OBVIOUS
<1>3. ToSet(s) = {s[i] : i \in 1..Len(s)} /\ ToSet(t) = {t[i] : i \in 1..Len(t)}
  <2>1. DOMAIN s = 1..Len(s)
    OBVIOUS
  <2>2. DOMAIN t = 1..Len(t)
    BY <1>1
  <2> QED
    BY <2>1, <2>2 DEF ToSet
<1> HIDE DEF t
<1>4. \A i \in 1..Len(t) : i = 1 \/ (i \in 2..Len(t) /\ i - 1 \in 1..Len(s))
  BY <1>1, <1>2
<1>5. \A i \in 1..Len(s) : i + 1 \in 1..Len(t)
  BY <1>1, <1>2
<1>6. 1 \in 1..Len(t)
  BY <1>1, <1>2
<1>7. ToSet(t) \subseteq ToSet(s) \cup {x}
  BY <1>1, <1>3, <1>4
<1>8. ToSet(s) \cup {x} \subseteq ToSet(t)
  BY <1>1, <1>3, <1>5, <1>6
<1> QED
  BY <1>1, <1>6, <1>7, <1>8 DEF t

LEMMA ConsDecreasing ==
  ASSUME NEW x \in Nat, NEW s \in Seq(Nat), Decreasing(s), \A y \in ToSet(s) : y < x
  PROVE  Decreasing(Cons(x, s))
<1> DEFINE t == Cons(x, s)
<1>1. /\ t \in Seq(Nat) /\ Len(t) = Len(s) + 1 /\ t[1] = x
      /\ \A i \in 2..Len(t) : t[i] = s[i - 1]
  BY DEF Cons
<1>2. DOMAIN s = 1..Len(s) /\ Len(s) \in Nat /\ \A i \in 1..Len(s) : s[i] \in Nat
  OBVIOUS
<1>3. DOMAIN t = 1..Len(t)
  BY <1>1
<1> HIDE DEF t
<1>4. \A i \in 1..Len(s) : s[i] < x
  BY <1>2 DEF ToSet
<1>5. ASSUME NEW i \in 1..Len(t), NEW j \in 1..Len(t), i < j
      PROVE  t[i] > t[j]
  <2>1. j \in 2..Len(t) /\ j - 1 \in 1..Len(s)
    BY <1>1, <1>2, <1>5
  <2>2. CASE i = 1
    BY <1>1, <1>2, <1>4, <2>1, <2>2
  <2>3. CASE i # 1
    <3>1. i \in 2..Len(t) /\ i - 1 \in 1..Len(s) /\ i - 1 < j - 1
      BY <1>1, <1>2, <1>5, <2>3
    <3>2. s[i - 1] > s[j - 1]
      BY <1>2, <2>1, <3>1 DEF Decreasing
    <3> QED
      BY <1>1, <2>1, <3>1, <3>2
  <2> QED
    BY <2>2, <2>3
<1> QED
  BY <1>3, <1>5 DEF Decreasing, t

LEMMA AppendDecreasing ==
  ASSUME NEW x \in Nat, NEW s \in Seq(Nat), Decreasing(s), \A y \in ToSet(s) : y > x
  PROVE  Decreasing(Append(s, x))
<1> DEFINE t == Append(s, x)
<1>1. /\ DOMAIN t = 1..(Len(s) + 1) /\ Len(s) \in Nat /\ t[Len(s) + 1] = x
      /\ \A i \in 1..Len(s) : t[i] = s[i]
  OBVIOUS
<1>2. DOMAIN s = 1..Len(s) /\ \A i \in 1..Len(s) : s[i] \in Nat
  OBVIOUS
<1> HIDE DEF t
<1>3. \A i \in 1..Len(s) : s[i] > x
  BY <1>2 DEF ToSet
<1>4. ASSUME NEW i \in 1..(Len(s) + 1), NEW j \in 1..(Len(s) + 1), i < j
      PROVE  t[i] > t[j]
  <2>1. i \in 1..Len(s)
    BY <1>1, <1>4
  <2>2. j = Len(s) + 1 \/ j \in 1..Len(s)
    BY <1>1
  <2> QED
    BY <1>1, <1>2, <1>3, <1>4, <2>1, <2>2 DEF Decreasing
<1> QED
  BY <1>1, <1>4 DEF Decreasing, t

\* nx is bs with the post id in front of a recent block, or in a new one.
PutFirst(bs, nx, id) ==
  /\ nx \in Seq(BlockRecords)
  /\ \A j \in DOMAIN bs : j \in DOMAIN nx
  /\ \E k \in DOMAIN nx, s \in Seq(Nat) :
       /\ nx[k].order = Cons(id, s)
       /\ \A j \in DOMAIN nx : j # k => j \in DOMAIN bs /\ nx[j] = bs[j]
       /\ id \notin ToSet(s)
       /\ \/ k \notin DOMAIN bs /\ s = <<>>
          \/ k \in DOMAIN bs /\ s = bs[k].order /\ bs[k].recent

LEMMA PutFirstKeeps ==
  ASSUME NEW bs \in Seq(BlockRecords), NEW nx, NEW h \in Nat, PutFirst(bs, nx, h + 1),
         NEW L \in SUBSET Nat, \A x \in L : x < h + 1
  PROVE  /\ ListedOf(nx) = ListedOf(bs) \cup {h + 1}
         /\ WholeIn(bs, L) /\ ToppedIn(bs, L) => WholeIn(nx, L) /\ ToppedIn(nx, L)
         /\ AllDecreasing(bs) /\ HeardIn(bs, h) => AllDecreasing(nx) /\ HeardIn(nx, h + 1)
<1> DEFINE id == h + 1
<1>0. id \in Nat /\ id = h + 1 /\ \A x \in L : x < id
  OBVIOUS
<1>9. PICK k \in DOMAIN nx, s \in Seq(Nat) :
        /\ nx[k].order = Cons(id, s)
        /\ \A j \in DOMAIN nx : j # k => j \in DOMAIN bs /\ nx[j] = bs[j]
        /\ id \notin ToSet(s)
        /\ \/ k \notin DOMAIN bs /\ s = <<>>
           \/ k \in DOMAIN bs /\ s = bs[k].order /\ bs[k].recent
  BY DEF PutFirst
<1>10. \A j \in DOMAIN bs : j \in DOMAIN nx
  BY DEF PutFirst
<1> HIDE DEF id
<1>1. Listed(nx[k]) = ToSet(s) \cup {id}
  BY <1>0, <1>9, ConsProperties DEF Listed
<1>2. \/ k \notin DOMAIN bs /\ ToSet(s) = {}
      \/ k \in DOMAIN bs /\ ToSet(s) = Listed(bs[k]) /\ bs[k].recent
  <2>1. s = <<>> => ToSet(s) = {}
    BY DecreasingProperties
  <2> QED
    BY <1>9, <2>1 DEF Listed
<1>3. \A j \in DOMAIN bs : Listed(bs[j]) \in SUBSET Nat
  <2> TAKE j \in DOMAIN bs
  <2>1. bs[j] \in BlockRecords
    OBVIOUS
  <2> QED
    BY <2>1, BlockProperties
<1>4. ListedOf(nx) = ListedOf(bs) \cup {id}
  <2>1. \A j \in DOMAIN bs : Listed(bs[j]) \subseteq ListedOf(nx)
    <3> TAKE j \in DOMAIN bs
    <3>1. j # k => Listed(bs[j]) = Listed(nx[j])
      BY <1>9, <1>10
    <3> QED
      BY <1>1, <1>2, <1>10, <3>1 DEF ListedOf
  <2>2. \A j \in DOMAIN nx : Listed(nx[j]) \subseteq ListedOf(bs) \cup {id}
    <3> TAKE j \in DOMAIN nx
    <3>1. j # k => j \in DOMAIN bs /\ Listed(bs[j]) = Listed(nx[j])
      BY <1>9
    <3> QED
      BY <1>1, <1>2, <1>10, <3>1 DEF ListedOf
  <2>3. id \in ListedOf(nx)
    BY <1>1 DEF ListedOf
  <2> QED
    BY <2>1, <2>2, <2>3 DEF ListedOf
<1>5. ASSUME WholeIn(bs, L), ToppedIn(bs, L)
      PROVE  WholeIn(nx, L) /\ ToppedIn(nx, L)
  <2>1. ASSUME NEW j \in DOMAIN nx, NEW lo \in Listed(nx[j]), NEW hi \in Listed(nx[j]),
               NEW x \in L, lo < x, x < hi
        PROVE  x \in ListedOf(nx)
    <3>1. CASE j # k
      <4>1. j \in DOMAIN bs /\ nx[j] = bs[j]
        BY <1>9, <3>1
      <4> QED
        BY <1>4, <1>5, <2>1, <4>1 DEF WholeIn
    <3>2. CASE j = k
      <4>1. lo # id
        <5>1. x < id /\ x \in Nat
          BY <1>0
        <5> QED
          BY <1>0, <2>1, <5>1
      <4>2. lo \in ToSet(s) /\ k \in DOMAIN bs /\ ToSet(s) = Listed(bs[k]) /\ bs[k].recent
        BY <1>1, <1>2, <3>2, <4>1
      <4>3. CASE \E y \in Listed(bs[k]) : x < y
        BY <1>4, <1>5, <2>1, <4>2, <4>3 DEF WholeIn
      <4>4. CASE x \in Listed(bs[k])
        BY <1>4, <4>2, <4>4 DEF ListedOf
      <4>5. CASE ~(\E y \in Listed(bs[k]) : x < y) /\ x \notin Listed(bs[k])
        <5>1. \A y \in Listed(bs[k]) : y < x
          <6>1. \A y \in Listed(bs[k]) : y \in Nat
            BY <1>3, <4>2
          <6>2. \A y \in Listed(bs[k]) : ~(x < y) /\ x # y
            BY <4>5
          <6>3. x \in Nat
            OBVIOUS
          <6> QED
            BY <6>1, <6>2, <6>3
        <5> QED
          BY <1>4, <1>5, <4>2, <5>1 DEF ToppedIn
      <4> QED
        BY <4>3, <4>4, <4>5
    <3> QED
      BY <3>1, <3>2
  <2>2. ASSUME NEW j \in DOMAIN nx, NEW x \in L, nx[j].recent, Listed(nx[j]) # {},
               \A y \in Listed(nx[j]) : y < x
        PROVE  x \in ListedOf(nx)
    <3>1. CASE j # k
      <4>1. j \in DOMAIN bs /\ nx[j] = bs[j]
        BY <1>9, <3>1
      <4> QED
        BY <1>4, <1>5, <2>2, <4>1 DEF ToppedIn
    <3>2. CASE j = k
      <4>1. id < x /\ x < id /\ x \in Nat
        BY <1>0, <1>1, <2>2, <3>2
      <4> QED
        BY <1>0, <4>1
    <3> QED
      BY <3>1, <3>2
  <2> QED
    BY <2>1, <2>2 DEF WholeIn, ToppedIn
<1>6. ASSUME AllDecreasing(bs), HeardIn(bs, h)
      PROVE  AllDecreasing(nx) /\ HeardIn(nx, id)
  <2>1. ASSUME NEW y \in ToSet(s)
        PROVE  y < id
    <3>1. k \in DOMAIN bs /\ ToSet(s) = Listed(bs[k]) /\ y \in Nat
      BY <1>2, <1>3
    <3>2. id <= y => id \in (h + 1)..y
      BY <1>0, <3>1
    <3>3. id <= y => id \in ToSet(s)
      BY <1>6, <3>1, <3>2 DEF HeardIn
    <3> QED
      BY <1>0, <1>9, <3>1, <3>3
  <2>2. Decreasing(s)
    BY <1>6, <1>9 DEF AllDecreasing, Decreasing, ToSet
  <2>3. Decreasing(nx[k].order)
    BY <1>0, <1>9, <2>1, <2>2, ConsDecreasing
  <2>4. AllDecreasing(nx)
    BY <1>6, <1>9, <2>3 DEF AllDecreasing
  <2>5. ASSUME NEW j \in DOMAIN nx, NEW y \in Listed(nx[j]), NEW x \in (id + 1)..y
        PROVE  x \in Listed(nx[j])
    <3>1. CASE y = id
      BY <1>0, <3>1
    <3>2. CASE y # id
      <4>1. j \in DOMAIN bs /\ y \in Listed(bs[j]) /\ Listed(bs[j]) \subseteq Listed(nx[j])
        BY <1>1, <1>2, <1>9, <3>2
      <4>2. y \in Nat
        BY <1>3, <4>1
      <4>3. x \in (h + 1)..y
        BY <1>0, <4>2
      <4> QED
        BY <1>6, <4>1, <4>3 DEF HeardIn
    <3> QED
      BY <3>1, <3>2
  <2> QED
    BY <2>4, <2>5 DEF HeardIn
<1> QED
  BY <1>4, <1>5, <1>6 DEF id

LEMMA RecentIndex ==
  ASSUME blocks \in Seq(BlockRecords), HasRecent
  PROVE  LET i == CHOOSE j \in DOMAIN blocks : IsRecentIndex(j)
         IN  i \in DOMAIN blocks /\ blocks[i].recent
<1> DEFINE S == {j \in DOMAIN blocks : blocks[j].recent}
<1>1. DOMAIN blocks = 1..Len(blocks) /\ Len(blocks) \in Nat
  OBVIOUS
<1>2. S \in SUBSET Nat /\ IsFiniteSet(S) /\ S # {}
  <2>1. IsFiniteSet(1..Len(blocks))
    BY <1>1, UpTo
  <2>2. S \subseteq 1..Len(blocks)
    BY <1>1
  <2>3. IsFiniteSet(S)
    <3> HIDE DEF S
    <3> QED
      BY <2>1, <2>2, FS_Subset
  <2> QED
    BY <1>1, <2>3 DEF HasRecent
<1>3. PICK i \in S : \A j \in S : i <= j
  <2> HIDE DEF S
  <2> QED
    BY <1>2, LeastProperties
<1>4. IsRecentIndex(i)
  <2>1. i \in DOMAIN blocks /\ blocks[i].recent
    OBVIOUS
  <2>2. \A j \in 1..(i - 1) : ~blocks[j].recent
    <3> TAKE j \in 1..(i - 1)
    <3>1. j \in DOMAIN blocks /\ ~(i <= j)
      BY <1>1
    <3> QED
      BY <1>3, <3>1
  <2> QED
    BY <2>1, <2>2 DEF IsRecentIndex
<1>5. \E j \in DOMAIN blocks : IsRecentIndex(j)
  BY <1>4
<1> QED
  BY <1>5 DEF IsRecentIndex

\* A new post goes to the recent block, or to a block of its own.
LEMMA NewPostPlaced ==
  ASSUME blocks \in Seq(BlockRecords), NEW id \in Ids
  PROVE  \/ BlocksWithNewPost(id) = blocks /\ (~loaded \/ id \in AllListed)
         \/ PutFirst(blocks, BlocksWithNewPost(id), id)
<1> DEFINE nx == BlocksWithNewPost(id)
<1>1. CASE ~loaded
  BY <1>1 DEF BlocksWithNewPost
<1>2. CASE loaded /\ ~HasRecent
  <2> DEFINE b == Block(<<id>>, TRUE, FALSE)
             n == Len(blocks)
  <2>1. nx = Append(blocks, b)
    BY <1>2 DEF BlocksWithNewPost
  <2>2. b \in BlockRecords /\ b.order = <<id>>
    BY DEF Block, BlockRecords
  <2> HIDE DEF nx, b
  <2>3. /\ nx \in Seq(BlockRecords) /\ DOMAIN nx = 1..(n + 1) /\ nx[n + 1] = b
        /\ \A j \in 1..n : nx[j] = blocks[j]
        /\ DOMAIN blocks = 1..n /\ n \in Nat
    BY <2>1, <2>2
  <2> HIDE DEF n
  <2>4. n + 1 \in DOMAIN nx /\ n + 1 \notin DOMAIN blocks
    BY <2>3
  <2>5. \A j \in DOMAIN nx : j # n + 1 => j \in DOMAIN blocks /\ nx[j] = blocks[j]
    BY <2>3
  <2>6. \A j \in DOMAIN blocks : j \in DOMAIN nx
    BY <2>3
  <2>7. <<>> \in Seq(Nat) /\ Cons(id, <<>>) = <<id>> /\ id \notin ToSet(<<>>)
    BY DEF Cons, ToSet
  <2>8. nx[n + 1].order = Cons(id, <<>>)
    BY <2>2, <2>3, <2>7
  <2> QED
    BY <2>3, <2>4, <2>5, <2>6, <2>7, <2>8 DEF PutFirst, nx
<1>3. CASE loaded /\ HasRecent
  <2> DEFINE i == CHOOSE j \in DOMAIN blocks : IsRecentIndex(j)
  <2>1. i \in DOMAIN blocks /\ blocks[i].recent
    BY <1>3, RecentIndex
  <2>2. nx = IF id \in Listed(blocks[i]) THEN blocks
             ELSE [blocks EXCEPT ![i].order = Cons(id, @)]
    BY <1>3 DEF BlocksWithNewPost
  <2> HIDE DEF nx, i
  <2>3. CASE id \in Listed(blocks[i])
    BY <2>1, <2>2, <2>3 DEF nx, AllListed
  <2>4. CASE id \notin Listed(blocks[i])
    <3> DEFINE s == blocks[i].order
    <3>1. blocks[i] \in BlockRecords
      BY <2>1
    <3>2. s \in Seq(Ids) /\ s \in Seq(Nat)
      BY <3>1, BlockProperties
    <3>3. Cons(id, s) \in Seq(Ids)
      BY <3>2, ConsProperties
    <3>4. nx = [blocks EXCEPT ![i] = [blocks[i] EXCEPT !.order = Cons(id, s)]]
      BY <2>2, <2>4
    <3>5. [blocks[i] EXCEPT !.order = Cons(id, s)] \in BlockRecords
      BY <3>1, <3>3 DEF BlockRecords
    <3> HIDE DEF s
    <3>6. nx \in Seq(BlockRecords) /\ DOMAIN nx = DOMAIN blocks
      BY <2>1, <3>4, <3>5
    <3>7. \A j \in DOMAIN nx : j # i => j \in DOMAIN blocks /\ nx[j] = blocks[j]
      BY <3>4
    <3>8. nx[i].order = Cons(id, s)
      BY <2>1, <3>1, <3>4 DEF BlockRecords
    <3>9. id \notin ToSet(s)
      BY <2>4 DEF Listed, s
    <3> QED
      BY <2>1, <3>2, <3>6, <3>7, <3>8, <3>9 DEF PutFirst, nx, s
  <2> QED
    BY <2>3, <2>4
<1> QED
  BY <1>1, <1>2, <1>3

LEMMA HandleNewPostKeeps ==
  ASSUME IInv, HandleNewPost
  PROVE  IInv'
<1> DEFINE id == heard + 1
<1>1. /\ heard < newest /\ heard' = id /\ posts' = posts \cup {id}
      /\ blocks' = BlocksWithNewPost(id)
      /\ dropped' = IF loaded THEN dropped ELSE dropped \cup {id}
      /\ newest' = newest /\ loaded' = loaded /\ requests' = requests /\ removed' = removed
      /\ atRecent' = atRecent /\ missingId' = missingId /\ fails' = fails /\ early' = early
  BY DEF HandleNewPost
<1>2. /\ Initial \in Nat /\ MaxPosts \in Nat /\ MaxBacklog \in Nat
      /\ newest \in Nat /\ heard \in Nat /\ Initial <= heard /\ heard <= newest
      /\ blocks \in Seq(BlockRecords) /\ requests \subseteq RequestRecords
      /\ OldLive \in SUBSET Nat /\ newest <= MaxPosts /\ newest <= heard + MaxBacklog
  BY Numbers DEF IInv
<1>3. id \in Ids /\ id \in Nat /\ id \in Initial..newest /\ id \in 1..newest
  BY <1>1, <1>2 DEF Ids
<1>4. OldLive' = OldLive /\ Live' = Live /\ \A x \in OldLive : x < id
  <2>1. \A x \in OldLive : x \in Nat /\ x <= Initial
    BY <1>2 DEF OldLive
  <2> QED
    BY <1>1, <1>2, <2>1 DEF OldLive, Live
<1>5. /\ blocks' \in Seq(BlockRecords)
      /\ AllListed \subseteq AllListed' /\ AllListed' \subseteq AllListed \cup {id}
      /\ loaded => id \in AllListed'
      /\ WholeIn(blocks', OldLive) /\ ToppedIn(blocks', OldLive)
      /\ early = {} => AllDecreasing(blocks') /\ HeardIn(blocks', id)
  <2>1. /\ WholeIn(blocks, OldLive) /\ ToppedIn(blocks, OldLive)
        /\ early = {} => AllDecreasing(blocks) /\ HeardIn(blocks, heard)
    BY DEF IInv, BlocksSound
  <2>2. AllListed = ListedOf(blocks) /\ AllListed' = ListedOf(blocks')
    BY DEF AllListed, ListedOf
  <2>3. CASE blocks' = blocks /\ (~loaded \/ id \in AllListed)
    <3>1. HeardIn(blocks, heard) => HeardIn(blocks, id)
      <4> SUFFICES ASSUME HeardIn(blocks, heard), NEW j \in DOMAIN blocks,
                          NEW y \in Listed(blocks[j]), NEW x \in (id + 1)..y
                   PROVE  x \in Listed(blocks[j])
        BY DEF HeardIn
      <4>1. blocks[j] \in BlockRecords
        BY <1>2
      <4>2. y \in Nat
        BY <4>1, BlockProperties
      <4>3. x \in (heard + 1)..y
        BY <1>2, <4>2
      <4> QED
        BY <4>3 DEF HeardIn
    <3> QED
      BY <1>2, <2>1, <2>2, <2>3, <3>1
  <2>4. CASE ~(blocks' = blocks /\ (~loaded \/ id \in AllListed))
    <3>1. PutFirst(blocks, blocks', id)
      <4> HIDE DEF id
      <4> QED
        BY <1>1, <1>2, <1>3, <2>4, NewPostPlaced
    <3>2. /\ ListedOf(blocks') = ListedOf(blocks) \cup {id}
          /\ WholeIn(blocks', OldLive) /\ ToppedIn(blocks', OldLive)
          /\ AllDecreasing(blocks) /\ HeardIn(blocks, heard) =>
               AllDecreasing(blocks') /\ HeardIn(blocks', id)
      BY <1>2, <1>4, <2>1, <3>1, PutFirstKeeps
    <3>3. blocks' \in Seq(BlockRecords)
      BY <3>1 DEF PutFirst
    <3> HIDE DEF id
    <3> QED
      BY <2>1, <2>2, <3>2, <3>3
  <2> QED
    BY <2>3, <2>4
<1> HIDE DEF id
<1>6. TypeOK'
  <2>1. posts' \subseteq Ids /\ dropped' \subseteq Ids
    BY <1>1, <1>3 DEF IInv, TypeOK
  <2>2. heard' \in Initial..newest'
    BY <1>1, <1>3
  <2> QED
    BY <1>1, <1>5, <2>1, <2>2 DEF IInv, TypeOK
<1>7. newest' <= MaxPosts /\ newest' <= heard' + MaxBacklog
  BY <1>1, <1>2 DEF id
<1>8. RemovedHeard'
  <2>1. \A x \in Nat : x <= heard => x <= id
    BY <1>2 DEF id
  <2>2. removed \subseteq Nat
    BY BlocksAssumption DEF IInv, TypeOK, Ids
  <2> QED
    BY <1>1, <2>1, <2>2 DEF IInv, RemovedHeard
<1>9. AnnouncedListed'
  <2> SUFFICES ASSUME NEW x \in (Initial + 1)..id, x \in Live \ dropped'
               PROVE  x \in AllListed'
    BY <1>1, <1>4 DEF AnnouncedListed
  <2>1. CASE x = id
    BY <1>1, <1>5, <2>1
  <2>2. CASE x # id
    <3>1. x \in (Initial + 1)..heard
      BY <1>2, <2>2 DEF id
    <3>2. x \in Live \ dropped
      BY <1>1
    <3> QED
      BY <1>5, <3>1, <3>2 DEF IInv, AnnouncedListed
  <2> QED
    BY <2>1, <2>2
<1>10. BlocksSound'
  <2>1. AllListed' \subseteq 1..newest
    BY <1>3, <1>5 DEF IInv, BlocksSound
  <2> QED
    BY <1>1, <1>4, <1>5, <2>1 DEF BlocksSound, WholeIn, ToppedIn, HeardIn
<1>11. ASSUME NEW r \in requests
       PROVE  RequestSound(r)'
  <2>1. RequestSound(r) /\ r \in RequestRecords
    BY <1>2 DEF IInv
  <2>2. heard <= heard' /\ Initial <= newest
    BY <1>1, <1>2 DEF id
  <2> QED
    BY <1>1, <1>2, <1>3, <1>5, <2>1, <2>2, SoundStays
<1>12. KeptPosts'
  <2> SUFFICES ASSUME early = {}, Returned' = {}
               PROVE  posts' \ dropped' \subseteq AllListed'
    BY <1>1 DEF KeptPosts
  <2>1. Returned \subseteq Returned'
    BY <1>1, <1>5 DEF Returned
  <2>2. posts \ dropped \subseteq AllListed
    BY <2>1 DEF IInv, KeptPosts
  <2> QED
    BY <1>1, <1>5, <2>2
<1> QED
  BY <1>1, <1>6, <1>7, <1>8, <1>9, <1>10, <1>11, <1>12 DEF IInv

-----------------------------------------------------------------------------
\* An answer.

\* nx is bs with a block of the answer r behind it, and perhaps without the
\* mark of a recent block.
PageAdded(bs, nx, r) ==
  /\ nx \in Seq(BlockRecords) /\ DOMAIN nx = 1..(Len(bs) + 1)
  /\ \A k \in DOMAIN bs : nx[k].order = bs[k].order /\ (nx[k].recent => bs[k].recent)
  /\ Listed(nx[Len(bs) + 1]) = Span(r)
  /\ Decreasing(nx[Len(bs) + 1].order)
  /\ nx[Len(bs) + 1].recent => r.recent /\ r.kind # "before"

LEMMA PageAppended ==
  ASSUME NEW bs \in Seq(BlockRecords), NEW pre \in Seq(BlockRecords), Len(pre) = Len(bs),
         \A k \in DOMAIN bs : pre[k].order = bs[k].order /\ (pre[k].recent => bs[k].recent),
         NEW r, NEW order \in Seq(Ids), ToSet(order) = Span(r), Decreasing(order),
         NEW recent \in BOOLEAN, recent => r.recent /\ r.kind # "before",
         NEW oldest \in BOOLEAN
  PROVE  PageAdded(bs, Append(pre, Block(order, recent, oldest)), r)
<1> DEFINE n == Len(bs)
           b == Block(order, recent, oldest)
           nx == Append(pre, b)
<1>1. b \in BlockRecords /\ b.order = order /\ b.recent = recent
  BY DEF Block, BlockRecords
<1> HIDE DEF b
<1>2. /\ nx \in Seq(BlockRecords) /\ DOMAIN nx = 1..(n + 1) /\ nx[n + 1] = b
      /\ \A k \in 1..n : nx[k] = pre[k]
      /\ DOMAIN bs = 1..n
  BY <1>1
<1> HIDE DEF nx
<1>3. Listed(nx[n + 1]) = Span(r)
  BY <1>1, <1>2 DEF Listed
<1>4. \A k \in DOMAIN bs : nx[k].order = bs[k].order /\ (nx[k].recent => bs[k].recent)
  BY <1>2
<1>5. PageAdded(bs, nx, r)
  BY <1>1, <1>2, <1>3, <1>4 DEF PageAdded
<1> QED
  BY <1>5 DEF nx, b

LEMMA AnswerAdded ==
  ASSUME newest \in Nat, newest <= MaxPosts, blocks \in Seq(BlockRecords),
         NEW r \in RequestRecords, r.answered, RequestSound(r)
  PROVE  PageAdded(blocks, BlocksWithAnswer(r), r)
<1> DEFINE n == Len(blocks)
           nx == BlocksWithAnswer(r)
<1>1. /\ r.order \in Seq(Ids) /\ r.recent \in BOOLEAN /\ r.oldest \in BOOLEAN
      /\ r.kind \in {"latest", "unread", "around", "before", "after"}
      /\ r.order \in Seq(Nat)
  <2>1. r.order \in Seq(Ids)
    BY DEF RequestRecords
  <2>2. Ids \subseteq Nat
    BY BlocksAssumption DEF Ids
  <2>3. r.order \in Seq(Nat)
    BY <2>1, <2>2, SeqMonotonic
  <2> QED
    BY <2>1, <2>3 DEF RequestRecords
<1>2. Decreasing(r.order)
  BY DEF RequestSound, AnswerSound
<1>4. CASE r.kind \in {"after", "before"}
  <2>1. r.anchor \in 1..newest
    BY <1>4 DEF RequestSound
  <2>2. r.anchor \in Ids /\ r.anchor \in Nat
    BY <2>1, BlocksAssumption DEF Ids
  <2>3. Span(r) = ToSet(r.order) \cup {r.anchor}
    BY <1>4 DEF Span
  <2>4. CASE r.kind = "after"
    <3> DEFINE order == Append(r.order, r.anchor)
    <3>1. order \in Seq(Ids)
      BY <1>1, <2>2
    <3>2. ToSet(order) = Span(r)
      <4>1. DOMAIN order = 1..(Len(r.order) + 1) /\ Len(r.order) \in Nat
        BY <1>1
      <4>2. order[Len(r.order) + 1] = r.anchor /\ \A i \in 1..Len(r.order) : order[i] = r.order[i]
        BY <1>1
      <4>3. DOMAIN r.order = 1..Len(r.order)
        BY <1>1
      <4> HIDE DEF order
      <4>4. \A i \in 1..(Len(r.order) + 1) : i \in 1..Len(r.order) \/ i = Len(r.order) + 1
        BY <4>1
      <4>5. \A i \in 1..Len(r.order) : i \in 1..(Len(r.order) + 1)
        BY <4>1
      <4>6. Len(r.order) + 1 \in 1..(Len(r.order) + 1)
        BY <4>1
      <4>7. ToSet(order) \subseteq ToSet(r.order) \cup {r.anchor}
        BY <4>1, <4>2, <4>3, <4>4 DEF ToSet
      <4>8. ToSet(r.order) \cup {r.anchor} \subseteq ToSet(order)
        BY <4>1, <4>2, <4>3, <4>5, <4>6 DEF ToSet
      <4> QED
        BY <2>3, <4>7, <4>8
    <3>3. Decreasing(order)
      <4>1. \A x \in ToSet(r.order) : x > r.anchor
        BY <2>4 DEF RequestSound, AnswerSound
      <4> QED
        BY <1>1, <1>2, <2>2, <4>1, AppendDecreasing
    <3>4. nx = Append(blocks, Block(order, r.recent, FALSE))
      BY <2>4 DEF BlocksWithAnswer
    <3>5. PageAdded(blocks, Append(blocks, Block(order, r.recent, FALSE)), r)
      <4> HIDE DEF order
      <4>1. r.recent => r.recent /\ r.kind # "before"
        BY <2>4
      <4> QED
        BY <1>1, <3>1, <3>2, <3>3, <4>1, PageAppended
    <3> QED
      BY <3>4, <3>5
  <2>5. CASE r.kind = "before"
    <3> DEFINE order == Cons(r.anchor, r.order)
    <3>1. order \in Seq(Ids) /\ ToSet(order) = Span(r)
      BY <1>1, <2>2, <2>3, ConsProperties
    <3>2. Decreasing(order)
      <4>1. \A x \in ToSet(r.order) : x < r.anchor
        BY <2>5 DEF RequestSound, AnswerSound
      <4> QED
        BY <1>1, <1>2, <2>2, <4>1, ConsDecreasing
    <3>3. nx = Append(blocks, Block(order, FALSE, r.oldest))
      BY <2>5 DEF BlocksWithAnswer
    <3>4. PageAdded(blocks, Append(blocks, Block(order, FALSE, r.oldest)), r)
      <4> HIDE DEF order
      <4> QED
        BY <1>1, <3>1, <3>2, PageAppended
    <3> QED
      BY <3>3, <3>4
  <2> QED
    BY <1>4, <2>4, <2>5
<1>5. CASE r.kind \notin {"after", "before"}
  <2>1. Span(r) = ToSet(r.order) /\ r.kind # "before"
    BY <1>5 DEF Span
  <2>2. nx = BlocksWithPage(r.order, r.recent, r.oldest)
    BY <1>5 DEF BlocksWithAnswer
  <2>3. CASE r.recent /\ HasRecent
    <3> DEFINE i == CHOOSE j \in DOMAIN blocks : IsRecentIndex(j)
               pre == [blocks EXCEPT ![i].recent = FALSE]
    <3>1. i \in DOMAIN blocks
      BY <2>3, RecentIndex
    <3>2. nx = Append(pre, Block(r.order, r.recent, r.oldest))
      BY <2>2, <2>3 DEF BlocksWithPage
    <3> HIDE DEF i
    <3>3. pre = [blocks EXCEPT ![i] = [blocks[i] EXCEPT !.recent = FALSE]]
      OBVIOUS
    <3>4. /\ blocks[i] \in BlockRecords
          /\ [blocks[i] EXCEPT !.recent = FALSE] \in BlockRecords
          /\ [blocks[i] EXCEPT !.recent = FALSE].order = blocks[i].order
          /\ ~[blocks[i] EXCEPT !.recent = FALSE].recent
      <4>1. blocks[i] \in BlockRecords
        BY <3>1
      <4> QED
        BY <4>1 DEF BlockRecords
    <3>5. pre \in Seq(BlockRecords) /\ Len(pre) = n
      BY <3>1, <3>3, <3>4
    <3>6. \A k \in DOMAIN blocks : pre[k].order = blocks[k].order /\
                                   (pre[k].recent => blocks[k].recent)
      BY <3>1, <3>3, <3>4
    <3>7. PageAdded(blocks, Append(pre, Block(r.order, r.recent, r.oldest)), r)
      <4> HIDE DEF pre
      <4> QED
        BY <1>1, <1>2, <2>1, <3>5, <3>6, PageAppended
    <3> QED
      BY <3>2, <3>7
  <2>4. CASE ~(r.recent /\ HasRecent)
    <3>1. nx = Append(blocks, Block(r.order, r.recent, r.oldest))
      BY <2>2, <2>4 DEF BlocksWithPage
    <3>2. PageAdded(blocks, Append(blocks, Block(r.order, r.recent, r.oldest)), r)
      BY <1>1, <1>2, <2>1, PageAppended
    <3> QED
      BY <3>1, <3>2
  <2> QED
    BY <2>3, <2>4
<1> QED
  BY <1>4, <1>5

LEMMA PageAddedKeeps ==
  ASSUME IInv, NEW r \in requests, r.answered, NEW nx, PageAdded(blocks, nx, r)
  PROVE  /\ ListedOf(nx) = AllListed \cup Span(r)
         /\ WholeIn(nx, OldLive) /\ ToppedIn(nx, OldLive)
         /\ early = {} => AllDecreasing(nx) /\ HeardAcross(nx, heard)
<1> DEFINE n == Len(blocks)
<1>1. /\ newest \in Nat /\ heard \in Nat /\ blocks \in Seq(BlockRecords)
      /\ OldLive \in SUBSET Nat /\ Initial \in Nat
  BY Numbers DEF IInv
<1>2. RequestSound(r) /\ AnswerSound(r)
  BY DEF IInv, RequestSound
<1>3. /\ DOMAIN blocks = 1..n /\ n \in Nat
      /\ \A k \in DOMAIN nx : k \in DOMAIN blocks \/ k = n + 1
      /\ \A k \in DOMAIN blocks : k \in DOMAIN nx
      /\ n + 1 \in DOMAIN nx
  BY <1>1 DEF PageAdded
<1>4. /\ \A k \in DOMAIN blocks : Listed(nx[k]) = Listed(blocks[k])
      /\ Listed(nx[n + 1]) = Span(r)
  BY DEF PageAdded, Listed
<1> HIDE DEF n
<1>5. ListedOf(nx) = AllListed \cup Span(r)
  <2>1. \A k \in DOMAIN nx : Listed(nx[k]) \subseteq AllListed \cup Span(r)
    BY <1>3, <1>4 DEF AllListed
  <2>2. \A k \in DOMAIN blocks : Listed(blocks[k]) \subseteq ListedOf(nx)
    BY <1>3, <1>4 DEF ListedOf
  <2>3. Span(r) \subseteq ListedOf(nx)
    BY <1>3, <1>4 DEF ListedOf
  <2> QED
    BY <2>1, <2>2, <2>3 DEF AllListed, ListedOf
<1>6. Span(r) \subseteq 1..newest
  BY <1>2 DEF RequestSound, AnswerSound, Span
<1>7. WholeIn(nx, OldLive)
  <2> SUFFICES ASSUME NEW k \in DOMAIN nx, NEW lo \in Listed(nx[k]), NEW hi \in Listed(nx[k]),
                      NEW x \in OldLive, lo < x, x < hi
               PROVE  x \in AllListed \cup Span(r)
    BY <1>5 DEF WholeIn
  <2>1. CASE k \in DOMAIN blocks
    <3>1. lo \in Listed(blocks[k]) /\ hi \in Listed(blocks[k])
      BY <1>4, <2>1
    <3>2. WholeIn(blocks, OldLive)
      BY DEF IInv, BlocksSound
    <3> QED
      BY <2>1, <3>1, <3>2 DEF WholeIn, ListedOf, AllListed
  <2>2. CASE k = n + 1
    <3>1. lo \in Span(r) /\ hi \in Span(r) /\ x \in Live
      BY <1>4, <2>2 DEF OldLive
    <3> QED
      BY <1>2, <3>1 DEF AnswerSound
  <2> QED
    BY <1>3, <2>1, <2>2
<1>8. ToppedIn(nx, OldLive)
  <2> SUFFICES ASSUME NEW k \in DOMAIN nx, NEW x \in OldLive,
                      nx[k].recent, Listed(nx[k]) # {}, \A y \in Listed(nx[k]) : y < x
               PROVE  x \in AllListed \cup Span(r)
    BY <1>5 DEF ToppedIn
  <2>1. CASE k \in DOMAIN blocks
    <3>1. /\ blocks[k].recent /\ Listed(blocks[k]) # {}
          /\ \A y \in Listed(blocks[k]) : y < x
      BY <1>4, <2>1 DEF PageAdded
    <3>2. ToppedIn(blocks, OldLive)
      BY DEF IInv, BlocksSound
    <3> QED
      BY <2>1, <3>1, <3>2 DEF ToppedIn, ListedOf, AllListed
  <2>2. CASE k = n + 1
    <3>1. r.recent /\ r.kind # "before" /\ x \in Live /\ x <= Initial /\ x \in Nat
      BY <1>1, <2>2 DEF PageAdded, OldLive, n
    <3>2. PICK y \in Span(r) : x <= y
      BY <1>2, <3>1 DEF AnswerSound
    <3>3. y < x /\ y \in Nat
      BY <1>4, <1>6, <2>2
    <3> QED
      BY <3>1, <3>2, <3>3
  <2> QED
    BY <1>3, <2>1, <2>2
<1>9. ASSUME early = {}
      PROVE  AllDecreasing(nx) /\ HeardAcross(nx, heard)
  <2>1. AllDecreasing(blocks) /\ HeardIn(blocks, heard)
    BY <1>9 DEF IInv, BlocksSound
  <2>2. AllDecreasing(nx)
    <3> SUFFICES ASSUME NEW k \in DOMAIN nx PROVE Decreasing(nx[k].order)
      BY DEF AllDecreasing
    <3>1. CASE k \in DOMAIN blocks
      BY <2>1, <3>1 DEF PageAdded, AllDecreasing
    <3>2. CASE k = n + 1
      BY <3>2 DEF PageAdded, n
    <3> QED
      BY <1>3, <3>1, <3>2
  <2>3. ASSUME NEW k \in DOMAIN nx, NEW y \in Listed(nx[k]), NEW x \in (heard + 1)..y
        PROVE  \E j \in DOMAIN nx : Overlap(nx[k], nx[j]) /\ x \in Listed(nx[j])
    <3>1. CASE x \in Listed(nx[k])
      BY <3>1 DEF Overlap
    <3>2. CASE x \notin Listed(nx[k])
      <4>1. k = n + 1
        BY <1>3, <1>4, <2>1, <3>2 DEF HeardIn
      <4>2. y \in Span(r) /\ x \notin Span(r)
        BY <1>4, <3>2, <4>1
      <4>3. r.kind = "after" /\ x < r.anchor
        BY <1>2, <1>9, <4>2 DEF AnswerSound
      <4>4. r.anchor \in 1..newest /\ r.anchor \in AllListed \cup removed /\ r.anchor \in Span(r)
        BY <1>2, <4>3 DEF RequestSound, Span
      <4>5. y \in Nat
        BY <1>6, <4>2
      <4>6. x \in (heard + 1)..r.anchor
        BY <1>1, <4>3, <4>4, <4>5
      <4>7. r.anchor \notin removed
        <5>1. \A z \in removed : z <= heard
          BY <1>9 DEF IInv, RemovedHeard
        <5>2. ~(r.anchor <= heard)
          BY <1>1, <4>4, <4>6
        <5> QED
          BY <5>1, <5>2
      <4>8. PICK j \in DOMAIN blocks : r.anchor \in Listed(blocks[j])
        BY <4>4, <4>7 DEF AllListed
      <4>9. x \in Listed(blocks[j])
        BY <2>1, <4>6, <4>8 DEF HeardIn
      <4>10. Overlap(nx[k], nx[j]) /\ x \in Listed(nx[j]) /\ j \in DOMAIN nx
        BY <1>3, <1>4, <4>1, <4>4, <4>8, <4>9 DEF Overlap
      <4> QED
        BY <4>10
    <3> QED
      BY <3>1, <3>2
  <2> QED
    BY <2>2, <2>3 DEF HeardAcross
<1> QED
  BY <1>5, <1>7, <1>8, <1>9

\* A page that looks like the recent block has the posts of that block, unless
\* the block has a deleted one.
LEMMA SamePageListed ==
  ASSUME IInv, NEW r \in requests, r.answered, r.kind \notin {"after", "before"},
         PageIgnored(r.order, r.recent), early = {}, AllListed \cap removed = {}
  PROVE  ToSet(r.order) \subseteq AllListed
<1>1. /\ newest \in Nat /\ blocks \in Seq(BlockRecords) /\ requests \subseteq RequestRecords
  BY Numbers DEF IInv
<1>2. AnswerSound(r) /\ r \in RequestRecords
  BY <1>1 DEF IInv, RequestSound
<1>3. r.order \in Seq(Nat)
  <2>1. r.order \in Seq(Ids) /\ Ids \subseteq Nat
    BY <1>2, BlocksAssumption DEF RequestRecords, Ids
  <2> QED
    BY <2>1, SeqMonotonic
<1>4. CASE r.order = <<>>
  <2>1. ToSet(r.order) = {}
    BY <1>3, <1>4, DecreasingProperties
  <2> QED
    BY <2>1
<1>5. CASE r.order # <<>>
  <2>1. PICK i \in DOMAIN blocks : SamePage(blocks[i], r.order)
    BY <1>5 DEF PageIgnored
  <2> DEFINE b == blocks[i]
  <2>2. b \in BlockRecords
    BY <1>1
  <2>3. /\ Len(b.order) = Len(r.order)
        /\ Head(b.order) = Head(r.order) /\ Last(b.order) = Last(r.order)
    BY <1>5, <2>1 DEF SamePage
  <2>4. Decreasing(b.order) /\ Decreasing(r.order)
    BY <1>2 DEF IInv, BlocksSound, AllDecreasing, AnswerSound
  <2>5. b.order \in Seq(Nat) /\ Listed(b) \in SUBSET Nat
    BY <2>2, BlockProperties
  <2> HIDE DEF b
  <2>6. b.order # <<>>
    <3>1. Len(r.order) # 0
      BY <1>3, <1>5, EmptySeq
    <3> QED
      BY <2>3, <2>5, <3>1, EmptySeq
  <2>7. Head(r.order) \in ToSet(r.order) /\ Last(r.order) \in ToSet(r.order)
    BY <1>3, <1>5, DecreasingProperties
  <2>8. Listed(b) \subseteq Live
    <3>1. Listed(b) \subseteq AllListed
      BY <2>1 DEF AllListed, b
    <3> QED
      BY <3>1 DEF Live, IInv, BlocksSound
  <2>9. \A x \in Listed(b) : x \in Nat /\ x <= Head(r.order) /\ Last(r.order) <= x
    BY <2>3, <2>4, <2>5, <2>6, DecreasingProperties DEF Listed
  <2>10. Head(r.order) \in Nat /\ Last(r.order) \in Nat
    BY <1>3, <2>7, DecreasingProperties
  <2>11. Listed(b) \subseteq ToSet(r.order)
    <3> SUFFICES ASSUME NEW x \in Listed(b) PROVE x \in ToSet(r.order)
      OBVIOUS
    <3>1. x = Head(r.order) \/ x = Last(r.order) \/ (Last(r.order) < x /\ x < Head(r.order))
      BY <2>9, <2>10
    <3>2. Span(r) = ToSet(r.order)
      BY DEF Span
    <3>3. CASE Last(r.order) < x /\ x < Head(r.order)
      BY <1>2, <2>7, <2>8, <3>2, <3>3 DEF AnswerSound
    <3> QED
      BY <2>7, <3>1, <3>3
  <2>12. /\ Cardinality(Listed(b)) = Len(b.order)
         /\ Cardinality(ToSet(r.order)) = Len(r.order) /\ IsFiniteSet(ToSet(r.order))
    BY <1>3, <2>4, <2>5, DecreasingProperties DEF Listed
  <2>13. Listed(b) = ToSet(r.order)
    BY <2>3, <2>11, <2>12, FS_Subset
  <2> QED
    BY <2>1, <2>13 DEF AllListed, b
<1> QED
  BY <1>4, <1>5

LEMMA ReceiveKeeps ==
  ASSUME IInv, NEW r \in requests, Receive(r)
  PROVE  IInv'
<1> DEFINE stored == posts \cup ToSet(r.order)
           nx == BlocksWithAnswer(r)
<1>1. /\ r.answered /\ requests' = requests \ {r}
      /\ newest' = newest /\ heard' = heard /\ removed' = removed /\ atRecent' = atRecent
      /\ missingId' = missingId /\ fails' = fails /\ dropped' = dropped /\ early' = early
  BY DEF Receive, history
<1>2. /\ newest \in Nat /\ heard \in Nat /\ Initial <= heard /\ heard <= newest
      /\ Initial \in Nat /\ newest <= MaxPosts /\ MaxPosts \in Nat
      /\ blocks \in Seq(BlockRecords) /\ requests \subseteq RequestRecords
      /\ OldLive \in SUBSET Nat
  BY Numbers DEF IInv
<1>3. RequestSound(r) /\ AnswerSound(r) /\ r \in RequestRecords
  BY <1>1, <1>2 DEF IInv, RequestSound
<1>4. OldLive' = OldLive /\ Live' = Live
  BY <1>1 DEF OldLive, Live
<1>5. stored \subseteq Ids
  <2>1. ToSet(r.order) \subseteq Ids
    BY <1>2, <1>3 DEF AnswerSound, Ids
  <2> QED
    BY <2>1 DEF IInv, TypeOK
<1>6. /\ posts' \subseteq Ids /\ loaded' \in BOOLEAN /\ blocks' \in Seq(BlockRecords)
      /\ AllListed \subseteq AllListed' /\ AllListed' \subseteq 1..newest
      /\ WholeIn(blocks', OldLive) /\ ToppedIn(blocks', OldLive)
      /\ early = {} => AllDecreasing(blocks') /\ HeardIn(blocks', heard)
      /\ posts \subseteq posts' /\ posts' \subseteq stored
      /\ early = {} /\ AllListed' \cap removed = {} => posts' \subseteq posts \cup AllListed'
  <2>1. /\ posts \subseteq Ids /\ loaded \in BOOLEAN
        /\ AllListed \subseteq 1..newest
        /\ WholeIn(blocks, OldLive) /\ ToppedIn(blocks, OldLive)
        /\ early = {} => AllDecreasing(blocks) /\ HeardIn(blocks, heard)
    BY DEF IInv, TypeOK, BlocksSound
  <2>2. blocks' = blocks => AllListed' = AllListed
    BY DEF AllListed
  <2>3. CASE AnswerIgnored(r)
    <3>1. posts' = stored /\ loaded' = loaded /\ blocks' = blocks
      BY <2>3 DEF Receive
    <3>2. early = {} /\ AllListed \cap removed = {} => ToSet(r.order) \subseteq AllListed
      <4>1. CASE r.kind \in {"after", "before"}
        <5>1. r.order = <<>>
          BY <2>3, <4>1 DEF AnswerIgnored
        <5>2. ToSet(r.order) = {}
          BY <5>1 DEF ToSet
        <5> QED
          BY <5>2
      <4>2. CASE r.kind \notin {"after", "before"}
        <5>1. PageIgnored(r.order, r.recent)
          BY <2>3, <4>2 DEF AnswerIgnored
        <5> QED
          BY <1>1, <4>2, <5>1, SamePageListed
      <4> QED
        BY <4>1, <4>2
    <3> QED
      BY <1>2, <1>5, <2>1, <2>2, <3>1, <3>2
  <2>4. CASE ~AnswerIgnored(r) /\ Throws(nx, stored)
    <3>1. posts' = posts /\ loaded' = loaded /\ blocks' = blocks
      BY <2>4 DEF Receive
    <3> QED
      BY <1>2, <2>1, <2>2, <3>1
  <2>5. CASE ~AnswerIgnored(r) /\ ~Throws(nx, stored)
    <3>1. posts' = stored /\ loaded' = TRUE /\ blocks' = MergePostBlocks(nx)
      BY <2>5 DEF Receive
    <3>2. PageAdded(blocks, nx, r)
      BY <1>1, <1>2, <1>3, AnswerAdded
    <3> HIDE DEF nx
    <3>3. nx \in Seq(BlockRecords)
      BY <3>2 DEF PageAdded
    <3>4. Headed(RemoveNonRecentEmpty(nx))
      <4>1. RemoveNonRecentEmpty(nx) \in Seq(BlockRecords)
        BY <3>3, KeptProperties DEF RemoveNonRecentEmpty
      <4>2. Len(RemoveNonRecentEmpty(nx)) \in Nat
        BY <4>1
      <4> QED
        BY <2>5, <4>2 DEF Headed, Throws
    <3>5. Joins(nx, blocks')
      BY <3>1, <3>3, <3>4, Merging
    <3>6. /\ ListedOf(nx) = AllListed \cup Span(r)
          /\ WholeIn(nx, OldLive) /\ ToppedIn(nx, OldLive)
          /\ early = {} => AllDecreasing(nx) /\ HeardAcross(nx, heard)
      BY <1>1, <3>2, PageAddedKeeps
    <3>7. /\ blocks' \in Seq(BlockRecords) /\ ListedOf(blocks') = ListedOf(nx)
          /\ WholeIn(blocks', OldLive) /\ ToppedIn(blocks', OldLive)
          /\ early = {} => AllDecreasing(blocks') /\ HeardIn(blocks', heard)
      BY <1>2, <3>3, <3>5, <3>6, JoinKeeps
    <3>8. AllListed' = AllListed \cup Span(r)
      BY <3>6, <3>7 DEF AllListed, ListedOf
    <3>9. Span(r) \subseteq 1..newest /\ ToSet(r.order) \subseteq Span(r)
      BY <1>3 DEF RequestSound, AnswerSound, Span
    <3> HIDE DEF stored
    <3>10. posts \subseteq stored /\ stored \subseteq posts \cup Span(r)
      BY <3>9 DEF stored
    <3> QED
      BY <1>5, <2>1, <3>1, <3>7, <3>8, <3>9, <3>10
  <2> QED
    BY <2>3, <2>4, <2>5
<1>7. TypeOK'
  <2>1. requests' \subseteq requests
    BY <1>1
  <2> QED
    BY <1>1, <1>6, <2>1 DEF IInv, TypeOK
<1>8. newest' <= MaxPosts /\ newest' <= heard' + MaxBacklog /\ RemovedHeard'
  BY <1>1 DEF IInv, RemovedHeard
<1>9. AnnouncedListed'
  BY <1>1, <1>4, <1>6 DEF IInv, AnnouncedListed
<1>10. BlocksSound'
  BY <1>1, <1>4, <1>6 DEF BlocksSound, WholeIn, ToppedIn, HeardIn
<1>11. ASSUME NEW q \in requests'
       PROVE  RequestSound(q)'
  <2>1. RequestSound(q) /\ q \in RequestRecords
    BY <1>1, <1>2 DEF IInv
  <2>2. newest <= newest' /\ heard <= heard' /\ Initial <= newest
    BY <1>1, <1>2
  <2> QED
    BY <1>1, <1>2, <1>6, <2>1, <2>2, SoundStays
<1>12. KeptPosts'
  <2> SUFFICES ASSUME early = {}, Returned' = {}
               PROVE  posts' \ dropped \subseteq AllListed'
    BY <1>1 DEF KeptPosts
  <2>1. Returned \subseteq Returned' /\ AllListed' \cap removed = {}
    BY <1>1, <1>6 DEF Returned
  <2>2. posts \ dropped \subseteq AllListed
    BY <2>1 DEF IInv, KeptPosts
  <2> QED
    BY <1>6, <2>1, <2>2
<1> QED
  BY <1>7, <1>8, <1>9, <1>10, <1>11, <1>12 DEF IInv

-----------------------------------------------------------------------------
\* A removal.

\* m is bs without the post id, and perhaps without some empty blocks.
PostRemoved(bs, m, id) ==
  /\ m \in Seq(BlockRecords)
  /\ ListedOf(m) = ListedOf(bs) \ {id}
  /\ \A k \in DOMAIN m : \E i \in DOMAIN bs :
       /\ Listed(m[k]) = Listed(bs[i]) \ {id}
       /\ m[k].recent => bs[i].recent
       /\ Decreasing(bs[i].order) => Decreasing(m[k].order)

\* w is bs with the post id taken out of every block.
EachWithout(bs, w, id) ==
  /\ w \in Seq(BlockRecords) /\ DOMAIN w = DOMAIN bs
  /\ \A i \in DOMAIN bs :
       /\ Listed(w[i]) = Listed(bs[i]) \ {id}
       /\ w[i].recent => bs[i].recent
       /\ Decreasing(bs[i].order) => Decreasing(w[i].order)

LEMMA TakenOut ==
  ASSUME NEW bs \in Seq(BlockRecords), NEW id
  PROVE  EachWithout(bs,
           [i \in DOMAIN bs |->
             [bs[i] EXCEPT !.order = Kept(@, {j \in DOMAIN @ : @[j] # id})]], id)
<1> DEFINE left(i) == Kept(bs[i].order, {j \in DOMAIN bs[i].order : bs[i].order[j] # id})
           b(i) == [bs[i] EXCEPT !.order = left(i)]
           w == [i \in DOMAIN bs |-> b(i)]
<1>1. ASSUME NEW i \in DOMAIN bs
      PROVE  /\ b(i) \in BlockRecords
             /\ Listed(b(i)) = Listed(bs[i]) \ {id}
             /\ b(i).recent => bs[i].recent
             /\ Decreasing(bs[i].order) => Decreasing(b(i).order)
  <2> DEFINE s == bs[i].order
             D == {j \in DOMAIN s : s[j] # id}
  <2>1. bs[i] \in BlockRecords
    OBVIOUS
  <2>2. s \in Seq(Ids) /\ s \in Seq(Nat)
    BY <2>1, BlockProperties
  <2>3. D \in SUBSET (DOMAIN s)
    OBVIOUS
  <2>4. left(i) = Kept(s, D)
    OBVIOUS
  <2>5. ToSet(s) \ {id} = {s[j] : j \in D}
    BY DEF ToSet
  <2> HIDE DEF D
  <2>6. Kept(s, D) \in Seq(Ids) /\ ToSet(Kept(s, D)) = {s[j] : j \in D}
    BY <2>2, <2>3, KeptProperties, KeptMembers
  <2>7. Decreasing(s) => Decreasing(Kept(s, D))
    BY <2>2, <2>3, KeptMembers
  <2> HIDE DEF left
  <2>8. /\ b(i) \in BlockRecords /\ b(i).order = Kept(s, D)
        /\ b(i).recent = bs[i].recent
    BY <2>1, <2>4, <2>6 DEF BlockRecords
  <2> HIDE DEF b
  <2> QED
    BY <2>5, <2>6, <2>7, <2>8 DEF Listed
<1> HIDE DEF b
<1>2. DOMAIN w = DOMAIN bs /\ \A i \in DOMAIN bs : w[i] = b(i)
  OBVIOUS
<1>3. w \in Seq(BlockRecords)
  <2>1. DOMAIN bs = 1..Len(bs) /\ Len(bs) \in Nat
    OBVIOUS
  <2> HIDE DEF w
  <2>2. \A i \in 1..Len(bs) : w[i] \in BlockRecords
    BY <1>1, <1>2, <2>1
  <2>3. w = [i \in 1..Len(bs) |-> w[i]]
    BY <1>2, <2>1 DEF w
  <2> QED
    BY <2>1, <2>2, <2>3
<1>4. EachWithout(bs, w, id)
  <2> HIDE DEF w
  <2> QED
    BY <1>1, <1>2, <1>3 DEF EachWithout
<1> QED
  BY <1>4 DEF b, left

LEMMA Removing ==
  ASSUME NEW bs \in Seq(BlockRecords), NEW id, NEW without, EachWithout(bs, without, id)
  PROVE  PostRemoved(bs, IF without = bs THEN bs ELSE RemoveNonRecentEmpty(without), id)
<1>2. \A i \in DOMAIN bs :
        /\ Listed(without[i]) = Listed(bs[i]) \ {id}
        /\ without[i].recent => bs[i].recent
        /\ Decreasing(bs[i].order) => Decreasing(without[i].order)
  BY DEF EachWithout
<1>3. without \in Seq(BlockRecords) /\ DOMAIN without = DOMAIN bs
  BY DEF EachWithout
<1>4. ASSUME NEW m \in Seq(BlockRecords),
             \A k \in DOMAIN m : \E i \in DOMAIN without : m[k] = without[i],
             \A i \in DOMAIN without : Listed(without[i]) # {} => \E k \in DOMAIN m : m[k] = without[i]
      PROVE  PostRemoved(bs, m, id)
  <2>1. \A k \in DOMAIN m : \E i \in DOMAIN bs :
          /\ Listed(m[k]) = Listed(bs[i]) \ {id}
          /\ m[k].recent => bs[i].recent
          /\ Decreasing(bs[i].order) => Decreasing(m[k].order)
    BY <1>2, <1>3, <1>4
  <2>2. ListedOf(m) \subseteq ListedOf(bs) \ {id}
    BY <2>1 DEF ListedOf
  <2>3. ASSUME NEW i \in DOMAIN bs, NEW x \in Listed(bs[i]), x # id
        PROVE  x \in ListedOf(m)
    <3>1. x \in Listed(without[i])
      BY <1>2, <2>3
    <3>2. PICK k \in DOMAIN m : m[k] = without[i]
      BY <1>3, <1>4, <3>1
    <3> QED
      BY <3>1, <3>2 DEF ListedOf
  <2>4. ListedOf(bs) \ {id} \subseteq ListedOf(m)
    BY <2>3 DEF ListedOf
  <2> QED
    BY <2>1, <2>2, <2>4 DEF PostRemoved
<1>5. CASE without = bs
  <2>1. PostRemoved(bs, without, id)
    BY <1>3, <1>4
  <2> QED
    BY <1>5, <2>1
<1>6. CASE without # bs
  <2> DEFINE D == {i \in DOMAIN without : without[i].order # <<>> \/ without[i].recent}
             m == Kept(without, D)
  <2>1. RemoveNonRecentEmpty(without) = m
    BY DEF RemoveNonRecentEmpty
  <2>2. /\ m \in Seq(BlockRecords) /\ Len(m) = Cardinality(D)
        /\ \A n \in 1..Cardinality(D) : Nth(D, n) \in D /\ m[n] = without[Nth(D, n)]
        /\ \A i \in D : \E n \in 1..Cardinality(D) : i = Nth(D, n)
    <3>1. D \in SUBSET (DOMAIN without)
      OBVIOUS
    <3> HIDE DEF D
    <3> QED
      BY <1>3, <3>1, KeptProperties
  <2>3. DOMAIN m = 1..Cardinality(D)
    BY <2>2
  <2>4. \A i \in DOMAIN without : Listed(without[i]) # {} => i \in D
    <3> TAKE i \in DOMAIN without
    <3>1. without[i] \in BlockRecords
      BY <1>3
    <3> QED
      BY <3>1, BlockProperties
  <2>5. D \subseteq DOMAIN without
    OBVIOUS
  <2> HIDE DEF m, D
  <2>6. \A k \in DOMAIN m : \E i \in DOMAIN without : m[k] = without[i]
    BY <2>2, <2>3, <2>5
  <2>7. \A i \in DOMAIN without : Listed(without[i]) # {} => \E k \in DOMAIN m : m[k] = without[i]
    BY <2>2, <2>3, <2>4
  <2>8. PostRemoved(bs, m, id)
    BY <1>4, <2>2, <2>6, <2>7
  <2> QED
    BY <1>6, <2>1, <2>8
<1> QED
  BY <1>5, <1>6

LEMMA RemovedKeeps ==
  ASSUME NEW bs \in Seq(BlockRecords), NEW m, NEW id \in Nat, PostRemoved(bs, m, id),
         NEW L \in SUBSET Nat, NEW h \in Nat
  PROVE  /\ WholeIn(bs, L) /\ ToppedIn(bs, L) => WholeIn(m, L \ {id}) /\ ToppedIn(m, L \ {id})
         /\ AllDecreasing(bs) => AllDecreasing(m)
         /\ HeardIn(bs, h) /\ id <= h => HeardIn(m, h)
<1>1. /\ ListedOf(m) = ListedOf(bs) \ {id}
      /\ \A k \in DOMAIN m : \E i \in DOMAIN bs :
           /\ Listed(m[k]) = Listed(bs[i]) \ {id}
           /\ m[k].recent => bs[i].recent
           /\ Decreasing(bs[i].order) => Decreasing(m[k].order)
  BY DEF PostRemoved
<1>2. ASSUME WholeIn(bs, L), ToppedIn(bs, L)
      PROVE  WholeIn(m, L \ {id}) /\ ToppedIn(m, L \ {id})
  <2>1. WholeIn(m, L \ {id})
    BY <1>1, <1>2 DEF WholeIn
  <2>2. ASSUME NEW k \in DOMAIN m, NEW x \in L \ {id}, m[k].recent, Listed(m[k]) # {},
               \A y \in Listed(m[k]) : y < x
        PROVE  x \in ListedOf(m)
    <3>1. PICK i \in DOMAIN bs : Listed(m[k]) = Listed(bs[i]) \ {id} /\ bs[i].recent
      BY <1>1, <2>2
    <3>2. CASE \A y \in Listed(bs[i]) : y < x
      BY <1>1, <1>2, <2>2, <3>1, <3>2 DEF ToppedIn
    <3>3. CASE \E y \in Listed(bs[i]) : ~(y < x)
      <4>1. id \in Listed(bs[i]) /\ ~(id < x)
        BY <2>2, <3>1, <3>3
      <4>2. x < id
        BY <4>1
      <4>3. PICK lo \in Listed(bs[i]) : lo < x
        BY <2>2, <3>1
      <4>4. x \in ListedOf(bs)
        BY <1>2, <4>1, <4>2, <4>3 DEF WholeIn
      <4> QED
        BY <1>1, <4>4
    <3> QED
      BY <3>2, <3>3
  <2> QED
    BY <2>1, <2>2 DEF ToppedIn
<1>3. AllDecreasing(bs) => AllDecreasing(m)
  BY <1>1 DEF AllDecreasing
<1>4. ASSUME HeardIn(bs, h), id <= h
      PROVE  HeardIn(m, h)
  <2> SUFFICES ASSUME NEW k \in DOMAIN m, NEW y \in Listed(m[k]), NEW x \in (h + 1)..y
               PROVE  x \in Listed(m[k])
    BY DEF HeardIn
  <2>1. PICK i \in DOMAIN bs : Listed(m[k]) = Listed(bs[i]) \ {id}
    BY <1>1
  <2>2. x \in Listed(bs[i])
    BY <1>4, <2>1 DEF HeardIn
  <2>3. x # id
    <3>1. bs[i] \in BlockRecords
      OBVIOUS
    <3>2. y \in Nat
      BY <2>1, <3>1, BlockProperties
    <3> QED
      BY <1>4, <3>2
  <2> QED
    BY <2>1, <2>2, <2>3
<1> QED
  BY <1>2, <1>3, <1>4

LEMMA RemovePostKeeps ==
  ASSUME IInv, NEW id \in 1..MaxPosts, RemovePost(id)
  PROVE  IInv'
<1> DEFINE without == [i \in DOMAIN blocks |->
             [blocks[i] EXCEPT !.order = Kept(@, {j \in DOMAIN @ : @[j] # id})]]
<1>1. /\ removed' = removed \cup {id} /\ posts' = posts \ {id} /\ id \notin removed
      /\ early' = IF id > heard THEN early \cup {id} ELSE early
      /\ blocks' = IF without = blocks THEN blocks ELSE RemoveNonRecentEmpty(without)
      /\ newest' = newest /\ heard' = heard /\ loaded' = loaded /\ requests' = requests
      /\ atRecent' = atRecent /\ missingId' = missingId /\ fails' = fails /\ dropped' = dropped
  BY DEF RemovePost
<1>2. PostRemoved(blocks, blocks', id)
  <2>1. blocks \in Seq(BlockRecords)
    BY Numbers DEF IInv
  <2>2. EachWithout(blocks, without, id)
    BY <2>1, TakenOut
  <2> HIDE DEF without
  <2>3. PostRemoved(blocks,
          IF without = blocks THEN blocks ELSE RemoveNonRecentEmpty(without), id)
    BY <2>1, <2>2, Removing
  <2> QED
    BY <1>1, <2>3
<1> HIDE DEF without
<1>3. /\ newest \in Nat /\ heard \in Nat /\ Initial <= heard /\ heard <= newest
      /\ Initial \in Nat /\ newest <= MaxPosts /\ MaxPosts \in Nat /\ id \in Nat /\ id \in Ids
      /\ blocks \in Seq(BlockRecords) /\ requests \subseteq RequestRecords
      /\ OldLive \in SUBSET Nat
  BY Numbers DEF IInv, Ids
<1>4. OldLive' = OldLive \ {id} /\ Live' = Live \ {id}
  BY <1>1 DEF OldLive, Live
<1>5. blocks' \in Seq(BlockRecords) /\ AllListed' = AllListed \ {id}
  BY <1>2 DEF PostRemoved, AllListed, ListedOf
<1>6. early' = {} => early = {} /\ id <= heard
  BY <1>1, <1>3
<1>7. TypeOK'
  <2>1. /\ posts' \subseteq Ids /\ removed' \subseteq Ids /\ early' \subseteq removed'
    BY <1>1, <1>3 DEF IInv, TypeOK
  <2> QED
    BY <1>1, <1>5, <2>1 DEF IInv, TypeOK
<1>8. newest' <= MaxPosts /\ newest' <= heard' + MaxBacklog
  BY <1>1 DEF IInv
<1>9. RemovedHeard'
  BY <1>1, <1>6 DEF IInv, RemovedHeard
<1>10. AnnouncedListed'
  BY <1>1, <1>4, <1>5 DEF IInv, AnnouncedListed
<1>11. BlocksSound'
  <2>1. /\ AllListed \subseteq 1..newest /\ WholeIn(blocks, OldLive) /\ ToppedIn(blocks, OldLive)
        /\ early = {} => AllDecreasing(blocks) /\ HeardIn(blocks, heard)
    BY DEF IInv, BlocksSound
  <2>2. /\ WholeIn(blocks', OldLive \ {id}) /\ ToppedIn(blocks', OldLive \ {id})
        /\ early' = {} => AllDecreasing(blocks') /\ HeardIn(blocks', heard)
    BY <1>2, <1>3, <1>6, <2>1, RemovedKeeps
  <2>3. AllListed' \subseteq 1..newest'
    BY <1>1, <1>5, <2>1
  <2> QED
    BY <1>1, <1>4, <2>2, <2>3 DEF BlocksSound, WholeIn, ToppedIn, AllDecreasing, HeardIn
<1>12. ASSUME NEW r \in requests
       PROVE  RequestSound(r)'
  <2>1. RequestSound(r) /\ r \in RequestRecords
    BY <1>3 DEF IInv
  <2>2. newest <= newest' /\ heard <= heard' /\ Initial <= newest
    BY <1>1, <1>3
  <2>3. removed \subseteq removed' /\ AllListed \cup removed \subseteq AllListed' \cup removed'
    BY <1>1, <1>5
  <2> QED
    BY <1>1, <1>3, <1>6, <2>1, <2>2, <2>3, SoundStays
<1>13. KeptPosts'
  <2> SUFFICES ASSUME early' = {}, Returned' = {}
               PROVE  posts' \ dropped' \subseteq AllListed'
    BY DEF KeptPosts
  <2>1. Returned = {}
    BY <1>1, <1>5 DEF Returned
  <2>2. posts \ dropped \subseteq AllListed
    BY <1>6, <2>1 DEF IInv, KeptPosts
  <2> QED
    BY <1>1, <1>5, <2>2
<1> QED
  BY <1>1, <1>7, <1>8, <1>9, <1>10, <1>11, <1>12, <1>13 DEF IInv

-----------------------------------------------------------------------------
\* The theorems.

LEMMA Stepping == IInv /\ [Next]_vars => IInv'
<1> SUFFICES ASSUME IInv, [Next]_vars PROVE IInv'
  OBVIOUS
<1>1. CASE OtherPosts
  BY <1>1, OtherPostsKeeps
<1>2. ASSUME NEW r \in requests, Answer(r)
      PROVE  IInv'
  BY <1>2, AnswerKeeps
<1>3. CASE LoadMissingPosts
  BY <1>3, LoadMissingPostsKeeps
<1>4. CASE HandleNewPost
  BY <1>4, HandleNewPostKeeps
<1>5. CASE \/ \E a \in 1..(MaxPosts + 1) : LoadUnreads(a)
           \/ LoadLatestPosts
           \/ \E id \in 1..MaxPosts : LoadPostsAround(id)
           \/ \E i \in DOMAIN blocks : GetPostsBefore(i) \/ GetPostsAfter(i)
  BY <1>5, AskingKeeps
<1>6. ASSUME NEW id \in 1..MaxPosts, RemovePost(id)
      PROVE  IInv'
  BY <1>6, RemovePostKeeps
<1>7. CASE JumpToRecent
  BY <1>7, JumpToRecentKeeps
<1>8. ASSUME NEW r \in requests, Receive(r)
      PROVE  IInv'
  BY <1>8, ReceiveKeeps
<1>9. ASSUME NEW r \in requests, Fail(r)
      PROVE  IInv'
  BY <1>9, FailKeeps
<1>10. CASE UNCHANGED vars
  <2>1. /\ UNCHANGED <<newest, heard, posts, loaded, blocks, removed, history>>
        /\ atRecent' = atRecent /\ missingId' = missingId /\ fails' = fails
        /\ requests' = requests
    BY <1>10 DEF vars, history
  <2>2. atRecent' \in BOOLEAN /\ missingId' \in Ids \cup {None} /\ fails' \in Nat
    BY <2>1 DEF IInv, TypeOK
  <2>3. \A q \in requests' : q \in RequestRecords /\ RequestSound(q)
    BY <2>1, Numbers DEF IInv
  <2> QED
    BY <2>1, <2>2, <2>3, Steady
<1> QED
  BY <1>1, <1>2, <1>3, <1>4, <1>5, <1>6, <1>7, <1>8, <1>9, <1>10 DEF Next

LEMMA Invariance == Spec => []IInv
<1>1. Init => IInv
  BY Starting
<1>2. IInv /\ [Next]_vars => IInv'
  BY Stepping
<1> QED
  BY <1>1, <1>2, PTL DEF Spec

\* The variables keep their types: a page never lists a post the channel does
\* not have, whatever the reducer makes of it.
THEOREM TypeCorrect == Spec => []TypeOK
<1>1. IInv => TypeOK
  BY DEF IInv
<1> QED
  BY <1>1, Invariance, PTL

\* Blocks stay listed from their newest to their oldest post through every
\* merge, though a new post is only put first.
THEOREM AlwaysSorted == Spec => []OrdersSorted
<1>1. IInv => OrdersSorted
  BY DEF IInv, BlocksSound, OrdersSorted, AllDecreasing, Decreasing
<1> QED
  BY <1>1, Invariance, PTL

\* No page makes the store forget in which block a post is.
THEOREM NothingUnlisted == Spec => []KeptPosts
<1>1. IInv => KeptPosts
  BY DEF IInv
<1> QED
  BY <1>1, Invariance, PTL

\* mergePostBlocks never joins two blocks across posts that were not received.
THEOREM NoHiddenHole == Spec => []OneBlockIsWhole
<1>1. IInv => OneBlockIsWhole
  <2> SUFFICES ASSUME IInv, Len(blocks) = 1, NEW x \in Holes(blocks[1]), x <= heard, x \notin dropped
               PROVE  FALSE
    <3>1. \A x \in Holes(blocks[1]) : x \in Nat
      BY DEF Holes, Live
    <3>2. IInv => heard \in Nat
      BY Numbers DEF IInv
    <3>3. \A x, h \in Nat : x > h \/ x <= h
      OBVIOUS
    <3> QED
      BY <3>1, <3>2, <3>3 DEF OneBlockIsWhole
  <2> DEFINE b == blocks[1]
  <2>1. /\ Initial \in Nat /\ heard \in Nat /\ blocks \in Seq(BlockRecords)
    BY Numbers DEF IInv
  <2>2. DOMAIN blocks = {1} /\ b \in BlockRecords
    BY <2>1
  <2>3. AllListed = Listed(b) /\ ListedOf(blocks) = Listed(b)
    BY <2>2 DEF AllListed, ListedOf
  <2>4. /\ x \in Live /\ x \notin Listed(b) /\ Listed(b) # {}
        /\ x < Head(b.order) /\ x > Last(b.order) /\ x \in Nat
    BY DEF Holes, Live
  <2>5. /\ Head(b.order) \in Listed(b) /\ Last(b.order) \in Listed(b)
        /\ Listed(b) \in SUBSET Nat
    BY <2>2, <2>4, BlockProperties
  <2>6. CASE x <= Initial
    <3>1. x \in OldLive
      BY <2>4, <2>6 DEF OldLive
    <3>2. Last(b.order) < x
      BY <2>4, <2>5
    <3>3. WholeIn(blocks, OldLive)
      BY DEF IInv, BlocksSound
    <3>4. x \in ListedOf(blocks)
      BY <2>2, <2>4, <2>5, <3>1, <3>2, <3>3 DEF WholeIn
    <3> QED
      BY <2>3, <2>4, <3>4
  <2>7. CASE ~(x <= Initial)
    <3>1. x \in (Initial + 1)..heard
      BY <2>1, <2>4, <2>7
    <3>2. x \in AllListed
      BY <2>4, <3>1 DEF IInv, AnnouncedListed
    <3> QED
      BY <2>3, <2>4, <3>2
  <2> QED
    BY <2>6, <2>7
<1> QED
  BY <1>1, Invariance, PTL
=============================================================================
