------------------------- MODULE PostSendingProofs -------------------------
(***************************************************************************)
(* The invariants of PostSending, proved for any drafts, any number of     *)
(* attempts and of posts by others, with and without collapsed reply       *)
(* threads.                                                                *)
(*                                                                         *)
(* None of them is inductive.  The channel shows no post twice because the *)
(* answer of a request finds its post not yet there whenever it finds the  *)
(* pending post there (AnswerNotShown), which rests on there being one     *)
(* request per draft, and that rests on the mark in pendingPostIds, which  *)
(* an open request can lose only together with its stored post             *)
(* (SendingMarked).                                                        *)
(***************************************************************************)
EXTENDS PostSending, SequenceTheorems, FiniteSetTheorems, TLAPS

-----------------------------------------------------------------------------
\* Sequences.

\* The members of two sequences put behind each other.
LEMMA ToSetConcat ==
  ASSUME NEW S, NEW s \in Seq(S), NEW t \in Seq(S)
  PROVE  ToSet(s \o t) = ToSet(s) \cup ToSet(t)
<1>1. ASSUME NEW x \in ToSet(s \o t)
      PROVE  x \in ToSet(s) \cup ToSet(t)
  <2>1. PICK i \in 1..(Len(s) + Len(t)) : x = (s \o t)[i]
    BY <1>1, ConcatProperties DEF ToSet
  <2>2. CASE i <= Len(s)
    BY <2>1, <2>2 DEF ToSet
  <2>3. CASE i > Len(s)
    BY <2>1, <2>3 DEF ToSet
  <2> QED
    BY <2>1, <2>2, <2>3
<1>2. ASSUME NEW x \in ToSet(s)
      PROVE  x \in ToSet(s \o t)
  BY <1>2, ConcatProperties DEF ToSet
<1>3. ASSUME NEW x \in ToSet(t)
      PROVE  x \in ToSet(s \o t)
  <2>1. PICK i \in 1..Len(t) : x = t[i]
    BY <1>3 DEF ToSet
  <2>2. x = (s \o t)[Len(s) + i] /\ Len(s) + i \in 1..Len(s \o t)
    BY <2>1, ConcatProperties
  <2> QED
    BY <2>2, ConcatProperties DEF ToSet
<1> QED
  BY <1>1, <1>2, <1>3

\* A listing of a finite set is a sequence of its members, each once.
LEMMA ListingProperties ==
  ASSUME NEW S, IsFiniteSet(S), NEW s \in SetToSeqs(S)
  PROVE  /\ s \in Seq(S)
         /\ ToSet(s) = S
         /\ IsInjective(s)
<1> DEFINE n == Cardinality(S)
<1>1. n \in Nat
  BY FS_CardinalityType
<1>2. s \in [1..n -> S] /\ \A i, j \in 1..n : i # j => s[i] # s[j]
  BY DEF SetToSeqs
<1>3. s \in Seq(S) /\ Len(s) = n
  BY <1>1, <1>2
<1>4. s \in Injection(1..n, S)
  BY <1>2 DEF Injection, IsInjective
<1>5. Cardinality(1..n) = n
  BY <1>1, FS_Interval
<1>6. s \in Surjection(1..n, S)
  BY <1>4, <1>5, FS_Injection
<1>7. ToSet(s) = S
  BY <1>2, <1>6 DEF Surjection, ToSet
<1> QED
  BY <1>2, <1>3, <1>7 DEF IsInjective

\* Dropping one entry forgets no other entry and moves up those behind it.
LEMMA RemoveAtProperties ==
  ASSUME NEW S, NEW s \in Seq(S), NEW k \in 1..Len(s)
  PROVE  /\ RemoveAt(s, k) \in Seq(S)
         /\ Len(RemoveAt(s, k)) = Len(s) - 1
         /\ \A i \in 1..(Len(s) - 1) :
              RemoveAt(s, k)[i] = IF i < k THEN s[i] ELSE s[i + 1]
         /\ \A i \in 1..Len(RemoveAt(s, k)) : \E j \in 1..Len(s) : RemoveAt(s, k)[i] = s[j]
         /\ \A j \in 1..Len(s) \ {k} : \E i \in 1..Len(RemoveAt(s, k)) : RemoveAt(s, k)[i] = s[j]
<1> DEFINE a == SubSeq(s, 1, k - 1)
           b == SubSeq(s, k + 1, Len(s))
           r == a \o b
<1>1. a \in Seq(S) /\ Len(a) = k - 1 /\ \A i \in 1..(k - 1) : a[i] = s[i]
  OBVIOUS
<1>2. b \in Seq(S) /\ Len(b) = Len(s) - k /\ \A i \in 1..(Len(s) - k) : b[i] = s[k + i]
  OBVIOUS
<1> HIDE DEF a, b
<1>3. /\ r \in Seq(S)
      /\ Len(r) = Len(s) - 1
      /\ \A i \in 1..(Len(s) - 1) : r[i] = IF i < k THEN s[i] ELSE s[i + 1]
  <2>1. /\ r \in Seq(S)
        /\ Len(r) = Len(a) + Len(b)
        /\ \A i \in 1..(Len(a) + Len(b)) :
             r[i] = IF i <= Len(a) THEN a[i] ELSE b[i - Len(a)]
    BY <1>1, <1>2, ConcatProperties
  <2> HIDE DEF r
  <2> DEFINE n == Len(s)
             p == Len(a)
             q == Len(b)
  <2>2. n \in Nat /\ p = k - 1 /\ q = n - k /\ k \in 1..n
    BY <1>1, <1>2, LenProperties
  <2> HIDE DEF n, p, q
  <2>5. /\ \A i \in 1..(n - 1) : i < k => r[i] = a[i]
        /\ \A i \in 1..(n - 1) : ~(i < k) => r[i] = b[i - p]
    <3>1. \A i \in 1..(p + q) : r[i] = IF i <= p THEN a[i] ELSE b[i - p]
      BY <2>1 DEF p, q
    <3>2. p + q = n - 1 /\ \A i \in Int : i < k <=> i <= p
      BY <2>2
    <3> QED
      BY <3>1, <3>2
  <2>3. ASSUME NEW i \in 1..(n - 1), i < k
        PROVE  r[i] = s[i]
    <3>1. i \in 1..(k - 1)
      BY <2>2, <2>3
    <3> QED
      BY <1>1, <2>3, <2>5, <3>1
  <2>4. ASSUME NEW i \in 1..(n - 1), ~(i < k)
        PROVE  r[i] = s[i + 1]
    <3>1. i - p \in 1..(n - k) /\ k + (i - p) = i + 1
      BY <2>2, <2>4
    <3>2. b[i - p] = s[k + (i - p)]
      BY <1>2, <3>1 DEF n
    <3> QED
      BY <2>4, <2>5, <3>1, <3>2
  <2>6. Len(r) = n - 1
    BY <2>1, <2>2 DEF p, q
  <2> QED
    BY <2>1, <2>3, <2>4, <2>6 DEF n
<1> HIDE DEF r
<1>4. \A i \in 1..Len(r) : \E j \in 1..Len(s) : r[i] = s[j]
  <2> TAKE i \in 1..Len(r)
  <2>1. CASE i < k
    BY <1>3, <2>1
  <2>2. CASE ~(i < k)
    BY <1>3, <2>2
  <2> QED
    BY <2>1, <2>2
<1>5. \A j \in 1..Len(s) \ {k} : \E i \in 1..Len(r) : r[i] = s[j]
  <2> TAKE j \in 1..Len(s) \ {k}
  <2>1. CASE j < k
    BY <1>3, <2>1
  <2>2. CASE ~(j < k)
    <3>1. j - 1 \in 1..Len(r) /\ r[j - 1] = s[j]
      BY <1>3, <2>2
    <3> QED
      BY <3>1
  <2> QED
    BY <2>1, <2>2
<1> QED
  BY <1>3, <1>4, <1>5 DEF RemoveAt, r, a, b

\* Dropping one entry of a sequence that holds each value once.
LEMMA RemoveAtInjective ==
  ASSUME NEW S, NEW s \in Seq(S), IsInjective(s), NEW k \in 1..Len(s)
  PROVE  /\ IsInjective(RemoveAt(s, k))
         /\ ToSet(RemoveAt(s, k)) = ToSet(s) \ {s[k]}
<1> DEFINE r == RemoveAt(s, k)
           n == Len(s)
<1>1. /\ r \in Seq(S) /\ Len(r) = n - 1
      /\ \A i \in 1..(n - 1) : r[i] = IF i < k THEN s[i] ELSE s[i + 1]
      /\ \A j \in 1..n \ {k} : \E i \in 1..Len(r) : r[i] = s[j]
  BY RemoveAtProperties
<1>2. n \in Nat /\ DOMAIN s = 1..n /\ \A i, j \in 1..n : s[i] = s[j] => i = j
  BY DEF IsInjective
<1>8. DOMAIN r = 1..(n - 1)
  BY <1>1
<1> HIDE DEF r, n
<1>3. \A i \in 1..(n - 1) : /\ i < k => r[i] = s[i]
                            /\ ~(i < k) => r[i] = s[i + 1]
  BY <1>1
<1>4. k \in 1..n
  BY DEF n
<1>5. IsInjective(r)
  <2> SUFFICES ASSUME NEW i \in 1..(n - 1), NEW j \in 1..(n - 1), r[i] = r[j]
               PROVE  i = j
    BY <1>8 DEF IsInjective
  <2>1. CASE i < k /\ j < k
    BY <1>2, <1>3, <1>4, <2>1
  <2>2. CASE i < k /\ ~(j < k)
    BY <1>2, <1>3, <1>4, <2>2
  <2>3. CASE ~(i < k) /\ j < k
    BY <1>2, <1>3, <1>4, <2>3
  <2>4. CASE ~(i < k) /\ ~(j < k)
    BY <1>2, <1>3, <1>4, <2>4
  <2> QED
    BY <2>1, <2>2, <2>3, <2>4
<1>6. ASSUME NEW x \in ToSet(r)
      PROVE  x \in ToSet(s) \ {s[k]}
  <2>1. PICK i \in 1..(n - 1) : x = r[i]
    BY <1>6, <1>8 DEF ToSet
  <2>2. PICK j \in 1..n \ {k} : x = s[j]
    <3>1. CASE i < k
      BY <1>2, <1>3, <1>4, <2>1, <3>1
    <3>2. CASE ~(i < k)
      BY <1>2, <1>3, <1>4, <2>1, <3>2
    <3> QED
      BY <3>1, <3>2
  <2>3. x # s[k]
    BY <1>2, <1>4, <2>2
  <2>4. x \in ToSet(s)
    BY <1>2, <2>2 DEF ToSet
  <2> QED
    BY <2>3, <2>4
<1>7. ASSUME NEW x \in ToSet(s) \ {s[k]}
      PROVE  x \in ToSet(r)
  <2>1. PICK j \in 1..n : x = s[j]
    BY <1>2, <1>7 DEF ToSet
  <2>2. PICK i \in 1..Len(r) : r[i] = s[j]
    BY <1>1, <1>7, <2>1
  <2>3. i \in DOMAIN r
    BY <1>1, <1>8, <2>2
  <2> QED
    BY <2>1, <2>2, <2>3 DEF ToSet
<1> QED
  BY <1>5, <1>6, <1>7 DEF r

\* Putting two sequences without common or repeated values behind each other.
LEMMA ConcatInjective ==
  ASSUME NEW S, NEW s \in Seq(S), NEW t \in Seq(S),
         IsInjective(s), IsInjective(t), ToSet(s) \cap ToSet(t) = {}
  PROVE  IsInjective(s \o t)
<1> DEFINE m == Len(s)
           n == Len(t)
           u == s \o t
<1>1. /\ m \in Nat /\ n \in Nat
      /\ u \in Seq(S) /\ Len(u) = m + n
      /\ \A i \in 1..(m + n) : u[i] = IF i <= m THEN s[i] ELSE t[i - m]
  BY ConcatProperties
<1>2. /\ \A i, j \in 1..m : s[i] = s[j] => i = j
      /\ \A i, j \in 1..n : t[i] = t[j] => i = j
      /\ \A i \in 1..m, j \in 1..n : s[i] # t[j]
  BY DEF IsInjective, ToSet
<1> HIDE DEF u, m, n
<1>3. \A i \in 1..(m + n) : /\ i <= m => u[i] = s[i]
                            /\ ~(i <= m) => u[i] = t[i - m]
  BY <1>1
<1>4. ASSUME NEW i \in 1..(m + n), NEW j \in 1..(m + n), u[i] = u[j]
      PROVE  i = j
  <2>1. CASE i <= m /\ j <= m
    BY <1>1, <1>2, <1>3, <1>4, <2>1
  <2>2. CASE i <= m /\ ~(j <= m)
    <3>1. i \in 1..m /\ j - m \in 1..n
      BY <1>1, <2>2
    <3> QED
      BY <1>2, <1>3, <1>4, <2>2, <3>1
  <2>3. CASE ~(i <= m) /\ j <= m
    <3>1. i - m \in 1..n /\ j \in 1..m
      BY <1>1, <2>3
    <3> QED
      BY <1>2, <1>3, <1>4, <2>3, <3>1
  <2>4. CASE ~(i <= m) /\ ~(j <= m)
    <3>1. i - m \in 1..n /\ j - m \in 1..n
      BY <1>1, <2>4
    <3>2. i - m = j - m
      BY <1>2, <1>3, <1>4, <2>4, <3>1
    <3> QED
      BY <1>1, <3>2
  <2> QED
    BY <2>1, <2>2, <2>3, <2>4
<1> QED
  BY <1>1, <1>4 DEF IsInjective, u

\* Reading a sequence at chosen places, each once and in any order.
LEMMA ReadAtProperties ==
  ASSUME NEW S, NEW s \in Seq(S), NEW D \in SUBSET (1..Len(s)), NEW p \in SetToSeqs(D)
  PROVE  LET t == [i \in 1..Cardinality(D) |-> s[p[i]]]
         IN  /\ t \in Seq(S)
             /\ ToSet(t) = {s[i] : i \in D}
             /\ IsInjective(s) => IsInjective(t)
<1> DEFINE n == Cardinality(D)
           t == [i \in 1..n |-> s[p[i]]]
<1>1. IsFiniteSet(D) /\ n \in Nat
  <2>1. IsFiniteSet(1..Len(s))
    BY FS_Interval
  <2>2. IsFiniteSet(D)
    BY <2>1, FS_Subset
  <2> QED
    BY <2>2, FS_CardinalityType
<1>2. p \in [1..n -> D] /\ ToSet(p) = D /\ \A i, j \in 1..n : i # j => p[i] # p[j]
  BY <1>1, ListingProperties DEF SetToSeqs
<1> HIDE DEF n
<1>3. \A i \in 1..n : p[i] \in D /\ p[i] \in 1..Len(s) /\ s[p[i]] \in S
  <2> TAKE i \in 1..n
  <2>1. p[i] \in D
    BY <1>2
  <2>2. p[i] \in 1..Len(s)
    BY <2>1
  <2> QED
    BY <2>1, <2>2, ElementOfSeq
<1>4. t \in [1..n -> S]
  BY <1>3
<1>5. t \in Seq(S)
  BY <1>1, <1>4
<1>6. ToSet(t) = {s[i] : i \in D}
  <2>1. ToSet(t) = {s[p[i]] : i \in 1..n}
    BY <1>4 DEF ToSet
  <2>2. D = {p[i] : i \in 1..n}
    BY <1>2 DEF ToSet
  <2> QED
    BY <2>1, <2>2
<1>7. ASSUME IsInjective(s), NEW i \in 1..n, NEW j \in 1..n, t[i] = t[j]
      PROVE  i = j
  <2>1. s[p[i]] = s[p[j]]
    BY <1>7
  <2>2. p[i] = p[j]
    BY <1>3, <1>7, <2>1 DEF IsInjective
  <2> QED
    BY <1>2, <2>2
<1>8. IsInjective(s) => IsInjective(t)
  BY <1>7 DEF IsInjective
<1> QED
  BY <1>5, <1>6, <1>8 DEF n

-----------------------------------------------------------------------------

\* Every server post has the root of its draft, every event and every answer
\* is about a server post, and what was never sent is not on the server.
RemoteConsistent ==
  /\ Root \in DOMAIN server
  /\ \A id \in DOMAIN server : server[id].root = RootOf(server[id].draft)
  /\ \A k \in 1..Len(events) : events[k].id \in DOMAIN server
  /\ deletions \subseteq DOMAIN server
  /\ \A r \in requests :
       /\ attempts[r.draft] > 0
       /\ r.outcome = "created" => r.id \in DOMAIN server /\ server[r.id].draft = r.draft
  /\ \A id \in DOMAIN server : server[id].draft # None => attempts[server[id].draft] > 0

\* The channel and the thread hold each post once, hold what is stored, and
\* hold a draft where its root says.
Placed ==
  /\ NoDuplicates
  /\ StoredBeforeShown
  /\ thread \cap Drafts \subseteq Replies
  /\ CRT => ToSet(order) \cap Replies = {}

\* The store knows no server post the server does not know.
KnownPosts == DOMAIN posts \cap Nat \subseteq DOMAIN server

SendingMarked ==
  \A r \in requests : r.open => r.draft \in pendingPostIds \/ r.draft \notin DOMAIN posts

AnswerNotShown ==
  \A r \in requests :
    r.open /\ r.outcome = "created" /\ r.draft \in ToSet(order) => r.id \notin ToSet(order)

Inv ==
  /\ TypeOK
  /\ RemoteConsistent
  /\ Placed
  /\ KnownPosts
  /\ OneRequestPerDraft
  /\ SendingMarked
  /\ AnswerNotShown
  /\ NoTwinRoot

-----------------------------------------------------------------------------
\* The orders the reducers make.

\* Sorting keeps what is listed, each as often as before.
LEMMA SortedProperties ==
  ASSUME NEW S, NEW s \in Seq(S), NEW ps, NEW t \in SortedBy(s, ps)
  PROVE  /\ t \in Seq(S)
         /\ ToSet(t) = ToSet(s)
         /\ IsInjective(s) => IsInjective(t)
<1>1. PICK p \in SetToSeqs(DOMAIN s) : t = [i \in DOMAIN s |-> s[p[i]]]
  BY DEF SortedBy
<1>2. DOMAIN s = 1..Len(s) /\ Len(s) \in Nat
  OBVIOUS
<1>3. Cardinality(DOMAIN s) = Len(s)
  <2>1. \A n \in Nat : Cardinality(1..n) = n
    <3>1. \A n \in Nat : Cardinality(1..n) = IF 1 > n THEN 0 ELSE n - 1 + 1
      BY FS_Interval
    <3> QED
      BY <3>1
  <2> QED
    BY <1>2, <2>1
<1>4. t = [i \in 1..Cardinality(DOMAIN s) |-> s[p[i]]]
  BY <1>1, <1>2, <1>3
<1> DEFINE D == DOMAIN s
<1>5. D \in SUBSET (1..Len(s))
  BY <1>2
<1>6. ToSet(s) = {s[i] : i \in D}
  BY DEF ToSet
<1>7. p \in SetToSeqs(D) /\ t = [i \in 1..Cardinality(D) |-> s[p[i]]]
  BY <1>4
<1> HIDE DEF D
<1>8. LET u == [i \in 1..Cardinality(D) |-> s[p[i]]]
      IN  /\ u \in Seq(S)
          /\ ToSet(u) = {s[i] : i \in D}
          /\ IsInjective(s) => IsInjective(u)
  BY <1>5, <1>7, ReadAtProperties
<1> QED
  BY <1>6, <1>7, <1>8

\* Filtering drops what is gone and nothing else.
LEMMA FilteredProperties ==
  ASSUME NEW S, NEW s \in Seq(S), NEW gone, NEW t \in FilteredFrom(s, gone)
  PROVE  /\ t \in Seq(S)
         /\ ToSet(t) = ToSet(s) \ gone
         /\ IsInjective(s) => IsInjective(t)
<1> DEFINE kept == {i \in DOMAIN s : s[i] \notin gone}
<1>1. PICK p \in SetToSeqs(kept) : t = [i \in 1..Cardinality(kept) |-> s[p[i]]]
  BY DEF FilteredFrom
<1>2. kept \in SUBSET (1..Len(s))
  OBVIOUS
<1>3. {s[i] : i \in kept} = ToSet(s) \ gone
  BY DEF ToSet
<1> HIDE DEF kept
<1>4. LET u == [i \in 1..Cardinality(kept) |-> s[p[i]]]
      IN  /\ u \in Seq(S)
          /\ ToSet(u) = {s[i] : i \in kept}
          /\ IsInjective(s) => IsInjective(u)
  BY <1>1, <1>2, ReadAtProperties
<1> QED
  BY <1>1, <1>3, <1>4

\* RECEIVED_NEW_POST puts the post into the channel in place of its pending
\* post.
LEMMA OrderNewPostProperties ==
  ASSUME order \in Seq(Ids), NoDuplicates, NEW p \in PostRecords, OrderNewPost(p)
  PROVE  /\ order' \in Seq(Ids)
         /\ NoDuplicates'
         /\ InChannel(p) => ToSet(order') = (ToSet(order) \cup {p.id}) \ Replaced(p)
         /\ ~InChannel(p) => order' = order
<1> DEFINE ext == IF p.id \in ToSet(order) THEN order ELSE Cons(p.id, order)
<1>1. p.id \in Ids
  BY DEF PostRecords
<1>2. /\ ext \in Seq(Ids)
      /\ IsInjective(ext)
      /\ ToSet(ext) = ToSet(order) \cup {p.id}
  <2>1. CASE p.id \in ToSet(order)
    BY <2>1 DEF NoDuplicates
  <2>2. CASE p.id \notin ToSet(order)
    <3>1. /\ <<p.id>> \in Seq(Ids)
          /\ IsInjective(<<p.id>>)
          /\ ToSet(<<p.id>>) = {p.id}
      BY <1>1 DEF IsInjective, ToSet
    <3>2. ext = <<p.id>> \o order
      BY <2>2 DEF Cons
    <3> HIDE DEF ext
    <3>5. ext \in Seq(Ids)
      BY <3>1, <3>2
    <3> DEFINE one == <<p.id>>
    <3>7. one \in Seq(Ids)
      BY <3>1
    <3> HIDE DEF one
    <3>6. ToSet(one \o order) = ToSet(one) \cup ToSet(order)
      BY <3>7, ToSetConcat
    <3>3. ToSet(ext) = {p.id} \cup ToSet(order)
      BY <3>1, <3>2, <3>6 DEF one
    <3>4. IsInjective(ext)
      BY <2>2, <3>1, <3>2, ConcatInjective DEF NoDuplicates
    <3> QED
      BY <3>3, <3>4, <3>5
  <2> QED
    BY <2>1, <2>2
<1>3. p.id \notin Replaced(p)
  BY DEF Replaced
<1> HIDE DEF ext
<1>4. CASE ~InChannel(p)
  BY <1>4 DEF OrderNewPost, NoDuplicates
<1>5. CASE InChannel(p) /\ Replaced(p) \cap ToSet(ext) = {}
  <2>1. order' = ext
    BY <1>5 DEF OrderNewPost, ext
  <2>2. ToSet(ext) = (ToSet(order) \cup {p.id}) \ Replaced(p)
    BY <1>2, <1>5
  <2> QED
    BY <1>2, <1>5, <2>1, <2>2 DEF NoDuplicates
<1>6. CASE InChannel(p) /\ Replaced(p) \cap ToSet(ext) # {}
  <2>1. PICK i \in DOMAIN ext :
          /\ IsIndex(i, ext, p.pending)
          /\ order' \in SortedBy(RemoveAt(ext, i), posts')
    BY <1>6 DEF OrderNewPost, ext
  <2>2. i \in 1..Len(ext) /\ ext[i] = p.pending
    BY <1>2, <2>1 DEF IsIndex
  <2>3. /\ RemoveAt(ext, i) \in Seq(Ids)
        /\ IsInjective(RemoveAt(ext, i))
        /\ ToSet(RemoveAt(ext, i)) = ToSet(ext) \ {p.pending}
    BY <1>2, <2>2, RemoveAtInjective, RemoveAtProperties
  <2>4. /\ order' \in Seq(Ids)
        /\ IsInjective(order')
        /\ ToSet(order') = ToSet(ext) \ {p.pending}
    BY <2>1, <2>3, SortedProperties
  <2>5. Replaced(p) = {p.pending}
    BY <1>6 DEF Replaced
  <2> QED
    BY <1>2, <1>6, <2>4, <2>5 DEF NoDuplicates
<1> QED
  BY <1>4, <1>5, <1>6

\* RECEIVED_POST puts the post where its pending post is, and keeps each post
\* single if the post itself is not there too.
LEMMA OrderReceivedProperties ==
  ASSUME order \in Seq(Ids), NoDuplicates, NEW p \in PostRecords, OrderReceived(p),
         p.pending \in ToSet(order) => p.id = p.pending \/ p.id \notin ToSet(order)
  PROVE  /\ order' \in Seq(Ids)
         /\ NoDuplicates'
         /\ InChannel(p) /\ p.pending \in ToSet(order) =>
              ToSet(order') = (ToSet(order) \ {p.pending}) \cup {p.id}
         /\ ~(InChannel(p) /\ p.pending \in ToSet(order)) => order' = order
<1>1. CASE ~(InChannel(p) /\ p.pending \in ToSet(order))
  BY <1>1 DEF OrderReceived, NoDuplicates
<1>2. CASE InChannel(p) /\ p.pending \in ToSet(order)
  <2>1. PICK k \in DOMAIN order :
          /\ IsIndex(k, order, p.pending)
          /\ order' = ReplaceAt(order, k, p.id)
    BY <1>2 DEF OrderReceived
  <2>2. order[k] = p.pending
    BY <2>1 DEF IsIndex
  <2>3. /\ order' \in Seq(Ids)
        /\ DOMAIN order' = DOMAIN order
        /\ \A i \in DOMAIN order : order'[i] = IF i = k THEN p.id ELSE order[i]
    <3>1. p.id \in Ids
      BY DEF PostRecords
    <3> QED
      BY <2>1, <3>1 DEF ReplaceAt
  <2>4. \A i, j \in DOMAIN order : order[i] = order[j] => i = j
    BY DEF NoDuplicates, IsInjective
  <2>5. \A i \in DOMAIN order : i # k => order[i] # p.id
    <3> SUFFICES ASSUME NEW i \in DOMAIN order, i # k, order[i] = p.id
                 PROVE  FALSE
      OBVIOUS
    <3>1. p.id \in ToSet(order)
      BY DEF ToSet
    <3> QED
      BY <1>2, <2>2, <2>4, <3>1
  <2>6. NoDuplicates'
    BY <2>3, <2>4, <2>5 DEF NoDuplicates, IsInjective
  <2>7. ToSet(order') = (ToSet(order) \ {p.pending}) \cup {p.id}
    BY <2>2, <2>3, <2>4 DEF ToSet
  <2> QED
    BY <1>2, <2>3, <2>6, <2>7
<1> QED
  BY <1>1, <1>2

-----------------------------------------------------------------------------
\* What the reducers do to the store as a whole.

StoreTyped ==
  /\ DOMAIN posts \subseteq Ids
  /\ posts \in [DOMAIN posts -> PostRecords]
  /\ order \in Seq(Ids)
  /\ thread \subseteq Ids
  /\ pendingPostIds \subseteq Drafts

\* A post the client is given: its root is that of its draft.
Received(p) ==
  /\ p \in PostRecords
  /\ p.root = RootOf(p.pending)
  /\ p.id \in Drafts => p.id = p.pending

LEMMA PostsWithProperties ==
  ASSUME StoreTyped, NEW p, Received(p)
  PROVE  /\ DOMAIN PostsWith(p) \subseteq Ids
         /\ PostsWith(p) \in [DOMAIN PostsWith(p) -> PostRecords]
         /\ p.id \in DOMAIN PostsWith(p)
         /\ DOMAIN PostsWith(p) \subseteq DOMAIN posts \cup {p.id}
         /\ DOMAIN posts \subseteq DOMAIN PostsWith(p) \cup Replaced(p)
<1>1. p.id \in Ids /\ p.id \notin Replaced(p)
  BY DEF Received, PostRecords, Replaced
<1>2. CASE p.id \in DOMAIN posts /\ ~PendingOrFailed(p)
  BY <1>1, <1>2 DEF PostsWith, StoreTyped
<1>3. CASE ~(p.id \in DOMAIN posts /\ ~PendingOrFailed(p))
  <2> DEFINE D == (DOMAIN posts \cup {p.id}) \ Replaced(p)
  <2>1. PostsWith(p) = [x \in D |-> IF x = p.id THEN p ELSE posts[x]]
    BY <1>3 DEF PostsWith
  <2>2. D \subseteq Ids /\ p.id \in D
    BY <1>1 DEF StoreTyped
  <2>3. \A x \in D : (IF x = p.id THEN p ELSE posts[x]) \in PostRecords
    BY DEF StoreTyped, Received
  <2>4. DOMAIN PostsWith(p) = D
    BY <2>1
  <2>5. PostsWith(p) \in [D -> PostRecords]
    BY <2>1, <2>3
  <2> QED
    BY <2>2, <2>4, <2>5
<1> QED
  BY <1>2, <1>3

\* A reply is recognised by the draft it came from.
LEMMA ReceivedReply ==
  ASSUME NEW p, Received(p)
  PROVE  /\ p.root = None <=> p.pending \notin Replies
         /\ Replaced(p) \subseteq Drafts
         /\ p.pending \in Drafts \cup {None}
         /\ p.id \in Ids
BY SendingAssumption DEF Received, PostRecords, RootOf, None, Root, Replaced

\* Both receiving reducers leave the thread with stored posts only, and with
\* drafts that are replies.
LEMMA ThreadProperties ==
  ASSUME StoreTyped, Placed, NEW p, Received(p),
         posts' = PostsWith(p), thread' = ThreadWith(p)
  PROVE  /\ thread' \subseteq Ids
         /\ thread' \subseteq DOMAIN posts'
         /\ thread' \cap Drafts \subseteq Replies
<1>1. /\ p.id \in DOMAIN posts'
      /\ DOMAIN posts \subseteq DOMAIN posts' \cup Replaced(p)
  BY PostsWithProperties
<1>2. CASE p.root = None
  <2>1. thread' = thread
    BY <1>2 DEF ThreadWith
  <2>2. Replaced(p) \cap thread = {}
    BY <1>2, ReceivedReply DEF Placed, Replaced
  <2> QED
    BY <1>1, <2>1, <2>2 DEF StoreTyped, Placed, StoredBeforeShown
<1>3. CASE p.root # None
  <2>1. thread' = (thread \cup {p.id}) \ Replaced(p)
    BY <1>3 DEF ThreadWith
  <2>2. p.id \in Drafts => p.id \in Replies
    BY <1>3, ReceivedReply DEF Received
  <2> QED
    BY <1>1, <2>1, <2>2, ReceivedReply DEF StoreTyped, Placed, StoredBeforeShown
<1> QED
  BY <1>2, <1>3

LEMMA ReceiveNewPostStore ==
  ASSUME StoreTyped, Placed, NEW p, Received(p), ReceiveNewPost(p)
  PROVE  /\ StoreTyped'
         /\ Placed'
         /\ DOMAIN posts' \subseteq DOMAIN posts \cup {p.id}
         /\ ToSet(order') \subseteq (ToSet(order) \cup {p.id}) \ Replaced(p)
         /\ ~InChannel(p) => order' = order
         /\ InChannel(p) => ToSet(order') = (ToSet(order) \cup {p.id}) \ Replaced(p)
         /\ pendingPostIds' = pendingPostIds \cup ({p.pending} \ {None})
<1>1. /\ posts' = PostsWith(p)
      /\ OrderNewPost(p)
      /\ thread' = ThreadWith(p)
      /\ pendingPostIds' = pendingPostIds \cup ({p.pending} \ {None})
  BY DEF ReceiveNewPost
<1>2. /\ order' \in Seq(Ids)
      /\ NoDuplicates'
      /\ InChannel(p) => ToSet(order') = (ToSet(order) \cup {p.id}) \ Replaced(p)
      /\ ~InChannel(p) => order' = order
  BY <1>1, OrderNewPostProperties DEF StoreTyped, Placed, Received
<1>3. ~InChannel(p) => Replaced(p) \cap ToSet(order) = {}
  BY ReceivedReply DEF InChannel, Placed, Replaced
<1>4. ToSet(order') \subseteq (ToSet(order) \cup {p.id}) \ Replaced(p)
  BY <1>2, <1>3
<1>5. /\ DOMAIN posts' \subseteq Ids
      /\ posts' \in [DOMAIN posts' -> PostRecords]
      /\ p.id \in DOMAIN posts'
      /\ DOMAIN posts' \subseteq DOMAIN posts \cup {p.id}
      /\ DOMAIN posts \subseteq DOMAIN posts' \cup Replaced(p)
  BY <1>1, PostsWithProperties
<1>6. thread' \subseteq Ids /\ thread' \subseteq DOMAIN posts' /\ thread' \cap Drafts \subseteq Replies
  BY <1>1, ThreadProperties
<1>7. StoreTyped'
  BY <1>1, <1>2, <1>5, <1>6, ReceivedReply DEF StoreTyped
<1>8. ToSet(order') \subseteq DOMAIN posts'
  BY <1>4, <1>5 DEF Placed, StoredBeforeShown
<1>9. CRT => ToSet(order') \cap Replies = {}
  <2> SUFFICES ASSUME CRT
               PROVE  ToSet(order') \cap Replies = {}
    OBVIOUS
  <2>1. CASE InChannel(p)
    <3>1. p.id \notin Replies
      BY <2>1, SendingAssumption, ReceivedReply DEF InChannel, Received
    <3> QED
      BY <1>4, <3>1 DEF Placed
  <2>2. CASE ~InChannel(p)
    BY <1>2, <2>2 DEF Placed
  <2> QED
    BY <2>1, <2>2
<1> QED
  BY <1>1, <1>2, <1>4, <1>5, <1>6, <1>7, <1>8, <1>9 DEF Placed, StoredBeforeShown

LEMMA ReceivePostStore ==
  ASSUME StoreTyped, Placed, NEW p, Received(p), ReceivePost(p),
         p.pending \in ToSet(order) => p.id = p.pending \/ p.id \notin ToSet(order)
  PROVE  /\ StoreTyped'
         /\ Placed'
         /\ DOMAIN posts' \subseteq DOMAIN posts \cup {p.id}
         /\ ToSet(order') \subseteq (ToSet(order) \cup {p.id}) \ Replaced(p)
         /\ p.id \in ToSet(order') => {p.id, p.pending} \cap ToSet(order) # {}
         /\ ToSet(order) \subseteq ToSet(order') \cup {p.pending}
         /\ InChannel(p) /\ p.pending \in ToSet(order) => p.id \in ToSet(order')
         /\ pendingPostIds' = pendingPostIds \ {p.pending}
<1>1. /\ posts' = PostsWith(p)
      /\ OrderReceived(p)
      /\ thread' = ThreadWith(p)
      /\ pendingPostIds' = pendingPostIds \ {p.pending}
  BY DEF ReceivePost
<1>2. /\ order' \in Seq(Ids)
      /\ NoDuplicates'
      /\ InChannel(p) /\ p.pending \in ToSet(order) =>
           ToSet(order') = (ToSet(order) \ {p.pending}) \cup {p.id}
      /\ ~(InChannel(p) /\ p.pending \in ToSet(order)) => order' = order
  BY <1>1, OrderReceivedProperties DEF StoreTyped, Placed, Received
<1>3. ~InChannel(p) => Replaced(p) \cap ToSet(order) = {}
  BY ReceivedReply DEF InChannel, Placed, Replaced
<1>4. ToSet(order') \subseteq (ToSet(order) \cup {p.id}) \ Replaced(p)
  BY <1>2, <1>3 DEF Replaced
<1>5. /\ DOMAIN posts' \subseteq Ids
      /\ posts' \in [DOMAIN posts' -> PostRecords]
      /\ p.id \in DOMAIN posts'
      /\ DOMAIN posts' \subseteq DOMAIN posts \cup {p.id}
      /\ DOMAIN posts \subseteq DOMAIN posts' \cup Replaced(p)
  BY <1>1, PostsWithProperties
<1>6. thread' \subseteq Ids /\ thread' \subseteq DOMAIN posts' /\ thread' \cap Drafts \subseteq Replies
  BY <1>1, ThreadProperties
<1>7. StoreTyped'
  BY <1>1, <1>2, <1>5, <1>6 DEF StoreTyped
<1>8. ToSet(order') \subseteq DOMAIN posts'
  BY <1>4, <1>5 DEF Placed, StoredBeforeShown
<1>9. CRT => ToSet(order') \cap Replies = {}
  <2> SUFFICES ASSUME CRT
               PROVE  ToSet(order') \cap Replies = {}
    OBVIOUS
  <2>1. CASE InChannel(p)
    <3>1. p.id \notin Replies
      BY <2>1, SendingAssumption, ReceivedReply DEF InChannel, Received
    <3> QED
      BY <1>4, <3>1 DEF Placed
  <2>2. CASE ~InChannel(p)
    BY <1>2, <2>2 DEF Placed
  <2> QED
    BY <2>1, <2>2
<1> QED
  BY <1>1, <1>2, <1>4, <1>5, <1>6, <1>7, <1>8, <1>9 DEF Placed, StoredBeforeShown

LEMMA RemovePostStore ==
  ASSUME StoreTyped, Placed, NEW id, RemovePost(id)
  PROVE  /\ StoreTyped'
         /\ Placed'
         /\ DOMAIN posts' = DOMAIN posts \ {id}
         /\ ToSet(order') = ToSet(order) \ {id}
         /\ pendingPostIds' = pendingPostIds \ {id}
<1>1. /\ posts' = [x \in DOMAIN posts \ {id} |-> posts[x]]
      /\ order' \in FilteredFrom(order, {id})
      /\ thread' = thread \ {id}
      /\ pendingPostIds' = pendingPostIds \ {id}
  BY DEF RemovePost
<1>2. order' \in Seq(Ids) /\ ToSet(order') = ToSet(order) \ {id} /\ IsInjective(order')
  BY <1>1, FilteredProperties DEF StoreTyped, Placed, NoDuplicates
<1>3. DOMAIN posts' = DOMAIN posts \ {id} /\ posts' \in [DOMAIN posts' -> PostRecords]
  BY <1>1 DEF StoreTyped
<1>4. StoreTyped'
  BY <1>1, <1>2, <1>3 DEF StoreTyped
<1>5. Placed'
  BY <1>1, <1>2, <1>3 DEF Placed, NoDuplicates, StoredBeforeShown
<1> QED
  BY <1>1, <1>2, <1>3, <1>4, <1>5

LEMMA DeletePostStore ==
  ASSUME StoreTyped, Placed, NEW id \in Nat \ {None}, DeletePost(id)
  PROVE  /\ StoreTyped'
         /\ Placed'
         /\ DOMAIN posts' \subseteq DOMAIN posts
         /\ ToSet(order') \subseteq ToSet(order)
         /\ pendingPostIds' = pendingPostIds
<1>1. /\ id \in DOMAIN posts =>
           posts' = [x \in DOMAIN posts \ CommentsOf(id) |->
                       IF x = id THEN [posts[x] EXCEPT !.deleted = TRUE] ELSE posts[x]]
      /\ id \notin DOMAIN posts => posts' = posts
      /\ order' \in FilteredFrom(order, CommentsOf(id))
      /\ thread' = IF id = Root THEN {} ELSE thread
      /\ pendingPostIds' = pendingPostIds
  BY DEF DeletePost
<1>2. /\ order' \in Seq(Ids)
      /\ ToSet(order') = ToSet(order) \ CommentsOf(id)
      /\ IsInjective(order')
  BY <1>1, FilteredProperties DEF StoreTyped, Placed, NoDuplicates
<1>3. id # Root => CommentsOf(id) = {}
  BY DEF CommentsOf, StoreTyped, PostRecords
<1>4. /\ posts' \in [DOMAIN posts' -> PostRecords]
      /\ DOMAIN posts' \subseteq DOMAIN posts
      /\ DOMAIN posts \ CommentsOf(id) \subseteq DOMAIN posts'
  <2>1. CASE id \in DOMAIN posts
    <3> DEFINE D == DOMAIN posts \ CommentsOf(id)
               q(x) == IF x = id THEN [posts[x] EXCEPT !.deleted = TRUE] ELSE posts[x]
    <3>1. \A x \in D : q(x) \in PostRecords
      BY DEF StoreTyped, PostRecords
    <3>2. posts' = [x \in D |-> q(x)]
      BY <1>1, <2>1
    <3> HIDE DEF q
    <3>3. DOMAIN posts' = D /\ posts' \in [D -> PostRecords]
      BY <3>1, <3>2
    <3> QED
      BY <3>3
  <2>2. CASE id \notin DOMAIN posts
    BY <1>1, <2>2 DEF StoreTyped
  <2> QED
    BY <2>1, <2>2
<1>5. StoreTyped'
  BY <1>1, <1>2, <1>4 DEF StoreTyped
<1>6. StoredBeforeShown'
  BY <1>1, <1>2, <1>3, <1>4 DEF Placed, StoredBeforeShown
<1>7. Placed'
  BY <1>1, <1>2, <1>6 DEF Placed, NoDuplicates
<1> QED
  BY <1>1, <1>2, <1>4, <1>5, <1>7

-----------------------------------------------------------------------------
\* What the posts and the requests of the actions are.

LEMMA InvStore == Inv => StoreTyped /\ Placed
BY DEF Inv, TypeOK, StoreTyped

LEMMA InitInv == Init => Inv
<1> SUFFICES ASSUME Init
             PROVE  Inv
  OBVIOUS
<1>1. /\ server = <<[draft |-> None, root |-> None, deleted |-> FALSE]>>
      /\ posts = [id \in {Root} |-> Post(Root, None, None, Root, FALSE)]
      /\ order = <<Root>>
      /\ thread = {} /\ pendingPostIds = {} /\ events = <<>> /\ requests = {}
      /\ deletions = {} /\ dismissed = {}
      /\ attempts = [d \in Drafts |-> 0]
  BY DEF Init
<1>2. Root \in Ids /\ Root \in Nat /\ None \in Nat /\ None \notin Drafts /\ Root \notin Drafts
  BY SendingAssumption DEF Ids, Root, None
<1>3. server \in Seq(ServerPosts) /\ DOMAIN server = {1} /\ server[1].draft = None /\ server[1].root = None
  BY <1>1 DEF ServerPosts
<1>4. Post(Root, None, None, Root, FALSE) \in PostRecords
  BY <1>2 DEF Post, PostRecords
<1>5. DOMAIN posts = {Root} /\ posts \in [DOMAIN posts -> PostRecords]
  BY <1>1, <1>4
<1>6. order \in Seq(Ids) /\ ToSet(order) = {Root} /\ IsInjective(order)
  BY <1>1, <1>2 DEF ToSet, IsInjective
<1>7. TypeOK
  <2>1. events \in Seq([type : {"posted", "post_deleted"}, id : Nat])
    BY <1>1
  <2>2. attempts \in [Drafts -> Nat]
    BY <1>1
  <2>3. /\ thread \subseteq Ids /\ pendingPostIds \subseteq Drafts /\ requests \subseteq Requests
        /\ deletions \subseteq Nat /\ dismissed \subseteq Drafts
    BY <1>1
  <2> QED
    BY <1>2, <1>3, <1>5, <1>6, <2>1, <2>2, <2>3 DEF TypeOK
<1>8. RemoteConsistent
  BY <1>1, <1>2, <1>3, SendingAssumption DEF RemoteConsistent, RootOf, Root
<1>9. Placed
  BY <1>1, <1>2, <1>5, <1>6, SendingAssumption
  DEF Placed, NoDuplicates, StoredBeforeShown
<1>10. KnownPosts /\ OneRequestPerDraft /\ SendingMarked /\ AnswerNotShown /\ NoTwinRoot
  BY <1>1, <1>2, <1>3, <1>5, <1>6
  DEF KnownPosts, OneRequestPerDraft, SendingMarked, AnswerNotShown, NoTwinRoot, Root
<1> QED
  BY <1>7, <1>8, <1>9, <1>10 DEF Inv

LEMMA PayloadProperties ==
  ASSUME Inv, NEW id \in DOMAIN server
  PROVE  /\ Received(Payload(id))
         /\ Payload(id).id = id
         /\ Payload(id).pending = server[id].draft
         /\ server[id].draft \in Drafts \cup {None}
         /\ id \in Nat \ {None}
         /\ id \notin Drafts
         /\ Replaced(Payload(id)) = {server[id].draft} \ {None}
<1>1. id \in Nat \ {None} /\ server[id] \in ServerPosts
  BY DEF Inv, TypeOK, None
<1>2. server[id].root = RootOf(server[id].draft)
  BY DEF Inv, RemoteConsistent
<1>3. id \notin Drafts
  BY <1>1, SendingAssumption
<1>4. Payload(id) \in PostRecords
  BY <1>1 DEF Payload, Post, PostRecords, ServerPosts, Ids
<1>5. server[id].draft # id
  BY <1>1, <1>3 DEF ServerPosts
<1> QED
  BY <1>1, <1>2, <1>3, <1>4, <1>5 DEF Received, Payload, Post, ServerPosts, Replaced

LEMMA PendingProperties ==
  ASSUME NEW d \in Drafts, NEW time \in Nat, NEW failed \in BOOLEAN
  PROVE  /\ Received(PendingPost(d, time, failed))
         /\ PendingPost(d, time, failed).id = d
         /\ PendingPost(d, time, failed).pending = d
         /\ Replaced(PendingPost(d, time, failed)) = {}
         /\ d \notin Nat
         /\ d # None
<1>1. PendingPost(d, time, failed) \in PostRecords
  BY DEF PendingPost, Post, PostRecords, Ids, RootOf
<1>2. d \notin Nat /\ d # None
  BY SendingAssumption DEF None
<1> QED
  BY <1>1, <1>2 DEF Received, PendingPost, Post, Replaced

LEMMA AttemptTimeNat == AttemptTime \in Nat
<1> DEFINE D == Drafts \X (1..MaxAttempts)
           E == {e \in D : e[2] <= attempts[e[1]]}
<1>1. IsFiniteSet(1..MaxAttempts)
  BY SendingAssumption, FS_Interval
<1>2. IsFiniteSet(D)
  BY <1>1, SendingAssumption, FS_Product
<1>3. IsFiniteSet(E)
  BY <1>2, FS_Subset
<1>4. Cardinality(E) \in Nat
  BY <1>3, FS_CardinalityType
<1> QED
  BY <1>4 DEF AttemptTime

\* A request that is settled is closed, and nothing else changes about the
\* requests.
LEMMA SettleProperties ==
  ASSUME requests \subseteq Requests, NEW r \in requests, Settle(r)
  PROVE  /\ requests' \subseteq Requests
         /\ \A q \in requests' : q.open => q \in requests /\ q # r
         /\ \A q \in requests' :
              \E o \in requests : /\ q.draft = o.draft
                                  /\ q.outcome = o.outcome
                                  /\ q.id = o.id
<1> DEFINE closed == [r EXCEPT !.open = FALSE]
<1>1. requests' \subseteq (requests \ {r}) \cup {closed}
  BY DEF Settle
<1>2. /\ closed \in Requests /\ closed.open = FALSE /\ closed.draft = r.draft
      /\ closed.outcome = r.outcome /\ closed.id = r.id
  BY DEF Requests
<1> HIDE DEF closed
<1> QED
  BY <1>1, <1>2

-----------------------------------------------------------------------------
\* The steps.

\* What a step of the client that leaves the server alone has to show, once
\* the reducers have done their part.
LEMMA ClientStep ==
  ASSUME Inv, StoreTyped', Placed',
         UNCHANGED <<server, events>>,
         requests' \subseteq Requests,
         \A q \in requests' :
           \E o \in requests : q.draft = o.draft /\ q.outcome = o.outcome /\ q.id = o.id,
         attempts' = attempts,
         deletions' \subseteq DOMAIN server,
         dismissed' \subseteq Drafts
  PROVE  TypeOK' /\ RemoteConsistent'
<1>1. TypeOK'
  BY DEF Inv, TypeOK, StoreTyped
<1>2. RemoteConsistent'
  <2>1. ASSUME NEW q \in requests'
        PROVE  /\ attempts'[q.draft] > 0
               /\ q.outcome = "created" =>
                    q.id \in DOMAIN server' /\ server'[q.id].draft = q.draft
    <3>1. PICK o \in requests : q.draft = o.draft /\ q.outcome = o.outcome /\ q.id = o.id
      OBVIOUS
    <3> QED
      BY <3>1 DEF Inv, RemoteConsistent
  <2> QED
    BY <2>1 DEF Inv, RemoteConsistent
<1> QED
  BY <1>1, <1>2

\* A pending post enters the store with its request: it was not being sent,
\* and it is new or the failed post on screen.
LEMMA SendInv ==
  ASSUME Inv, NEW d \in Drafts, NEW failed \in BOOLEAN, d \notin pendingPostIds,
         attempts[d] = 0 \/ ShowsFailed(d), Send(d, failed)
  PROVE  Inv'
<1> DEFINE p == PendingPost(d, AttemptTime, failed)
           new == [draft |-> d, time |-> AttemptTime, open |-> TRUE,
                   outcome |-> "sent", id |-> None]
<1>1. /\ ReceiveNewPost(p)
      /\ attempts' = [attempts EXCEPT ![d] = @ + 1]
      /\ requests' = requests \cup {new}
      /\ UNCHANGED <<server, events, deletions, dismissed>>
  BY DEF Send
<1>2. /\ Received(p) /\ p.id = d /\ p.pending = d /\ Replaced(p) = {}
      /\ d \notin Nat /\ d # None
  BY PendingProperties, AttemptTimeNat
<1>3. /\ new \in Requests /\ new.draft = d /\ new.outcome = "sent"
  BY AttemptTimeNat DEF Requests, None
<1> HIDE DEF p, new
<1>4. /\ StoreTyped' /\ Placed'
      /\ DOMAIN posts' \subseteq DOMAIN posts \cup {d}
      /\ ToSet(order') \subseteq ToSet(order) \cup {d}
      /\ pendingPostIds' = pendingPostIds \cup {d}
  BY <1>1, <1>2, InvStore, ReceiveNewPostStore
<1>5. /\ attempts' \in [Drafts -> Nat]
      /\ \A e \in Drafts : attempts[e] > 0 => attempts'[e] > 0
      /\ attempts'[d] > 0
  BY <1>1 DEF Inv, TypeOK
<1>6. TypeOK'
  BY <1>1, <1>3, <1>4, <1>5 DEF Inv, TypeOK, StoreTyped
<1>7. RemoteConsistent'
  <2>1. \A id \in DOMAIN server : server[id].draft # None => server[id].draft \in Drafts
    BY PayloadProperties
  <2>2. \A r \in requests : r.draft \in Drafts
    BY DEF Inv, TypeOK, Requests
  <2> QED
    BY <1>1, <1>3, <1>5, <2>1, <2>2 DEF Inv, RemoteConsistent
<1>8. KnownPosts'
  BY <1>1, <1>2, <1>4 DEF Inv, KnownPosts
<1>9. \A r \in requests : r.open => r.draft # d
  BY DEF Inv, SendingMarked, RemoteConsistent, ShowsFailed
<1>10. OneRequestPerDraft'
  BY <1>1, <1>3, <1>9 DEF Inv, OneRequestPerDraft
<1>11. SendingMarked'
  BY <1>1, <1>3, <1>4, <1>9 DEF Inv, SendingMarked
<1>12. AnswerNotShown'
  <2> SUFFICES ASSUME NEW r \in requests', r.open, r.outcome = "created",
                      r.draft \in ToSet(order')
               PROVE  r.id \notin ToSet(order')
    BY DEF AnswerNotShown
  <2>1. r \in requests
    BY <1>1, <1>3
  <2>2. r.draft \in ToSet(order) /\ r.id # d
    BY <1>2, <1>4, <1>9, <2>1 DEF Inv, TypeOK, Requests
  <2> QED
    BY <1>4, <2>1, <2>2 DEF Inv, AnswerNotShown
<1>13. NoTwinRoot'
  <2> SUFFICES ASSUME NEW e \in Drafts \ Replies, e \in ToSet(order'),
                      NEW id \in DOMAIN server, server[id].draft = e, id \in ToSet(order')
               PROVE  FALSE
    BY <1>1 DEF NoTwinRoot, PostsOf
  <2>1. id \in ToSet(order)
    BY <1>2, <1>4, PayloadProperties
  <2>2. e \in ToSet(order)
    <3>1. CASE e # d
      BY <1>4, <3>1
    <3>2. CASE e = d
      <4>1. attempts[d] # 0
        BY <1>2, <3>2 DEF Inv, RemoteConsistent
      <4> QED
        BY <3>2, <4>1 DEF ShowsFailed, Inv, Placed
    <3> QED
      BY <3>1, <3>2
  <2> QED
    BY <2>1, <2>2 DEF Inv, NoTwinRoot, PostsOf
<1> QED
  BY <1>4, <1>6, <1>7, <1>8, <1>10, <1>11, <1>12, <1>13 DEF Inv

\* A post leaves the store: the draft of a settled request, a draft the user
\* cancels, or an own post.  A draft still being sent loses its mark together
\* with its post.
LEMMA RemoveInv ==
  ASSUME Inv, NEW x, RemovePost(x),
         UNCHANGED <<server, events>>,
         requests' \subseteq Requests,
         \A q \in requests' : q.open => q \in requests,
         \A q \in requests' :
           \E o \in requests : q.draft = o.draft /\ q.outcome = o.outcome /\ q.id = o.id,
         attempts' = attempts,
         deletions' \subseteq DOMAIN server,
         dismissed' \subseteq Drafts
  PROVE  Inv'
<1>1. /\ StoreTyped' /\ Placed'
      /\ DOMAIN posts' = DOMAIN posts \ {x}
      /\ ToSet(order') = ToSet(order) \ {x}
      /\ pendingPostIds' = pendingPostIds \ {x}
  BY InvStore, RemovePostStore
<1>2. TypeOK' /\ RemoteConsistent'
  BY <1>1, ClientStep
<1>3. KnownPosts' /\ OneRequestPerDraft' /\ SendingMarked' /\ AnswerNotShown'
  BY <1>1 DEF Inv, KnownPosts, OneRequestPerDraft, SendingMarked, AnswerNotShown
<1>4. NoTwinRoot'
  BY <1>1 DEF Inv, NoTwinRoot, PostsOf
<1> QED
  BY <1>1, <1>2, <1>3, <1>4 DEF Inv

LEMMA CreateSucceedsInv ==
  ASSUME Inv, NEW r \in requests, CreateSucceeds(r)
  PROVE  Inv'
<1> DEFINE p == Payload(r.id)
<1>1. /\ r.open /\ r.outcome = "created"
      /\ ReceivePost(p)
      /\ Settle(r)
      /\ UNCHANGED <<server, events, deletions, attempts, dismissed>>
  BY DEF CreateSucceeds
<1>2. r.id \in DOMAIN server /\ server[r.id].draft = r.draft /\ r.draft \in Drafts
  BY <1>1 DEF Inv, RemoteConsistent, TypeOK, Requests
<1>3. /\ Received(p) /\ p.id = r.id /\ p.pending = r.draft
      /\ r.id \in Nat /\ r.id \notin Drafts
      /\ Replaced(p) = {r.draft}
  <2>1. r.draft # None
    BY <1>2, SendingAssumption DEF None
  <2> QED
    BY <1>2, <2>1, PayloadProperties
<1> HIDE DEF p
<1>4. r.draft \in ToSet(order) => r.id \notin ToSet(order)
  BY <1>1 DEF Inv, AnswerNotShown
<1>5. /\ StoreTyped' /\ Placed'
      /\ DOMAIN posts' \subseteq DOMAIN posts \cup {r.id}
      /\ ToSet(order') \subseteq (ToSet(order) \cup {r.id}) \ {r.draft}
      /\ pendingPostIds' = pendingPostIds \ {r.draft}
  BY <1>1, <1>3, <1>4, InvStore, ReceivePostStore
<1>6. /\ requests' \subseteq Requests
      /\ \A q \in requests' : q.open => q \in requests /\ q # r
      /\ \A q \in requests' :
           \E o \in requests : q.draft = o.draft /\ q.outcome = o.outcome /\ q.id = o.id
  BY <1>1, SettleProperties DEF Inv, TypeOK
<1>7. TypeOK' /\ RemoteConsistent'
  BY <1>1, <1>5, <1>6, ClientStep DEF Inv, RemoteConsistent, TypeOK
<1>8. KnownPosts'
  BY <1>1, <1>2, <1>5 DEF Inv, KnownPosts
<1>9. \A q \in requests' : q.open => q.draft # r.draft
  BY <1>1, <1>6 DEF Inv, OneRequestPerDraft
<1>10. OneRequestPerDraft'
  BY <1>6 DEF Inv, OneRequestPerDraft
<1>11. SendingMarked'
  <2>1. \A q \in requests' : q.draft # r.id
    BY <1>3, <1>6 DEF Requests
  <2> QED
    BY <1>5, <1>6, <1>9, <2>1 DEF Inv, SendingMarked
<1>12. AnswerNotShown'
  <2> SUFFICES ASSUME NEW q \in requests', q.open, q.outcome = "created",
                      q.draft \in ToSet(order')
               PROVE  q.id \notin ToSet(order')
    BY DEF AnswerNotShown
  <2>1. q \in requests /\ q.draft # r.draft /\ q.draft \in Drafts
    BY <1>6, <1>9 DEF Requests
  <2>2. q.draft \in ToSet(order)
    BY <1>3, <1>5, <2>1
  <2>3. q.id # r.id
    BY <1>2, <2>1 DEF Inv, RemoteConsistent
  <2> QED
    BY <1>5, <2>1, <2>2, <2>3 DEF Inv, AnswerNotShown
<1>13. NoTwinRoot'
  <2> SUFFICES ASSUME NEW e \in Drafts \ Replies, e \in ToSet(order'),
                      NEW id \in DOMAIN server, server[id].draft = e, id \in ToSet(order')
               PROVE  FALSE
    BY <1>1 DEF NoTwinRoot, PostsOf
  <2>1. e \in ToSet(order) /\ id \in ToSet(order)
    BY <1>2, <1>3, <1>5
  <2> QED
    BY <2>1 DEF Inv, NoTwinRoot, PostsOf
<1> QED
  BY <1>5, <1>7, <1>8, <1>10, <1>11, <1>12, <1>13 DEF Inv

LEMMA CreateFailsInv ==
  ASSUME Inv, NEW r \in requests, CreateFails(r)
  PROVE  Inv'
<1> DEFINE p == PendingPost(r.draft, r.time, TRUE)
<1>1. /\ r.open
      /\ ReceivePost(p)
      /\ Settle(r)
      /\ UNCHANGED <<server, events, deletions, attempts, dismissed>>
  BY DEF CreateFails
<1>2. r.draft \in Drafts /\ r.time \in Nat
  BY DEF Inv, TypeOK, Requests
<1>3. /\ Received(p) /\ p.id = r.draft /\ p.pending = r.draft
      /\ Replaced(p) = {} /\ r.draft \notin Nat
  BY <1>2, PendingProperties
<1> HIDE DEF p
<1>5. /\ StoreTyped' /\ Placed'
      /\ DOMAIN posts' \subseteq DOMAIN posts \cup {r.draft}
      /\ ToSet(order') \subseteq ToSet(order)
      /\ pendingPostIds' = pendingPostIds \ {r.draft}
  <2>1. /\ StoreTyped' /\ Placed'
        /\ DOMAIN posts' \subseteq DOMAIN posts \cup {p.id}
        /\ ToSet(order') \subseteq (ToSet(order) \cup {p.id}) \ Replaced(p)
        /\ p.id \in ToSet(order') => {p.id, p.pending} \cap ToSet(order) # {}
        /\ pendingPostIds' = pendingPostIds \ {p.pending}
    BY <1>1, <1>3, InvStore, ReceivePostStore
  <2> QED
    BY <1>3, <2>1
<1>6. /\ requests' \subseteq Requests
      /\ \A q \in requests' : q.open => q \in requests /\ q # r
      /\ \A q \in requests' :
           \E o \in requests : q.draft = o.draft /\ q.outcome = o.outcome /\ q.id = o.id
  BY <1>1, SettleProperties DEF Inv, TypeOK
<1>7. TypeOK' /\ RemoteConsistent'
  BY <1>1, <1>5, <1>6, ClientStep DEF Inv, RemoteConsistent, TypeOK
<1>8. KnownPosts'
  BY <1>1, <1>3, <1>5 DEF Inv, KnownPosts
<1>9. \A q \in requests' : q.open => q.draft # r.draft
  BY <1>1, <1>6 DEF Inv, OneRequestPerDraft
<1>10. OneRequestPerDraft'
  BY <1>6 DEF Inv, OneRequestPerDraft
<1>11. SendingMarked'
  BY <1>5, <1>6, <1>9 DEF Inv, SendingMarked
<1>12. AnswerNotShown'
  BY <1>5, <1>6 DEF Inv, AnswerNotShown
<1>13. NoTwinRoot'
  BY <1>1, <1>5 DEF Inv, NoTwinRoot, PostsOf
<1> QED
  BY <1>5, <1>7, <1>8, <1>10, <1>11, <1>12, <1>13 DEF Inv

LEMMA CreateRefusedInv ==
  ASSUME Inv, NEW r \in requests, CreateRefused(r)
  PROVE  Inv'
<1>1. /\ RemovePost(r.draft)
      /\ Settle(r)
      /\ UNCHANGED <<server, events, deletions, attempts, dismissed>>
  BY DEF CreateRefused
<1>2. /\ requests' \subseteq Requests
      /\ \A q \in requests' : q.open => q \in requests
      /\ \A q \in requests' :
           \E o \in requests : q.draft = o.draft /\ q.outcome = o.outcome /\ q.id = o.id
  BY <1>1, SettleProperties DEF Inv, TypeOK
<1>3. deletions \subseteq DOMAIN server /\ dismissed \subseteq Drafts
  BY DEF Inv, RemoteConsistent, TypeOK
<1> QED
  BY <1>1, <1>2, <1>3, RemoveInv

LEMMA CancelInv ==
  ASSUME Inv, NEW d \in Drafts, Cancel(d)
  PROVE  Inv'
<1>1. /\ RemovePost(d)
      /\ dismissed' = dismissed \cup {d}
      /\ UNCHANGED <<server, events, requests, deletions, attempts>>
  BY DEF Cancel
<1>2. /\ deletions \subseteq DOMAIN server /\ dismissed' \subseteq Drafts
      /\ requests \subseteq Requests
  BY <1>1 DEF Inv, RemoteConsistent, TypeOK
<1> QED
  BY <1>1, <1>2, RemoveInv

LEMMA DeleteOwnInv ==
  ASSUME Inv, NEW id \in DOMAIN server, DeleteOwn(id)
  PROVE  Inv'
<1>1. /\ RemovePost(id)
      /\ server[id].draft # None
      /\ deletions' = deletions \cup {id}
      /\ dismissed' = dismissed \cup {server[id].draft}
      /\ UNCHANGED <<server, events, requests, attempts>>
  BY DEF DeleteOwn
<1>2. server[id].draft \in Drafts
  BY <1>1, PayloadProperties
<1>3. /\ deletions' \subseteq DOMAIN server /\ dismissed' \subseteq Drafts
      /\ requests \subseteq Requests
  BY <1>1, <1>2 DEF Inv, RemoteConsistent, TypeOK
<1> QED
  BY <1>1, <1>3, RemoveInv

EventRecords == [type : {"posted", "post_deleted"}, id : Nat]

LEMMA HandleEventInv ==
  ASSUME Inv, HandleEvent
  PROVE  Inv'
<1> DEFINE id == Head(events).id
<1>1. /\ events # <<>> /\ events' = Tail(events)
      /\ UNCHANGED <<server, requests, deletions, attempts, dismissed>>
  BY DEF HandleEvent
<1>2. events \in Seq(EventRecords)
  BY DEF Inv, TypeOK, EventRecords
<1>3. /\ Len(events) \in Nat \ {0}
      /\ events' \in Seq(EventRecords)
      /\ Len(events') = Len(events) - 1
      /\ \A k \in 1..Len(events') : events'[k] = events[k + 1]
      /\ Head(events) = events[1]
  BY <1>1, <1>2
<1>4. id \in DOMAIN server
  BY <1>3 DEF Inv, RemoteConsistent
<1>5. RemoteConsistent'
  <2>1. \A k \in 1..Len(events') : events'[k].id \in DOMAIN server
    <3> TAKE k \in 1..Len(events')
    <3>1. k + 1 \in 1..Len(events)
      BY <1>3
    <3> QED
      BY <1>3, <3>1 DEF Inv, RemoteConsistent
  <2> QED
    BY <1>1, <2>1 DEF Inv, RemoteConsistent
<1> HIDE DEF id
<1>6. CASE ReceiveNewPost(Payload(id))
  <2> DEFINE p == Payload(id)
             d == server[id].draft
  <2>1. /\ Received(p) /\ p.id = id /\ p.pending = d
        /\ d \in Drafts \cup {None} /\ id \notin Drafts /\ id \in Nat
        /\ Replaced(p) = {d} \ {None}
    BY <1>4, PayloadProperties
  <2> HIDE DEF p, d
  <2>2. /\ StoreTyped' /\ Placed'
        /\ DOMAIN posts' \subseteq DOMAIN posts \cup {id}
        /\ ToSet(order') \subseteq (ToSet(order) \cup {id}) \ ({d} \ {None})
        /\ pendingPostIds' = pendingPostIds \cup ({d} \ {None})
    <3>1. ReceiveNewPost(p)
      BY <1>6 DEF p
    <3> QED
      BY <2>1, <3>1, InvStore, ReceiveNewPostStore
  <2>3. TypeOK'
    BY <1>1, <1>3, <2>2 DEF Inv, TypeOK, StoreTyped, EventRecords
  <2>4. KnownPosts' /\ OneRequestPerDraft'
    BY <1>1, <1>4, <2>2 DEF Inv, KnownPosts, OneRequestPerDraft
  <2>5. \A q \in requests : q.draft \in Drafts /\ q.draft # None
    BY SendingAssumption DEF Inv, TypeOK, Requests, None
  <2>6. SendingMarked'
    BY <1>1, <2>1, <2>2, <2>5 DEF Inv, SendingMarked
  <2>7. AnswerNotShown'
    <3> SUFFICES ASSUME NEW q \in requests, q.open, q.outcome = "created",
                        q.draft \in ToSet(order')
                 PROVE  q.id \notin ToSet(order')
      BY <1>1 DEF AnswerNotShown
    <3>1. q.draft \in ToSet(order) /\ q.draft # d
      BY <2>1, <2>2, <2>5
    <3>2. q.id # id
      BY <3>1 DEF Inv, RemoteConsistent, d
    <3> QED
      BY <2>2, <3>1, <3>2 DEF Inv, AnswerNotShown
  <2>8. NoTwinRoot'
    <3> SUFFICES ASSUME NEW e \in Drafts \ Replies, e \in ToSet(order'),
                        NEW i \in DOMAIN server, server[i].draft = e, i \in ToSet(order')
                 PROVE  FALSE
      BY <1>1 DEF NoTwinRoot, PostsOf
    <3>1. e # None
      BY SendingAssumption DEF None
    <3>2. e \in ToSet(order) /\ e # d
      BY <2>1, <2>2, <3>1
    <3>3. i \in ToSet(order)
      BY <2>2, <3>2 DEF d
    <3> QED
      BY <3>2, <3>3 DEF Inv, NoTwinRoot, PostsOf
  <2> QED
    BY <1>5, <2>2, <2>3, <2>4, <2>6, <2>7, <2>8 DEF Inv
<1>7. CASE DeletePost(id)
  <2>1. id \in Nat \ {None}
    BY <1>4, PayloadProperties
  <2>2. /\ StoreTyped' /\ Placed'
        /\ DOMAIN posts' \subseteq DOMAIN posts
        /\ ToSet(order') \subseteq ToSet(order)
        /\ pendingPostIds' = pendingPostIds
    BY <1>7, <2>1, InvStore, DeletePostStore
  <2>3. TypeOK'
    BY <1>1, <1>3, <2>2 DEF Inv, TypeOK, StoreTyped, EventRecords
  <2>4. KnownPosts' /\ OneRequestPerDraft' /\ SendingMarked' /\ AnswerNotShown'
    BY <1>1, <2>2 DEF Inv, KnownPosts, OneRequestPerDraft, SendingMarked, AnswerNotShown
  <2>5. NoTwinRoot'
    BY <1>1, <2>2 DEF Inv, NoTwinRoot, PostsOf
  <2> QED
    BY <1>5, <2>2, <2>3, <2>4, <2>5 DEF Inv
<1> QED
  BY <1>6, <1>7 DEF HandleEvent, id

\* A new post of the server is known to nobody yet.
LEMMA CreatedProperties ==
  ASSUME Inv, NEW d \in Drafts \cup {None}, NEW root \in {None, Root},
         root = RootOf(d), d # None => attempts[d] > 0, Created(d, root)
  PROVE  /\ server' \in Seq(ServerPosts)
         /\ DOMAIN server' = DOMAIN server \cup {NextId}
         /\ \A id \in DOMAIN server : server'[id] = server[id]
         /\ server'[NextId].draft = d /\ server'[NextId].root = root
         /\ NextId \in Nat /\ NextId \notin DOMAIN server
         /\ NextId \notin ToSet(order)
         /\ events' \in Seq(EventRecords)
         /\ \A k \in 1..Len(events') : events'[k].id \in DOMAIN server'
<1> DEFINE s == [draft |-> d, root |-> root, deleted |-> FALSE]
           e == [type |-> "posted", id |-> NextId]
<1>1. server' = Append(server, s) /\ events' = Append(events, e)
  BY DEF Created
<1>2. server \in Seq(ServerPosts) /\ events \in Seq(EventRecords)
  BY DEF Inv, TypeOK, EventRecords
<1>3. s \in ServerPosts /\ s.draft = d /\ s.root = root
  BY DEF ServerPosts
<1>4. NextId = Len(server) + 1 /\ NextId \in Nat /\ DOMAIN server = 1..Len(server)
  BY <1>2 DEF NextId
<1>5. e \in EventRecords /\ e.id = NextId
  BY <1>4 DEF EventRecords
<1> HIDE DEF s, e
<1>6. /\ server' \in Seq(ServerPosts)
      /\ Len(server') = Len(server) + 1
      /\ \A id \in 1..Len(server) : server'[id] = server[id]
      /\ server'[Len(server) + 1] = s
  BY <1>1, <1>2, <1>3
<1>7. /\ events' \in Seq(EventRecords)
      /\ Len(events') = Len(events) + 1
      /\ \A k \in 1..Len(events) : events'[k] = events[k]
      /\ events'[Len(events) + 1] = e
  BY <1>1, <1>2, <1>5
<1>8. DOMAIN server' = DOMAIN server \cup {NextId} /\ NextId \notin DOMAIN server
  BY <1>2, <1>4, <1>6
<1>9. \A k \in 1..Len(events') : events'[k].id \in DOMAIN server'
  <2> TAKE k \in 1..Len(events')
  <2>1. CASE k \in 1..Len(events)
    BY <1>7, <1>8, <2>1 DEF Inv, RemoteConsistent
  <2>2. CASE k = Len(events) + 1
    BY <1>5, <1>7, <1>8, <2>2
  <2> QED
    BY <1>2, <1>7, <2>1, <2>2
<1>10. NextId \notin ToSet(order)
  BY <1>4, <1>8 DEF Inv, KnownPosts, Placed, StoredBeforeShown
<1> QED
  BY <1>3, <1>4, <1>6, <1>7, <1>8, <1>9, <1>10

\* The server creates a post, for a request or for somebody else.
LEMMA CreatedInv ==
  ASSUME Inv, NEW d \in Drafts \cup {None}, NEW root \in {None, Root},
         root = RootOf(d), d # None => attempts[d] > 0, Created(d, root),
         UNCHANGED <<posts, order, thread, pendingPostIds, deletions, attempts, dismissed>>,
         requests' \subseteq Requests,
         \A q \in requests' :
           \/ q \in requests
           \/ \E r \in requests \ requests' :
                /\ q = [r EXCEPT !.outcome = "created", !.id = NextId]
                /\ r.draft = d
  PROVE  Inv'
<1>1. /\ server' \in Seq(ServerPosts)
      /\ DOMAIN server' = DOMAIN server \cup {NextId}
      /\ \A id \in DOMAIN server : server'[id] = server[id]
      /\ server'[NextId].draft = d /\ server'[NextId].root = root
      /\ NextId \in Nat /\ NextId \notin DOMAIN server
      /\ NextId \notin ToSet(order)
      /\ events' \in Seq(EventRecords)
      /\ \A k \in 1..Len(events') : events'[k].id \in DOMAIN server'
  BY CreatedProperties
<1>2. \A q \in requests' : q \notin requests =>
        \E r \in requests \ requests' :
          /\ q = [r EXCEPT !.outcome = "created", !.id = NextId]
          /\ q.draft = r.draft /\ r.draft = d /\ q.open = r.open
          /\ q.outcome = "created" /\ q.id = NextId
  BY DEF Inv, TypeOK, Requests
<1>3. TypeOK'
  BY <1>1 DEF Inv, TypeOK, EventRecords
<1>4. RemoteConsistent'
  <2>1. ASSUME NEW q \in requests'
        PROVE  /\ attempts'[q.draft] > 0
               /\ q.outcome = "created" =>
                    q.id \in DOMAIN server' /\ server'[q.id].draft = q.draft
    <3>1. CASE q \in requests
      BY <1>1, <3>1 DEF Inv, RemoteConsistent
    <3>2. CASE q \notin requests
      BY <1>1, <1>2, <3>2 DEF Inv, RemoteConsistent
    <3> QED
      BY <3>1, <3>2
  <2>2. \A id \in DOMAIN server' :
          /\ server'[id].root = RootOf(server'[id].draft)
          /\ server'[id].draft # None => attempts'[server'[id].draft] > 0
    BY <1>1 DEF Inv, RemoteConsistent
  <2>3. deletions' \subseteq DOMAIN server' /\ Root \in DOMAIN server'
    BY <1>1 DEF Inv, RemoteConsistent
  <2> QED
    BY <1>1, <2>1, <2>2, <2>3 DEF RemoteConsistent
<1>5. Placed' /\ KnownPosts'
  BY <1>1 DEF Inv, Placed, NoDuplicates, StoredBeforeShown, KnownPosts
<1>6. OneRequestPerDraft'
  <2> SUFFICES ASSUME NEW q \in requests', NEW t \in requests',
                      q.open, t.open, q.draft = t.draft
               PROVE  q = t
    BY DEF OneRequestPerDraft
  <2> DEFINE Was(w, x) ==
               /\ w.draft = x.draft /\ w.open = x.open
               /\ x \in requests => w = x
               /\ x \notin requests =>
                    /\ w \notin requests'
                    /\ x = [w EXCEPT !.outcome = "created", !.id = NextId]
  <2>1. \A x \in requests' : \E w \in requests : Was(w, x)
    <3> TAKE x \in requests'
    <3>1. CASE x \in requests
      BY <3>1
    <3>2. CASE x \notin requests
      BY <1>2, <3>2
    <3> QED
      BY <3>1, <3>2
  <2>2. PICK v \in requests : Was(v, q)
    BY <2>1
  <2>3. PICK w \in requests : Was(w, t)
    BY <2>1
  <2>4. v = w
    BY <2>2, <2>3 DEF Inv, OneRequestPerDraft
  <2> QED
    BY <2>2, <2>3, <2>4
<1>7. SendingMarked'
  BY <1>2 DEF Inv, SendingMarked
<1>8. AnswerNotShown'
  BY <1>1, <1>2 DEF Inv, AnswerNotShown
<1>9. NoTwinRoot'
  <2> SUFFICES ASSUME NEW e \in Drafts \ Replies, e \in ToSet(order),
                      NEW id \in DOMAIN server', server'[id].draft = e, id \in ToSet(order)
               PROVE  FALSE
    BY DEF NoTwinRoot, PostsOf
  <2>1. id \in DOMAIN server /\ server[id].draft = e
    BY <1>1
  <2> QED
    BY <2>1 DEF Inv, NoTwinRoot, PostsOf
<1> QED
  BY <1>3, <1>4, <1>5, <1>6, <1>7, <1>8, <1>9 DEF Inv

LEMMA ServerCreatesInv ==
  ASSUME Inv, NEW r \in requests, ServerCreates(r)
  PROVE  Inv'
<1> DEFINE c == [r EXCEPT !.outcome = "created", !.id = NextId]
<1>1. /\ r.outcome = "sent"
      /\ Created(r.draft, RootOf(r.draft))
      /\ requests' = (requests \ {r}) \cup {q \in {c} : q.open}
      /\ UNCHANGED <<posts, order, thread, pendingPostIds, deletions, attempts, dismissed>>
  BY DEF ServerCreates
<1>2. r \in Requests /\ r.draft \in Drafts /\ NextId \in Nat
  BY DEF Inv, TypeOK, Requests, NextId
<1>3. c \in Requests /\ c.outcome = "created"
  BY <1>2 DEF Requests
<1>4. c # r
  BY <1>1, <1>3
<1>5. r \notin requests'
  BY <1>1, <1>4
<1>6. attempts[r.draft] > 0
  BY DEF Inv, RemoteConsistent
<1>7. requests' \subseteq Requests
  BY <1>1, <1>3 DEF Inv, TypeOK
<1>8. \A q \in requests' :
        \/ q \in requests
        \/ \E o \in requests \ requests' :
             /\ q = [o EXCEPT !.outcome = "created", !.id = NextId]
             /\ o.draft = r.draft
  BY <1>1, <1>5
<1>9. RootOf(r.draft) \in {None, Root}
  BY DEF RootOf
<1> QED
  BY <1>1, <1>2, <1>6, <1>7, <1>8, <1>9, CreatedInv

LEMMA OtherPostsInv ==
  ASSUME Inv, OtherPosts
  PROVE  Inv'
<1>1. /\ Created(None, None)
      /\ UNCHANGED <<posts, order, thread, pendingPostIds, requests,
                     deletions, attempts, dismissed>>
  BY DEF OtherPosts
<1>2. RootOf(None) = None
  BY SendingAssumption DEF RootOf, None
<1>3. requests' \subseteq Requests
  BY <1>1 DEF Inv, TypeOK
<1> QED
  BY <1>1, <1>2, <1>3, CreatedInv

LEMMA ServerRefusesInv ==
  ASSUME Inv, NEW r \in requests, ServerRefuses(r)
  PROVE  Inv'
<1> DEFINE c == [r EXCEPT !.outcome = "rootGone"]
<1>1. /\ r.outcome = "sent"
      /\ requests' = (requests \ {r}) \cup {q \in {c} : q.open}
      /\ UNCHANGED <<posts, order, thread, pendingPostIds, server, events,
                     deletions, attempts, dismissed>>
  BY DEF ServerRefuses
<1>2. /\ c \in Requests /\ c.draft = r.draft /\ c.outcome = "rootGone" /\ c.id = r.id
      /\ c.open = r.open
  BY DEF Inv, TypeOK, Requests
<1> HIDE DEF c
<1>3. TypeOK'
  BY <1>1, <1>2 DEF Inv, TypeOK
<1>4. RemoteConsistent'
  BY <1>1, <1>2 DEF Inv, RemoteConsistent
<1>5. Placed' /\ KnownPosts' /\ NoTwinRoot'
  BY <1>1 DEF Inv, Placed, NoDuplicates, StoredBeforeShown, KnownPosts, NoTwinRoot, PostsOf
<1>6. OneRequestPerDraft' /\ SendingMarked' /\ AnswerNotShown'
  BY <1>1, <1>2 DEF Inv, OneRequestPerDraft, SendingMarked, AnswerNotShown
<1> QED
  BY <1>3, <1>4, <1>5, <1>6 DEF Inv

\* The server marks one of its posts as deleted.
LEMMA DeletedInv ==
  ASSUME Inv, NEW id \in DOMAIN server, Deleted(id), deletions' \subseteq deletions,
         UNCHANGED <<posts, order, thread, pendingPostIds, requests, attempts, dismissed>>
  PROVE  Inv'
<1> DEFINE e == [type |-> "post_deleted", id |-> id]
<1>1. server' = [server EXCEPT ![id].deleted = TRUE] /\ events' = Append(events, e)
  BY DEF Deleted
<1>2. server \in Seq(ServerPosts) /\ events \in Seq(EventRecords)
  BY DEF Inv, TypeOK, EventRecords
<1>3. /\ server' \in Seq(ServerPosts)
      /\ DOMAIN server' = DOMAIN server
      /\ \A i \in DOMAIN server :
           server'[i].draft = server[i].draft /\ server'[i].root = server[i].root
  <2> DEFINE gone == [server[id] EXCEPT !.deleted = TRUE]
  <2>3. server[id] \in ServerPosts
    BY <1>2
  <2>1. gone \in ServerPosts /\ gone.draft = server[id].draft /\ gone.root = server[id].root
    BY <2>3 DEF ServerPosts
  <2>2. server' = [server EXCEPT ![id] = gone]
    BY <1>1
  <2> HIDE DEF gone
  <2> QED
    BY <1>2, <2>1, <2>2
<1>4. id \in Nat
  BY <1>2
<1>5. e \in EventRecords /\ e.id = id
  BY <1>4 DEF EventRecords
<1> HIDE DEF e
<1>6. /\ events' \in Seq(EventRecords)
      /\ Len(events') = Len(events) + 1
      /\ \A k \in 1..Len(events) : events'[k] = events[k]
      /\ events'[Len(events) + 1] = e
  BY <1>1, <1>2, <1>5
<1>7. \A k \in 1..Len(events') : events'[k].id \in DOMAIN server
  <2> TAKE k \in 1..Len(events')
  <2>1. CASE k \in 1..Len(events)
    BY <1>6, <2>1 DEF Inv, RemoteConsistent
  <2>2. CASE k = Len(events) + 1
    BY <1>5, <1>6, <2>2
  <2> QED
    BY <1>2, <1>6, <2>1, <2>2
<1>8. TypeOK'
  BY <1>3, <1>6 DEF Inv, TypeOK, EventRecords
<1>9. RemoteConsistent'
  BY <1>3, <1>7 DEF Inv, RemoteConsistent
<1>10. Placed' /\ KnownPosts' /\ OneRequestPerDraft' /\ SendingMarked' /\ AnswerNotShown'
  BY <1>3 DEF Inv, Placed, NoDuplicates, StoredBeforeShown, KnownPosts, OneRequestPerDraft,
              SendingMarked, AnswerNotShown
<1>11. NoTwinRoot'
  BY <1>3 DEF Inv, NoTwinRoot, PostsOf
<1> QED
  BY <1>8, <1>9, <1>10, <1>11 DEF Inv

LEMMA StepInv == Inv /\ [Next]_vars => Inv'
<1> SUFFICES ASSUME Inv, [Next]_vars
             PROVE  Inv'
  OBVIOUS
<1>1. ASSUME NEW d \in Drafts, Submit(d)
      PROVE  Inv'
  BY <1>1, SendInv DEF Submit, CreatePost
<1>2. ASSUME NEW d \in Drafts, Retry(d)
      PROVE  Inv'
  BY <1>2, SendInv DEF Retry, CreatePost
<1>3. ASSUME NEW d \in Drafts, Cancel(d)
      PROVE  Inv'
  BY <1>3, CancelInv
<1>4. ASSUME NEW r \in requests, CreateSucceeds(r) \/ CreateFails(r) \/ CreateRefused(r)
      PROVE  Inv'
  BY <1>4, CreateSucceedsInv, CreateFailsInv, CreateRefusedInv
<1>5. CASE HandleEvent
  BY <1>5, HandleEventInv
<1>6. ASSUME NEW id \in DOMAIN server, DeleteOwn(id)
      PROVE  Inv'
  BY <1>6, DeleteOwnInv
<1>7. ASSUME NEW id \in DOMAIN server, ServerDeletes(id)
      PROVE  Inv'
  BY <1>7, DeletedInv DEF ServerDeletes
<1>8. ASSUME NEW r \in requests, ServerCreates(r) \/ ServerRefuses(r)
      PROVE  Inv'
  BY <1>8, ServerCreatesInv, ServerRefusesInv
<1>9. CASE OtherPosts
  BY <1>9, OtherPostsInv
<1>10. CASE OtherDeletesRoot
  <2>1. Root \in DOMAIN server
    BY DEF Inv, RemoteConsistent
  <2> QED
    BY <1>10, <2>1, DeletedInv DEF OtherDeletesRoot
<1>11. CASE UNCHANGED vars
  BY <1>11
  DEF Inv, vars, TypeOK, RemoteConsistent, Placed, NoDuplicates, StoredBeforeShown,
      KnownPosts, OneRequestPerDraft, SendingMarked, AnswerNotShown, NoTwinRoot, PostsOf
<1> QED
  BY <1>1, <1>2, <1>3, <1>4, <1>5, <1>6, <1>7, <1>8, <1>9, <1>10, <1>11 DEF Next

-----------------------------------------------------------------------------
\* Nothing the user sent is lost.

\* A stored post has the root of its draft, so that the comments of a deleted
\* post are never root messages.
Rooted ==
  \A x \in DOMAIN posts :
    /\ x \in Drafts => posts[x].root = RootOf(x)
    /\ x \in DOMAIN server => posts[x].root = server[x].root

\* The client is told that a post is gone only when it is.
GoneMarked ==
  /\ \A r \in requests :
       r.outcome = "rootGone" => r.draft \in Replies /\ server[Root].deleted
  /\ \A k \in 1..Len(events) :
       events[k].type = "post_deleted" => server[events[k].id].deleted

Kept == Rooted /\ GoneMarked /\ NothingLost

LEMMA InitKept == Init => Kept
<1> SUFFICES ASSUME Init
             PROVE  Kept
  OBVIOUS
<1>1. /\ server = <<[draft |-> None, root |-> None, deleted |-> FALSE]>>
      /\ posts = [id \in {Root} |-> Post(Root, None, None, Root, FALSE)]
      /\ events = <<>> /\ requests = {}
      /\ attempts = [d \in Drafts |-> 0]
  BY DEF Init
<1>2. Root \notin Drafts
  BY SendingAssumption DEF Root
<1>3. Rooted
  BY <1>1, <1>2 DEF Rooted, Post, Root
<1>4. GoneMarked
  BY <1>1 DEF GoneMarked
<1>5. NothingLost
  BY <1>1 DEF NothingLost
<1> QED
  BY <1>3, <1>4, <1>5 DEF Kept

LEMMA ReceivedRooted ==
  ASSUME Inv, Rooted, NEW p, Received(p), posts' = PostsWith(p), server' = server,
         p.id \in DOMAIN server => p.root = server[p.id].root
  PROVE  Rooted'
<1>1. CASE p.id \in DOMAIN posts /\ ~PendingOrFailed(p)
  BY <1>1 DEF PostsWith, Rooted
<1>2. CASE ~(p.id \in DOMAIN posts /\ ~PendingOrFailed(p))
  <2> DEFINE D == (DOMAIN posts \cup {p.id}) \ Replaced(p)
  <2>3. posts' = [x \in D |-> IF x = p.id THEN p ELSE posts[x]]
    BY <1>2 DEF PostsWith
  <2>1. \A x \in DOMAIN posts' :
          \/ x = p.id /\ posts'[x] = p
          \/ x \in DOMAIN posts /\ posts'[x] = posts[x]
    BY <2>3
  <2>2. p.id \in Drafts => p.root = RootOf(p.id)
    BY DEF Received
  <2> QED
    BY <2>1, <2>2 DEF Rooted
<1> QED
  BY <1>1, <1>2

\* A draft that is shown stays shown when a post is received: only its own
\* stand-in takes its place, and takes it in the same view.
LEMMA ReceivedShown ==
  ASSUME Inv, NEW d \in Drafts, NEW p, Received(p), server' = server,
         p.pending = d => p.id \in StandIns(d),
         \/ /\ ReceiveNewPost(p)
            /\ Shown(d) \/ p.pending = d
         \/ /\ ReceivePost(p)
            /\ p.pending \in ToSet(order) => p.id = p.pending \/ p.id \notin ToSet(order)
            /\ Shown(d)
  PROVE  Shown(d)'
<1>1. StandIns(d)' = StandIns(d)
  BY DEF StandIns, PostsOf
<1>2. \A x \in StandIns(d) : x \in Replaced(p) => p.pending = d
  <2>1. \A id \in DOMAIN server : id \notin Drafts
    BY PayloadProperties
  <2> QED
    BY <2>1, ReceivedReply DEF StandIns, PostsOf, Replaced
<1>3. p.id \notin Replaced(p)
  BY DEF Replaced
<1>4. CASE d \in Replies
  <2>1. thread' = ThreadWith(p)
    BY DEF ReceiveNewPost, ReceivePost
  <2>2. CASE p.root = None
    <3>1. thread' = thread /\ p.pending # d
      BY <1>4, <2>1, <2>2, ReceivedReply DEF ThreadWith
    <3> QED
      BY <1>1, <1>4, <3>1 DEF Shown, View
  <2>3. CASE p.root # None
    <3>1. thread' = (thread \cup {p.id}) \ Replaced(p)
      BY <2>1, <2>3 DEF ThreadWith
    <3>2. CASE p.pending = d
      BY <1>1, <1>3, <1>4, <3>1, <3>2 DEF Shown, View
    <3>3. CASE p.pending # d
      BY <1>1, <1>2, <1>4, <3>1, <3>3 DEF Shown, View
    <3> QED
      BY <3>2, <3>3
  <2> QED
    BY <2>2, <2>3
<1>5. CASE d \notin Replies
  <2>1. p.pending = d => InChannel(p)
    BY <1>5, ReceivedReply DEF InChannel
  <2>2. CASE ReceiveNewPost(p)
    <3>1. /\ InChannel(p) => ToSet(order') = (ToSet(order) \cup {p.id}) \ Replaced(p)
          /\ ~InChannel(p) => order' = order
      BY <2>2, InvStore, ReceiveNewPostStore
    <3>2. CASE p.pending = d
      BY <1>1, <1>3, <1>5, <2>1, <3>1, <3>2 DEF Shown, View
    <3>3. CASE p.pending # d
      <4>1. PICK x \in StandIns(d) : x \in ToSet(order)
        BY <1>5, <2>2, <3>3 DEF Shown, View, ReceiveNewPost, ReceivePost
      <4>2. x \in ToSet(order')
        BY <1>2, <3>1, <3>3, <4>1
      <4> QED
        BY <1>1, <1>5, <4>2 DEF Shown, View
    <3> QED
      BY <3>2, <3>3
  <2>3. CASE /\ ReceivePost(p)
             /\ p.pending \in ToSet(order) => p.id = p.pending \/ p.id \notin ToSet(order)
             /\ Shown(d)
    <3>1. /\ ToSet(order) \subseteq ToSet(order') \cup {p.pending}
          /\ InChannel(p) /\ p.pending \in ToSet(order) => p.id \in ToSet(order')
      BY <2>3, InvStore, ReceivePostStore
    <3>2. PICK x \in StandIns(d) : x \in ToSet(order)
      BY <1>5, <2>3 DEF Shown, View
    <3>3. CASE x \in ToSet(order')
      BY <1>1, <1>5, <3>3 DEF Shown, View
    <3>4. CASE x \notin ToSet(order')
      <4>1. x = p.pending /\ p.pending = d
        <5>1. x = p.pending
          BY <3>1, <3>2, <3>4
        <5>2. x # None /\ (x \in Drafts => x = d)
          BY <3>2, SendingAssumption, PayloadProperties DEF StandIns, PostsOf, None
        <5> QED
          BY <5>1, <5>2, ReceivedReply
      <4>2. p.id \in ToSet(order') /\ p.id \in StandIns(d)
        BY <2>1, <3>1, <3>2, <4>1
      <4> QED
        BY <1>1, <1>5, <4>2 DEF Shown, View
    <3> QED
      BY <3>3, <3>4
  <2> QED
    BY <2>2, <2>3
<1> QED
  BY <1>4, <1>5

LEMMA SendKept ==
  ASSUME Inv, Kept, NEW d \in Drafts, NEW failed \in BOOLEAN, Send(d, failed)
  PROVE  Kept'
<1> DEFINE p == PendingPost(d, AttemptTime, failed)
<1>1. /\ ReceiveNewPost(p)
      /\ attempts' = [attempts EXCEPT ![d] = @ + 1]
      /\ \A r \in requests' : r \in requests \/ r.outcome = "sent"
      /\ UNCHANGED <<server, events, deletions, dismissed>>
  BY DEF Send
<1>2. /\ Received(p) /\ p.id = d /\ p.pending = d /\ d \notin Nat
  BY PendingProperties, AttemptTimeNat
<1> HIDE DEF p
<1>3. d \notin DOMAIN server
  BY <1>2 DEF Inv, TypeOK
<1>4. Rooted'
  BY <1>1, <1>2, <1>3, ReceivedRooted DEF Kept, ReceiveNewPost
<1>5. GoneMarked'
  BY <1>1 DEF Kept, GoneMarked
<1>6. \A e \in Drafts : attempts'[e] > 0 /\ e # d => attempts[e] > 0
  BY <1>1 DEF Inv, TypeOK
<1>7. NothingLost'
  <2> SUFFICES ASSUME NEW e \in Drafts, attempts'[e] > 0, e \notin dismissed, Answerable(e)
               PROVE  Shown(e)'
    BY <1>1 DEF NothingLost, Answerable
  <2>1. Shown(e) \/ p.pending = e
    BY <1>2, <1>6 DEF Kept, NothingLost
  <2>2. p.pending = e => p.id \in StandIns(e)
    BY <1>2 DEF StandIns
  <2> QED
    BY <1>1, <1>2, <2>1, <2>2, ReceivedShown
<1> QED
  BY <1>4, <1>5, <1>7 DEF Kept

\* A step that removes one post, of a draft that is dismissed or whose root is
\* gone.
LEMMA RemoveKept ==
  ASSUME Inv, Kept, NEW x, RemovePost(x),
         UNCHANGED <<server, events>>, attempts' = attempts,
         dismissed \subseteq dismissed',
         \A q \in requests' : \E o \in requests : q.draft = o.draft /\ q.outcome = o.outcome,
         \A d \in Drafts : x \in StandIns(d) => d \in dismissed' \/ ~Answerable(d)
  PROVE  Kept'
<1>1. /\ posts' = [y \in DOMAIN posts \ {x} |-> posts[y]]
      /\ thread' = thread \ {x}
      /\ ToSet(order') = ToSet(order) \ {x}
  BY InvStore, RemovePostStore DEF RemovePost
<1>2. Rooted'
  BY <1>1 DEF Kept, Rooted
<1>3. GoneMarked'
  BY DEF Kept, GoneMarked
<1>4. NothingLost'
  <2> SUFFICES ASSUME NEW d \in Drafts, attempts[d] > 0, d \notin dismissed', Answerable(d)
               PROVE  Shown(d)'
    BY DEF NothingLost, Answerable
  <2>1. Shown(d) /\ x \notin StandIns(d) /\ StandIns(d)' = StandIns(d)
    BY DEF Kept, NothingLost, StandIns, PostsOf
  <2>2. View(d)' = View(d) \ {x}
    BY <1>1 DEF View
  <2> QED
    BY <2>1, <2>2 DEF Shown
<1> QED
  BY <1>2, <1>3, <1>4 DEF Kept

LEMMA ClientKept ==
  ASSUME Inv, Kept, NEW d \in Drafts, Cancel(d)
  PROVE  Kept'
<1>1. /\ RemovePost(d) /\ dismissed' = dismissed \cup {d}
      /\ UNCHANGED <<server, events, requests, attempts>>
  BY DEF Cancel
<1>2. \A e \in Drafts : d \in StandIns(e) => e = d
  BY PayloadProperties DEF StandIns, PostsOf
<1> QED
  BY <1>1, <1>2, RemoveKept

LEMMA DeleteOwnKept ==
  ASSUME Inv, Kept, NEW id \in DOMAIN server, DeleteOwn(id)
  PROVE  Kept'
<1>1. /\ RemovePost(id) /\ dismissed' = dismissed \cup {server[id].draft}
      /\ UNCHANGED <<server, events, requests, attempts>>
  BY DEF DeleteOwn
<1>2. \A e \in Drafts : id \in StandIns(e) => e = server[id].draft
  BY PayloadProperties DEF StandIns, PostsOf
<1> QED
  BY <1>1, <1>2, RemoveKept

LEMMA CreateRefusedKept ==
  ASSUME Inv, Kept, NEW r \in requests, CreateRefused(r)
  PROVE  Kept'
<1>1. /\ r.outcome = "rootGone"
      /\ RemovePost(r.draft)
      /\ Settle(r)
      /\ UNCHANGED <<server, events, deletions, attempts, dismissed>>
  BY DEF CreateRefused
<1>2. \A q \in requests' : \E o \in requests : q.draft = o.draft /\ q.outcome = o.outcome
  BY <1>1, SettleProperties DEF Inv, TypeOK
<1>3. r.draft \in Drafts /\ ~Answerable(r.draft)
  BY <1>1 DEF Kept, GoneMarked, Answerable, Inv, TypeOK, Requests
<1>4. \A e \in Drafts : r.draft \in StandIns(e) => e = r.draft
  BY <1>3, PayloadProperties DEF StandIns, PostsOf
<1> QED
  BY <1>1, <1>2, <1>3, <1>4, RemoveKept

LEMMA CreateSucceedsKept ==
  ASSUME Inv, Kept, NEW r \in requests, CreateSucceeds(r)
  PROVE  Kept'
<1> DEFINE p == Payload(r.id)
<1>1. /\ r.open /\ r.outcome = "created"
      /\ ReceivePost(p)
      /\ Settle(r)
      /\ UNCHANGED <<server, events, deletions, attempts, dismissed>>
  BY DEF CreateSucceeds
<1>2. r.id \in DOMAIN server /\ server[r.id].draft = r.draft
  BY <1>1 DEF Inv, RemoteConsistent
<1>3. /\ Received(p) /\ p.id = r.id /\ p.pending = r.draft /\ p.root = server[r.id].root
  BY <1>2, PayloadProperties DEF Payload, Post
<1> HIDE DEF p
<1>4. Rooted'
  BY <1>1, <1>3, ReceivedRooted DEF Kept, ReceivePost
<1>5. GoneMarked'
  <2>1. \A q \in requests' : \E o \in requests : q.draft = o.draft /\ q.outcome = o.outcome
    BY <1>1, SettleProperties DEF Inv, TypeOK
  <2> QED
    BY <1>1, <2>1 DEF Kept, GoneMarked
<1>6. NothingLost'
  <2> SUFFICES ASSUME NEW e \in Drafts, attempts[e] > 0, e \notin dismissed, Answerable(e)
               PROVE  Shown(e)'
    BY <1>1 DEF NothingLost, Answerable
  <2>1. Shown(e)
    BY DEF Kept, NothingLost
  <2>2. p.pending = e => p.id \in StandIns(e)
    BY <1>2, <1>3 DEF StandIns, PostsOf
  <2>3. p.pending \in ToSet(order) => p.id \notin ToSet(order)
    BY <1>1, <1>3 DEF Inv, AnswerNotShown
  <2> QED
    BY <1>1, <1>3, <2>1, <2>2, <2>3, ReceivedShown
<1> QED
  BY <1>4, <1>5, <1>6 DEF Kept

LEMMA CreateFailsKept ==
  ASSUME Inv, Kept, NEW r \in requests, CreateFails(r)
  PROVE  Kept'
<1> DEFINE p == PendingPost(r.draft, r.time, TRUE)
<1>1. /\ ReceivePost(p)
      /\ Settle(r)
      /\ UNCHANGED <<server, events, deletions, attempts, dismissed>>
  BY DEF CreateFails
<1>2. r.draft \in Drafts /\ r.time \in Nat
  BY DEF Inv, TypeOK, Requests
<1>7. Received(p) /\ p.id = r.draft /\ p.pending = r.draft /\ r.draft \notin Nat
  BY <1>2, PendingProperties
<1>3. r.draft \notin DOMAIN server
  BY <1>7 DEF Inv, TypeOK
<1> HIDE DEF p
<1>4. Rooted'
  BY <1>1, <1>3, <1>7, ReceivedRooted DEF Kept, ReceivePost
<1>5. GoneMarked'
  <2>1. \A q \in requests' : \E o \in requests : q.draft = o.draft /\ q.outcome = o.outcome
    BY <1>1, SettleProperties DEF Inv, TypeOK
  <2> QED
    BY <1>1, <2>1 DEF Kept, GoneMarked
<1>6. NothingLost'
  <2> SUFFICES ASSUME NEW e \in Drafts, attempts[e] > 0, e \notin dismissed, Answerable(e)
               PROVE  Shown(e)'
    BY <1>1 DEF NothingLost, Answerable
  <2>1. Shown(e)
    BY DEF Kept, NothingLost
  <2>2. p.pending = e => p.id \in StandIns(e)
    BY <1>7 DEF StandIns
  <2> QED
    BY <1>1, <1>7, <2>1, <2>2, ReceivedShown
<1> QED
  BY <1>4, <1>5, <1>6 DEF Kept

LEMMA HandleEventKept ==
  ASSUME Inv, Kept, HandleEvent
  PROVE  Kept'
<1> DEFINE e == Head(events)
<1>1. /\ events # <<>> /\ events' = Tail(events)
      /\ UNCHANGED <<server, requests, deletions, attempts, dismissed>>
  BY DEF HandleEvent
<1>2. events \in Seq(EventRecords)
  BY DEF Inv, TypeOK, EventRecords
<1>3. /\ Len(events) \in Nat \ {0}
      /\ Len(events') = Len(events) - 1
      /\ \A k \in 1..Len(events') : events'[k] = events[k + 1]
      /\ e = events[1]
  BY <1>1, <1>2
<1>4. e.id \in DOMAIN server
  BY <1>3 DEF Inv, RemoteConsistent
<1>5. GoneMarked'
  <2>1. ASSUME NEW k \in 1..Len(events'), events'[k].type = "post_deleted"
        PROVE  server[events'[k].id].deleted
    <3>1. k + 1 \in 1..Len(events) /\ events'[k] = events[k + 1]
      BY <1>3
    <3> QED
      BY <2>1, <3>1 DEF Kept, GoneMarked
  <2> QED
    BY <1>1, <2>1 DEF Kept, GoneMarked
<1>6. e.type = "post_deleted" => server[e.id].deleted
  BY <1>3 DEF Kept, GoneMarked
<1>7. \/ e.type = "posted" /\ ReceiveNewPost(Payload(e.id))
      \/ e.type = "post_deleted" /\ DeletePost(e.id)
  BY DEF HandleEvent
<1> HIDE DEF e
<1>8. CASE ReceiveNewPost(Payload(e.id))
  <2> DEFINE p == Payload(e.id)
  <2>1. /\ Received(p) /\ p.id = e.id /\ p.pending = server[e.id].draft
        /\ p.root = server[e.id].root
    BY <1>4, PayloadProperties DEF Payload, Post
  <2>2. ReceiveNewPost(p)
    BY <1>8
  <2> HIDE DEF p
  <2>3. Rooted'
    BY <1>1, <2>1, <2>2, ReceivedRooted DEF Kept, ReceiveNewPost
  <2>4. NothingLost'
    <3> SUFFICES ASSUME NEW d \in Drafts, attempts[d] > 0, d \notin dismissed, Answerable(d)
                 PROVE  Shown(d)'
      BY <1>1 DEF NothingLost, Answerable
    <3>1. Shown(d)
      BY DEF Kept, NothingLost
    <3>2. p.pending = d => p.id \in StandIns(d)
      BY <1>4, <2>1 DEF StandIns, PostsOf
    <3> QED
      BY <1>1, <2>1, <2>2, <3>1, <3>2, ReceivedShown
  <2> QED
    BY <1>5, <2>3, <2>4 DEF Kept
<1>9. CASE e.type = "post_deleted" /\ DeletePost(e.id)
  <2> DEFINE id == e.id
  <2>1. /\ id \in Nat \ {None} /\ id \in DOMAIN server
    BY <1>4, PayloadProperties
  <2> HIDE DEF id
  <2>2. /\ id \in DOMAIN posts =>
             posts' = [x \in DOMAIN posts \ CommentsOf(id) |->
                         IF x = id THEN [posts[x] EXCEPT !.deleted = TRUE] ELSE posts[x]]
        /\ id \notin DOMAIN posts => posts' = posts
        /\ order' \in FilteredFrom(order, CommentsOf(id))
        /\ thread' = IF id = Root THEN {} ELSE thread
    BY <1>9 DEF DeletePost, id
  <2>3. ToSet(order') = ToSet(order) \ CommentsOf(id)
    BY <2>2, FilteredProperties DEF Inv, TypeOK
  <2>4. \A x \in DOMAIN posts' : x \in DOMAIN posts /\ posts'[x].root = posts[x].root
    <3>1. CASE id \in DOMAIN posts
      <4> DEFINE D == DOMAIN posts \ CommentsOf(id)
                 gone == [posts[id] EXCEPT !.deleted = TRUE]
      <4>1. posts[id] \in PostRecords
        BY <3>1 DEF Inv, TypeOK
      <4>2. gone.root = posts[id].root
        BY <4>1 DEF PostRecords
      <4>3. posts' = [x \in D |-> IF x = id THEN gone ELSE posts[x]]
        BY <2>2, <3>1
      <4> HIDE DEF gone
      <4> QED
        BY <4>2, <4>3
    <3>2. CASE id \notin DOMAIN posts
      BY <2>2, <3>2
    <3> QED
      BY <3>1, <3>2
  <2>5. Rooted'
    BY <1>1, <2>4 DEF Kept, Rooted
  <2>6. NothingLost'
    <3> SUFFICES ASSUME NEW d \in Drafts, attempts[d] > 0, d \notin dismissed, Answerable(d)
                 PROVE  Shown(d)'
      BY <1>1 DEF NothingLost, Answerable
    <3>1. Shown(d) /\ StandIns(d)' = StandIns(d)
      BY <1>1 DEF Kept, NothingLost, StandIns, PostsOf
    <3>2. PICK x \in StandIns(d) : x \in View(d)
      BY <3>1 DEF Shown
    <3>3. CASE d \in Replies
      <4>1. id # Root
        BY <1>6, <1>9, <3>3 DEF Answerable, id
      <4> QED
        BY <2>2, <3>1, <3>2, <3>3, <4>1 DEF Shown, View
    <3>4. CASE d \notin Replies
      <4>1. x \in ToSet(order) /\ x \in DOMAIN posts
        BY <3>2, <3>4 DEF View, Inv, Placed, StoredBeforeShown
      <4>2. posts[x].root = None
        <5>1. CASE x = d
          BY <3>4, <4>1, <5>1 DEF Kept, Rooted, RootOf
        <5>2. CASE x \in PostsOf(d)
          BY <3>4, <4>1, <5>2 DEF Kept, Rooted, PostsOf, RootOf, Inv, RemoteConsistent
        <5> QED
          BY <3>2, <5>1, <5>2 DEF StandIns
      <4>3. x \in ToSet(order')
        BY <2>1, <2>3, <4>1, <4>2 DEF CommentsOf
      <4> QED
        BY <3>1, <3>2, <3>4, <4>3 DEF Shown, View
    <3> QED
      BY <3>3, <3>4
  <2> QED
    BY <1>5, <2>5, <2>6 DEF Kept
<1> QED
  BY <1>7, <1>8, <1>9

\* A step of the server that leaves the store alone and takes back neither a
\* post nor its mark.
LEMMA ServerKept ==
  ASSUME Inv, Kept,
         UNCHANGED <<posts, order, thread, attempts, dismissed>>,
         server' \in Seq(ServerPosts),
         DOMAIN server \subseteq DOMAIN server',
         \A id \in DOMAIN server :
           /\ server'[id].draft = server[id].draft
           /\ server'[id].root = server[id].root
           /\ server[id].deleted => server'[id].deleted
  PROVE  Rooted' /\ NothingLost'
<1>1. Rooted'
  <2>1. \A x \in DOMAIN posts : x \in DOMAIN server' => x \in DOMAIN server
    <3>1. \A x \in DOMAIN server' : x \in Nat
      OBVIOUS
    <3> QED
      BY <3>1 DEF Inv, KnownPosts
  <2> QED
    BY <2>1 DEF Kept, Rooted
<1>2. NothingLost'
  <2> SUFFICES ASSUME NEW d \in Drafts, attempts[d] > 0, d \notin dismissed, Answerable(d)'
               PROVE  Shown(d)'
    BY DEF NothingLost
  <2>1. Answerable(d)
    BY DEF Answerable, Inv, RemoteConsistent
  <2>2. Shown(d)
    BY <2>1 DEF Kept, NothingLost
  <2>3. StandIns(d) \subseteq StandIns(d)' /\ View(d)' = View(d)
    BY DEF StandIns, PostsOf, View
  <2> QED
    BY <2>2, <2>3 DEF Shown
<1> QED
  BY <1>1, <1>2

LEMMA CreatedKept ==
  ASSUME Inv, Kept, NEW d \in Drafts \cup {None}, NEW root \in {None, Root},
         root = RootOf(d), d # None => attempts[d] > 0, Created(d, root),
         UNCHANGED <<posts, order, thread, attempts, dismissed>>,
         \A q \in requests' : q \in requests \/ q.outcome = "created"
  PROVE  Kept'
<1>1. /\ server' \in Seq(ServerPosts)
      /\ DOMAIN server' = DOMAIN server \cup {NextId}
      /\ \A id \in DOMAIN server : server'[id] = server[id]
  BY CreatedProperties
<1>2. Rooted' /\ NothingLost'
  BY <1>1, ServerKept
<1>3. GoneMarked'
  <2> DEFINE e == [type |-> "posted", id |-> NextId]
  <2>1. events \in Seq(EventRecords) /\ e \in EventRecords /\ e.type = "posted"
    BY DEF Inv, TypeOK, EventRecords, NextId
  <2>2. events' = Append(events, e)
    BY DEF Created
  <2> HIDE DEF e
  <2>3. /\ Len(events') = Len(events) + 1
        /\ \A k \in 1..Len(events) : events'[k] = events[k]
        /\ events'[Len(events) + 1] = e
    BY <2>1, <2>2
  <2>4. ASSUME NEW k \in 1..Len(events'), events'[k].type = "post_deleted"
        PROVE  server'[events'[k].id].deleted
    <3>1. k \in 1..Len(events) /\ events'[k] = events[k]
      BY <2>1, <2>3, <2>4
    <3> QED
      BY <1>1, <2>4, <3>1 DEF Kept, GoneMarked, Inv, RemoteConsistent
  <2>5. \A r \in requests' : r.outcome = "rootGone" => r.draft \in Replies /\ server'[Root].deleted
    BY <1>1 DEF Kept, GoneMarked, Inv, RemoteConsistent
  <2> QED
    BY <2>4, <2>5 DEF GoneMarked
<1> QED
  BY <1>2, <1>3 DEF Kept

LEMMA DeletedKept ==
  ASSUME Inv, Kept, NEW id \in DOMAIN server, Deleted(id),
         UNCHANGED <<posts, order, thread, requests, attempts, dismissed>>
  PROVE  Kept'
<1> DEFINE e == [type |-> "post_deleted", id |-> id]
<1>1. server' = [server EXCEPT ![id].deleted = TRUE] /\ events' = Append(events, e)
  BY DEF Deleted
<1>2. server \in Seq(ServerPosts) /\ events \in Seq(EventRecords)
  BY DEF Inv, TypeOK, EventRecords
<1>3. /\ server' \in Seq(ServerPosts)
      /\ DOMAIN server' = DOMAIN server
      /\ \A i \in DOMAIN server :
           /\ server'[i].draft = server[i].draft
           /\ server'[i].root = server[i].root
           /\ server[i].deleted => server'[i].deleted
      /\ server'[id].deleted
  <2> DEFINE gone == [server[id] EXCEPT !.deleted = TRUE]
  <2>3. server[id] \in ServerPosts
    BY <1>2
  <2>1. /\ gone \in ServerPosts /\ gone.draft = server[id].draft
        /\ gone.root = server[id].root /\ gone.deleted
    BY <2>3 DEF ServerPosts
  <2>2. server' = [server EXCEPT ![id] = gone]
    BY <1>1
  <2> HIDE DEF gone
  <2> QED
    BY <1>2, <2>1, <2>2
<1>4. Rooted' /\ NothingLost'
  BY <1>3, ServerKept
<1>5. e \in EventRecords /\ e.id = id
  BY <1>2 DEF EventRecords
<1> HIDE DEF e
<1>6. /\ Len(events') = Len(events) + 1
      /\ \A k \in 1..Len(events) : events'[k] = events[k]
      /\ events'[Len(events) + 1] = e
  BY <1>1, <1>2, <1>5
<1>7. \A k \in 1..Len(events') :
        events'[k].type = "post_deleted" => server'[events'[k].id].deleted
  <2> TAKE k \in 1..Len(events')
  <2>1. CASE k \in 1..Len(events)
    BY <1>3, <1>6, <2>1 DEF Kept, GoneMarked, Inv, RemoteConsistent
  <2>2. CASE k = Len(events) + 1
    BY <1>3, <1>5, <1>6, <2>2
  <2> QED
    BY <1>2, <1>6, <2>1, <2>2
<1>8. GoneMarked'
  BY <1>3, <1>7 DEF Kept, GoneMarked, Inv, RemoteConsistent
<1> QED
  BY <1>4, <1>8 DEF Kept

LEMMA StepKept == Inv /\ Kept /\ [Next]_vars => Kept'
<1> SUFFICES ASSUME Inv, Kept, [Next]_vars
             PROVE  Kept'
  OBVIOUS
<1>1. ASSUME NEW d \in Drafts, Submit(d) \/ Retry(d) \/ Cancel(d)
      PROVE  Kept'
  BY <1>1, SendKept, ClientKept DEF Submit, Retry, CreatePost
<1>2. ASSUME NEW r \in requests, CreateSucceeds(r) \/ CreateFails(r) \/ CreateRefused(r)
      PROVE  Kept'
  BY <1>2, CreateSucceedsKept, CreateFailsKept, CreateRefusedKept
<1>3. CASE HandleEvent
  BY <1>3, HandleEventKept
<1>4. ASSUME NEW id \in DOMAIN server, DeleteOwn(id)
      PROVE  Kept'
  BY <1>4, DeleteOwnKept
<1>5. ASSUME NEW id \in DOMAIN server, ServerDeletes(id)
      PROVE  Kept'
  BY <1>5, DeletedKept DEF ServerDeletes
<1>6. ASSUME NEW r \in requests, ServerCreates(r)
      PROVE  Kept'
  <2> DEFINE c == [r EXCEPT !.outcome = "created", !.id = NextId]
  <2>1. /\ Created(r.draft, RootOf(r.draft))
        /\ requests' = (requests \ {r}) \cup {q \in {c} : q.open}
        /\ UNCHANGED <<posts, order, thread, attempts, dismissed>>
    BY <1>6 DEF ServerCreates
  <2>2. r.draft \in Drafts /\ attempts[r.draft] > 0 /\ c.outcome = "created"
    BY DEF Inv, TypeOK, Requests, RemoteConsistent
  <2>3. \A q \in requests' : q \in requests \/ q.outcome = "created"
    BY <2>1, <2>2
  <2>4. RootOf(r.draft) \in {None, Root}
    BY DEF RootOf
  <2> QED
    BY <2>1, <2>2, <2>3, <2>4, CreatedKept
<1>7. ASSUME NEW r \in requests, ServerRefuses(r)
      PROVE  Kept'
  <2> DEFINE c == [r EXCEPT !.outcome = "rootGone"]
  <2>1. /\ r.draft \in Replies /\ server[Root].deleted
        /\ requests' = (requests \ {r}) \cup {q \in {c} : q.open}
        /\ UNCHANGED <<posts, order, thread, server, events, attempts, dismissed>>
    BY <1>7 DEF ServerRefuses
  <2>2. c.draft = r.draft
    BY DEF Inv, TypeOK, Requests
  <2>3. Rooted' /\ NothingLost'
    BY <2>1 DEF Kept, Rooted, NothingLost, Answerable, Shown, StandIns, View, PostsOf
  <2>4. GoneMarked'
    BY <2>1, <2>2 DEF Kept, GoneMarked
  <2> QED
    BY <2>3, <2>4 DEF Kept
<1>8. CASE OtherPosts
  <2>1. RootOf(None) = None
    BY SendingAssumption DEF RootOf, None
  <2> QED
    BY <1>8, <2>1, CreatedKept DEF OtherPosts
<1>9. CASE OtherDeletesRoot
  BY <1>9, DeletedKept DEF OtherDeletesRoot, Inv, RemoteConsistent
<1>10. CASE UNCHANGED vars
  BY <1>10
  DEF vars, Kept, Rooted, GoneMarked, NothingLost, Answerable, Shown, StandIns, View, PostsOf
<1> QED
  BY <1>1, <1>2, <1>3, <1>4, <1>5, <1>6, <1>7, <1>8, <1>9, <1>10 DEF Next

-----------------------------------------------------------------------------

\* Every variable keeps to its values: the requests, the events and the store
\* only ever hold posts and drafts that exist.
THEOREM TypeCorrect == Spec => []TypeOK
<1>1. Inv => TypeOK
  BY DEF Inv
<1> QED
  BY InitInv, StepInv, <1>1, PTL DEF Spec

\* The channel never shows a post twice, in whatever order the answers and the
\* events of any number of messages, attempts and other posts arrive.
THEOREM NeverTwice == Spec => []NoDuplicates
<1>1. Inv => NoDuplicates
  BY DEF Inv, Placed
<1> QED
  BY InitInv, StepInv, <1>1, PTL DEF Spec

\* The reducers of POST_DELETED and POST_REMOVED find every listed post.
THEOREM AlwaysStored == Spec => []StoredBeforeShown
<1>1. Inv => StoredBeforeShown
  BY DEF Inv, Placed
<1> QED
  BY InitInv, StepInv, <1>1, PTL DEF Spec

\* A message is never on its way twice at a time.
THEOREM OneRequestAtATime == Spec => []OneRequestPerDraft
<1>1. Inv => OneRequestPerDraft
  BY DEF Inv
<1> QED
  BY InitInv, StepInv, <1>1, PTL DEF Spec

\* The channel never shows a root message next to the post made from it.
THEOREM NeverTwins == Spec => []NoTwinRoot
<1>1. Inv => NoTwinRoot
  BY DEF Inv
<1> QED
  BY InitInv, StepInv, <1>1, PTL DEF Spec

\* Whatever becomes of the requests and the events, a message the user sent is
\* on screen, pending, failed or delivered, until the user takes it back or its
\* thread is deleted.
THEOREM NeverLost == Spec => []NothingLost
<1>1. Init => Inv /\ Kept
  BY InitInv, InitKept
<1>2. Inv /\ Kept /\ [Next]_vars => (Inv /\ Kept)'
  BY StepInv, StepKept
<1>3. Inv /\ Kept => NothingLost
  BY DEF Kept
<1> QED
  BY <1>1, <1>2, <1>3, PTL DEF Spec

-----------------------------------------------------------------------------
(***************************************************************************)
(* Sending implements Outbox, for any drafts, attempts and posts by        *)
(* others: each step is, for the author, a step of Outbox or none at all.  *)
(*                                                                         *)
(* The phase of a draft is read off the posts that stand for it where it   *)
(* belongs.  A step of a reducer concerns the stand-ins of one draft only, *)
(* so that the phases of all others stay; for that draft the invariants    *)
(* say which of its stand-ins were shown before.                           *)
(***************************************************************************)

\* A draft that was never sent has left no trace, and the user deletes posts of
\* their own only.
Grounded ==
  /\ server[Root].draft = None
  /\ \A id \in deletions : server[id].draft # None
  /\ \A d \in Drafts : attempts[d] = 0 => d \notin DOMAIN posts /\ d \notin dismissed

\* The thread lists replies, and every delivered reply that the channel lists.
Belongs ==
  \A x \in DOMAIN server :
    /\ x \in thread => server[x].root # None
    /\ x \in ToSet(order) /\ server[x].root # None => x \in thread

Sound == Inv /\ Kept /\ Grounded /\ Belongs

-----------------------------------------------------------------------------
\* The reducers.

\* What both receiving reducers do to the posts other than the one received
\* and the one it replaces.
LEMMA ReceivedElsewhere ==
  ASSUME Inv, NEW p, Received(p),
         \/ ReceiveNewPost(p)
         \/ /\ ReceivePost(p)
            /\ p.pending \in ToSet(order) => p.id = p.pending \/ p.id \notin ToSet(order)
  PROVE  /\ thread' = ThreadWith(p)
         /\ \A x : x \notin {p.id, p.pending} => (x \in ToSet(order') <=> x \in ToSet(order))
         /\ \A x : x \notin {p.id, p.pending} => (x \in thread' <=> x \in thread)
         /\ \A x \in DOMAIN posts \ {p.id, p.pending} :
              x \in DOMAIN posts' /\ posts'[x] = posts[x]
         /\ DOMAIN posts' \subseteq DOMAIN posts \cup {p.id}
<1>1. StoreTyped /\ Placed
  BY InvStore
<1>2. /\ posts' = PostsWith(p) /\ thread' = ThreadWith(p)
      /\ Replaced(p) \subseteq {p.pending}
  BY DEF ReceiveNewPost, ReceivePost, Replaced
<1>3. \A x : x \notin {p.id, p.pending} => (x \in thread' <=> x \in thread)
  BY <1>2 DEF ThreadWith
<1>4. \A x : x \notin {p.id, p.pending} => (x \in ToSet(order') <=> x \in ToSet(order))
  <2>1. CASE ReceiveNewPost(p)
    <3>1. /\ InChannel(p) => ToSet(order') = (ToSet(order) \cup {p.id}) \ Replaced(p)
          /\ ~InChannel(p) => order' = order
      BY <1>1, <2>1, ReceiveNewPostStore
    <3> QED
      BY <1>2, <3>1
  <2>2. CASE /\ ReceivePost(p)
             /\ p.pending \in ToSet(order) => p.id = p.pending \/ p.id \notin ToSet(order)
    <3>1. /\ ToSet(order') \subseteq (ToSet(order) \cup {p.id}) \ Replaced(p)
          /\ ToSet(order) \subseteq ToSet(order') \cup {p.pending}
      BY <1>1, <2>2, ReceivePostStore
    <3> QED
      BY <3>1
  <2> QED
    BY <2>1, <2>2
<1>5. \A x \in DOMAIN posts \ {p.id, p.pending} :
        x \in DOMAIN posts' /\ posts'[x] = posts[x]
  <2>1. CASE p.id \in DOMAIN posts /\ ~PendingOrFailed(p)
    BY <1>2, <2>1 DEF PostsWith
  <2>2. CASE ~(p.id \in DOMAIN posts /\ ~PendingOrFailed(p))
    <3>1. posts' = [x \in (DOMAIN posts \cup {p.id}) \ Replaced(p) |->
                      IF x = p.id THEN p ELSE posts[x]]
      BY <1>2, <2>2 DEF PostsWith
    <3> QED
      BY <1>2, <3>1
  <2> QED
    BY <2>1, <2>2
<1>6. DOMAIN posts' \subseteq DOMAIN posts \cup {p.id}
  BY <1>1, <1>2, PostsWithProperties
<1> QED
  BY <1>2, <1>3, <1>4, <1>5, <1>6

LEMMA ReceivedBelongs ==
  ASSUME Inv, Belongs, NEW p, Received(p), server' = server,
         p.id \in DOMAIN server => p.root = server[p.id].root,
         \/ ReceiveNewPost(p)
         \/ /\ ReceivePost(p)
            /\ p.pending \in ToSet(order) => p.id = p.pending \/ p.id \notin ToSet(order)
  PROVE  Belongs'
<1>1. /\ thread' = ThreadWith(p)
      /\ \A x : x \notin {p.id, p.pending} => (x \in ToSet(order') <=> x \in ToSet(order))
      /\ \A x : x \notin {p.id, p.pending} => (x \in thread' <=> x \in thread)
  BY ReceivedElsewhere
<1> SUFFICES ASSUME NEW x \in DOMAIN server
             PROVE  /\ x \in thread' => server[x].root # None
                    /\ x \in ToSet(order') /\ server[x].root # None => x \in thread'
  BY DEF Belongs
<1>2. x # p.pending
  BY ReceivedReply, PayloadProperties
<1>3. CASE x = p.id
  <2>1. p.root # None => x \in thread'
    BY <1>1, <1>2, <1>3 DEF ThreadWith, Replaced
  <2>2. p.root = None => thread' = thread
    BY <1>1 DEF ThreadWith
  <2> QED
    BY <1>3, <2>1, <2>2 DEF Belongs
<1>4. CASE x # p.id
  BY <1>1, <1>2, <1>4 DEF Belongs
<1> QED
  BY <1>3, <1>4

LEMMA RemovedBelongs ==
  ASSUME Inv, Belongs, NEW id, RemovePost(id), server' = server
  PROVE  Belongs'
<1>1. thread' = thread \ {id} /\ ToSet(order') = ToSet(order) \ {id}
  BY InvStore, RemovePostStore DEF RemovePost
<1> QED
  BY <1>1 DEF Belongs


-----------------------------------------------------------------------------
\* The invariant.

LEMMA InitSound == Init => Sound
<1> SUFFICES ASSUME Init
             PROVE  Sound
  OBVIOUS
<1>1. /\ server = <<[draft |-> None, root |-> None, deleted |-> FALSE]>>
      /\ posts = [id \in {Root} |-> Post(Root, None, None, Root, FALSE)]
      /\ thread = {} /\ deletions = {} /\ dismissed = {}
  BY DEF Init
<1>2. Root \notin Drafts /\ server[Root].draft = None
  BY <1>1, SendingAssumption DEF Root
<1>3. Grounded
  BY <1>1, <1>2 DEF Grounded
<1>4. Belongs
  BY <1>1 DEF Belongs
<1> QED
  BY <1>3, <1>4, InitInv, InitKept DEF Sound

LEMMA ReceivedGrounded ==
  ASSUME Inv, Grounded, NEW p, Received(p), ReceiveNewPost(p) \/ ReceivePost(p),
         UNCHANGED <<server, deletions, dismissed>>,
         \A d \in Drafts : attempts'[d] = 0 => attempts[d] = 0 /\ p.id # d
  PROVE  Grounded'
<1>1. DOMAIN posts' \subseteq DOMAIN posts \cup {p.id}
  BY InvStore, PostsWithProperties DEF ReceiveNewPost, ReceivePost
<1> QED
  BY <1>1 DEF Grounded

LEMMA RemovedGrounded ==
  ASSUME Inv, Grounded, NEW id, RemovePost(id), UNCHANGED <<server, attempts>>,
         \A x \in deletions' : x \in deletions \/ server[x].draft # None,
         \A d \in dismissed' : d \in dismissed \/ attempts[d] # 0
  PROVE  Grounded'
<1>1. DOMAIN posts' \subseteq DOMAIN posts
  BY DEF RemovePost
<1> QED
  BY <1>1 DEF Grounded

LEMMA CreateSucceedsSound ==
  ASSUME Inv, Grounded, Belongs, NEW r \in requests, CreateSucceeds(r)
  PROVE  Grounded' /\ Belongs'
<1> DEFINE p == Payload(r.id)
<1>1. /\ r.open /\ r.outcome = "created"
      /\ ReceivePost(p)
      /\ UNCHANGED <<server, deletions, attempts, dismissed>>
  BY DEF CreateSucceeds
<1>2. r.id \in DOMAIN server /\ server[r.id].draft = r.draft
  BY <1>1 DEF Inv, RemoteConsistent
<1>3. /\ Received(p) /\ p.id = r.id /\ p.pending = r.draft /\ p.root = server[r.id].root
      /\ r.id \notin Drafts
  BY <1>2, PayloadProperties DEF Payload, Post
<1> HIDE DEF p
<1>4. p.pending \in ToSet(order) => p.id \notin ToSet(order)
  BY <1>1, <1>3 DEF Inv, AnswerNotShown
<1>5. Grounded'
  BY <1>1, <1>3, ReceivedGrounded
<1> QED
  BY <1>1, <1>3, <1>4, <1>5, ReceivedBelongs

LEMMA CreateFailsSound ==
  ASSUME Inv, Grounded, Belongs, NEW r \in requests, CreateFails(r)
  PROVE  Grounded' /\ Belongs'
<1> DEFINE p == PendingPost(r.draft, r.time, TRUE)
<1>1. /\ ReceivePost(p)
      /\ UNCHANGED <<server, deletions, attempts, dismissed>>
  BY DEF CreateFails
<1>2. r.draft \in Drafts /\ r.time \in Nat /\ attempts[r.draft] > 0
  BY DEF Inv, TypeOK, Requests, RemoteConsistent
<1>3. Received(p) /\ p.id = r.draft /\ p.pending = r.draft /\ r.draft \notin Nat
  BY <1>2, PendingProperties
<1>6. r.draft \notin DOMAIN server
  BY <1>3 DEF Inv, TypeOK
<1> HIDE DEF p
<1>4. Grounded'
  BY <1>1, <1>2, <1>3, ReceivedGrounded
<1>5. Belongs'
  BY <1>1, <1>3, <1>6, ReceivedBelongs
<1> QED
  BY <1>4, <1>5

LEMMA SendSound ==
  ASSUME Inv, Grounded, Belongs, NEW d \in Drafts, NEW failed \in BOOLEAN, Send(d, failed)
  PROVE  Grounded' /\ Belongs'
<1> DEFINE p == PendingPost(d, AttemptTime, failed)
<1>1. /\ ReceiveNewPost(p)
      /\ attempts' = [attempts EXCEPT ![d] = @ + 1]
      /\ UNCHANGED <<server, deletions, dismissed>>
  BY DEF Send
<1>2. Received(p) /\ p.id = d /\ p.pending = d /\ d \notin DOMAIN server
  BY PendingProperties, AttemptTimeNat DEF Inv, TypeOK
<1> HIDE DEF p
<1>3. \A e \in Drafts : attempts'[e] = 0 => attempts[e] = 0 /\ e # d
  BY <1>1 DEF Inv, TypeOK
<1>4. Grounded'
  BY <1>1, <1>2, <1>3, ReceivedGrounded
<1> QED
  BY <1>1, <1>2, <1>4, ReceivedBelongs


LEMMA CancelSound ==
  ASSUME Inv, Grounded, Belongs, NEW d \in Drafts, Cancel(d)
  PROVE  Grounded' /\ Belongs'
<1>1. /\ d \in DOMAIN posts
      /\ RemovePost(d) /\ dismissed' = dismissed \cup {d}
      /\ UNCHANGED <<server, deletions, attempts>>
  BY DEF Cancel, ShowsFailed
<1>2. attempts[d] # 0
  BY <1>1 DEF Grounded
<1>3. Grounded'
  BY <1>1, <1>2, RemovedGrounded
<1> QED
  BY <1>1, <1>3, RemovedBelongs

LEMMA CreateRefusedSound ==
  ASSUME Inv, Grounded, Belongs, NEW r \in requests, CreateRefused(r)
  PROVE  Grounded' /\ Belongs'
<1>1. RemovePost(r.draft) /\ UNCHANGED <<server, deletions, attempts, dismissed>>
  BY DEF CreateRefused
<1>2. Grounded'
  BY <1>1, RemovedGrounded
<1> QED
  BY <1>1, <1>2, RemovedBelongs

LEMMA DeleteOwnSound ==
  ASSUME Inv, Grounded, Belongs, NEW id \in DOMAIN server, DeleteOwn(id)
  PROVE  Grounded' /\ Belongs'
<1>1. /\ server[id].draft # None
      /\ RemovePost(id) /\ dismissed' = dismissed \cup {server[id].draft}
      /\ deletions' = deletions \cup {id}
      /\ UNCHANGED <<server, attempts>>
  BY DEF DeleteOwn
<1>2. attempts[server[id].draft] # 0
  BY <1>1 DEF Inv, RemoteConsistent
<1>3. Grounded'
  BY <1>1, <1>2, RemovedGrounded
<1> QED
  BY <1>1, <1>3, RemovedBelongs

LEMMA HandleEventSound ==
  ASSUME Inv, Rooted, Grounded, Belongs, HandleEvent
  PROVE  Grounded' /\ Belongs'
<1> DEFINE e == Head(events)
<1>1. /\ events # <<>>
      /\ UNCHANGED <<server, deletions, attempts, dismissed>>
  BY DEF HandleEvent
<1>2. e.id \in DOMAIN server
  <2>1. events \in Seq(EventRecords)
    BY DEF Inv, TypeOK, EventRecords
  <2>2. Len(events) \in Nat \ {0} /\ e = events[1]
    BY <1>1, <2>1
  <2> QED
    BY <2>2 DEF Inv, RemoteConsistent
<1>3. \/ ReceiveNewPost(Payload(e.id))
      \/ DeletePost(e.id)
  BY DEF HandleEvent
<1> HIDE DEF e
<1>4. CASE ReceiveNewPost(Payload(e.id))
  <2> DEFINE p == Payload(e.id)
  <2>1. /\ Received(p) /\ p.id = e.id /\ p.pending = server[e.id].draft
        /\ p.root = server[e.id].root /\ e.id \notin Drafts
    BY <1>2, PayloadProperties DEF Payload, Post
  <2>2. ReceiveNewPost(p)
    BY <1>4
  <2> HIDE DEF p
  <2>3. Grounded'
    BY <1>1, <2>1, <2>2, ReceivedGrounded
  <2> QED
    BY <1>1, <2>1, <2>2, <2>3, ReceivedBelongs
<1>5. CASE DeletePost(e.id)
  <2>1. /\ DOMAIN posts' \subseteq DOMAIN posts
        /\ ToSet(order') = ToSet(order) \ CommentsOf(e.id)
        /\ thread' = IF e.id = Root THEN {} ELSE thread
    <3>1. DOMAIN posts' \subseteq DOMAIN posts
      BY <1>5 DEF DeletePost
    <3>2. order' \in FilteredFrom(order, CommentsOf(e.id)) /\ order \in Seq(Ids)
      BY <1>5 DEF DeletePost, Inv, TypeOK
    <3>3. ToSet(order') = ToSet(order) \ CommentsOf(e.id)
      BY <3>2, FilteredProperties
    <3> QED
      BY <1>5, <3>1, <3>3 DEF DeletePost
  <2>2. Grounded'
    BY <1>1, <2>1 DEF Grounded
  <2>3. Belongs'
    <3>1. CASE e.id # Root
      BY <1>1, <2>1, <3>1 DEF Belongs
    <3>2. CASE e.id = Root
      <4>1. ASSUME NEW x \in DOMAIN server, x \in ToSet(order), server[x].root # None
            PROVE  x \in CommentsOf(Root)
        <5>1. x \in DOMAIN posts /\ posts[x].root = server[x].root
          BY <4>1 DEF Inv, Placed, StoredBeforeShown, Rooted
        <5>2. server[x] \in ServerPosts
          BY DEF Inv, TypeOK
        <5>3. server[x].root = Root
          BY <4>1, <5>2 DEF ServerPosts
        <5> QED
          BY <5>1, <5>3 DEF CommentsOf
      <4> QED
        BY <1>1, <2>1, <3>2, <4>1 DEF Belongs
    <3> QED
      BY <3>1, <3>2
  <2> QED
    BY <2>2, <2>3
<1> QED
  BY <1>3, <1>4, <1>5

LEMMA CreatedSound ==
  ASSUME Inv, Grounded, Belongs,
         NEW d \in Drafts \cup {None}, NEW root \in {None, Root},
         root = RootOf(d), d # None => attempts[d] > 0, Created(d, root),
         UNCHANGED <<posts, order, thread, deletions, attempts, dismissed>>
  PROVE  Grounded' /\ Belongs'
<1>1. /\ DOMAIN server' = DOMAIN server \cup {NextId}
      /\ \A id \in DOMAIN server : server'[id] = server[id]
      /\ NextId \in Nat /\ NextId \notin DOMAIN server
      /\ NextId \notin ToSet(order)
  BY CreatedProperties
<1>2. NextId \notin thread
  BY <1>1 DEF Inv, KnownPosts, Placed, StoredBeforeShown
<1>3. Grounded'
  BY <1>1 DEF Grounded, Inv, RemoteConsistent
<1>4. Belongs'
  BY <1>1, <1>2 DEF Belongs
<1> QED
  BY <1>3, <1>4

LEMMA DeletedSound ==
  ASSUME Inv, Grounded, Belongs, NEW id \in DOMAIN server, Deleted(id),
         deletions' \subseteq deletions,
         UNCHANGED <<posts, order, thread, attempts, dismissed>>
  PROVE  Grounded' /\ Belongs'
<1>1. /\ DOMAIN server' = DOMAIN server
      /\ \A i \in DOMAIN server :
           server'[i].draft = server[i].draft /\ server'[i].root = server[i].root
  <2> DEFINE gone == [server[id] EXCEPT !.deleted = TRUE]
  <2>1. server[id] \in ServerPosts /\ server \in Seq(ServerPosts)
    BY DEF Inv, TypeOK
  <2>2. gone.draft = server[id].draft /\ gone.root = server[id].root
    BY <2>1 DEF ServerPosts
  <2>3. server' = [server EXCEPT ![id] = gone]
    BY DEF Deleted
  <2> HIDE DEF gone
  <2> QED
    BY <2>1, <2>2, <2>3
<1>2. Grounded'
  BY <1>1 DEF Grounded, Inv, RemoteConsistent
<1>3. Belongs'
  BY <1>1 DEF Belongs
<1> QED
  BY <1>2, <1>3

LEMMA StepSound == Sound /\ [Next]_vars => Sound'
<1> SUFFICES ASSUME Inv, Kept, Grounded, Belongs, [Next]_vars
             PROVE  Grounded' /\ Belongs'
  BY StepInv, StepKept DEF Sound
<1>1. ASSUME NEW d \in Drafts, Submit(d) \/ Retry(d) \/ Cancel(d)
      PROVE  Grounded' /\ Belongs'
  BY <1>1, SendSound, CancelSound DEF Submit, Retry, CreatePost
<1>2. ASSUME NEW r \in requests, CreateSucceeds(r) \/ CreateFails(r) \/ CreateRefused(r)
      PROVE  Grounded' /\ Belongs'
  BY <1>2, CreateSucceedsSound, CreateFailsSound, CreateRefusedSound
<1>3. CASE HandleEvent
  BY <1>3, HandleEventSound DEF Kept
<1>4. ASSUME NEW id \in DOMAIN server, DeleteOwn(id)
      PROVE  Grounded' /\ Belongs'
  BY <1>4, DeleteOwnSound
<1>5. ASSUME NEW id \in DOMAIN server, ServerDeletes(id)
      PROVE  Grounded' /\ Belongs'
  <2>1. deletions' \subseteq deletions
    BY <1>5 DEF ServerDeletes
  <2> QED
    BY <1>5, <2>1, DeletedSound DEF ServerDeletes
<1>6. ASSUME NEW r \in requests, ServerCreates(r)
      PROVE  Grounded' /\ Belongs'
  <2>1. /\ Created(r.draft, RootOf(r.draft))
        /\ UNCHANGED <<posts, order, thread, deletions, attempts, dismissed>>
    BY <1>6 DEF ServerCreates
  <2>2. r.draft \in Drafts /\ attempts[r.draft] > 0 /\ RootOf(r.draft) \in {None, Root}
    BY DEF Inv, TypeOK, Requests, RemoteConsistent, RootOf
  <2> QED
    BY <2>1, <2>2, CreatedSound
<1>7. ASSUME NEW r \in requests, ServerRefuses(r)
      PROVE  Grounded' /\ Belongs'
  BY <1>7 DEF ServerRefuses, Grounded, Belongs
<1>8. CASE OtherPosts
  <2>1. RootOf(None) = None
    BY SendingAssumption DEF RootOf, None
  <2> QED
    BY <1>8, <2>1, CreatedSound DEF OtherPosts
<1>9. CASE OtherDeletesRoot
  <2>1. Root \in DOMAIN server
    BY DEF Inv, RemoteConsistent
  <2> QED
    BY <1>9, <2>1, DeletedSound DEF OtherDeletesRoot
<1>10. CASE UNCHANGED vars
  BY <1>10 DEF vars, Grounded, Belongs
<1> QED
  BY <1>1, <1>2, <1>3, <1>4, <1>5, <1>6, <1>7, <1>8, <1>9, <1>10 DEF Next


-----------------------------------------------------------------------------
\* The phases.

Over(d) == d \in dismissed \/ ~Answerable(d)

\* How the phase of a draft is read off the store: no draft is lost.
PhasesRead ==
  \A d \in Drafts :
    /\ attempts[d] = 0 => PhaseOf(d) = "unsent"
    /\ attempts[d] # 0 /\ Over(d) => PhaseOf(d) = "over"
    /\ attempts[d] # 0 /\ ~Over(d) /\ Delivered(d) => PhaseOf(d) = "delivered"
    /\ attempts[d] # 0 /\ ~Over(d) /\ ~Delivered(d) =>
         /\ d \in DOMAIN posts /\ d \in View(d)
         /\ PhaseOf(d) = IF posts[d].failed THEN "failed" ELSE "sending"

LEMMA SoundPhases == Sound => PhasesRead
<1> SUFFICES ASSUME Sound, NEW d \in Drafts
             PROVE  /\ attempts[d] = 0 => PhaseOf(d) = "unsent"
                    /\ attempts[d] # 0 /\ Over(d) => PhaseOf(d) = "over"
                    /\ attempts[d] # 0 /\ ~Over(d) /\ Delivered(d) => PhaseOf(d) = "delivered"
                    /\ attempts[d] # 0 /\ ~Over(d) /\ ~Delivered(d) =>
                         /\ d \in DOMAIN posts /\ d \in View(d)
                         /\ PhaseOf(d) = IF posts[d].failed THEN "failed" ELSE "sending"
  BY DEF PhasesRead
<1>1. attempts[d] \in Nat
  BY DEF Sound, Inv, TypeOK
<1>2. CASE attempts[d] = 0
  BY <1>2 DEF PhaseOf
<1>3. CASE attempts[d] # 0 /\ Over(d)
  BY <1>1, <1>3 DEF PhaseOf, Over
<1>4. CASE attempts[d] # 0 /\ ~Over(d) /\ Delivered(d)
  BY <1>1, <1>4 DEF PhaseOf, Over
<1>5. CASE attempts[d] # 0 /\ ~Over(d) /\ ~Delivered(d)
  <2>1. d \in View(d)
    BY <1>1, <1>5 DEF Sound, Kept, NothingLost, Over, Shown, StandIns, Delivered
  <2>2. d \in DOMAIN posts
    BY <2>1 DEF View, Sound, Inv, Placed, StoredBeforeShown
  <2> QED
    BY <1>1, <1>5, <2>1, <2>2 DEF PhaseOf, Over
<1> QED
  BY <1>2, <1>3, <1>4, <1>5

LEMMA SoundPhasesNext == Sound' => PhasesRead'
BY SoundPhases, PTL

LEMMA SamePhase ==
  ASSUME Sound, Sound', NEW d \in Drafts, Answerable(d)' <=> Answerable(d),
         attempts'[d] = 0 <=> attempts[d] = 0,
         d \in dismissed' <=> d \in dismissed,
         attempts[d] # 0 /\ ~Over(d) =>
           /\ Delivered(d)' <=> Delivered(d)
           /\ ~Delivered(d) => posts'[d].failed = posts[d].failed
  PROVE  PhaseOf(d)' = PhaseOf(d)
<1>1. PhasesRead /\ PhasesRead'
  BY SoundPhases, SoundPhasesNext
<1>2. Over(d)' <=> Over(d)
  BY DEF Over
<1>3. CASE attempts[d] = 0
  BY <1>1, <1>3 DEF PhasesRead
<1>4. CASE attempts[d] # 0 /\ Over(d)
  BY <1>1, <1>2, <1>4 DEF PhasesRead
<1>5. CASE attempts[d] # 0 /\ ~Over(d) /\ Delivered(d)
  BY <1>1, <1>2, <1>5 DEF PhasesRead
<1>6. CASE attempts[d] # 0 /\ ~Over(d) /\ ~Delivered(d)
  BY <1>1, <1>2, <1>6 DEF PhasesRead
<1> QED
  BY <1>3, <1>4, <1>5, <1>6

\* No step of the author's view: the same phases, posts and thread.
LEMMA OutboxStutters ==
  ASSUME server'[Root].deleted = server[Root].deleted,
         created' = created,
         \A d \in Drafts : PhaseOf(d)' = PhaseOf(d)
  PROVE  [O!Next]_(O!vars)
<1>1. phase' = phase
  BY DEF phase
<1> QED
  BY <1>1 DEF O!vars

LEMMA OutboxBecomes ==
  ASSUME NEW d \in Drafts, NEW p, PhaseOf(d)' = p,
         \A e \in Drafts : e # d => PhaseOf(e)' = PhaseOf(e)
  PROVE  O!Becomes(d, p)
BY DEF O!Becomes, phase

LEMMA OutboxSends ==
  ASSUME NEW d \in Drafts, server' = server, PhaseOf(d) = "unsent",
         PhaseOf(d)' = IF Answerable(d) THEN "sending" ELSE "over",
         \A e \in Drafts : e # d => PhaseOf(e)' = PhaseOf(e)
  PROVE  O!Next
<1>1. phase[d] = "unsent"
  BY DEF phase
<1>2. O!Becomes(d, IF O!Orphan(d) THEN "over" ELSE "sending")
  BY OutboxBecomes DEF O!Orphan, Answerable
<1>3. created' = created
  BY DEF created, PostsOf
<1>4. O!Send(d)
  BY <1>1, <1>2, <1>3 DEF O!Send
<1> QED
  BY <1>4 DEF O!Next


LEMMA OutboxDelivers ==
  ASSUME NEW d \in Drafts, server' = server, PhaseOf(d) \in {"sending", "failed"},
         d \in created, PhaseOf(d)' = "delivered",
         \A e \in Drafts : e # d => PhaseOf(e)' = PhaseOf(e)
  PROVE  O!Next
<1>1. phase[d] \in {"sending", "failed"}
  BY DEF phase
<1>2. O!Becomes(d, "delivered")
  BY OutboxBecomes
<1>3. created' = created
  BY DEF created, PostsOf
<1>4. O!Deliver(d)
  BY <1>1, <1>2, <1>3 DEF O!Deliver
<1> QED
  BY <1>4 DEF O!Next

LEMMA OutboxFails ==
  ASSUME NEW d \in Drafts, server' = server, PhaseOf(d) = "sending",
         PhaseOf(d)' = "failed",
         \A e \in Drafts : e # d => PhaseOf(e)' = PhaseOf(e)
  PROVE  O!Next
<1>1. phase[d] = "sending"
  BY DEF phase
<1>2. O!Becomes(d, "failed")
  BY OutboxBecomes
<1>3. created' = created
  BY DEF created, PostsOf
<1>4. O!Fail(d)
  BY <1>1, <1>2, <1>3 DEF O!Fail
<1> QED
  BY <1>4 DEF O!Next

LEMMA OutboxTakesBack ==
  ASSUME NEW d \in Drafts, server' = server, PhaseOf(d) \in {"failed", "delivered"},
         PhaseOf(d)' = "over",
         \A e \in Drafts : e # d => PhaseOf(e)' = PhaseOf(e)
  PROVE  O!Next
<1>1. phase[d] \in {"failed", "delivered"}
  BY DEF phase
<1>2. O!Becomes(d, "over")
  BY OutboxBecomes
<1>3. created' = created
  BY DEF created, PostsOf
<1>4. O!TakeBack(d)
  BY <1>1, <1>2, <1>3 DEF O!TakeBack
<1> QED
  BY <1>4 DEF O!Next

\* Nothing but a phase may change while the server stands still.
LEMMA ClientStutters ==
  ASSUME server' = server, \A d \in Drafts : PhaseOf(d)' = PhaseOf(d)
  PROVE  [O!Next]_(O!vars)
<1>1. created' = created
  BY DEF created, PostsOf
<1> QED
  BY <1>1, OutboxStutters

-----------------------------------------------------------------------------
\* A post is received.

\* The phases of all drafts but the one the post stands for.
LEMMA ReceivedOthers ==
  ASSUME Sound, Sound', NEW p, Received(p), server' = server, dismissed' = dismissed,
         p.id # p.pending => p.id \in DOMAIN server /\ server[p.id].draft = p.pending,
         \/ ReceiveNewPost(p)
         \/ /\ ReceivePost(p)
            /\ p.pending \in ToSet(order) => p.id = p.pending \/ p.id \notin ToSet(order),
         NEW d \in Drafts, d # p.pending, attempts'[d] = attempts[d]
  PROVE  PhaseOf(d)' = PhaseOf(d)
<1>1. Inv
  BY DEF Sound
<1>2. /\ \A x : x \notin {p.id, p.pending} => (x \in ToSet(order') <=> x \in ToSet(order))
      /\ \A x : x \notin {p.id, p.pending} => (x \in thread' <=> x \in thread)
      /\ \A x \in DOMAIN posts \ {p.id, p.pending} : posts'[x] = posts[x]
  BY <1>1, ReceivedElsewhere
<1>3. \A x \in DOMAIN server : x \notin Drafts
  BY <1>1, PayloadProperties
<1>4. d \notin {p.id, p.pending}
  BY <1>3
<1>5. \A x \in PostsOf(d) : x \notin {p.id, p.pending}
  <2>1. p.pending \in Drafts \cup {None} /\ None \notin DOMAIN server
    BY <1>1, PayloadProperties, ReceivedReply
  <2> QED
    BY <1>3, <2>1 DEF PostsOf
<1>6. PostsOf(d)' = PostsOf(d) /\ (Answerable(d)' <=> Answerable(d))
  BY DEF PostsOf, Answerable
<1>7. Delivered(d)' <=> Delivered(d)
  BY <1>2, <1>5, <1>6 DEF Delivered, View
<1>8. attempts[d] # 0 /\ ~Over(d) /\ ~Delivered(d) => d \in DOMAIN posts
  BY SoundPhases DEF PhasesRead
<1> QED
  BY <1>2, <1>4, <1>6, <1>7, <1>8, SamePhase

\* The draft of a received server post is delivered, unless it is over.
LEMMA ReceivedDelivers ==
  ASSUME Sound, Sound', NEW d \in Drafts, NEW id \in DOMAIN server, server[id].draft = d,
         NEW p, p = Payload(id), UNCHANGED <<server, attempts, dismissed>>,
         \/ ReceiveNewPost(p)
         \/ /\ ReceivePost(p)
            /\ d \in ToSet(order) => id \notin ToSet(order)
  PROVE  [O!Next]_(O!vars)
<1>1. Inv /\ Placed /\ StoreTyped
  BY InvStore DEF Sound
<1>14. d # None
  BY SendingAssumption DEF None
<1>2. /\ Received(p) /\ p.id = id /\ p.pending = d /\ p.root = server[id].root
      /\ id \notin Drafts /\ Replaced(p) = {d}
  BY <1>1, <1>14, PayloadProperties DEF Payload, Post
<1>4. id \in PostsOf(d) /\ p.root = RootOf(d) /\ attempts[d] # 0
  <2>1. attempts[d] > 0 /\ server[id].root = RootOf(d)
    BY <1>1, <1>14 DEF Inv, RemoteConsistent
  <2> QED
    BY <1>2, <2>1 DEF PostsOf
<1>5. \A e \in Drafts : e # d => PhaseOf(e)' = PhaseOf(e)
  BY <1>2, ReceivedOthers
<1>6. PhasesRead /\ PhasesRead'
  BY SoundPhases, SoundPhasesNext
<1>7. /\ Over(d)' <=> Over(d)
      /\ PostsOf(d)' = PostsOf(d)
  BY DEF Over, Answerable, PostsOf
<1>8. CASE Over(d)
  <2>1. PhaseOf(d)' = PhaseOf(d)
    BY <1>4, <1>6, <1>7, <1>8 DEF PhasesRead
  <2> QED
    BY <1>5, <2>1, ClientStutters
<1>9. CASE ~Over(d) /\ Delivered(d)
  <2>1. PICK x \in PostsOf(d) : x \in View(d)
    BY <1>9 DEF Delivered
  <2>2. x \notin Drafts
    BY <1>1, PayloadProperties DEF PostsOf
  <2>3. x \in View(d)'
    <3>1. CASE d \in Replies
      <4>1. thread' = IF p.root = None THEN thread ELSE (thread \cup {id}) \ {d}
        BY <1>2 DEF ReceiveNewPost, ReceivePost, ThreadWith
      <4> QED
        BY <2>1, <2>2, <3>1, <4>1 DEF View
    <3>2. CASE d \notin Replies
      <4>1. ToSet(order) \subseteq ToSet(order') \cup {d}
        <5>1. CASE ReceiveNewPost(p)
          BY <1>1, <1>2, <5>1, ReceiveNewPostStore
        <5>2. CASE ReceivePost(p) /\ (d \in ToSet(order) => id \notin ToSet(order))
          BY <1>1, <1>2, <5>2, ReceivePostStore
        <5> QED
          BY <5>1, <5>2
      <4> QED
        BY <2>1, <2>2, <3>2, <4>1 DEF View
    <3> QED
      BY <3>1, <3>2
  <2>4. Delivered(d)'
    BY <1>7, <2>1, <2>3 DEF Delivered
  <2>5. PhaseOf(d)' = PhaseOf(d)
    BY <1>4, <1>6, <1>7, <1>9, <2>4 DEF PhasesRead
  <2> QED
    BY <1>5, <2>5, ClientStutters
<1>10. CASE ~Over(d) /\ ~Delivered(d)
  <2>1. d \in View(d) /\ PhaseOf(d) \in {"sending", "failed"}
    BY <1>4, <1>6, <1>10 DEF PhasesRead
  <2>2. id \in View(d)'
    <3>1. CASE d \in Replies
      <4>1. thread' = (thread \cup {id}) \ {d}
        BY <1>2, <1>4, <3>1 DEF ReceiveNewPost, ReceivePost, ThreadWith, RootOf, Root, None
      <4> QED
        BY <1>2, <3>1, <4>1 DEF View
    <3>2. CASE d \notin Replies
      <4>1. InChannel(p) /\ d \in ToSet(order)
        BY <1>4, <2>1, <3>2 DEF InChannel, RootOf, View
      <4>2. id \in ToSet(order')
        <5>1. CASE ReceiveNewPost(p)
          BY <1>1, <1>2, <4>1, <5>1, ReceiveNewPostStore
        <5>2. CASE ReceivePost(p) /\ (d \in ToSet(order) => id \notin ToSet(order))
          BY <1>1, <1>2, <4>1, <5>2, ReceivePostStore
        <5> QED
          BY <5>1, <5>2
      <4> QED
        BY <3>2, <4>2 DEF View
    <3> QED
      BY <3>1, <3>2
  <2>3. Delivered(d)'
    BY <1>4, <1>7, <2>2 DEF Delivered
  <2>4. PhaseOf(d)' = "delivered"
    BY <1>4, <1>6, <1>7, <1>10, <2>3 DEF PhasesRead
  <2>5. d \in created
    BY <1>4 DEF created
  <2> QED
    BY <1>5, <2>1, <2>4, <2>5, OutboxDelivers
<1> QED
  BY <1>8, <1>9, <1>10

\* What becomes of a draft whose pending post is received.
LEMMA ReceivedPending ==
  ASSUME Sound, Sound', NEW d \in Drafts, NEW time \in Nat, NEW failed \in BOOLEAN,
         NEW p, p = PendingPost(d, time, failed), UNCHANGED <<server, dismissed>>,
         ReceiveNewPost(p) \/ ReceivePost(p),
         \A e \in Drafts : e # d => attempts'[e] = attempts[e]
  PROVE  /\ \A e \in Drafts : e # d => PhaseOf(e)' = PhaseOf(e)
         /\ Delivered(d)' <=> Delivered(d)
         /\ posts'[d].failed = failed
         /\ Over(d)' <=> Over(d)
<1>1. Inv /\ StoreTyped
  BY InvStore DEF Sound
<1>2. /\ Received(p) /\ p.id = d /\ p.pending = d /\ d \notin Nat /\ Replaced(p) = {}
  BY PendingProperties
<1>3. \A e \in Drafts : e # d => PhaseOf(e)' = PhaseOf(e)
  <2>1. \/ ReceiveNewPost(p)
        \/ /\ ReceivePost(p)
           /\ p.pending \in ToSet(order) => p.id = p.pending \/ p.id \notin ToSet(order)
    BY <1>2
  <2> QED
    BY <1>2, <2>1, ReceivedOthers
<1>4. Over(d)' <=> Over(d)
  BY DEF Over, Answerable
<1>5. Delivered(d)' <=> Delivered(d)
  <2>1. /\ \A x : x # d => (x \in ToSet(order') <=> x \in ToSet(order))
        /\ \A x : x # d => (x \in thread' <=> x \in thread)
    BY <1>1, <1>2, ReceivedElsewhere
  <2>2. d \notin PostsOf(d) /\ PostsOf(d)' = PostsOf(d)
    BY <1>1, PayloadProperties DEF PostsOf
  <2> QED
    BY <2>1, <2>2 DEF Delivered, View
<1>6. posts'[d].failed = failed
  <2>1. p.failed = failed
    BY DEF PendingPost, Post
  <2>2. posts' = [x \in DOMAIN posts \cup {d} |-> IF x = d THEN p ELSE posts[x]]
    BY <1>2 DEF ReceiveNewPost, ReceivePost, PostsWith, PendingOrFailed
  <2> QED
    BY <2>1, <2>2
<1> QED
  BY <1>3, <1>4, <1>5, <1>6

LEMMA SubmitImplements ==
  ASSUME Sound, Sound', NEW d \in Drafts, Submit(d)
  PROVE  O!Next
<1> DEFINE p == PendingPost(d, AttemptTime, FALSE)
<1>1. /\ attempts[d] = 0 /\ ReceiveNewPost(p)
      /\ attempts' = [attempts EXCEPT ![d] = @ + 1]
      /\ UNCHANGED <<server, dismissed>>
  BY DEF Submit, CreatePost, Send
<1>2. attempts \in [Drafts -> Nat]
  BY DEF Sound, Inv, TypeOK
<1>3. attempts'[d] # 0 /\ \A e \in Drafts : e # d => attempts'[e] = attempts[e]
  BY <1>1, <1>2
<1>4. /\ \A e \in Drafts : e # d => PhaseOf(e)' = PhaseOf(e)
      /\ Delivered(d)' <=> Delivered(d)
      /\ posts'[d].failed = FALSE
      /\ Over(d)' <=> Over(d)
  BY <1>1, <1>3, AttemptTimeNat, ReceivedPending
<1>5. ~Delivered(d) /\ (Over(d) <=> ~Answerable(d))
  <2>1. PostsOf(d) = {}
    <3>1. d # None
      BY SendingAssumption DEF None
    <3> QED
      BY <1>1, <1>2, <3>1 DEF PostsOf, Sound, Inv, RemoteConsistent
  <2>2. d \notin dismissed
    BY <1>1 DEF Sound, Grounded
  <2> QED
    BY <2>1, <2>2 DEF Delivered, Over
<1>6. PhaseOf(d) = "unsent" /\ PhaseOf(d)' = IF Answerable(d) THEN "sending" ELSE "over"
  BY <1>1, <1>3, <1>4, <1>5, SoundPhases, SoundPhasesNext DEF PhasesRead
<1> QED
  BY <1>1, <1>4, <1>6, OutboxSends

LEMMA RetryImplements ==
  ASSUME Sound, Sound', NEW d \in Drafts, Retry(d)
  PROVE  [O!Next]_(O!vars)
<1> DEFINE p == PendingPost(d, AttemptTime, TRUE)
<1>1. /\ d \in DOMAIN posts /\ posts[d].failed /\ ReceiveNewPost(p)
      /\ attempts' = [attempts EXCEPT ![d] = @ + 1]
      /\ UNCHANGED <<server, dismissed>>
  BY DEF Retry, ShowsFailed, CreatePost, Send
<1>2. attempts \in [Drafts -> Nat] /\ posts[d].failed = TRUE
  BY <1>1 DEF Sound, Inv, TypeOK, PostRecords
<1>3. /\ attempts[d] # 0 /\ attempts'[d] # 0
      /\ \A e \in Drafts : e # d => attempts'[e] = attempts[e]
  BY <1>1, <1>2 DEF Sound, Grounded
<1>4. /\ \A e \in Drafts : e # d => PhaseOf(e)' = PhaseOf(e)
      /\ Delivered(d)' <=> Delivered(d)
      /\ posts'[d].failed = TRUE
  BY <1>1, <1>3, AttemptTimeNat, ReceivedPending
<1>5. PhaseOf(d)' = PhaseOf(d)
  BY <1>1, <1>2, <1>3, <1>4, SamePhase DEF Answerable
<1> QED
  BY <1>1, <1>4, <1>5, ClientStutters

LEMMA CreateFailsImplements ==
  ASSUME Sound, Sound', NEW r \in requests, CreateFails(r)
  PROVE  [O!Next]_(O!vars)
<1>1. PICK d \in Drafts : d = r.draft
  BY DEF Sound, Inv, TypeOK, Requests
<1>2. /\ ReceivePost(PendingPost(d, r.time, TRUE))
      /\ UNCHANGED <<server, attempts, dismissed>>
  BY <1>1 DEF CreateFails
<1>3. r.time \in Nat /\ attempts[d] # 0
  BY <1>1 DEF Sound, Inv, TypeOK, Requests, RemoteConsistent
<1>4. /\ \A e \in Drafts : e # d => PhaseOf(e)' = PhaseOf(e)
      /\ Delivered(d)' <=> Delivered(d)
      /\ posts'[d].failed = TRUE
      /\ Over(d)' <=> Over(d)
  BY <1>2, <1>3, ReceivedPending
<1>5. PhasesRead /\ PhasesRead'
  BY SoundPhases, SoundPhasesNext
<1>6. CASE ~Over(d) /\ ~Delivered(d)
  <2>1. PhaseOf(d)' = "failed" /\ PhaseOf(d) \in {"sending", "failed"}
    BY <1>2, <1>3, <1>4, <1>5, <1>6 DEF PhasesRead
  <2> QED
    BY <1>2, <1>4, <2>1, ClientStutters, OutboxFails
<1>7. CASE Over(d) \/ Delivered(d)
  <2>1. PhaseOf(d)' = PhaseOf(d)
    BY <1>2, <1>3, <1>4, <1>5, <1>7 DEF PhasesRead
  <2> QED
    BY <1>2, <1>4, <2>1, ClientStutters
<1> QED
  BY <1>6, <1>7

LEMMA CreateSucceedsImplements ==
  ASSUME Sound, Sound', NEW r \in requests, CreateSucceeds(r)
  PROVE  [O!Next]_(O!vars)
<1>1. /\ r.open /\ r.outcome = "created"
      /\ ReceivePost(Payload(r.id))
      /\ UNCHANGED <<server, attempts, dismissed>>
  BY DEF CreateSucceeds
<1>2. PICK d \in Drafts : d = r.draft
  BY DEF Sound, Inv, TypeOK, Requests
<1>3. r.id \in DOMAIN server /\ server[r.id].draft = d
  BY <1>1, <1>2 DEF Sound, Inv, RemoteConsistent
<1>4. d \in ToSet(order) => r.id \notin ToSet(order)
  BY <1>1, <1>2 DEF Sound, Inv, AnswerNotShown
<1> QED
  BY <1>1, <1>3, <1>4, ReceivedDelivers

-----------------------------------------------------------------------------
\* A post is removed.

LEMMA RemovedOthers ==
  ASSUME Sound, Sound', NEW x, RemovePost(x), UNCHANGED <<server, attempts>>,
         NEW d \in Drafts, x \notin StandIns(d), d \in dismissed' <=> d \in dismissed
  PROVE  PhaseOf(d)' = PhaseOf(d)
<1>1. /\ posts' = [y \in DOMAIN posts \ {x} |-> posts[y]]
      /\ thread' = thread \ {x}
      /\ ToSet(order') = ToSet(order) \ {x}
  BY InvStore, RemovePostStore DEF RemovePost, Sound
<1>2. d # x /\ x \notin PostsOf(d)
  BY DEF StandIns
<1>3. /\ PostsOf(d)' = PostsOf(d)
      /\ Answerable(d)' <=> Answerable(d)
  BY DEF PostsOf, Answerable
<1>4. Delivered(d)' <=> Delivered(d)
  BY <1>1, <1>2, <1>3 DEF Delivered, View
<1>5. attempts[d] # 0 /\ ~Over(d) /\ ~Delivered(d) => d \in DOMAIN posts
  BY SoundPhases DEF PhasesRead
<1> QED
  BY <1>1, <1>2, <1>3, <1>4, <1>5, SamePhase

\* The user takes back a draft that is delivered or has failed.
LEMMA RemovedTakesBack ==
  ASSUME Sound, Sound', NEW d \in Drafts, NEW x, RemovePost(x),
         UNCHANGED <<server, attempts>>, dismissed' = dismissed \cup {d},
         attempts[d] # 0, \A e \in Drafts : e # d => x \notin StandIns(e),
         ~Over(d) => PhaseOf(d) \in {"failed", "delivered"}
  PROVE  [O!Next]_(O!vars)
<1>1. \A e \in Drafts : e # d => PhaseOf(e)' = PhaseOf(e)
  BY RemovedOthers
<1>2. PhaseOf(d)' = "over"
  BY SoundPhasesNext DEF PhasesRead, Over
<1>3. CASE Over(d)
  <2>1. PhaseOf(d)' = PhaseOf(d)
    BY <1>2, <1>3, SoundPhases DEF PhasesRead
  <2> QED
    BY <1>1, <2>1, ClientStutters
<1>4. CASE ~Over(d)
  BY <1>1, <1>2, <1>4, OutboxTakesBack
<1> QED
  BY <1>3, <1>4

LEMMA StandInsApart ==
  ASSUME Sound
  PROVE  /\ \A d, e \in Drafts : d \in StandIns(e) => d = e
         /\ \A id \in DOMAIN server, e \in Drafts : id \in StandIns(e) => server[id].draft = e
BY PayloadProperties DEF Sound, StandIns, PostsOf

LEMMA CancelImplements ==
  ASSUME Sound, Sound', NEW d \in Drafts, Cancel(d)
  PROVE  [O!Next]_(O!vars)
<1>1. /\ d \in DOMAIN posts /\ posts[d].failed
      /\ RemovePost(d) /\ dismissed' = dismissed \cup {d}
      /\ UNCHANGED <<server, attempts>>
  BY DEF Cancel, ShowsFailed
<1>2. attempts[d] # 0
  BY <1>1 DEF Sound, Grounded
<1>3. ~Over(d) => PhaseOf(d) \in {"failed", "delivered"}
  BY <1>1, <1>2, SoundPhases DEF PhasesRead
<1>4. \A e \in Drafts : e # d => d \notin StandIns(e)
  BY StandInsApart
<1> QED
  BY <1>1, <1>2, <1>3, <1>4, RemovedTakesBack

LEMMA DeleteOwnImplements ==
  ASSUME Sound, Sound', NEW id \in DOMAIN server, DeleteOwn(id)
  PROVE  [O!Next]_(O!vars)
<1>1. /\ server[id].draft # None /\ id \in ToSet(order) \cup thread
      /\ RemovePost(id) /\ dismissed' = dismissed \cup {server[id].draft}
      /\ UNCHANGED <<server, attempts>>
  BY DEF DeleteOwn
<1>2. PICK d \in Drafts : d = server[id].draft
  BY <1>1, PayloadProperties DEF Sound
<1>3. attempts[d] # 0 /\ server[id].root = RootOf(d)
  BY <1>1, <1>2 DEF Sound, Inv, RemoteConsistent
<1>4. Delivered(d)
  <2>1. id \in View(d)
    BY <1>1, <1>3 DEF Sound, Belongs, View, RootOf, Root, None
  <2> QED
    BY <1>2, <2>1 DEF Delivered, PostsOf
<1>5. ~Over(d) => PhaseOf(d) \in {"failed", "delivered"}
  BY <1>3, <1>4, SoundPhases DEF PhasesRead
<1>6. \A e \in Drafts : e # d => id \notin StandIns(e)
  BY <1>2, StandInsApart
<1> QED
  BY <1>1, <1>2, <1>3, <1>5, <1>6, RemovedTakesBack

LEMMA CreateRefusedImplements ==
  ASSUME Sound, Sound', NEW r \in requests, CreateRefused(r)
  PROVE  [O!Next]_(O!vars)
<1>1. /\ r.outcome = "rootGone"
      /\ RemovePost(r.draft)
      /\ UNCHANGED <<server, attempts, dismissed>>
  BY DEF CreateRefused
<1>2. PICK d \in Drafts : d = r.draft
  BY DEF Sound, Inv, TypeOK, Requests
<1>3. attempts[d] # 0 /\ Over(d) /\ Over(d)'
  BY <1>1, <1>2 DEF Sound, Kept, GoneMarked, Inv, RemoteConsistent, Over, Answerable
<1>4. PhaseOf(d)' = PhaseOf(d)
  BY <1>1, <1>3, SoundPhases, SoundPhasesNext DEF PhasesRead
<1>5. \A e \in Drafts : e # d => PhaseOf(e)' = PhaseOf(e)
  BY <1>1, <1>2, StandInsApart, RemovedOthers
<1> QED
  BY <1>1, <1>4, <1>5, ClientStutters

-----------------------------------------------------------------------------
\* An event is handled.

\* A deleted post takes its comments off the screen, which belong to a thread
\* that is gone for its authors.
LEMMA DeletedShown ==
  ASSUME Sound, Sound', NEW id \in DOMAIN server, server[id].deleted, DeletePost(id),
         UNCHANGED <<server, attempts, dismissed>>, NEW d \in Drafts
  PROVE  PhaseOf(d)' = PhaseOf(d)
<1>1. /\ Inv /\ Rooted
      /\ id \in Nat \ {None} /\ id \notin Drafts
  BY PayloadProperties DEF Sound, Kept
<1>2. /\ id \in DOMAIN posts =>
           posts' = [x \in DOMAIN posts \ CommentsOf(id) |->
                       IF x = id THEN [posts[x] EXCEPT !.deleted = TRUE] ELSE posts[x]]
      /\ id \notin DOMAIN posts => posts' = posts
      /\ thread' = IF id = Root THEN {} ELSE thread
  BY DEF DeletePost
<1>3. ToSet(order') = ToSet(order) \ CommentsOf(id)
  <2>1. order' \in FilteredFrom(order, CommentsOf(id)) /\ order \in Seq(Ids)
    BY <1>1 DEF DeletePost, Inv, TypeOK
  <2> QED
    BY <2>1, FilteredProperties
<1>4. /\ PostsOf(d)' = PostsOf(d)
      /\ Answerable(d)' <=> Answerable(d)
  BY DEF PostsOf, Answerable
<1>5. ASSUME ~Over(d)
      PROVE  /\ Delivered(d)' <=> Delivered(d)
             /\ d \in DOMAIN posts /\ d \in View(d) => posts'[d].failed = posts[d].failed
  <2>1. \A x \in StandIns(d) \cap View(d) : x \notin CommentsOf(id)
    <3> SUFFICES ASSUME NEW x \in StandIns(d), x \in View(d), x \in CommentsOf(id)
                 PROVE  FALSE
      OBVIOUS
    <3>1. x \in DOMAIN posts /\ posts[x].root = id
      BY DEF CommentsOf
    <3>2. posts[x].root = RootOf(d)
      <4>1. CASE x = d
        BY <1>1, <3>1, <4>1 DEF Rooted
      <4>2. CASE x \in PostsOf(d)
        BY <1>1, <3>1, <4>2 DEF Rooted, PostsOf, Inv, RemoteConsistent
      <4> QED
        BY <4>1, <4>2 DEF StandIns
    <3>3. id = Root /\ d \in Replies
      BY <1>1, <3>1, <3>2 DEF RootOf
    <3> QED
      BY <1>5, <3>3 DEF Over, Answerable
  <2>2. d \in Replies => id # Root
    BY <1>5 DEF Over, Answerable
  <2>3. StandIns(d) \cap View(d)' = StandIns(d) \cap View(d)
    BY <1>2, <1>3, <2>1, <2>2 DEF View
  <2>4. Delivered(d)' <=> Delivered(d)
    BY <1>4, <2>3 DEF Delivered, StandIns
  <2>5. ASSUME d \in DOMAIN posts, d \in View(d)
        PROVE  posts'[d].failed = posts[d].failed
    <3>1. d \notin CommentsOf(id) /\ d # id
      BY <1>1, <2>1, <2>5 DEF StandIns
    <3> QED
      BY <1>2, <2>5, <3>1
  <2> QED
    BY <2>4, <2>5
<1>6. attempts[d] # 0 /\ ~Over(d) /\ ~Delivered(d) => d \in DOMAIN posts /\ d \in View(d)
  BY SoundPhases DEF PhasesRead
<1> QED
  BY <1>4, <1>5, <1>6, SamePhase

LEMMA HandleEventImplements ==
  ASSUME Sound, Sound', HandleEvent
  PROVE  [O!Next]_(O!vars)
<1>1. /\ events # <<>>
      /\ UNCHANGED <<server, attempts, dismissed>>
  BY DEF HandleEvent
<1>2. events \in Seq(EventRecords) /\ Inv
  BY DEF Sound, Inv, TypeOK, EventRecords
<1>3. PICK e : e = Head(events)
  OBVIOUS
<1>4. Len(events) \in Nat \ {0} /\ e = events[1]
  BY <1>1, <1>2, <1>3
<1>5. /\ e.id \in DOMAIN server
      /\ e.type = "post_deleted" => server[e.id].deleted
  BY <1>2, <1>4 DEF RemoteConsistent, Sound, Inv, Kept, GoneMarked
<1>6. \/ e.type = "posted" /\ ReceiveNewPost(Payload(e.id))
      \/ e.type = "post_deleted" /\ DeletePost(e.id)
  BY <1>3 DEF HandleEvent
<1>7. CASE e.type = "post_deleted" /\ DeletePost(e.id)
  BY <1>1, <1>5, <1>7, DeletedShown, ClientStutters
<1>8. CASE ReceiveNewPost(Payload(e.id))
  <2>1. PICK p : p = Payload(e.id)
    OBVIOUS
  <2>2. ReceiveNewPost(p)
    BY <1>8, <2>1
  <2>3. CASE server[e.id].draft = None
    <3>1. Received(p) /\ p.id = e.id /\ p.pending = None
      BY <1>2, <1>5, <2>1, <2>3, PayloadProperties
    <3>2. \A d \in Drafts : d # p.pending
      BY <3>1, SendingAssumption DEF None
    <3>3. \A d \in Drafts : PhaseOf(d)' = PhaseOf(d)
      BY <1>1, <1>5, <2>2, <2>3, <3>1, <3>2, ReceivedOthers
    <3> QED
      BY <1>1, <3>3, ClientStutters
  <2>4. CASE server[e.id].draft # None
    <3>1. PICK d \in Drafts : d = server[e.id].draft
      BY <1>2, <1>5, <2>4, PayloadProperties
    <3> QED
      BY <1>1, <1>5, <2>1, <2>2, <3>1, ReceivedDelivers
  <2> QED
    BY <2>3, <2>4
<1> QED
  BY <1>6, <1>7, <1>8

-----------------------------------------------------------------------------
\* The server and the other people.

LEMMA ServerPhases ==
  ASSUME Sound, Sound', UNCHANGED <<posts, order, thread, attempts, dismissed>>,
         DOMAIN server \subseteq DOMAIN server',
         \A x \in DOMAIN server' :
           \/ x \in DOMAIN server /\ server'[x].draft = server[x].draft
           \/ x \notin ToSet(order) /\ x \notin thread,
         \A x \in DOMAIN server : server'[x].draft = server[x].draft,
         NEW d \in Drafts, Answerable(d)' <=> Answerable(d)
  PROVE  PhaseOf(d)' = PhaseOf(d)
<1>1. PostsOf(d)' \cap View(d)' = PostsOf(d) \cap View(d)
  BY DEF PostsOf, View
<1>2. Delivered(d)' <=> Delivered(d)
  BY <1>1 DEF Delivered
<1> QED
  BY <1>2, SamePhase

LEMMA CreatedPhases ==
  ASSUME Sound, Sound', NEW d \in Drafts \cup {None}, NEW root \in {None, Root},
         root = RootOf(d), d # None => attempts[d] > 0, Created(d, root),
         UNCHANGED <<posts, order, thread, attempts, dismissed>>
  PROVE  /\ \A e \in Drafts : PhaseOf(e)' = PhaseOf(e)
         /\ created' = created \cup ({d} \ {None})
         /\ server'[Root] = server[Root]
<1>1. /\ DOMAIN server' = DOMAIN server \cup {NextId}
      /\ \A id \in DOMAIN server : server'[id] = server[id]
      /\ server'[NextId].draft = d
      /\ NextId \in Nat /\ NextId \notin DOMAIN server
      /\ NextId \notin ToSet(order)
  BY CreatedProperties DEF Sound
<1>2. NextId \notin thread
  BY <1>1 DEF Sound, Inv, KnownPosts, Placed, StoredBeforeShown
<1>3. server'[Root] = server[Root]
  BY <1>1 DEF Sound, Inv, RemoteConsistent
<1>4. ASSUME NEW e \in Drafts
      PROVE  PhaseOf(e)' = PhaseOf(e)
  <2>1. Answerable(e)' <=> Answerable(e)
    BY <1>3 DEF Answerable
  <2> QED
    BY <1>1, <1>2, <2>1, ServerPhases
<1>5. \A e \in Drafts : PostsOf(e)' = PostsOf(e) \cup {id \in {NextId} : d = e}
  BY <1>1 DEF PostsOf
<1>6. created' = created \cup ({d} \ {None})
  <2>1. \A e \in Drafts : PostsOf(e)' # {} <=> PostsOf(e) # {} \/ d = e
    BY <1>5
  <2>2. None \notin Drafts
    BY SendingAssumption DEF None
  <2> QED
    BY <2>1, <2>2 DEF created
<1> QED
  BY <1>3, <1>4, <1>6

LEMMA ServerCreatesImplements ==
  ASSUME Sound, Sound', NEW r \in requests, ServerCreates(r)
  PROVE  O!Next
<1>1. PICK d \in Drafts : d = r.draft
  BY DEF Sound, Inv, TypeOK, Requests
<1>2. /\ d \in Replies => ~server[Root].deleted
      /\ Created(d, RootOf(d))
      /\ UNCHANGED <<posts, order, thread, attempts, dismissed>>
  BY <1>1 DEF ServerCreates
<1>3. attempts[d] > 0 /\ RootOf(d) \in {None, Root} /\ d # None
  BY <1>1, SendingAssumption DEF Sound, Inv, RemoteConsistent, RootOf, None
<1>4. /\ \A e \in Drafts : PhaseOf(e)' = PhaseOf(e)
      /\ created' = created \cup {d}
      /\ server'[Root] = server[Root]
  BY <1>2, <1>3, CreatedPhases
<1>5. phase[d] # "unsent" /\ phase' = phase
  <2>1. PhaseOf(d) # "unsent"
    BY <1>3, SoundPhases DEF PhasesRead
  <2> QED
    BY <1>4, <2>1 DEF phase
<1>6. O!Create(d)
  BY <1>2, <1>4, <1>5 DEF O!Create, O!Orphan
<1> QED
  BY <1>6 DEF O!Next

LEMMA DeletedProperties ==
  ASSUME Sound, NEW id \in DOMAIN server, Deleted(id)
  PROVE  /\ DOMAIN server' = DOMAIN server
         /\ \A x \in DOMAIN server : server'[x].draft = server[x].draft
         /\ \A x \in DOMAIN server : x # id => server'[x] = server[x]
         /\ server'[id].deleted
<1> DEFINE gone == [server[id] EXCEPT !.deleted = TRUE]
<1>1. server[id] \in ServerPosts /\ server \in Seq(ServerPosts)
  BY DEF Sound, Inv, TypeOK
<1>2. gone.draft = server[id].draft /\ gone.deleted
  BY <1>1 DEF ServerPosts
<1>3. server' = [server EXCEPT ![id] = gone]
  BY DEF Deleted
<1> HIDE DEF gone
<1> QED
  BY <1>1, <1>2, <1>3

LEMMA ServerDeletesImplements ==
  ASSUME Sound, Sound', NEW id \in DOMAIN server, ServerDeletes(id)
  PROVE  [O!Next]_(O!vars)
<1>1. /\ id \in deletions /\ Deleted(id)
      /\ UNCHANGED <<posts, order, thread, attempts, dismissed>>
  BY DEF ServerDeletes
<1>2. id # Root /\ Root \in DOMAIN server
  BY <1>1 DEF Sound, Grounded, Inv, RemoteConsistent
<1>3. /\ DOMAIN server' = DOMAIN server
      /\ \A x \in DOMAIN server : server'[x].draft = server[x].draft
      /\ server'[Root] = server[Root]
  BY <1>1, <1>2, DeletedProperties
<1>4. \A d \in Drafts : PhaseOf(d)' = PhaseOf(d)
  BY <1>1, <1>3, ServerPhases DEF Answerable
<1>5. created' = created
  BY <1>3 DEF created, PostsOf
<1> QED
  BY <1>3, <1>4, <1>5, OutboxStutters

LEMMA OtherDeletesRootImplements ==
  ASSUME Sound, Sound', OtherDeletesRoot
  PROVE  O!Next
<1>1. /\ Deleted(Root) /\ ~server[Root].deleted
      /\ UNCHANGED <<posts, order, thread, attempts, dismissed>>
  BY DEF OtherDeletesRoot, Deleted
<1>2. /\ DOMAIN server' = DOMAIN server
      /\ \A x \in DOMAIN server : server'[x].draft = server[x].draft
      /\ server'[Root].deleted
  BY <1>1, DeletedProperties DEF Sound, Inv, RemoteConsistent
<1>3. created' = created
  BY <1>2 DEF created, PostsOf
<1>4. \A d \in Drafts :
        PhaseOf(d)' = IF d \in Replies /\ PhaseOf(d) # "unsent" THEN "over" ELSE PhaseOf(d)
  <2> TAKE d \in Drafts
  <2>1. CASE d \notin Replies
    BY <1>1, <1>2, <2>1, ServerPhases DEF Answerable
  <2>2. CASE d \in Replies
    <3>1. PhasesRead /\ PhasesRead' /\ Over(d)'
      BY <1>2, <2>2, SoundPhases, SoundPhasesNext DEF Over, Answerable
    <3>2. PhaseOf(d)' = IF attempts[d] = 0 THEN "unsent" ELSE "over"
      BY <1>1, <3>1 DEF PhasesRead
    <3>3. PhaseOf(d) = "unsent" <=> attempts[d] = 0
      BY <3>1 DEF PhasesRead
    <3> QED
      BY <2>2, <3>2, <3>3
  <2> QED
    BY <2>1, <2>2
<1>5. phase' = [d \in Drafts |->
                  IF d \in Replies /\ phase[d] # "unsent" THEN "over" ELSE phase[d]]
  BY <1>4 DEF phase
<1>6. O!DeleteThread
  BY <1>1, <1>2, <1>3, <1>5 DEF O!DeleteThread
<1> QED
  BY <1>6 DEF O!Next

-----------------------------------------------------------------------------

LEMMA StepImplements == Sound /\ Sound' /\ [Next]_vars => [O!Next]_(O!vars)
<1> SUFFICES ASSUME Sound, Sound', [Next]_vars
             PROVE  [O!Next]_(O!vars)
  OBVIOUS
<1>1. ASSUME NEW d \in Drafts, Submit(d) \/ Retry(d) \/ Cancel(d)
      PROVE  [O!Next]_(O!vars)
  BY <1>1, SubmitImplements, RetryImplements, CancelImplements
<1>2. ASSUME NEW r \in requests, CreateSucceeds(r) \/ CreateFails(r) \/ CreateRefused(r)
      PROVE  [O!Next]_(O!vars)
  BY <1>2, CreateSucceedsImplements, CreateFailsImplements, CreateRefusedImplements
<1>3. CASE HandleEvent
  BY <1>3, HandleEventImplements
<1>4. ASSUME NEW id \in DOMAIN server, DeleteOwn(id) \/ ServerDeletes(id)
      PROVE  [O!Next]_(O!vars)
  BY <1>4, DeleteOwnImplements, ServerDeletesImplements
<1>5. ASSUME NEW r \in requests, ServerCreates(r)
      PROVE  [O!Next]_(O!vars)
  BY <1>5, ServerCreatesImplements
<1>6. ASSUME NEW r \in requests, ServerRefuses(r)
      PROVE  [O!Next]_(O!vars)
  <2>1. UNCHANGED <<posts, order, thread, server, attempts, dismissed>>
    BY <1>6 DEF ServerRefuses
  <2>2. \A d \in Drafts : PhaseOf(d)' = PhaseOf(d)
    BY <2>1, ServerPhases DEF Answerable
  <2> QED
    BY <2>1, <2>2, ClientStutters
<1>7. CASE OtherPosts
  <2>1. RootOf(None) = None /\ Created(None, None)
    BY <1>7, SendingAssumption DEF RootOf, None, OtherPosts
  <2>2. /\ \A d \in Drafts : PhaseOf(d)' = PhaseOf(d)
        /\ created' = created /\ server'[Root] = server[Root]
    BY <1>7, <2>1, CreatedPhases DEF OtherPosts
  <2> QED
    BY <2>2, OutboxStutters
<1>8. CASE OtherDeletesRoot
  BY <1>8, OtherDeletesRootImplements
<1>9. CASE UNCHANGED vars
  <2>1. UNCHANGED <<posts, order, thread, server, attempts, dismissed>>
    BY <1>9 DEF vars
  <2>2. \A d \in Drafts : PhaseOf(d)' = PhaseOf(d)
    BY <2>1, ServerPhases DEF Answerable
  <2> QED
    BY <2>1, <2>2, ClientStutters
<1> QED
  BY <1>1, <1>2, <1>3, <1>4, <1>5, <1>6, <1>7, <1>8, <1>9 DEF Next

LEMMA InitImplements == Init => O!Init
<1> SUFFICES ASSUME Init
             PROVE  O!Init
  OBVIOUS
<1>1. /\ server = <<[draft |-> None, root |-> None, deleted |-> FALSE]>>
      /\ \A d \in Drafts : attempts[d] = 0
  BY DEF Init
<1>2. phase = [d \in Drafts |-> "unsent"]
  BY <1>1 DEF phase, PhaseOf
<1>3. created = {}
  BY <1>1, SendingAssumption DEF created, PostsOf, None
<1> QED
  BY <1>1, <1>2, <1>3 DEF O!Init, Root

\* What the author sees of a message moves as Outbox says, for any number of
\* drafts, attempts, answers, events and deletions in any order: a sent message
\* is pending, then failed or delivered, and a delivered one stays so until its
\* author deletes it or its thread is gone.
THEOREM SendingImplementsOutbox == Spec => O!Safe
<1>1. Sound /\ [Next]_vars => Sound'
  BY StepSound
<1> QED
  BY <1>1, InitSound, InitImplements, StepImplements, PTL DEF Spec, O!Safe
=============================================================================
