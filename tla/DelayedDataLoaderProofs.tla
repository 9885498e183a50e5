---------------------- MODULE DelayedDataLoaderProofs ----------------------
(***************************************************************************)
(* The invariants of DelayedDataLoader, proved for any finite set of       *)
(* identifiers, any callers, and any batch size.  The queue has to hold    *)
(* each identifier once for a batch to hold each once.                     *)
(***************************************************************************)
EXTENDS DelayedDataLoader, SequenceTheorems, FiniteSetTheorems, TLAPS

-----------------------------------------------------------------------------
\* Sequences.

\* The members of two sequences put behind each other.
LEMMA ToSetConcat ==
  ASSUME NEW S, NEW s \in Seq(S), NEW t \in Seq(S)
  PROVE  ToSet(s \o t) = ToSet(s) \cup ToSet(t)
<1>1. ASSUME NEW x \in ToSet(s \o t)
      PROVE  x \in ToSet(s) \cup ToSet(t)
  <2>1. PICK i \in 1..(Len(s) + Len(t)) : x = (s \o t)[i]
    BY <1>1, ConcatProperties DEF ToSet
  <2>2. CASE i <= Len(s)
    BY <2>1, <2>2 DEF ToSet
  <2>3. CASE i > Len(s)
    BY <2>1, <2>3 DEF ToSet
  <2> QED
    BY <2>1, <2>2, <2>3
<1>2. ASSUME NEW x \in ToSet(s)
      PROVE  x \in ToSet(s \o t)
  BY <1>2, ConcatProperties DEF ToSet
<1>3. ASSUME NEW x \in ToSet(t)
      PROVE  x \in ToSet(s \o t)
  <2>1. PICK i \in 1..Len(t) : x = t[i]
    BY <1>3 DEF ToSet
  <2>2. x = (s \o t)[Len(s) + i] /\ Len(s) + i \in 1..Len(s \o t)
    BY <2>1, ConcatProperties
  <2> QED
    BY <2>2, ConcatProperties DEF ToSet
<1> QED
  BY <1>1, <1>2, <1>3

\* A listing of a finite set is a sequence of its members, each once.
LEMMA ListingProperties ==
  ASSUME NEW S, IsFiniteSet(S), NEW s \in SetToSeqs(S)
  PROVE  /\ s \in Seq(S)
         /\ ToSet(s) = S
         /\ IsInjective(s)
<1> DEFINE n == Cardinality(S)
<1>1. n \in Nat
  BY FS_CardinalityType
<1>2. s \in [1..n -> S] /\ \A i, j \in 1..n : i # j => s[i] # s[j]
  BY DEF SetToSeqs
<1>3. s \in Seq(S) /\ Len(s) = n
  BY <1>1, <1>2
<1>4. s \in Injection(1..n, S)
  BY <1>2 DEF Injection, IsInjective
<1>5. Cardinality(1..n) = n
  BY <1>1, FS_Interval
<1>6. s \in Surjection(1..n, S)
  BY <1>4, <1>5, FS_Injection
<1>7. ToSet(s) = S
  BY <1>2, <1>6 DEF Surjection, ToSet
<1> QED
  BY <1>2, <1>3, <1>7 DEF IsInjective

\* Cutting a sequence in two loses nothing and repeats nothing.
LEMMA CutProperties ==
  ASSUME NEW S, NEW s \in Seq(S), NEW n \in 0..Len(s)
  PROVE  /\ SubSeq(s, 1, n) \in Seq(S)
         /\ SubSeq(s, n + 1, Len(s)) \in Seq(S)
         /\ Len(SubSeq(s, 1, n)) = n
         /\ ToSet(s) = ToSet(SubSeq(s, 1, n)) \cup ToSet(SubSeq(s, n + 1, Len(s)))
         /\ IsInjective(s) => /\ IsInjective(SubSeq(s, 1, n))
                              /\ IsInjective(SubSeq(s, n + 1, Len(s)))
<1> DEFINE a == SubSeq(s, 1, n)
           b == SubSeq(s, n + 1, Len(s))
<1>1. a \in Seq(S) /\ Len(a) = n /\ \A i \in 1..n : a[i] = s[i]
  OBVIOUS
<1>2. b \in Seq(S) /\ Len(b) = Len(s) - n /\ \A i \in 1..(Len(s) - n) : b[i] = s[n + i]
  OBVIOUS
<1>3. a \o b = s
  <2>1. /\ 1 \in 1..(Len(s) + 1)
        /\ n \in (1 - 1)..Len(s)
        /\ Len(s) \in n..Len(s)
    OBVIOUS
  <2>2. a \o b = SubSeq(s, 1, Len(s))
    BY <2>1, ConcatAdjacentSubSeq
  <2> QED
    BY <2>2, SubSeqFull
<1>4. ToSet(s) = ToSet(a) \cup ToSet(b)
  BY <1>1, <1>2, <1>3, ToSetConcat
<1>5. IsInjective(s) => IsInjective(a)
  BY <1>1 DEF IsInjective
<1>6. IsInjective(s) => IsInjective(b)
  BY <1>2 DEF IsInjective
<1> HIDE DEF a, b
<1> QED
  BY <1>1, <1>2, <1>4, <1>5, <1>6 DEF a, b

\* Dropping one entry forgets no other entry and moves up those behind it.
LEMMA RemoveAtProperties ==
  ASSUME NEW S, NEW s \in Seq(S), NEW k \in 1..Len(s)
  PROVE  /\ RemoveAt(s, k) \in Seq(S)
         /\ Len(RemoveAt(s, k)) = Len(s) - 1
         /\ \A i \in 1..(Len(s) - 1) :
              RemoveAt(s, k)[i] = IF i < k THEN s[i] ELSE s[i + 1]
         /\ \A i \in 1..Len(RemoveAt(s, k)) : \E j \in 1..Len(s) : RemoveAt(s, k)[i] = s[j]
         /\ \A j \in 1..Len(s) \ {k} : \E i \in 1..Len(RemoveAt(s, k)) : RemoveAt(s, k)[i] = s[j]
<1> DEFINE a == SubSeq(s, 1, k - 1)
           b == SubSeq(s, k + 1, Len(s))
           r == a \o b
<1>1. a \in Seq(S) /\ Len(a) = k - 1 /\ \A i \in 1..(k - 1) : a[i] = s[i]
  OBVIOUS
<1>2. b \in Seq(S) /\ Len(b) = Len(s) - k /\ \A i \in 1..(Len(s) - k) : b[i] = s[k + i]
  OBVIOUS
<1> HIDE DEF a, b
<1>3. /\ r \in Seq(S)
      /\ Len(r) = Len(s) - 1
      /\ \A i \in 1..(Len(s) - 1) : r[i] = IF i < k THEN s[i] ELSE s[i + 1]
  <2>1. /\ r \in Seq(S)
        /\ Len(r) = Len(a) + Len(b)
        /\ \A i \in 1..(Len(a) + Len(b)) :
             r[i] = IF i <= Len(a) THEN a[i] ELSE b[i - Len(a)]
    BY <1>1, <1>2, ConcatProperties
  <2> HIDE DEF r
  <2> DEFINE n == Len(s)
             p == Len(a)
             q == Len(b)
  <2>2. n \in Nat /\ p = k - 1 /\ q = n - k /\ k \in 1..n
    BY <1>1, <1>2, LenProperties
  <2> HIDE DEF n, p, q
  <2>5. /\ \A i \in 1..(n - 1) : i < k => r[i] = a[i]
        /\ \A i \in 1..(n - 1) : ~(i < k) => r[i] = b[i - p]
    <3>1. \A i \in 1..(p + q) : r[i] = IF i <= p THEN a[i] ELSE b[i - p]
      BY <2>1 DEF p, q
    <3>2. p + q = n - 1 /\ \A i \in Int : i < k <=> i <= p
      BY <2>2
    <3> QED
      BY <3>1, <3>2
  <2>3. ASSUME NEW i \in 1..(n - 1), i < k
        PROVE  r[i] = s[i]
    <3>1. i \in 1..(k - 1)
      BY <2>2, <2>3
    <3> QED
      BY <1>1, <2>3, <2>5, <3>1
  <2>4. ASSUME NEW i \in 1..(n - 1), ~(i < k)
        PROVE  r[i] = s[i + 1]
    <3>1. i - p \in 1..(n - k) /\ k + (i - p) = i + 1
      BY <2>2, <2>4
    <3>2. b[i - p] = s[k + (i - p)]
      BY <1>2, <3>1 DEF n
    <3> QED
      BY <2>4, <2>5, <3>1, <3>2
  <2>6. Len(r) = n - 1
    BY <2>1, <2>2 DEF p, q
  <2> QED
    BY <2>1, <2>3, <2>4, <2>6 DEF n
<1> HIDE DEF r
<1>4. \A i \in 1..Len(r) : \E j \in 1..Len(s) : r[i] = s[j]
  <2> TAKE i \in 1..Len(r)
  <2>1. CASE i < k
    BY <1>3, <2>1
  <2>2. CASE ~(i < k)
    BY <1>3, <2>2
  <2> QED
    BY <2>1, <2>2
<1>5. \A j \in 1..Len(s) \ {k} : \E i \in 1..Len(r) : r[i] = s[j]
  <2> TAKE j \in 1..Len(s) \ {k}
  <2>1. CASE j < k
    BY <1>3, <2>1
  <2>2. CASE ~(j < k)
    <3>1. j - 1 \in 1..Len(r) /\ r[j - 1] = s[j]
      BY <1>3, <2>2
    <3> QED
      BY <3>1
  <2> QED
    BY <2>1, <2>2
<1> QED
  BY <1>3, <1>4, <1>5 DEF RemoveAt, r, a, b

\* Putting two sequences without common or repeated values behind each other.
LEMMA ConcatInjective ==
  ASSUME NEW S, NEW s \in Seq(S), NEW t \in Seq(S),
         IsInjective(s), IsInjective(t), ToSet(s) \cap ToSet(t) = {}
  PROVE  IsInjective(s \o t)
<1> DEFINE m == Len(s)
           n == Len(t)
           u == s \o t
<1>1. /\ m \in Nat /\ n \in Nat
      /\ u \in Seq(S) /\ Len(u) = m + n
      /\ \A i \in 1..(m + n) : u[i] = IF i <= m THEN s[i] ELSE t[i - m]
  BY ConcatProperties
<1>2. /\ \A i, j \in 1..m : s[i] = s[j] => i = j
      /\ \A i, j \in 1..n : t[i] = t[j] => i = j
      /\ \A i \in 1..m, j \in 1..n : s[i] # t[j]
  BY DEF IsInjective, ToSet
<1> HIDE DEF u, m, n
<1>3. \A i \in 1..(m + n) : /\ i <= m => u[i] = s[i]
                            /\ ~(i <= m) => u[i] = t[i - m]
  BY <1>1
<1>4. ASSUME NEW i \in 1..(m + n), NEW j \in 1..(m + n), u[i] = u[j]
      PROVE  i = j
  <2>1. CASE i <= m /\ j <= m
    BY <1>1, <1>2, <1>3, <1>4, <2>1
  <2>2. CASE i <= m /\ ~(j <= m)
    <3>1. i \in 1..m /\ j - m \in 1..n
      BY <1>1, <2>2
    <3> QED
      BY <1>2, <1>3, <1>4, <2>2, <3>1
  <2>3. CASE ~(i <= m) /\ j <= m
    <3>1. i - m \in 1..n /\ j \in 1..m
      BY <1>1, <2>3
    <3> QED
      BY <1>2, <1>3, <1>4, <2>3, <3>1
  <2>4. CASE ~(i <= m) /\ ~(j <= m)
    <3>1. i - m \in 1..n /\ j - m \in 1..n
      BY <1>1, <2>4
    <3>2. i - m = j - m
      BY <1>2, <1>3, <1>4, <2>4, <3>1
    <3> QED
      BY <1>1, <3>2
  <2> QED
    BY <2>1, <2>2, <2>3, <2>4
<1> QED
  BY <1>1, <1>4 DEF IsInjective, u

-----------------------------------------------------------------------------

QueueDistinct == IsInjective(pendingIdentifiers)

Inv ==
  /\ TypeOK
  /\ QueueHasTimer
  /\ QueueDistinct
  /\ NoWaiterStranded
  /\ BatchesFit

-----------------------------------------------------------------------------

\* What queue() leaves behind.
LEMMA AddPendingProperties ==
  ASSUME TypeOK, QueueDistinct, NEW ids \in Arguments, AddPending(ids)
  PROVE  /\ pendingIdentifiers' \in Seq(Identifiers)
         /\ Queued' = Queued \cup (ids \ {Falsy})
         /\ QueueDistinct'
<1> DEFINE fresh == ids \ ({Falsy} \cup Queued)
<1>1. PICK new \in SetToSeqs(fresh) : pendingIdentifiers' = pendingIdentifiers \o new
  BY DEF AddPending
<1>2. fresh \subseteq Identifiers /\ IsFiniteSet(fresh)
  BY DataLoaderAssumption, FS_Subset DEF Arguments
<1>3. new \in Seq(fresh) /\ ToSet(new) = fresh /\ IsInjective(new)
  BY <1>2, ListingProperties
<1>4. new \in Seq(Identifiers)
  BY <1>2, <1>3, SeqMonotonic
<1>5. pendingIdentifiers \in Seq(Identifiers)
  BY DEF TypeOK
<1>6. pendingIdentifiers' \in Seq(Identifiers)
  BY <1>1, <1>4, <1>5
<1>7. Queued' = Queued \cup fresh
  BY <1>1, <1>3, <1>4, <1>5, ToSetConcat DEF Queued
<1>8. QueueDistinct'
  <2>1. ToSet(pendingIdentifiers) \cap ToSet(new) = {}
    BY <1>3 DEF Queued
  <2> QED
    BY <1>1, <1>3, <1>4, <1>5, <2>1, ConcatInjective DEF QueueDistinct
<1> QED
  BY <1>6, <1>7, <1>8

-----------------------------------------------------------------------------

LEMMA InitInv == Init => Inv
<1> SUFFICES ASSUME Init PROVE Inv
  OBVIOUS
<1>1. TypeOK
  <2>1. pendingIdentifiers \in Seq(Identifiers) /\ inFlight \in Seq(Seq(Identifiers))
    BY EmptySeq DEF Init
  <2>2. /\ status \in [Callers -> {"idle", "waiting", "resolved"}]
        /\ awaited \in [Callers -> SUBSET (Identifiers \cup {Falsy})]
    BY DEF Init
  <2> QED
    BY <2>1, <2>2 DEF Init, TypeOK
<1>2. QueueHasTimer /\ NoWaiterStranded /\ BatchesFit
  BY DEF Init, QueueHasTimer, NoWaiterStranded, Waiting, BatchesFit
<1>3. QueueDistinct
  BY DEF Init, QueueDistinct, IsInjective
<1> QED
  BY <1>1, <1>2, <1>3 DEF Inv

LEMMA QueueInv ==
  ASSUME Inv, NEW ids \in Arguments, Queue(ids)
  PROVE  Inv'
<1> USE DEF Inv
<1>1. /\ pendingIdentifiers' \in Seq(Identifiers)
      /\ Queued' = Queued \cup (ids \ {Falsy})
      /\ QueueDistinct'
  BY AddPendingProperties DEF Queue
<1>2. timerSet' = TRUE /\ UNCHANGED <<inFlight, status, awaited>>
  BY DEF Queue
<1>3. TypeOK'
  BY <1>1, <1>2 DEF TypeOK
<1>4. QueueHasTimer'
  BY <1>2 DEF QueueHasTimer
<1>5. NoWaiterStranded'
  BY <1>1, <1>2 DEF NoWaiterStranded, Waiting, Requested
<1>6. BatchesFit'
  BY <1>2 DEF BatchesFit
<1> QED
  BY <1>1, <1>3, <1>4, <1>5, <1>6

LEMMA QueueAndWaitInv ==
  ASSUME Inv, NEW c \in Callers, NEW ids \in Arguments, QueueAndWait(c, ids)
  PROVE  Inv'
<1> USE DEF Inv
<1>1. /\ pendingIdentifiers' \in Seq(Identifiers)
      /\ Queued' = Queued \cup (ids \ {Falsy})
      /\ QueueDistinct'
  BY AddPendingProperties DEF QueueAndWait
<1>2. /\ timerSet' = TRUE
      /\ inFlight' = inFlight
      /\ status' = [status EXCEPT ![c] = "waiting"]
      /\ awaited' = [awaited EXCEPT ![c] = ids]
  BY DEF QueueAndWait
<1>3. TypeOK'
  BY <1>1, <1>2 DEF TypeOK, Arguments
<1>4. QueueHasTimer'
  BY <1>2 DEF QueueHasTimer
<1>5. NoWaiterStranded'
  <2> SUFFICES ASSUME NEW d \in Waiting'
               PROVE  awaited'[d] \ {Falsy} \subseteq Queued' \cup Requested'
    BY DEF NoWaiterStranded
  <2>1. Requested' = Requested
    BY <1>2 DEF Requested
  <2>2. CASE d = c
    BY <1>1, <1>2, <2>2 DEF TypeOK, Waiting
  <2>3. CASE d # c
    <3>1. d \in Waiting /\ awaited'[d] = awaited[d]
      BY <1>2, <2>3 DEF TypeOK, Waiting
    <3> QED
      BY <1>1, <2>1, <3>1 DEF NoWaiterStranded
  <2> QED
    BY <2>2, <2>3
<1>6. BatchesFit'
  BY <1>2 DEF BatchesFit
<1> QED
  BY <1>1, <1>3, <1>4, <1>5, <1>6

LEMMA TimerExpiresInv ==
  ASSUME Inv, TimerExpires
  PROVE  Inv'
<1> USE DEF Inv
<1>1. /\ pendingIdentifiers \in Seq(Identifiers)
      /\ inFlight \in Seq(Seq(Identifiers))
  BY DEF TypeOK
<1>2. BatchSize \in 0..Len(pendingIdentifiers) /\ BatchSize <= MaxBatchSize
  BY <1>1, DataLoaderAssumption DEF BatchSize
<1>3. /\ Batch \in Seq(Identifiers)
      /\ Rest \in Seq(Identifiers)
      /\ Len(Batch) <= MaxBatchSize
      /\ Queued = ToSet(Batch) \cup ToSet(Rest)
      /\ IsInjective(Batch)
      /\ IsInjective(Rest)
  BY <1>1, <1>2, CutProperties DEF Batch, Rest, Queued, QueueDistinct
<1>4. /\ timerSet' = (Rest # <<>>)
      /\ pendingIdentifiers' = Rest
      /\ inFlight' = Append(inFlight, Batch)
      /\ UNCHANGED <<status, awaited>>
  BY DEF TimerExpires
<1>5. /\ Len(inFlight') = Len(inFlight) + 1
      /\ \A k \in 1..Len(inFlight) : inFlight'[k] = inFlight[k]
      /\ inFlight'[Len(inFlight) + 1] = Batch
  BY <1>1, <1>3, <1>4, AppendProperties
<1>6. TypeOK'
  BY <1>1, <1>3, <1>4 DEF TypeOK
<1>7. QueueHasTimer'
  BY <1>4 DEF QueueHasTimer
<1>8. QueueDistinct'
  BY <1>3, <1>4 DEF QueueDistinct
<1>9. NoWaiterStranded'
  <2>1. Requested \cup ToSet(Batch) \subseteq Requested'
    <3>1. Len(inFlight) \in Nat
      BY <1>1
    <3>2. ToSet(Batch) \subseteq Requested'
      BY <1>5, <3>1 DEF Requested
    <3>3. ASSUME NEW x \in Requested
          PROVE  x \in Requested'
      <4>1. PICK k \in 1..Len(inFlight) : x \in ToSet(inFlight[k])
        BY <3>3 DEF Requested
      <4>2. k \in 1..Len(inFlight') /\ x \in ToSet(inFlight'[k])
        BY <1>5, <3>1, <4>1
      <4> QED
        BY <4>2 DEF Requested
    <3> QED
      BY <3>2, <3>3
  <2>2. Queued' = ToSet(Rest)
    BY <1>4 DEF Queued
  <2> QED
    BY <1>3, <1>4, <2>1, <2>2 DEF NoWaiterStranded, Waiting
<1>10. BatchesFit'
  <2> SUFFICES ASSUME NEW k \in 1..Len(inFlight')
               PROVE  Len(inFlight'[k]) <= MaxBatchSize /\ IsInjective(inFlight'[k])
    BY DEF BatchesFit
  <2>1. CASE k = Len(inFlight) + 1
    BY <1>3, <1>5, <2>1
  <2>2. CASE k # Len(inFlight) + 1
    <3>1. k \in 1..Len(inFlight)
      BY <1>1, <1>5, <2>2
    <3> QED
      BY <1>5, <3>1 DEF BatchesFit
  <2> QED
    BY <2>1, <2>2
<1> QED
  BY <1>6, <1>7, <1>8, <1>9, <1>10

LEMMA FetchSettlesInv ==
  ASSUME Inv, NEW k \in 1..MaxInFlight, FetchSettles(k)
  PROVE  Inv'
<1> USE DEF Inv
<1> DEFINE left(c) == awaited[c] \ ToSet(inFlight[k])
<1>1. /\ k \in 1..Len(inFlight)
      /\ inFlight' = RemoveAt(inFlight, k)
      /\ awaited' = [c \in Callers |-> IF status[c] = "waiting" THEN left(c) ELSE awaited[c]]
      /\ status' = [c \in Callers |-> IF status[c] = "waiting" /\ left(c) = {}
                                      THEN "resolved" ELSE status[c]]
      /\ UNCHANGED <<pendingIdentifiers, timerSet>>
  BY DEF FetchSettles
<1>2. inFlight \in Seq(Seq(Identifiers))
  BY DEF TypeOK
<1>3. /\ inFlight' \in Seq(Seq(Identifiers))
      /\ \A i \in 1..Len(inFlight') : \E j \in 1..Len(inFlight) : inFlight'[i] = inFlight[j]
      /\ \A j \in 1..Len(inFlight) \ {k} : \E i \in 1..Len(inFlight') : inFlight'[i] = inFlight[j]
  BY <1>1, <1>2, RemoveAtProperties
<1>4. TypeOK'
  <2>1. awaited' \in [Callers -> SUBSET (Identifiers \cup {Falsy})]
    BY <1>1 DEF TypeOK
  <2>2. status' \in [Callers -> {"idle", "waiting", "resolved"}]
    BY <1>1 DEF TypeOK
  <2> QED
    BY <1>1, <1>3, <2>1, <2>2 DEF TypeOK
<1>5. QueueHasTimer' /\ QueueDistinct'
  BY <1>1 DEF QueueHasTimer, QueueDistinct
<1>6. NoWaiterStranded'
  <2> SUFFICES ASSUME NEW c \in Waiting', NEW x \in awaited'[c] \ {Falsy}
               PROVE  x \in Queued' \cup Requested'
    BY DEF NoWaiterStranded
  <2>1. c \in Waiting /\ x \in awaited[c] /\ x \notin ToSet(inFlight[k])
    BY <1>1 DEF Waiting
  <2>2. x \in Queued \cup Requested
    BY <2>1 DEF NoWaiterStranded
  <2>3. CASE x \in Queued
    BY <1>1, <2>3 DEF Queued
  <2>4. CASE x \in Requested
    <3>1. PICK j \in 1..Len(inFlight) : x \in ToSet(inFlight[j])
      BY <2>4 DEF Requested
    <3>2. j # k
      BY <2>1, <3>1
    <3>3. PICK i \in 1..Len(inFlight') : inFlight'[i] = inFlight[j]
      BY <1>3, <3>2
    <3> QED
      BY <3>1, <3>3 DEF Requested
  <2> QED
    BY <2>2, <2>3, <2>4
<1>7. BatchesFit'
  BY <1>3 DEF BatchesFit
<1> QED
  BY <1>4, <1>5, <1>6, <1>7

\* Inv is inductive.
LEMMA StepInv == Inv /\ [Next]_vars => Inv'
<1> SUFFICES ASSUME Inv, [Next]_vars PROVE Inv'
  OBVIOUS
<1>1. ASSUME NEW ids \in Arguments, Queue(ids)
      PROVE  Inv'
  BY <1>1, QueueInv
<1>2. ASSUME NEW c \in Callers, NEW ids \in Arguments, QueueAndWait(c, ids)
      PROVE  Inv'
  BY <1>2, QueueAndWaitInv
<1>3. CASE TimerExpires
  BY <1>3, TimerExpiresInv
<1>4. ASSUME NEW k \in 1..MaxInFlight, FetchSettles(k)
      PROVE  Inv'
  BY <1>4, FetchSettlesInv
<1>5. CASE UNCHANGED vars
  BY <1>5 DEF vars, Inv, TypeOK, QueueHasTimer, QueueDistinct, NoWaiterStranded,
              Waiting, Queued, Requested, BatchesFit
<1> QED
  BY <1>1, <1>2, <1>3, <1>4, <1>5 DEF Next

-----------------------------------------------------------------------------

\* Every variable of the loader keeps its type.
THEOREM TypeCorrect == Spec => []TypeOK
<1>1. Inv => TypeOK
  BY DEF Inv
<1> QED
  BY InitInv, StepInv, <1>1, PTL DEF Spec

\* What is queued always has a timer that will ask for it.
THEOREM QueueAlwaysHasTimer == Spec => []QueueHasTimer
<1>1. Inv => QueueHasTimer
  BY DEF Inv
<1> QED
  BY InitInv, StepInv, <1>1, PTL DEF Spec

\* No interleaving of calls, timers and answers strands a waiter.
THEOREM NeverStranded == Spec => []NoWaiterStranded
<1>1. Inv => NoWaiterStranded
  BY DEF Inv
<1> QED
  BY InitInv, StepInv, <1>1, PTL DEF Spec

\* Every request respects the size limit and asks for an identifier once.
THEOREM BatchesAlwaysFit == Spec => []BatchesFit
<1>1. Inv => BatchesFit
  BY DEF Inv
<1> QED
  BY InitInv, StepInv, <1>1, PTL DEF Spec
=============================================================================
