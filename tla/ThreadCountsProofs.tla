------------------------- MODULE ThreadCountsProofs -------------------------
(***************************************************************************)
(* The counts beside the list of threads, which are only ever moved by     *)
(* differences, are the server's once everything has arrived; for any      *)
(* threads, replies, sessions and requests.                                *)
(*                                                                         *)
(* The counts add up what the store has of the threads it knows, and of    *)
(* the others what the server had when the last event that has arrived was *)
(* sent.  That moment is past and no variable holds it: the invariant says *)
(* that there is a history of the server that the events on the wire and   *)
(* the answers on their way agree with (Remembers).                        *)
(***************************************************************************)
EXTENDS ThreadCounts, FiniteSetTheorems, TLAPS

UnreadMaps == [Threads -> UnreadCounts]

Entries == [replies : Nat, mentions : Nat, whole : BOOLEAN]

Events ==
  [type : {"channel", "team"}]
    \cup [type : {"deleted"}, thread : Threads]
    \cup [type : {"updated", "read"}, thread : Threads, prev : UnreadCounts, new : UnreadCounts]

Answers ==
  [kind : {"counts", "team"}, thread : {NoThread}, seq : Nat, unread : UnreadMaps]
    \cup [kind : {"thread"}, thread : Threads, seq : Nat, unread : UnreadMaps]

ServerTyped ==
  /\ replies \in [Threads -> Seq(BOOLEAN)]
  /\ viewed \in [Threads -> Nat]
  /\ \A t \in Threads : viewed[t] <= Len(replies[t])
  /\ deleted \subseteq Threads

Typed ==
  /\ ServerTyped
  /\ sent \in Nat /\ asked \in Nat
  /\ wire \in Seq(Events) /\ Len(wire) <= sent
  /\ threads \in [Threads -> Entries \cup {NoThread}]
  /\ counts \in [threads : Nat, mentions : Nat]
  /\ open \in Threads \cup {NoThread}
  /\ manual \subseteq Threads
  /\ updates \subseteq [thread : Threads, last : Nat]
  /\ \A u \in updates : u.last <= Len(replies[u.thread])
  /\ answers \subseteq Answers
  /\ causes \subseteq Causes

\* What the server has.
Now == [t \in Threads |-> ServerUnread(t)]

About(e, t) == e.type \in {"channel", "team"} \/ e.thread = t

\* The event takes the threads from what they had to what they have.
Tells(e, before, after) ==
  /\ e.type \in {"updated", "read"} => before[e.thread] = e.prev /\ after[e.thread] = e.new
  /\ e.type \in {"channel", "team", "deleted"} =>
       \A t \in Threads : About(e, t) => after[t] = AllRead
  /\ \A t \in Threads : ~About(e, t) => after[t] = before[t]

\* From moment p on no event is about t.
QuietFrom(t, p) == \A k \in 1 .. Len(wire) : About(wire[k], t) => Seen + k <= p

\* H is what the server had after each event.
Remembers(H) ==
  /\ H \in [0 .. sent -> UnreadMaps]
  /\ H[sent] = Now
  /\ \A k \in 1 .. Len(wire) : Tells(wire[k], H[Seen + k - 1], H[Seen + k])
  /\ \A t \in Threads, p \in Seen .. sent :
       QuietFrom(t, p) => \A q \in p .. sent : H[q][t] = Now[t]
  /\ \A a \in answers : a.seq \in 0 .. sent /\ a.unread = H[a.seq]

\* The answer to reading the team's threads comes with an event.
TeamTold ==
  \A a \in answers : a.kind = "team" =>
    /\ \A t \in Threads : a.unread[t] = AllRead
    /\ a.seq > Seen => wire[a.seq - Seen].type = "team"

\* The last event about a deleted thread is that of its end.
DeletedLast ==
  \A k \in 1 .. Len(wire) :
    wire[k].type \in {"updated", "read"} /\ wire[k].thread \in deleted =>
      \E j \in 1 .. Len(wire) :
        k < j /\ wire[j].type = "deleted" /\ wire[j].thread = wire[k].thread

\* The server is still to tell, or to hear, of the thread.
Pending(t) ==
  \/ \E k \in 1 .. Len(wire) : About(wire[k], t)
  \/ t \notin deleted /\ \E u \in updates : u.thread = t

ThreadsFollow(H) ==
  causes \subseteq {"counts", "deleted", "channel"} =>
    \A t \in Threads :
      Has(t) /\ (threads[t].whole \/ "channel" \notin causes) =>
        StoredUnread(t) = H[Seen][t] \/ Pending(t)

\* What the counts add up.
Known(H) == [t \in Threads |-> IF Has(t) THEN StoredUnread(t) ELSE H[Seen][t]]

CountsFollow(H) ==
  causes = {} => counts = Totals(Known(H)) \/ \E k \in 1 .. Len(wire) : wire[k].type = "team"

Follows(H) == Remembers(H) /\ ThreadsFollow(H) /\ CountsFollow(H)

Inv == Typed /\ TeamTold /\ DeletedLast /\ \E H : Follows(H)

USE ThreadAssumption

-----------------------------------------------------------------------------
\* Adding up.

Pairs(unread, S) == UNION {{t} \X (1 .. unread[t].mentions) : t \in S}

LEMMA PairsOfOne ==
  ASSUME NEW t, NEW n \in Nat
  PROVE  IsFiniteSet({t} \X (1 .. n)) /\ Cardinality({t} \X (1 .. n)) = n
<1> DEFINE f == [i \in 1 .. n |-> <<t, i>>]
<1>1. IsFiniteSet(1 .. n) /\ Cardinality(1 .. n) = n
  <2>1. 1 \in Int /\ n \in Int
    OBVIOUS
  <2>2. IsFiniteSet(1 .. n) /\ Cardinality(1 .. n) = IF 1 > n THEN 0 ELSE n - 1 + 1
    BY <2>1, FS_Interval
  <2> QED
    BY <2>2
<1>2. f \in Bijection(1 .. n, {t} \X (1 .. n))
  <2>1. f \in [1 .. n -> {t} \X (1 .. n)]
    OBVIOUS
  <2>2. \A i, j \in 1 .. n : f[i] = f[j] => i = j
    OBVIOUS
  <2>3. \A x \in {t} \X (1 .. n) : \E i \in 1 .. n : f[i] = x
    OBVIOUS
  <2> HIDE DEF f
  <2> QED
    BY <2>1, <2>2, <2>3 DEF Bijection, Injection, Surjection, IsInjective
<1>3. ExistsBijection(1 .. n, {t} \X (1 .. n))
  BY <1>2 DEF ExistsBijection
<1> QED
  BY <1>1, <1>3, FS_Bijection

LEMMA PairsFinite ==
  ASSUME NEW f \in UnreadMaps, NEW S \in SUBSET Threads
  PROVE  IsFiniteSet(Pairs(f, S))
<1> DEFINE Of(t) == {t} \X (1 .. f[t].mentions)
           T == {Of(t) : t \in S}
           g == [t \in S |-> Of(t)]
<1>1. \A t \in S : f[t].mentions \in Nat
  BY DEF UnreadMaps, UnreadCounts
<1>2. \A t \in S : IsFiniteSet(Of(t))
  BY <1>1, PairsOfOne
<1>3. IsFiniteSet(S)
  BY FS_Subset
<1>4. g \in Surjection(S, T)
  <2> HIDE DEF Of
  <2> QED
    BY DEF Surjection
<1>5. IsFiniteSet(T)
  BY <1>3, <1>4, FS_Surjection
<1>6. IsFiniteSet(UNION T)
  <2>1. \A X \in T : IsFiniteSet(X)
    BY <1>2
  <2> HIDE DEF T
  <2> QED
    BY <1>5, <2>1, FS_UNION
<1> QED
  BY <1>6 DEF Pairs

LEMMA TotalsProperties ==
  ASSUME NEW f \in UnreadMaps
  PROVE  /\ Totals(f) \in [threads : Nat, mentions : Nat]
         /\ Totals(f).threads = Cardinality({t \in Threads : f[t].replies > 0})
         /\ Totals(f).mentions = Cardinality(Pairs(f, Threads))
         /\ IsFiniteSet({t \in Threads : f[t].replies > 0})
<1>1. DOMAIN f = Threads
  BY DEF UnreadMaps
<1>2. IsFiniteSet({t \in Threads : f[t].replies > 0})
  BY FS_Subset
<1>3. IsFiniteSet(Pairs(f, Threads))
  BY PairsFinite
<1> QED
  BY <1>1, <1>2, <1>3, FS_CardinalityType DEF Totals, Pairs

\* One thread counts for what it has.
LEMMA PairsWithout ==
  ASSUME NEW f \in UnreadMaps, NEW t \in Threads
  PROVE  /\ Cardinality(Pairs(f, Threads \ {t})) \in Nat
         /\ Cardinality(Pairs(f, Threads)) =
              Cardinality(Pairs(f, Threads \ {t})) + f[t].mentions
<1> DEFINE A == Pairs(f, Threads \ {t})
           B == {t} \X (1 .. f[t].mentions)
<1>1. f[t].mentions \in Nat
  BY DEF UnreadMaps, UnreadCounts
<1>2. IsFiniteSet(A) /\ IsFiniteSet(B) /\ Cardinality(B) = f[t].mentions
  BY <1>1, PairsFinite, PairsOfOne
<1>3. Pairs(f, Threads) = A \cup B
  BY DEF Pairs
<1>4. A \cap B = {}
  BY DEF Pairs
<1>5. Cardinality(A) \in Nat /\ Cardinality(A \cap B) = 0
  BY <1>2, <1>4, FS_CardinalityType, FS_EmptySet
<1>6. Cardinality(A \cup B) = Cardinality(A) + Cardinality(B)
  <2> HIDE DEF A, B
  <2>1. Cardinality(A \cup B) = Cardinality(A) + Cardinality(B) - Cardinality(A \cap B)
    BY <1>2, FS_Union
  <2>2. Cardinality(B) \in Nat
    BY <1>2, FS_CardinalityType
  <2> QED
    BY <1>5, <2>1, <2>2
<1> QED
  BY <1>2, <1>3, <1>5, <1>6 DEF A

\* The difference a thread makes takes the totals to the totals.
LEMMA TotalsChange ==
  ASSUME NEW f \in UnreadMaps, NEW g \in UnreadMaps, NEW t \in Threads,
         \A s \in Threads : s # t => g[s] = f[s], counts = Totals(f)
  PROVE  ReadChangedCounts(f[t], g[t]) = Totals(g)
<1> DEFINE F == {s \in Threads : f[s].replies > 0}
           G == {s \in Threads : g[s].replies > 0}
<1>1. /\ f[t].mentions \in Nat /\ g[t].mentions \in Nat
      /\ f[t].replies \in Nat /\ g[t].replies \in Nat
  BY DEF UnreadMaps, UnreadCounts
<1>2. /\ counts \in [threads : Nat, mentions : Nat]
      /\ counts.threads = Cardinality(F) /\ counts.mentions = Cardinality(Pairs(f, Threads))
      /\ Totals(g) \in [threads : Nat, mentions : Nat]
      /\ Totals(g).threads = Cardinality(G)
      /\ Totals(g).mentions = Cardinality(Pairs(g, Threads))
      /\ IsFiniteSet(F) /\ IsFiniteSet(G)
  BY TotalsProperties
<1>3. Pairs(f, Threads \ {t}) = Pairs(g, Threads \ {t})
  BY DEF Pairs
<1>4. Totals(g).mentions = AtLeastZero(counts.mentions + g[t].mentions - f[t].mentions)
  <2>1. PICK n \in Nat : n = Cardinality(Pairs(f, Threads \ {t}))
    BY PairsWithout
  <2>2. counts.mentions = n + f[t].mentions /\ Totals(g).mentions = n + g[t].mentions
    BY <1>2, <1>3, <2>1, PairsWithout
  <2> QED
    BY <1>1, <2>1, <2>2 DEF AtLeastZero
<1>5. Totals(g).threads = ReadChangedCounts(f[t], g[t]).threads
  <2>1. CASE f[t].replies > 0 /\ g[t].replies = 0
    <3>1. G = F \ {t} /\ t \in F
      BY <1>1, <2>1
    <3>2. Cardinality(F \ {t}) = Cardinality(F) - 1
      <4>1. IsFiniteSet(F)
        BY <1>2
      <4> QED
        BY <3>1, <4>1, FS_RemoveElement
    <3>3. Totals(g).threads = AtLeastZero(counts.threads - 1)
      <4>1. Totals(g).threads \in Nat /\ Totals(g).threads = counts.threads - 1
        BY <1>2, <3>1, <3>2
      <4> QED
        BY <4>1 DEF AtLeastZero
    <3> QED
      BY <1>1, <2>1, <3>3 DEF ReadChangedCounts
  <2>2. CASE g[t].replies > 0 /\ f[t].replies = 0
    <3>1. G = F \cup {t} /\ t \notin F
      BY <1>1, <2>2
    <3>2. IsFiniteSet(F)
      BY <1>2
    <3>3. Cardinality(F \cup {t}) = Cardinality(F) + 1
      BY <3>1, <3>2, FS_AddElement
    <3> QED
      BY <1>1, <1>2, <2>2, <3>1, <3>3 DEF ReadChangedCounts
  <2>3. CASE g[t].replies > 0 <=> f[t].replies > 0
    <3>1. G = F
      <4>1. \A s \in Threads : g[s].replies > 0 <=> f[s].replies > 0
        BY <2>3
      <4> QED
        BY <4>1
    <3>2. /\ ~(g[t].replies > 0 /\ f[t].replies = 0)
          /\ ~(f[t].replies > 0 /\ g[t].replies = 0)
      BY <1>1, <2>3
    <3>3. ReadChangedCounts(f[t], g[t]).threads = counts.threads
      BY <3>2 DEF ReadChangedCounts
    <3> QED
      BY <1>2, <3>1, <3>3
  <2>4. f[t].replies > 0 <=> f[t].replies # 0
    BY <1>1
  <2>5. g[t].replies > 0 <=> g[t].replies # 0
    BY <1>1
  <2> QED
    BY <2>1, <2>2, <2>3, <2>4, <2>5
<1>6. ReadChangedCounts(f[t], g[t]).mentions = Totals(g).mentions
  BY <1>4 DEF ReadChangedCounts
<1>7. DOMAIN ReadChangedCounts(f[t], g[t]) = {"mentions", "threads"}
  BY DEF ReadChangedCounts
<1> QED
  BY <1>2, <1>5, <1>6 DEF ReadChangedCounts

LEMMA TotalsZero ==
  ASSUME NEW f \in UnreadMaps, \A t \in Threads : f[t] = AllRead
  PROVE  Totals(f) = Zero
<1>1. {t \in Threads : f[t].replies > 0} = {} /\ Pairs(f, Threads) = {}
  BY DEF AllRead, Unread, Pairs
<1>2. Totals(f).threads = 0 /\ Totals(f).mentions = 0
  BY <1>1, TotalsProperties, FS_EmptySet
<1> QED
  BY <1>2, TotalsProperties DEF Zero, Totals

-----------------------------------------------------------------------------
\* Values.

LEMMA EventProperties ==
  ASSUME NEW e \in Events
  PROVE  /\ e.type \in {"updated", "read", "deleted", "channel", "team"}
         /\ e.type \in {"updated", "read", "deleted"} => e.thread \in Threads
         /\ e.type \in {"updated", "read"} => e.prev \in UnreadCounts /\ e.new \in UnreadCounts
BY DEF Events

LEMMA UpdateProperties ==
  ASSUME NEW type \in {"updated", "read"}, NEW t \in Threads,
         NEW prev \in UnreadCounts, NEW new \in UnreadCounts, NEW e, e = Update(type, t, prev, new)
  PROVE  e \in Events /\ e.type = type /\ e.thread = t /\ e.prev = prev /\ e.new = new
BY DEF Update, Events

LEMMA AnswerProperties ==
  ASSUME NEW a \in Answers
  PROVE  /\ a.kind \in {"counts", "team", "thread"} /\ a.seq \in Nat /\ a.unread \in UnreadMaps
         /\ a.kind = "thread" => a.thread \in Threads
BY DEF Answers

LEMMA EntryProperties ==
  ASSUME NEW u \in UnreadCounts, NEW whole \in BOOLEAN, NEW x, x = Entry(u, whole)
  PROVE  x \in Entries /\ x # NoThread /\ x.whole = whole /\ Unread(x.replies, x.mentions) = u
BY DEF UnreadCounts, Entries, Entry, Unread

LEMMA StoredProperties ==
  ASSUME Typed, NEW t \in Threads, Has(t)
  PROVE  /\ threads[t] \in Entries /\ threads[t].whole \in BOOLEAN
         /\ StoredUnread(t) \in UnreadCounts
BY DEF Typed, Has, Entries, StoredUnread, Unread, UnreadCounts

LEMMA AllReadTyped == AllRead \in UnreadCounts
BY DEF AllRead, Unread, UnreadCounts

LEMMA UnreadTyped ==
  ASSUME ServerTyped, NEW t \in Threads, NEW last \in Nat, last <= Len(replies[t])
  PROVE  UnreadAfter(t, last) \in UnreadCounts
<1> DEFINE S == {i \in last + 1 .. Len(replies[t]) : replies[t][i]}
<1>1. Len(replies[t]) \in Nat
  BY DEF ServerTyped
<1>2. Cardinality(S) \in Nat
  <2>1. IsFiniteSet(last + 1 .. Len(replies[t]))
    <3>1. last + 1 \in Int /\ Len(replies[t]) \in Int
      BY <1>1
    <3> QED
      BY <3>1, FS_Interval
  <2>2. S \in SUBSET (last + 1 .. Len(replies[t]))
    OBVIOUS
  <2> HIDE DEF S
  <2> QED
    BY <2>1, <2>2, FS_Subset, FS_CardinalityType
<1>3. Len(replies[t]) - last \in Nat
  BY <1>1
<1> QED
  BY <1>2, <1>3, AllReadTyped DEF UnreadAfter, Unread, UnreadCounts

LEMMA NowTyped == ServerTyped => Now \in UnreadMaps
<1> SUFFICES ASSUME ServerTyped
             PROVE  Now \in UnreadMaps
  OBVIOUS
<1>1. \A t \in Threads : ServerUnread(t) \in UnreadCounts
  BY UnreadTyped DEF ServerUnread, ServerTyped
<1> QED
  BY <1>1 DEF Now, UnreadMaps

LEMMA NowTypedNext == (ServerTyped => Now \in UnreadMaps)'
BY NowTyped, PTL

LEMMA ReadChangedTyped ==
  ASSUME Typed, NEW prev \in UnreadCounts, NEW new \in UnreadCounts
  PROVE  ReadChangedCounts(prev, new) \in [threads : Nat, mentions : Nat]
<1>1. /\ counts.threads \in Nat /\ counts.mentions \in Nat
      /\ prev.replies \in Nat /\ prev.mentions \in Nat
      /\ new.replies \in Nat /\ new.mentions \in Nat
  BY DEF Typed, UnreadCounts
<1>2. \A n \in Int : AtLeastZero(n) \in Nat
  BY DEF AtLeastZero
<1>3. AtLeastZero(counts.mentions + new.mentions - prev.mentions) \in Nat
  BY <1>1, <1>2
<1>4. AtLeastZero(counts.threads - 1) \in Nat
  BY <1>1, <1>2
<1> QED
  BY <1>1, <1>3, <1>4 DEF ReadChangedCounts

\* What the counts add up is well typed, and moves with the thread that changes.
LEMMA KnownProperties ==
  ASSUME Typed, NEW H, Remembers(H)
  PROVE  /\ Seen \in 0 .. sent /\ Len(wire) \in Nat /\ sent = Seen + Len(wire)
         /\ H[Seen] \in UnreadMaps
         /\ Known(H) \in UnreadMaps
         /\ \A t \in Threads : Known(H)[t] = IF Has(t) THEN StoredUnread(t) ELSE H[Seen][t]
<1>1. Seen \in 0 .. sent /\ Len(wire) \in Nat /\ sent = Seen + Len(wire)
  BY DEF Typed, Seen
<1>2. H[Seen] \in UnreadMaps
  BY <1>1 DEF Remembers
<1>3. \A t \in Threads : Has(t) => StoredUnread(t) \in UnreadCounts
  BY StoredProperties
<1> QED
  BY <1>1, <1>2, <1>3 DEF Known, UnreadMaps

LEMMA InitInv == Init => Inv
<1> SUFFICES ASSUME Init
             PROVE  Inv
  OBVIOUS
<1>1. /\ replies \in [Threads -> Seq(BOOLEAN)]
      /\ viewed = [t \in Threads |-> 0] /\ deleted = {}
      /\ sent = 0 /\ wire = <<>> /\ threads = [t \in Threads |-> NoThread]
      /\ counts = ServerTotals /\ open = NoThread /\ manual = {} /\ updates = {}
      /\ answers = {} /\ asked = 0 /\ causes = {}
  <2>1. <<>> \in Seq(BOOLEAN) /\ <<TRUE>> \in Seq(BOOLEAN)
    OBVIOUS
  <2> QED
    BY <2>1 DEF Init
<1>2. ServerTyped
  BY <1>1 DEF ServerTyped
<1>3. Now \in UnreadMaps
  BY <1>2, NowTyped
<1>4. counts = Totals(Now) /\ counts \in [threads : Nat, mentions : Nat]
  BY <1>1, <1>3, TotalsProperties DEF ServerTotals, Now
<1>5. Typed
  BY <1>1, <1>2, <1>4 DEF Typed
<1>6. PICK n : n = Now
  OBVIOUS
<1>7. PICK H : H = [q \in 0 .. 0 |-> n]
  OBVIOUS
<1>8. Len(wire) = 0 /\ Seen = 0
  <2>1. Len(wire) = 0
    BY <1>1
  <2>2. sent = 0
    BY <1>1
  <2> QED
    BY <2>1, <2>2 DEF Seen
<1>9. Remembers(H)
  BY <1>1, <1>3, <1>6, <1>7, <1>8 DEF Remembers
<1>10. Known(H) = Now
  BY <1>1, <1>6, <1>7, <1>8 DEF Known, Has, Now
<1> QED
  BY <1>1, <1>4, <1>5, <1>8, <1>9, <1>10
  DEF Inv, TeamTold, DeletedLast, Follows, ThreadsFollow, CountsFollow, Has

-----------------------------------------------------------------------------
(* The server *)

\* The history grows by what the server has after the event.
LEMMA SentRemembers ==
  ASSUME Typed, NEW H, Remembers(H), NEW e \in Events, Send(e),
         NEW a \in UnreadMaps, a = Now', Tells(e, Now, a),
         \A x \in answers' : x \in answers \/ (x.seq = sent' /\ x.unread = a),
         NEW G, G = [q \in 0 .. sent + 1 |-> IF q = sent + 1 THEN a ELSE H[q]]
  PROVE  Remembers(G)'
<1>1. /\ Len(wire) \in Nat /\ sent \in Nat /\ sent' = sent + 1
      /\ Len(wire') = Len(wire) + 1
      /\ \A k \in 1 .. Len(wire) : wire'[k] = wire[k]
      /\ wire'[Len(wire) + 1] = e
  BY DEF Typed, Send
<1>2. Seen' = Seen /\ Seen \in 0 .. sent /\ sent = Seen + Len(wire)
  BY <1>1, KnownProperties DEF Seen
<1>3. /\ H \in [0 .. sent -> UnreadMaps] /\ H[sent] = Now
      /\ \A k \in 1 .. Len(wire) : Tells(wire[k], H[Seen + k - 1], H[Seen + k])
      /\ \A t \in Threads, p \in Seen .. sent :
           QuietFrom(t, p) => \A q \in p .. sent : H[q][t] = Now[t]
      /\ \A x \in answers : x.seq \in 0 .. sent /\ x.unread = H[x.seq]
  BY DEF Remembers
<1>4. /\ G \in [0 .. sent' -> UnreadMaps] /\ G[sent'] = a
      /\ \A q \in 0 .. sent : G[q] = H[q]
  <2>1. \A q \in 0 .. sent : H[q] \in UnreadMaps
    BY <1>3
  <2> QED
    BY <1>1, <2>1
<1>5. \A k \in 1 .. Len(wire') : Tells(wire'[k], G[Seen' + k - 1], G[Seen' + k])
  <2> TAKE k \in 1 .. Len(wire')
  <2>1. CASE k \in 1 .. Len(wire)
    <3>1. Seen + k - 1 \in 0 .. sent /\ Seen + k \in 0 .. sent
      BY <1>2, <2>1
    <3> QED
      BY <1>1, <1>2, <1>3, <1>4, <2>1, <3>1
  <2>2. CASE k = Len(wire) + 1
    <3>1. Seen + k - 1 = sent /\ Seen + k = sent' /\ sent \in 0 .. sent
      BY <1>1, <1>2, <2>2
    <3> QED
      BY <1>1, <1>2, <1>3, <1>4, <2>2, <3>1
  <2> QED
    BY <1>1, <2>1, <2>2
<1>6. ASSUME NEW t \in Threads, NEW p \in Seen .. sent', QuietFrom(t, p)'
      PROVE  \A q \in p .. sent' : G[q][t] = a[t]
  <2>1. CASE p = sent'
    BY <1>1, <1>4, <2>1
  <2>2. CASE p # sent'
    <3>1. p \in Seen .. sent
      BY <1>1, <1>2, <2>2
    <3>2. \A k \in 1 .. Len(wire') : About(wire'[k], t) => Seen + k <= p
      BY <1>2, <1>6 DEF QuietFrom
    <3>3. ~About(e, t)
      <4>1. Len(wire) + 1 \in 1 .. Len(wire') /\ ~(Seen + (Len(wire) + 1) <= p)
        BY <1>1, <1>2, <3>1
      <4> QED
        BY <1>1, <3>2, <4>1
    <3>4. a[t] = Now[t]
      BY <3>3 DEF Tells
    <3>5. QuietFrom(t, p)
      BY <1>1, <3>2 DEF QuietFrom
    <3>6. \A q \in p .. sent : H[q][t] = Now[t]
      BY <1>3, <3>1, <3>5
    <3> QED
      BY <1>1, <1>2, <1>4, <3>1, <3>4, <3>6
  <2> QED
    BY <2>1, <2>2
<1>7. ASSUME NEW x \in answers'
      PROVE  x.seq \in 0 .. sent' /\ x.unread = G[x.seq]
  <2>1. CASE x \in answers
    <3>1. x.seq \in 0 .. sent /\ x.unread = H[x.seq]
      BY <1>3, <2>1
    <3> QED
      BY <1>1, <1>4, <3>1
  <2>2. CASE x.seq = sent' /\ x.unread = a
    BY <1>1, <1>4, <2>2
  <2> QED
    BY <2>1, <2>2
<1> QED
  BY <1>2, <1>4, <1>5, <1>6, <1>7 DEF Remembers

LEMMA SentInv ==
  ASSUME Inv, NEW e \in Events, Send(e), ServerTyped',
         \A t \in Threads : Len(replies[t]) <= Len(replies'[t]),
         NEW a \in UnreadMaps, a = Now', Tells(e, Now, a),
         UNCHANGED <<threads, counts, causes, open, manual>>, asked' \in Nat,
         updates' \subseteq updates,
         \A u \in updates : u \in updates' \/ About(e, u.thread) \/ u.thread \in deleted,
         deleted' = IF e.type = "deleted" THEN deleted \cup {e.thread} ELSE deleted,
         e.type \in {"updated", "read"} => e.thread \notin deleted,
         answers' \subseteq Answers,
         \A x \in answers' :
           x \in answers \/ (x.seq = sent' /\ x.unread = a /\ (x.kind = "team" => e.type = "team"))
  PROVE  Inv'
<1>1. PICK H : Follows(H)
  BY DEF Inv
<1>2. PICK G : G = [q \in 0 .. sent + 1 |-> IF q = sent + 1 THEN a ELSE H[q]]
  OBVIOUS
<1>3. Remembers(H) /\ ThreadsFollow(H) /\ CountsFollow(H) /\ Typed
  BY <1>1 DEF Follows, Inv
<1>4. /\ Len(wire) \in Nat /\ sent \in Nat /\ sent' = sent + 1
      /\ wire' \in Seq(Events) /\ Len(wire') = Len(wire) + 1
      /\ \A k \in 1 .. Len(wire) : wire'[k] = wire[k]
      /\ wire'[Len(wire) + 1] = e
  BY <1>3 DEF Typed, Send
<1>5. Seen' = Seen /\ Seen \in 0 .. sent /\ sent = Seen + Len(wire)
  BY <1>3, <1>4, KnownProperties DEF Seen
<1>6. G[Seen] = H[Seen]
  BY <1>2, <1>4, <1>5
<1>7. Remembers(G)'
  BY <1>2, <1>3, SentRemembers
<1>8. Typed'
  <2>1. \A u \in updates' : u.last <= Len(replies'[u.thread])
    <3> TAKE u \in updates'
    <3>1. u \in updates /\ u.thread \in Threads /\ u.last \in Nat /\ u.last <= Len(replies[u.thread])
      BY <1>3 DEF Typed
    <3>2. Len(replies[u.thread]) \in Nat /\ Len(replies'[u.thread]) \in Nat
      <4>1. replies[u.thread] \in Seq(BOOLEAN) /\ replies'[u.thread] \in Seq(BOOLEAN)
        BY <1>3, <3>1 DEF Typed, ServerTyped
      <4> QED
        BY <4>1
    <3>3. Len(replies[u.thread]) <= Len(replies'[u.thread])
      BY <3>1
    <3> QED
      BY <3>1, <3>2, <3>3
  <2> QED
    BY <1>3, <1>4, <2>1 DEF Typed
<1>9. TeamTold'
  <2> SUFFICES ASSUME NEW x \in answers', x.kind = "team"
               PROVE  /\ \A t \in Threads : x.unread[t] = AllRead
                      /\ x.seq > Seen => wire'[x.seq - Seen].type = "team"
    BY <1>5 DEF TeamTold
  <2>1. CASE x \in answers
    <3>1. x.seq \in 0 .. sent
      BY <1>3, <2>1 DEF Remembers
    <3>2. x.seq > Seen => x.seq - Seen \in 1 .. Len(wire)
      BY <1>5, <3>1
    <3> QED
      BY <1>4, <2>1, <3>2 DEF Inv, TeamTold
  <2>2. CASE x.seq = sent' /\ x.unread = a /\ e.type = "team"
    <3>1. \A t \in Threads : x.unread[t] = AllRead
      BY <2>2 DEF Tells, About
    <3>2. x.seq - Seen = Len(wire) + 1
      BY <1>4, <1>5, <2>2
    <3> QED
      BY <1>4, <2>2, <3>1, <3>2
  <2> QED
    BY <2>1, <2>2
<1>10. DeletedLast'
  <2> SUFFICES ASSUME NEW k \in 1 .. Len(wire'), wire'[k].type \in {"updated", "read"},
                      wire'[k].thread \in deleted'
               PROVE  \E j \in 1 .. Len(wire') :
                        k < j /\ wire'[j].type = "deleted" /\ wire'[j].thread = wire'[k].thread
    BY DEF DeletedLast
  <2>1. Len(wire) + 1 \in 1 .. Len(wire')
    BY <1>4
  <2>2. k # Len(wire) + 1
    BY <1>4
  <2>3. k \in 1 .. Len(wire) /\ wire'[k] = wire[k] /\ k < Len(wire) + 1
    BY <1>4, <2>2
  <2>4. CASE e.type = "deleted" /\ wire[k].thread = e.thread
    BY <1>4, <2>1, <2>3, <2>4
  <2>5. CASE wire[k].thread \in deleted
    <3>1. PICK j \in 1 .. Len(wire) :
            k < j /\ wire[j].type = "deleted" /\ wire[j].thread = wire[k].thread
      BY <2>3, <2>5 DEF Inv, DeletedLast
    <3> QED
      BY <1>4, <2>3, <3>1
  <2> QED
    BY <2>3, <2>4, <2>5
<1>11. ASSUME NEW t \in Threads, Pending(t)
       PROVE  Pending(t)'
  <2>1. CASE \E k \in 1 .. Len(wire) : About(wire[k], t)
    BY <1>4, <2>1 DEF Pending
  <2>2. CASE t \notin deleted /\ \E u \in updates : u.thread = t
    <3>1. Len(wire) + 1 \in 1 .. Len(wire')
      BY <1>4
    <3>2. CASE About(e, t)
      BY <1>4, <3>1, <3>2 DEF Pending
    <3>3. CASE ~About(e, t)
      <4>1. t \notin deleted' /\ \E u \in updates' : u.thread = t
        BY <2>2, <3>3 DEF About
      <4> QED
        BY <4>1 DEF Pending
    <3> QED
      BY <3>2, <3>3
  <2> QED
    BY <1>11, <2>1, <2>2 DEF Pending
<1>12. ThreadsFollow(G)'
  BY <1>3, <1>5, <1>6, <1>11 DEF ThreadsFollow, Has, StoredUnread
<1>13. CountsFollow(G)'
  <2>1. Known(G)' = Known(H)
    BY <1>5, <1>6 DEF Known, Has, StoredUnread
  <2>2. causes' = {} => counts' = Totals(Known(G)')
                        \/ \E k \in 1 .. Len(wire') : wire'[k].type = "team"
    BY <1>3, <1>4, <2>1 DEF CountsFollow
  <2> QED
    BY <2>2 DEF CountsFollow, Totals
<1> QED
  BY <1>7, <1>8, <1>9, <1>10, <1>12, <1>13 DEF Inv, Follows


LEMMA ReplyInv ==
  ASSUME Inv, NEW t \in Threads, NEW mention \in BOOLEAN, Reply(t, mention)
  PROVE  Inv'
<1>1. /\ Typed /\ ServerTyped /\ t \notin deleted
      /\ replies' = [replies EXCEPT ![t] = Append(@, mention)]
      /\ viewed' = viewed /\ deleted' = deleted
  BY DEF Reply, Inv, Typed
<1>2. PICK e : e = Update("updated", t, ServerUnread(t), ServerUnread(t)')
  OBVIOUS
<1>3. PICK a : a = Now'
  OBVIOUS
<1>4. /\ replies[t] \in Seq(BOOLEAN) /\ replies'[t] = Append(replies[t], mention)
      /\ \A s \in Threads \ {t} : replies'[s] = replies[s]
  BY <1>1 DEF ServerTyped
<1>5. \A s \in Threads : Len(replies[s]) <= Len(replies'[s]) /\ Len(replies[s]) \in Nat
  <2> TAKE s \in Threads
  <2>1. replies[s] \in Seq(BOOLEAN)
    BY <1>1 DEF ServerTyped
  <2>2. CASE s = t
    BY <1>4, <2>2
  <2>3. CASE s # t
    BY <1>4, <2>1, <2>3
  <2> QED
    BY <2>2, <2>3
<1>6. ServerTyped'
  <2>1. replies' \in [Threads -> Seq(BOOLEAN)]
    <3>1. Append(replies[t], mention) \in Seq(BOOLEAN)
      BY <1>4
    <3> QED
      BY <1>1, <3>1 DEF ServerTyped
  <2>2. \A s \in Threads : viewed'[s] <= Len(replies'[s])
    <3> TAKE s \in Threads
    <3>1. replies[s] \in Seq(BOOLEAN) /\ replies'[s] \in Seq(BOOLEAN)
          /\ viewed[s] \in Nat /\ viewed[s] <= Len(replies[s])
      BY <1>1, <2>1 DEF ServerTyped
    <3> QED
      BY <1>1, <1>5, <3>1
  <2> QED
    BY <1>1, <2>1, <2>2 DEF ServerTyped
<1>7. Now \in UnreadMaps /\ a \in UnreadMaps
  BY <1>1, <1>3, <1>6, NowTyped, NowTypedNext
<1>8. ServerUnread(t) = Now[t] /\ ServerUnread(t)' = a[t]
  BY <1>3 DEF Now
<1>9. e \in Events /\ e.type = "updated" /\ e.thread = t /\ e.prev = Now[t] /\ e.new = a[t]
  <2>1. Now[t] \in UnreadCounts /\ a[t] \in UnreadCounts
    BY <1>7 DEF UnreadMaps
  <2> QED
    BY <1>2, <1>8, <2>1, UpdateProperties
<1>10. \A s \in Threads \ {t} : a[s] = Now[s]
  BY <1>1, <1>3, <1>4 DEF Now, ServerUnread, UnreadAfter
<1>11. Tells(e, Now, a)
  BY <1>9, <1>10 DEF Tells, About
<1>12. /\ Send(e) /\ UNCHANGED <<threads, counts, causes, open, manual, updates, answers, asked>>
  BY <1>2 DEF Reply, Elsewhere, screen, history
<1> QED
  BY <1>1, <1>3, <1>5, <1>6, <1>7, <1>9, <1>11, <1>12, SentInv DEF Typed

\* Another session reads or unreads a thread, or the server takes a request.
LEMMA SetViewedInv ==
  ASSUME Inv, NEW t \in Threads, NEW last \in Nat, last <= Len(replies[t]), SetViewed(t, last),
         UNCHANGED <<threads, counts, causes, open, manual, answers, asked>>,
         updates' \subseteq updates, \A u \in updates : u \in updates' \/ u.thread = t
  PROVE  Inv'
<1>1. /\ Typed /\ ServerTyped /\ t \notin deleted
      /\ viewed' = [viewed EXCEPT ![t] = last]
      /\ replies' = replies /\ deleted' = deleted
  BY DEF SetViewed, Inv, Typed
<1>2. PICK e : e = Update("read", t, ServerUnread(t), UnreadAfter(t, last))
  OBVIOUS
<1>3. PICK a : a = Now'
  OBVIOUS
<1>4. viewed'[t] = last /\ \A s \in Threads \ {t} : viewed'[s] = viewed[s]
  BY <1>1 DEF ServerTyped
<1>5. \A s \in Threads : Len(replies[s]) <= Len(replies'[s])
  <2> TAKE s \in Threads
  <2>1. replies[s] \in Seq(BOOLEAN)
    BY <1>1 DEF ServerTyped
  <2> QED
    BY <1>1, <2>1
<1>6. ServerTyped'
  <2>1. \A s \in Threads : viewed'[s] <= Len(replies'[s])
    BY <1>1, <1>4 DEF ServerTyped
  <2> QED
    BY <1>1, <2>1 DEF ServerTyped
<1>7. Now \in UnreadMaps /\ a \in UnreadMaps
  BY <1>1, <1>3, <1>6, NowTyped, NowTypedNext
<1>8. ServerUnread(t) = Now[t] /\ UnreadAfter(t, last) = a[t]
  <2>1. Now[t] = ServerUnread(t) /\ a[t] = ServerUnread(t)'
    BY <1>3 DEF Now
  <2>2. ServerUnread(t)' = UnreadAfter(t, last)
    <3>1. replies' = replies /\ deleted' = deleted /\ viewed'[t] = last
      BY <1>1, <1>4
    <3> QED
      BY <3>1 DEF ServerUnread, UnreadAfter
  <2> QED
    BY <2>1, <2>2
<1>9. e \in Events /\ e.type = "read" /\ e.thread = t /\ e.prev = Now[t] /\ e.new = a[t]
  <2>1. Now[t] \in UnreadCounts /\ a[t] \in UnreadCounts
    BY <1>7 DEF UnreadMaps
  <2> QED
    BY <1>2, <1>8, <2>1, UpdateProperties
<1>10. \A s \in Threads \ {t} : a[s] = Now[s]
  BY <1>1, <1>3, <1>4 DEF Now, ServerUnread, UnreadAfter
<1>11. Tells(e, Now, a)
  BY <1>9, <1>10 DEF Tells, About
<1>12. Send(e)
  BY <1>2 DEF SetViewed
<1>13. \A u \in updates : u \in updates' \/ About(e, u.thread)
  BY <1>9 DEF About
<1> QED
  BY <1>1, <1>3, <1>5, <1>6, <1>7, <1>9, <1>11, <1>12, <1>13, SentInv DEF Typed

LEMMA AllViewedInv ==
  ASSUME Inv, NEW type \in {"channel", "team"}, AllViewed(type),
         UNCHANGED <<threads, counts, causes, open, manual, updates>>, asked' \in Nat,
         \A x \in answers' : x \in answers \/ (x = Answer("team", NoThread)' /\ type = "team")
  PROVE  Inv'
<1>1. /\ Typed /\ ServerTyped
      /\ viewed' = [s \in Threads |-> Len(replies[s])]
      /\ replies' = replies /\ deleted' = deleted
  BY DEF AllViewed, Inv, Typed
<1>2. PICK e : e = [type |-> type]
  OBVIOUS
<1>3. PICK a : a = Now'
  OBVIOUS
<1>4. \A s \in Threads : Len(replies[s]) \in Nat /\ Len(replies[s]) <= Len(replies'[s])
  <2> TAKE s \in Threads
  <2>1. replies[s] \in Seq(BOOLEAN)
    BY <1>1 DEF ServerTyped
  <2> QED
    BY <1>1, <2>1
<1>5. \A s \in Threads : viewed'[s] = Len(replies[s])
  BY <1>1
<1>6. ServerTyped'
  <2>1. \A s \in Threads : viewed'[s] <= Len(replies'[s]) /\ viewed'[s] \in Nat
    BY <1>4, <1>5
  <2> QED
    BY <1>1, <1>4, <2>1 DEF ServerTyped
<1>7. Now \in UnreadMaps /\ a \in UnreadMaps
  BY <1>1, <1>3, <1>6, NowTyped, NowTypedNext
<1>8. \A s \in Threads : a[s] = AllRead
  <2> TAKE s \in Threads
  <2>1. a[s] = ServerUnread(s)'
    BY <1>3 DEF Now
  <2>2. {i \in Len(replies[s]) + 1 .. Len(replies[s]) : replies[s][i]} = {}
    BY <1>4
  <2>3. Cardinality({i \in Len(replies[s]) + 1 .. Len(replies[s]) : replies[s][i]}) = 0
    BY <2>2, FS_EmptySet
  <2>4. Len(replies[s]) - Len(replies[s]) = 0
    BY <1>4
  <2>5. UnreadAfter(s, Len(replies[s])) = AllRead
    BY <2>3, <2>4 DEF UnreadAfter, AllRead
  <2>6. ServerUnread(s)' = UnreadAfter(s, Len(replies[s]))
    BY <1>1, <1>5 DEF ServerUnread, UnreadAfter
  <2> QED
    BY <2>1, <2>5, <2>6
<1>9. e \in Events /\ e.type = type
  BY <1>2 DEF Events
<1>10. \A s : About(e, s)
  BY <1>9 DEF About
<1>11. Tells(e, Now, a)
  BY <1>8, <1>9, <1>10 DEF Tells
<1>12. Send(e) /\ sent' \in Nat
  BY <1>1, <1>2 DEF AllViewed, Send, Typed
<1>13. ASSUME NEW x \in answers', x \notin answers
       PROVE  x \in Answers /\ x.seq = sent' /\ x.unread = a /\ type = "team"
  <2>1. x = [kind |-> "team", thread |-> NoThread, seq |-> sent', unread |-> a]
    BY <1>3, <1>13 DEF Answer, Now
  <2> QED
    BY <1>7, <1>12, <1>13, <2>1 DEF Answers
<1>14. answers' \subseteq Answers
  BY <1>1, <1>13 DEF Typed
<1>15. \A x \in answers' : x \in answers \/ (x.seq = sent' /\ x.unread = a /\ (x.kind = "team" => e.type = "team"))
  BY <1>9, <1>13
<1>16. /\ e.type \notin {"updated", "read"}
       /\ deleted' = IF e.type = "deleted" THEN deleted \cup {e.thread} ELSE deleted
       /\ updates' \subseteq updates /\ \A u \in updates : u \in updates'
  BY <1>1, <1>9
<1> QED
  BY <1>3, <1>4, <1>6, <1>7, <1>9, <1>11, <1>12, <1>14, <1>15, <1>16, SentInv

LEMMA RootDeletedInv ==
  ASSUME Inv, NEW t \in Threads, RootDeleted(t)
  PROVE  Inv'
<1>1. /\ Typed /\ ServerTyped /\ deleted' = deleted \cup {t}
      /\ replies' = replies /\ viewed' = viewed
  BY DEF RootDeleted, Inv, Typed
<1>2. PICK e : e = [type |-> "deleted", thread |-> t]
  OBVIOUS
<1>3. PICK a : a = Now'
  OBVIOUS
<1>4. \A s \in Threads : Len(replies[s]) <= Len(replies'[s])
  <2> TAKE s \in Threads
  <2>1. replies[s] \in Seq(BOOLEAN)
    BY <1>1 DEF ServerTyped
  <2> QED
    BY <1>1, <2>1
<1>5. ServerTyped'
  BY <1>1 DEF ServerTyped
<1>6. Now \in UnreadMaps /\ a \in UnreadMaps
  BY <1>1, <1>3, <1>5, NowTyped, NowTypedNext
<1>7. a[t] = AllRead /\ \A s \in Threads \ {t} : a[s] = Now[s]
  BY <1>1, <1>3 DEF Now, ServerUnread, UnreadAfter
<1>8. e \in Events /\ e.type = "deleted" /\ e.thread = t
  BY <1>2 DEF Events
<1>9. Tells(e, Now, a)
  BY <1>7, <1>8 DEF Tells, About
<1>10. Send(e) /\ UNCHANGED <<threads, counts, causes, open, manual, updates, answers, asked>>
  BY <1>2 DEF RootDeleted, Elsewhere, screen, history
<1> QED
  BY <1>1, <1>3, <1>4, <1>5, <1>6, <1>8, <1>9, <1>10, SentInv DEF Typed


-----------------------------------------------------------------------------
(* The session, while the server and the wire stand still *)

LEMMA UpToProperties ==
  ASSUME ServerTyped, NEW t \in Threads, NEW last \in 0 .. Len(replies[t]), NEW u, u = UpTo(t, last)
  PROVE  u \in [thread : Threads, last : Nat] /\ u.thread = t /\ u.last <= Len(replies[t])
<1>1. replies[t] \in Seq(BOOLEAN)
  BY DEF ServerTyped
<1>2. last \in Nat /\ last <= Len(replies[t])
  BY <1>1
<1> QED
  BY <1>2 DEF UpTo

LEMMA ToNowProperties ==
  ASSUME ServerTyped, NEW t \in Threads, NEW u, u = ToNow(t)
  PROVE  u \in [thread : Threads, last : Nat] /\ u.thread = t /\ u.last <= Len(replies[t])
<1>1. Len(replies[t]) \in 0 .. Len(replies[t])
  <2>1. replies[t] \in Seq(BOOLEAN)
    BY DEF ServerTyped
  <2>2. Len(replies[t]) \in Nat
    BY <2>1
  <2> QED
    BY <2>2
<1> QED
  BY <1>1, UpToProperties DEF ToNow

LEMMA StayInv ==
  ASSUME Inv, UNCHANGED <<server, sent, wire>>,
         threads' \in [Threads -> Entries \cup {NoThread}],
         counts' \in [threads : Nat, mentions : Nat],
         open' \in Threads \cup {NoThread}, manual' \subseteq Threads, asked' \in Nat,
         updates' \subseteq [thread : Threads, last : Nat],
         \A u \in updates' : u.last <= Len(replies[u.thread]),
         causes' \subseteq Causes,
         \A x \in answers' :
           x \in answers \/ (x \in Answers /\ x.seq = sent /\ x.unread = Now /\ x.kind # "team"),
         \A H : Follows(H) => ThreadsFollow(H)' /\ CountsFollow(H)'
  PROVE  Inv'
<1>1. /\ Typed /\ replies' = replies /\ viewed' = viewed /\ deleted' = deleted
      /\ sent' = sent /\ wire' = wire
  BY DEF Inv, server
<1>2. PICK H : Follows(H)
  BY DEF Inv
<1>3. Remembers(H)
  BY <1>2 DEF Follows
<1>4. Typed'
  <2>1. ServerTyped'
    BY <1>1 DEF Typed, ServerTyped
  <2> QED
    BY <1>1, <2>1 DEF Typed
<1>5. Now' = Now /\ Seen' = Seen
  BY <1>1 DEF Now, ServerUnread, UnreadAfter, Seen
<1>6. Seen \in 0 .. sent /\ sent \in Nat
  BY <1>1, <1>3, KnownProperties DEF Typed
<1>7. \A t, p : QuietFrom(t, p)' <=> QuietFrom(t, p)
  BY <1>1, <1>5 DEF QuietFrom
<1>8. \A x \in answers' : x.seq \in 0 .. sent /\ x.unread = H[x.seq]
  <2> TAKE x \in answers'
  <2>1. CASE x \in answers
    BY <1>3, <2>1 DEF Remembers
  <2>2. CASE x.seq = sent /\ x.unread = Now
    BY <1>3, <1>6, <2>2 DEF Remembers
  <2> QED
    BY <2>1, <2>2
<1>9. Remembers(H)'
  BY <1>1, <1>3, <1>5, <1>7, <1>8 DEF Remembers
<1>10. TeamTold'
  <2> SUFFICES ASSUME NEW x \in answers', x.kind = "team"
               PROVE  /\ \A t \in Threads : x.unread[t] = AllRead
                      /\ x.seq > Seen => wire[x.seq - Seen].type = "team"
    BY <1>1, <1>5 DEF TeamTold
  <2> QED
    BY DEF Inv, TeamTold
<1>11. DeletedLast'
  BY <1>1 DEF Inv, DeletedLast
<1> QED
  BY <1>2, <1>4, <1>9, <1>10, <1>11 DEF Inv, Follows

\* What the store has is not touched either.
LEMMA QuietInv ==
  ASSUME Inv, UNCHANGED <<server, sent, wire, threads, counts, causes>>,
         open' \in Threads \cup {NoThread}, manual' \subseteq Threads, asked' \in Nat,
         updates' \subseteq [thread : Threads, last : Nat],
         \A u \in updates' : u.last <= Len(replies[u.thread]),
         \A u \in updates : u \in updates' \/ u.thread \in deleted,
         \A x \in answers' :
           x \in answers \/ (x \in Answers /\ x.seq = sent /\ x.unread = Now /\ x.kind # "team")
  PROVE  Inv'
<1>1. /\ Typed /\ deleted' = deleted /\ sent' = sent /\ wire' = wire
      /\ threads' = threads /\ counts' = counts /\ causes' = causes
  BY DEF Inv, server
<1>2. ASSUME NEW H, Follows(H)
      PROVE  ThreadsFollow(H)' /\ CountsFollow(H)'
  <2>1. Seen' = Seen
    BY <1>1 DEF Seen
  <2>2. \A t \in Threads : Pending(t) => Pending(t)'
    BY <1>1 DEF Pending
  <2>3. ThreadsFollow(H)'
    BY <1>1, <1>2, <2>1, <2>2 DEF Follows, ThreadsFollow, Has, StoredUnread
  <2>4. Known(H)' = Known(H)
    BY <1>1, <2>1 DEF Known, Has, StoredUnread
  <2>5. CountsFollow(H)'
    BY <1>1, <1>2, <2>4 DEF Follows, CountsFollow, Totals
  <2> QED
    BY <2>3, <2>5
<1> QED
  BY <1>1, <1>2, StayInv DEF Typed

LEMMA OpenInv ==
  ASSUME Inv, NEW t \in Threads, Open(t)
  PROVE  Inv'
<1>1. Typed /\ ServerTyped /\ asked' \in Nat
  BY DEF Inv, Typed, Open, Ask
<1>2. /\ UNCHANGED <<server, sent, wire, threads, counts, causes>>
      /\ answers' = answers /\ open' = t
      /\ manual' \subseteq manual
      /\ updates' = updates \/ updates' = updates \cup {ToNow(t)}
  BY DEF Open, Ask, MarkThreadRead
<1>3. updates' \subseteq [thread : Threads, last : Nat]
      /\ \A u \in updates' : u.last <= Len(replies[u.thread])
  BY <1>1, <1>2, ToNowProperties DEF Typed
<1> QED
  BY <1>1, <1>2, <1>3, QuietInv DEF Typed

LEMMA CloseInv ==
  ASSUME Inv, Close
  PROVE  Inv'
BY QuietInv DEF Close, history, Inv, Typed

LEMMA MarkThreadInv ==
  ASSUME Inv, NEW t \in Threads, NEW last \in 0 .. Len(replies[t]), MarkThread(t, last)
  PROVE  Inv'
<1>1. Typed /\ ServerTyped /\ asked' \in Nat
  BY DEF Inv, Typed, MarkThread, Ask
<1>2. /\ UNCHANGED <<server, sent, wire, threads, counts, causes>>
      /\ answers' = answers /\ open' = open
      /\ manual' = manual \cup {t}
      /\ updates' = updates \cup {UpTo(t, last)}
  BY DEF MarkThread, Ask
<1>3. updates' \subseteq [thread : Threads, last : Nat]
      /\ \A u \in updates' : u.last <= Len(replies[u.thread])
  BY <1>1, <1>2, UpToProperties DEF Typed
<1> QED
  BY <1>1, <1>2, <1>3, QuietInv DEF Typed

LEMMA ServerTakesInv ==
  ASSUME Inv, NEW u \in updates, ServerTakes(u)
  PROVE  Inv'
<1>1. Typed /\ u.thread \in Threads /\ u.last \in Nat /\ u.last <= Len(replies[u.thread])
  BY DEF Inv, Typed
<1>2. /\ UNCHANGED <<threads, counts, causes, open, manual, answers, asked>>
      /\ updates' = updates \ {u}
  BY DEF ServerTakes, screen, history
<1>3. CASE SetViewed(u.thread, u.last)
  BY <1>1, <1>2, <1>3, SetViewedInv
<1>4. CASE u.thread \in deleted /\ UNCHANGED <<server, sent, wire>>
  BY <1>1, <1>2, <1>4, QuietInv DEF Typed
<1> QED
  BY <1>3, <1>4 DEF ServerTakes

LEMMA UpdateFailsInv ==
  ASSUME Inv, NEW u \in updates, UpdateFails(u)
  PROVE  Inv'
<1>1. /\ Typed /\ UNCHANGED <<server, sent, wire, threads, counts, open, manual, answers, asked>>
      /\ updates' = updates \ {u} /\ causes' = causes \cup {"failed"}
  BY DEF Inv, UpdateFails, screen
<1>2. \A H : ThreadsFollow(H)' /\ CountsFollow(H)'
  BY <1>1 DEF ThreadsFollow, CountsFollow
<1>3. causes' \subseteq Causes
  BY <1>1 DEF Typed, Causes
<1> QED
  BY <1>1, <1>2, <1>3, StayInv DEF Typed

LEMMA AskedInv ==
  ASSUME Inv, GetThreadCounts \/ \E t \in Threads : GetThread(t)
  PROVE  Inv'
<1>1. Typed /\ ServerTyped /\ sent \in Nat /\ asked' \in Nat /\ causes' = causes
  BY DEF Inv, Typed, GetThreadCounts, GetThread, Ask
<1>2. Now \in UnreadMaps
  BY <1>1, NowTyped
<1>3. /\ UNCHANGED <<server, sent, wire, threads, counts, open, manual, updates>>
      /\ \/ answers' = answers \cup {Answer("counts", NoThread)}
         \/ \E t \in Threads : answers' = answers \cup {Answer("thread", t)}
  BY DEF GetThreadCounts, GetThread, screen
<1>4. \A x \in answers' :
        x \in answers \/ (x \in Answers /\ x.seq = sent /\ x.unread = Now /\ x.kind # "team")
  <2>1. ASSUME NEW x, x = Answer("counts", NoThread)
        PROVE  x \in Answers /\ x.seq = sent /\ x.unread = Now /\ x.kind # "team"
    <3>1. x = [kind |-> "counts", thread |-> NoThread, seq |-> sent, unread |-> Now]
      BY <2>1 DEF Answer, Now
    <3> QED
      BY <1>1, <1>2, <3>1 DEF Answers
  <2>2. ASSUME NEW t \in Threads, NEW x, x = Answer("thread", t)
        PROVE  x \in Answers /\ x.seq = sent /\ x.unread = Now /\ x.kind # "team"
    <3>1. x = [kind |-> "thread", thread |-> t, seq |-> sent, unread |-> Now]
      BY <2>2 DEF Answer, Now
    <3> QED
      BY <1>1, <1>2, <3>1 DEF Answers
  <2> QED
    BY <1>3, <2>1, <2>2
<1> QED
  BY <1>1, <1>3, <1>4, QuietInv DEF Typed

LEMMA RequestFailsInv ==
  ASSUME Inv, NEW a \in answers, RequestFails(a)
  PROVE  Inv'
BY QuietInv DEF RequestFails, screen, history, Inv, Typed


-----------------------------------------------------------------------------
(* What arrives *)

LEMMA ArrivedProperties ==
  ASSUME Typed, NEW t \in Threads, NEW prev \in UnreadCounts \cup {NoThread},
         NEW new \in UnreadCounts, ThreadArrived(t, prev, new)
  PROVE  /\ threads' \in [Threads -> Entries \cup {NoThread}]
         /\ counts' \in [threads : Nat, mentions : Nat]
         /\ Has(t)' /\ StoredUnread(t)' = new /\ threads'[t].whole = TRUE
         /\ \A s \in Threads : s # t => threads'[s] = threads[s]
<1>1. /\ threads \in [Threads -> Entries \cup {NoThread}]
      /\ counts \in [threads : Nat, mentions : Nat]
      /\ threads' = [threads EXCEPT ![t] = Entry(new, TRUE)]
      /\ counts' = IF Has(t) \/ prev # NoThread
                   THEN ReadChangedCounts(Previous(t, prev), new) ELSE counts
  BY DEF Typed, ThreadArrived
<1>2. PICK x : x = Entry(new, TRUE)
  OBVIOUS
<1>3. x \in Entries /\ x # NoThread /\ x.whole = TRUE /\ Unread(x.replies, x.mentions) = new
  BY <1>2, EntryProperties
<1>4. threads'[t] = x
  BY <1>1, <1>2
<1>5. threads' \in [Threads -> Entries \cup {NoThread}]
  BY <1>1, <1>2, <1>3
<1>6. \A s \in Threads : s # t => threads'[s] = threads[s]
  BY <1>1
<1>7. Has(t)' /\ StoredUnread(t)' = new
  BY <1>3, <1>4 DEF Has, StoredUnread
<1>8. counts' \in [threads : Nat, mentions : Nat]
  <2>1. Has(t) \/ prev # NoThread => Previous(t, prev) \in UnreadCounts
    BY StoredProperties DEF Previous
  <2> QED
    BY <1>1, <2>1, ReadChangedTyped
<1> QED
  BY <1>3, <1>4, <1>5, <1>6, <1>7, <1>8

LEMMA ArrivesUpdates ==
  ASSUME Typed, NEW t \in Threads, NEW prev, NEW new, Arrives(t, prev, new)
  PROVE  /\ manual' \subseteq Threads /\ updates \subseteq updates'
         /\ updates' \subseteq [thread : Threads, last : Nat]
         /\ \A u \in updates' : u.last <= Len(replies[u.thread])
<1>1. /\ manual' \subseteq manual
      /\ updates' = updates \/ updates' = updates \cup {ToNow(t)}
  BY DEF Arrives, MarkThreadRead
<1> QED
  BY <1>1, ToNowProperties DEF Typed

LEMMA AllReadProperties ==
  ASSUME Typed, AllTeamThreadsRead
  PROVE  /\ threads' \in [Threads -> Entries \cup {NoThread}]
         /\ counts' \in [threads : Nat, mentions : Nat]
         /\ \A t \in Threads : Has(t)' => StoredUnread(t)' = AllRead
<1>1. \A t \in Threads : threads'[t] = IF Has(t) THEN Entry(AllRead, threads[t].whole) ELSE NoThread
  BY DEF AllTeamThreadsRead
<1>2. \A t \in Threads : Has(t) => threads[t].whole \in BOOLEAN
  BY StoredProperties
<1>3. \A t \in Threads : /\ threads'[t] \in Entries \cup {NoThread}
                         /\ Has(t)' => StoredUnread(t)' = AllRead
  <2> TAKE t \in Threads
  <2>1. CASE Has(t)
    <3>1. PICK x : x = Entry(AllRead, threads[t].whole)
      OBVIOUS
    <3>2. x \in Entries /\ Unread(x.replies, x.mentions) = AllRead
      BY <1>2, <2>1, <3>1, AllReadTyped, EntryProperties
    <3> QED
      BY <1>1, <2>1, <3>1, <3>2 DEF StoredUnread
  <2>2. CASE ~Has(t)
    BY <1>1, <2>2 DEF Has
  <2> QED
    BY <2>1, <2>2
<1>4. threads' \in [Threads -> Entries \cup {NoThread}]
  <2>1. threads' = [t \in Threads |->
          IF Has(t) THEN Entry(AllRead, threads[t].whole) ELSE NoThread]
    BY DEF AllTeamThreadsRead
  <2> QED
    BY <1>1, <1>3, <2>1
<1> QED
  BY <1>3, <1>4 DEF AllTeamThreadsRead, Zero

LEMMA KnownNext ==
  ASSUME NEW H, NEW g \in UnreadMaps,
         \A s \in Threads : g[s] = IF Has(s)' THEN StoredUnread(s)' ELSE H[Seen'][s]
  PROVE  Known(H)' = g
BY DEF Known, UnreadMaps

\* A thread changes, and the counts by the difference it makes.
LEMMA CountsMove ==
  ASSUME Typed, NEW H, Remembers(H), NEW t \in Threads, NEW new \in UnreadCounts,
         counts = Totals(Known(H)), counts' = ReadChangedCounts(Known(H)[t], new),
         \A s \in Threads : (IF Has(s)' THEN StoredUnread(s)' ELSE H[Seen'][s]) =
                            IF s = t THEN new ELSE Known(H)[s]
  PROVE  counts' = Totals(Known(H)')
<1>1. PICK f : f = Known(H)
  OBVIOUS
<1>2. PICK g : g = [f EXCEPT ![t] = new]
  OBVIOUS
<1>3. f \in UnreadMaps
  BY <1>1, KnownProperties
<1>4. g \in UnreadMaps /\ g[t] = new /\ \A s \in Threads : s # t => g[s] = f[s]
  BY <1>2, <1>3 DEF UnreadMaps
<1>5. Known(H)' = g
  BY <1>1, <1>4, KnownNext
<1>6. ReadChangedCounts(f[t], g[t]) = Totals(g)
  BY <1>1, <1>3, <1>4, TotalsChange
<1> QED
  BY <1>1, <1>4, <1>5, <1>6

LEMMA ReceiveCountsInv ==
  ASSUME Inv, NEW a \in answers, ReceiveCounts(a)
  PROVE  Inv'
<1>1. /\ Typed /\ a.kind = "counts" /\ a.unread \in UnreadMaps
      /\ UNCHANGED <<server, sent, wire, threads, open, manual, updates, asked>>
      /\ counts' = Totals(a.unread) /\ answers' = answers \ {a}
      /\ causes' = IF InStep(a) THEN causes ELSE causes \cup {"counts"}
  <2>1. Typed /\ a.unread \in UnreadMaps
    BY AnswerProperties DEF Inv, Typed
  <2> QED
    BY <2>1 DEF ReceiveCounts, Receive
<1>2. counts' \in [threads : Nat, mentions : Nat]
  BY <1>1, TotalsProperties
<1>3. ASSUME NEW H, Follows(H)
      PROVE  ThreadsFollow(H)' /\ CountsFollow(H)'
  <2>1. Seen' = Seen
    BY <1>1 DEF Seen
  <2>2. \A t \in Threads : Pending(t) => Pending(t)'
    BY <1>1 DEF Pending, server
  <2>3. ThreadsFollow(H)'
    BY <1>1, <1>3, <2>1, <2>2 DEF Follows, ThreadsFollow, Has, StoredUnread
  <2>4. Known(H)' = Known(H)
    BY <1>1, <2>1 DEF Known, Has, StoredUnread
  <2>5. CASE InStep(a)
    <3>1. a.seq = Seen /\ \A t \in Threads : Has(t) => StoredUnread(t) = a.unread[t]
      BY <1>1, <2>5 DEF InStep
    <3>2. H[Seen] = a.unread
      BY <1>3, <3>1 DEF Follows, Remembers
    <3>3. \A t \in Threads : Known(H)[t] = a.unread[t]
      BY <3>1, <3>2 DEF Known
    <3>4. Known(H) = a.unread
      BY <1>1, <3>3 DEF Known, UnreadMaps
    <3>5. counts' = Totals(Known(H)')
      BY <1>1, <2>4, <3>4
    <3> QED
      BY <2>3, <3>5 DEF CountsFollow, Totals
  <2>6. CASE ~InStep(a)
    BY <1>1, <2>3, <2>6 DEF CountsFollow
  <2> QED
    BY <2>5, <2>6
<1>4. causes' \subseteq Causes
  BY <1>1 DEF Typed, Causes
<1> QED
  BY <1>1, <1>2, <1>3, <1>4, StayInv DEF Typed

LEMMA ReceiveThreadInv ==
  ASSUME Inv, NEW a \in answers, ReceiveThread(a)
  PROVE  Inv'
<1>1. /\ Typed /\ a.kind = "thread" /\ a.unread \in UnreadMaps /\ a.thread \in Threads
      /\ UNCHANGED <<server, sent, wire, open, asked>>
      /\ Arrives(a.thread, NoThread, a.unread[a.thread]) /\ answers' = answers \ {a}
      /\ causes' = IF InStep(a) THEN causes ELSE causes \cup {"thread"}
  <2>1. Typed /\ a \in Answers
    BY DEF Inv, Typed
  <2> QED
    BY <2>1, AnswerProperties DEF ReceiveThread, Receive
<1>2. PICK t \in Threads : t = a.thread
  BY <1>1
<1>3. PICK new : new = a.unread[a.thread]
  OBVIOUS
<1>4. new \in UnreadCounts
  BY <1>1, <1>3 DEF UnreadMaps
<1>5. ThreadArrived(t, NoThread, new)
  BY <1>1, <1>2, <1>3 DEF Arrives
<1>6. /\ threads' \in [Threads -> Entries \cup {NoThread}]
      /\ counts' \in [threads : Nat, mentions : Nat]
      /\ Has(t)' /\ StoredUnread(t)' = new
      /\ \A s \in Threads : s # t => threads'[s] = threads[s]
  BY <1>1, <1>4, <1>5, ArrivedProperties
<1>7. /\ manual' \subseteq Threads /\ updates \subseteq updates'
      /\ updates' \subseteq [thread : Threads, last : Nat]
      /\ \A u \in updates' : u.last <= Len(replies[u.thread])
  BY <1>1, ArrivesUpdates
<1>8. ASSUME NEW H, Follows(H)
      PROVE  ThreadsFollow(H)' /\ CountsFollow(H)'
  <2>1. Seen' = Seen /\ Remembers(H)
    BY <1>1, <1>8 DEF Seen, Follows
  <2>2. CASE ~InStep(a)
    BY <1>1, <2>2 DEF ThreadsFollow, CountsFollow
  <2>3. CASE InStep(a)
    <3>1. a.seq = Seen \/ (Has(t) /\ a.seq > Seen)
      BY <1>1, <1>2, <2>3 DEF InStep
    <3>2. a.seq \in 0 .. sent /\ new = H[a.seq][t] /\ Seen \in 0 .. sent /\ sent \in Nat
      BY <1>1, <1>2, <1>3, <2>1, KnownProperties DEF Remembers, Typed
    <3>3. \A s \in Threads : Pending(s) => Pending(s)'
      BY <1>1, <1>7 DEF Pending, server
    <3>4. new = H[Seen][t] \/ Pending(t)'
      <4>1. CASE QuietFrom(t, Seen)
        <5>1. Seen \in Seen .. sent /\ a.seq \in Seen .. sent
          BY <3>1, <3>2
        <5>2. H[Seen][t] = Now[t] /\ H[a.seq][t] = Now[t]
          BY <2>1, <4>1, <5>1 DEF Remembers
        <5> QED
          BY <3>2, <5>2
      <4>2. CASE ~QuietFrom(t, Seen)
        BY <3>3, <4>2 DEF QuietFrom, Pending
      <4> QED
        BY <4>1, <4>2
    <3>5. ThreadsFollow(H)'
      BY <1>1, <1>6, <1>8, <2>1, <2>3, <3>3, <3>4 DEF Follows, ThreadsFollow, Has, StoredUnread
    <3>6. ASSUME counts = Totals(Known(H))
          PROVE  counts' = Totals(Known(H)')
      <4>1. \A s \in Threads : (IF Has(s)' THEN StoredUnread(s)' ELSE H[Seen'][s]) =
                               IF s = t THEN new ELSE Known(H)[s]
        BY <1>6, <2>1 DEF Known, Has, StoredUnread
      <4>2. CASE Has(t)
        <5>1. Known(H)[t] = StoredUnread(t)
          BY <4>2 DEF Known
        <5>2. counts' = ReadChangedCounts(Known(H)[t], new)
          BY <1>5, <4>2, <5>1 DEF ThreadArrived, Previous
        <5> QED
          BY <1>1, <1>4, <2>1, <3>6, <4>1, <5>2, CountsMove
      <4>3. CASE ~Has(t)
        <5>1. Known(H)[t] = new /\ Known(H) \in UnreadMaps
          BY <1>1, <2>1, <3>1, <3>2, <4>3, KnownProperties
        <5>2. Known(H)' = Known(H)
          BY <4>1, <5>1, KnownNext
        <5>3. counts' = counts
          BY <1>5, <4>3 DEF ThreadArrived
        <5> QED
          BY <3>6, <5>2, <5>3
      <4> QED
        BY <4>2, <4>3
    <3>7. CountsFollow(H)'
      <4>1. causes' = {} => counts' = Totals(Known(H)')
                            \/ \E k \in 1 .. Len(wire') : wire'[k].type = "team"
        BY <1>1, <1>8, <2>3, <3>6 DEF Follows, CountsFollow
      <4> QED
        BY <4>1 DEF CountsFollow, Totals
    <3> QED
      BY <3>5, <3>7
  <2> QED
    BY <2>2, <2>3
<1>9. causes' \subseteq Causes
  BY <1>1 DEF Typed, Causes
<1> QED
  BY <1>1, <1>6, <1>7, <1>8, <1>9, StayInv DEF Typed

LEMMA ReceiveTeamReadInv ==
  ASSUME Inv, NEW a \in answers, ReceiveTeamRead(a)
  PROVE  Inv'
<1>1. /\ Typed /\ a.kind = "team" /\ AllTeamThreadsRead
      /\ UNCHANGED <<server, sent, wire, open, manual, updates, asked>>
      /\ answers' = answers \ {a}
      /\ causes' = IF InStep(a) THEN causes ELSE causes \cup {"team"}
  BY DEF Inv, ReceiveTeamRead, Receive
<1>2. /\ threads' \in [Threads -> Entries \cup {NoThread}]
      /\ counts' \in [threads : Nat, mentions : Nat] /\ counts' = Zero
      /\ \A t \in Threads : Has(t)' => StoredUnread(t)' = AllRead
  BY <1>1, AllReadProperties DEF AllTeamThreadsRead
<1>3. /\ \A t \in Threads : a.unread[t] = AllRead
      /\ a.seq > Seen => wire[a.seq - Seen].type = "team"
  BY <1>1 DEF Inv, TeamTold
<1>4. ASSUME NEW H, Follows(H)
      PROVE  ThreadsFollow(H)' /\ CountsFollow(H)'
  <2>1. Seen' = Seen /\ Remembers(H)
    BY <1>1, <1>4 DEF Seen, Follows
  <2>2. CASE ~InStep(a)
    BY <1>1, <2>2 DEF ThreadsFollow, CountsFollow
  <2>3. CASE InStep(a)
    <3>1. /\ a.seq >= Seen /\ a.seq \in 0 .. sent /\ a.unread = H[a.seq]
          /\ Seen \in 0 .. sent /\ sent = Seen + Len(wire) /\ H[Seen] \in UnreadMaps
      BY <1>1, <2>1, <2>3, KnownProperties DEF InStep, Remembers
    <3>2. CASE a.seq = Seen
      <4>1. \A t \in Threads : H[Seen][t] = AllRead
        BY <1>3, <3>1, <3>2
      <4>2. ThreadsFollow(H)'
        BY <1>2, <2>1, <4>1 DEF ThreadsFollow
      <4>3. Known(H)' = H[Seen]
        BY <1>2, <2>1, <3>1, <4>1, KnownNext
      <4>4. counts' = Totals(Known(H)')
        BY <1>2, <3>1, <4>1, <4>3, TotalsZero
      <4> QED
        BY <4>2, <4>4 DEF CountsFollow, Totals
    <3>3. CASE a.seq > Seen
      <4>1. a.seq - Seen \in 1 .. Len(wire') /\ wire'[a.seq - Seen].type = "team"
        BY <1>1, <1>3, <3>1, <3>3
      <4>2. \A t \in Threads : Pending(t)'
        BY <4>1 DEF Pending, About
      <4> QED
        BY <4>1, <4>2 DEF ThreadsFollow, CountsFollow
    <3> QED
      BY <3>1, <3>2, <3>3
  <2> QED
    BY <2>2, <2>3
<1>5. causes' \subseteq Causes
  BY <1>1 DEF Typed, Causes
<1> QED
  BY <1>1, <1>2, <1>4, <1>5, StayInv DEF Typed


-----------------------------------------------------------------------------
(* Events *)

\* The next event, and the moment it tells of.
Handling ==
  /\ wire # <<>> /\ wire' = Tail(wire)
  /\ UNCHANGED <<server, sent, open, answers, asked>>

LEMMA HandlingProperties ==
  ASSUME Inv, Handling, NEW H, Follows(H), NEW e, e = Head(wire)
  PROVE  /\ e \in Events /\ e = wire[1] /\ Seen' = Seen + 1
         /\ Seen \in 0 .. sent /\ Seen + 1 \in 0 .. sent
         /\ Len(wire) \in Nat \ {0} /\ Len(wire') = Len(wire) - 1
         /\ \A k \in 1 .. Len(wire') : k + 1 \in 1 .. Len(wire) /\ wire'[k] = wire[k + 1]
         /\ \A k \in 2 .. Len(wire) : k - 1 \in 1 .. Len(wire') /\ wire'[k - 1] = wire[k]
         /\ H[Seen] \in UnreadMaps /\ H[Seen + 1] \in UnreadMaps
         /\ Tells(e, H[Seen], H[Seen + 1])
<1>1. Typed /\ Remembers(H) /\ wire \in Seq(Events) /\ sent \in Nat
  BY DEF Inv, Typed, Follows
<1>2. Len(wire) \in Nat \ {0}
  BY <1>1 DEF Handling
<1>3. /\ e = wire[1] /\ Len(wire') = Len(wire) - 1 /\ e \in Events
      /\ \A k \in 1 .. Len(wire) - 1 : wire'[k] = wire[k + 1]
  BY <1>1, <1>2 DEF Handling
<1>4. Seen \in 0 .. sent /\ sent = Seen + Len(wire) /\ Seen' = sent - Len(wire')
  BY <1>1, KnownProperties DEF Seen, Handling
<1>5. Seen' = Seen + 1 /\ Seen + 1 \in 0 .. sent
  BY <1>1, <1>2, <1>3, <1>4
<1>6. H[Seen] \in UnreadMaps /\ H[Seen + 1] \in UnreadMaps
  BY <1>1, <1>4, <1>5 DEF Remembers
<1>7. Tells(e, H[Seen], H[Seen + 1])
  <2>1. 1 \in 1 .. Len(wire) /\ Seen + 1 - 1 = Seen
    BY <1>2, <1>4
  <2>2. Tells(wire[1], H[Seen + 1 - 1], H[Seen + 1])
    BY <1>1, <2>1 DEF Remembers
  <2> QED
    BY <1>3, <2>1, <2>2
<1> QED
  BY <1>2, <1>3, <1>4, <1>5, <1>6, <1>7

LEMMA HandledInv ==
  ASSUME Inv, Handling,
         threads' \in [Threads -> Entries \cup {NoThread}],
         counts' \in [threads : Nat, mentions : Nat],
         manual' \subseteq Threads,
         updates' \subseteq [thread : Threads, last : Nat],
         \A u \in updates' : u.last <= Len(replies[u.thread]),
         causes' \subseteq Causes,
         \A H : Follows(H) => ThreadsFollow(H)' /\ CountsFollow(H)'
  PROVE  Inv'
<1>1. /\ Typed /\ replies' = replies /\ viewed' = viewed /\ deleted' = deleted
      /\ sent' = sent /\ answers' = answers /\ open' = open /\ asked' = asked
  BY DEF Inv, Handling, server
<1>2. PICK H : Follows(H)
  BY DEF Inv
<1>3. PICK e : e = Head(wire)
  OBVIOUS
<1>4. /\ Remembers(H) /\ Seen' = Seen + 1 /\ Seen \in 0 .. sent /\ Seen + 1 \in 0 .. sent
      /\ Len(wire) \in Nat \ {0} /\ Len(wire') = Len(wire) - 1
      /\ \A k \in 1 .. Len(wire') : k + 1 \in 1 .. Len(wire) /\ wire'[k] = wire[k + 1]
      /\ \A k \in 2 .. Len(wire) : k - 1 \in 1 .. Len(wire') /\ wire'[k - 1] = wire[k]
  BY <1>2, <1>3, HandlingProperties DEF Follows
<1>5. sent \in Nat /\ wire \in Seq(Events) /\ Len(wire) <= sent
  BY <1>1 DEF Typed
<1>6. Typed'
  <2>1. ServerTyped'
    BY <1>1 DEF Typed, ServerTyped
  <2>2. wire' \in Seq(Events) /\ Len(wire') <= sent'
    BY <1>1, <1>4, <1>5 DEF Handling
  <2> QED
    BY <1>1, <2>1, <2>2 DEF Typed
<1>7. Now' = Now
  BY <1>1 DEF Now, ServerUnread, UnreadAfter
<1>8. \A k \in 1 .. Len(wire') : Tells(wire'[k], H[Seen' + k - 1], H[Seen' + k])
  <2> TAKE k \in 1 .. Len(wire')
  <2>1. /\ k \in Int /\ Seen \in Int /\ Seen' = Seen + 1
        /\ k + 1 \in 1 .. Len(wire) /\ wire'[k] = wire[k + 1]
    BY <1>4, <1>5
  <2>2. Tells(wire[k + 1], H[Seen + (k + 1) - 1], H[Seen + (k + 1)])
    BY <1>4, <2>1 DEF Remembers
  <2>3. Seen + (k + 1) - 1 = Seen' + k - 1 /\ Seen + (k + 1) = Seen' + k
    <3>1. k \in Int /\ Seen \in Int /\ Seen' = Seen + 1
      BY <2>1
    <3>2. \A m, n, i \in Int : n = m + 1 => m + (i + 1) - 1 = n + i - 1 /\ m + (i + 1) = n + i
      OBVIOUS
    <3>3. Seen' \in Int
      BY <3>1
    <3> QED
      BY <3>1, <3>2, <3>3
  <2> QED
    BY <2>1, <2>2, <2>3
<1>9. ASSUME NEW t \in Threads, NEW p \in Seen' .. sent, QuietFrom(t, p)'
      PROVE  \A q \in p .. sent : H[q][t] = Now[t]
  <2>1. p \in Seen .. sent /\ Seen + 1 <= p
    BY <1>4, <1>5
  <2>2. \A k \in 1 .. Len(wire') : About(wire'[k], t) => Seen + 1 + k <= p
    BY <1>4, <1>9 DEF QuietFrom
  <2>3. \A k \in 1 .. Len(wire) : About(wire[k], t) => Seen + k <= p
    <3> TAKE k \in 1 .. Len(wire)
    <3>1. CASE k = 1
      BY <2>1, <3>1
    <3>2. CASE k # 1
      <4>1. k \in 2 .. Len(wire)
        BY <3>2
      <4>2. k - 1 \in 1 .. Len(wire') /\ wire'[k - 1] = wire[k]
        BY <1>4, <4>1
      <4>3. Seen + 1 + (k - 1) = Seen + k
        BY <1>4, <1>5
      <4> QED
        BY <2>2, <4>2, <4>3
    <3> QED
      BY <3>1, <3>2
  <2>4. QuietFrom(t, p)
    BY <2>3 DEF QuietFrom
  <2> QED
    BY <1>4, <2>1, <2>4 DEF Remembers
<1>10. Remembers(H)'
  BY <1>1, <1>4, <1>7, <1>8, <1>9 DEF Remembers
<1>11. TeamTold'
  <2> SUFFICES ASSUME NEW x \in answers, x.kind = "team"
               PROVE  /\ \A t \in Threads : x.unread[t] = AllRead
                      /\ x.seq > Seen' => wire'[x.seq - Seen'].type = "team"
    BY <1>1 DEF TeamTold
  <2>1. /\ \A t \in Threads : x.unread[t] = AllRead
        /\ x.seq > Seen => wire[x.seq - Seen].type = "team"
    BY DEF Inv, TeamTold
  <2>2. ASSUME x.seq > Seen'
        PROVE  wire'[x.seq - Seen'].type = "team"
    <3>1. x.seq \in 0 .. sent
      BY <1>4 DEF Remembers
    <3>2. sent = Seen + Len(wire)
      BY <1>1, <1>4, KnownProperties
    <3>3. x.seq - Seen \in 2 .. Len(wire) /\ x.seq - Seen' = (x.seq - Seen) - 1 /\ x.seq > Seen
      <4>1. /\ x.seq \in Int /\ x.seq <= sent /\ Seen \in Int /\ Len(wire) \in Int
            /\ Seen' = Seen + 1
        BY <1>4, <1>5, <3>1
      <4>2. \A n, m, i, l \in Int :
               i = m + l /\ n <= i /\ n > m + 1 =>
                 /\ n - m \in 2 .. l
                 /\ n - (m + 1) = (n - m) - 1 /\ n > m
        OBVIOUS
      <4> QED
        BY <1>5, <2>2, <3>2, <4>1, <4>2
    <3>4. wire'[x.seq - Seen'] = wire[x.seq - Seen]
      BY <1>4, <3>3
    <3> QED
      BY <2>1, <3>3, <3>4
  <2> QED
    BY <2>1, <2>2
<1>12. DeletedLast'
  <2> SUFFICES ASSUME NEW k \in 1 .. Len(wire'), wire'[k].type \in {"updated", "read"},
                      wire'[k].thread \in deleted
               PROVE  \E j \in 1 .. Len(wire') :
                        k < j /\ wire'[j].type = "deleted" /\ wire'[j].thread = wire'[k].thread
    BY <1>1 DEF DeletedLast
  <2>1. k + 1 \in 1 .. Len(wire) /\ wire'[k] = wire[k + 1]
    BY <1>4
  <2>2. PICK j \in 1 .. Len(wire) :
          k + 1 < j /\ wire[j].type = "deleted" /\ wire[j].thread = wire[k + 1].thread
    BY <2>1 DEF Inv, DeletedLast
  <2>3. j \in 2 .. Len(wire) /\ k < j - 1
    BY <2>2
  <2>4. j - 1 \in 1 .. Len(wire') /\ wire'[j - 1] = wire[j]
    BY <1>4, <2>3
  <2> QED
    BY <2>1, <2>2, <2>3, <2>4
<1> QED
  BY <1>2, <1>6, <1>10, <1>11, <1>12 DEF Inv, Follows

\* An event not about a thread leaves it to the events that still come.
LEMMA StillPending ==
  ASSUME Inv, Handling, updates \subseteq updates', NEW t \in Threads, Pending(t),
         ~About(Head(wire), t)
  PROVE  Pending(t)'
<1>1. PICK H : Follows(H)
  BY DEF Inv
<1>2. PICK e : e = Head(wire)
  OBVIOUS
<1>3. /\ e = wire[1]
      /\ \A k \in 2 .. Len(wire) : k - 1 \in 1 .. Len(wire') /\ wire'[k - 1] = wire[k]
  BY <1>1, <1>2, HandlingProperties
<1>4. CASE \E k \in 1 .. Len(wire) : About(wire[k], t)
  <2>1. PICK k \in 1 .. Len(wire) : About(wire[k], t)
    BY <1>4
  <2>2. k # 1
    BY <1>2, <1>3, <2>1
  <2>3. k \in 2 .. Len(wire)
    BY <2>2
  <2> QED
    BY <1>3, <2>1, <2>3 DEF Pending
<1>5. CASE t \notin deleted /\ \E u \in updates : u.thread = t
  BY <1>5 DEF Pending, Handling, server
<1> QED
  BY <1>4, <1>5 DEF Pending

LEMMA TeamStillComes ==
  ASSUME Inv, Handling, Head(wire).type # "team", NEW k \in 1 .. Len(wire), wire[k].type = "team"
  PROVE  \E j \in 1 .. Len(wire') : wire'[j].type = "team"
<1>1. PICK H : Follows(H)
  BY DEF Inv
<1>2. PICK e : e = Head(wire)
  OBVIOUS
<1>3. /\ e = wire[1]
      /\ \A j \in 2 .. Len(wire) : j - 1 \in 1 .. Len(wire') /\ wire'[j - 1] = wire[j]
  BY <1>1, <1>2, HandlingProperties
<1>4. k \in 2 .. Len(wire)
  BY <1>2, <1>3
<1> QED
  BY <1>3, <1>4

\* One thread gets new counts of unread replies, and the counts the difference.
LEMMA ThreadChanges ==
  ASSUME Inv, Handling, NEW H, Follows(H), NEW t \in Threads, NEW new \in UnreadCounts,
         Head(wire).type \in {"updated", "read"}, Head(wire).thread = t,
         Has(t)', StoredUnread(t)' = new,
         \A s \in Threads : s # t => threads'[s] = threads[s],
         counts' = ReadChangedCounts(Previous(t, Head(wire).prev), new),
         causes' = causes, updates \subseteq updates',
         new = Head(wire).new \/ Pending(t)'
  PROVE  ThreadsFollow(H)' /\ CountsFollow(H)'
<1>1. PICK e : e = Head(wire)
  OBVIOUS
<1>2. /\ e \in Events /\ Seen' = Seen + 1
      /\ H[Seen] \in UnreadMaps /\ H[Seen + 1] \in UnreadMaps
      /\ Tells(e, H[Seen], H[Seen + 1])
  BY <1>1, HandlingProperties
<1>3. /\ Typed /\ Remembers(H) /\ ThreadsFollow(H) /\ CountsFollow(H)
  BY DEF Inv, Follows
<1>4. \A s \in Threads : s # t => ~About(e, s)
  BY <1>1 DEF About
<1>5. /\ H[Seen][t] = e.prev /\ H[Seen'][t] = e.new
      /\ \A s \in Threads : s # t => H[Seen'][s] = H[Seen][s]
  BY <1>1, <1>2, <1>4 DEF Tells
<1>6. \A s \in Threads : s # t /\ Pending(s) => Pending(s)'
  BY <1>1, <1>4, StillPending
<1>7. ThreadsFollow(H)'
  BY <1>1, <1>3, <1>5, <1>6 DEF ThreadsFollow, Has, StoredUnread
<1>8. \A s \in Threads : (IF Has(s)' THEN StoredUnread(s)' ELSE H[Seen'][s]) =
                         IF s = t THEN new ELSE Known(H)[s]
  BY <1>5 DEF Known, Has, StoredUnread
<1>9. Known(H)[t] = Previous(t, e.prev)
  BY <1>5 DEF Known, Previous
<1>10. counts = Totals(Known(H)) => counts' = Totals(Known(H)')
  BY <1>1, <1>3, <1>8, <1>9, CountsMove
<1>11. causes' = {} => counts' = Totals(Known(H)')
                       \/ \E k \in 1 .. Len(wire') : wire'[k].type = "team"
  BY <1>3, <1>10, TeamStillComes DEF CountsFollow
<1> QED
  BY <1>7, <1>11 DEF CountsFollow, Totals


LEMMA ThreadUpdatedInv ==
  ASSUME Inv, Handling, HandleThreadUpdated(Head(wire))
  PROVE  Inv'
<1>1. PICK e : e = Head(wire)
  OBVIOUS
<1>2. PICK H : Follows(H)
  BY DEF Inv
<1>3. /\ e \in Events /\ e.type = "updated" /\ e = wire[1] /\ Len(wire) \in Nat \ {0}
      /\ \A k \in 2 .. Len(wire) : k - 1 \in 1 .. Len(wire') /\ wire'[k - 1] = wire[k]
  BY <1>1, <1>2, HandlingProperties DEF HandleThreadUpdated
<1>4. PICK t \in Threads : t = e.thread
  BY <1>3, EventProperties
<1>5. /\ Typed /\ ServerTyped /\ causes' = causes
      /\ deleted' = deleted /\ e.prev \in UnreadCounts /\ e.new \in UnreadCounts
  BY <1>1, <1>3, EventProperties DEF Inv, Typed, HandleThreadUpdated, Handling, server
<1>6. e.prev # NoThread
  BY <1>5 DEF UnreadCounts
<1>7. PICK new \in UnreadCounts :
        /\ ThreadArrived(t, e.prev, new)
        /\ manual' \subseteq Threads /\ updates \subseteq updates'
        /\ updates' \subseteq [thread : Threads, last : Nat]
        /\ \A u \in updates' : u.last <= Len(replies[u.thread])
        /\ new = e.new \/ ToNow(t) \in updates'
  <2>1. CASE Arrives(t, e.prev, e.new)
    <3>1. ThreadArrived(t, e.prev, e.new)
      BY <2>1 DEF Arrives
    <3> QED
      BY <1>5, <2>1, <3>1, ArrivesUpdates
  <2>2. CASE /\ ThreadArrived(t, e.prev, AllRead)
             /\ updates' = updates \cup {ToNow(t)} /\ manual' = manual
    BY <1>5, <2>2, AllReadTyped, ToNowProperties DEF Typed
  <2> QED
    BY <1>1, <1>4, <2>1, <2>2 DEF HandleThreadUpdated
<1>8. /\ threads' \in [Threads -> Entries \cup {NoThread}]
      /\ counts' \in [threads : Nat, mentions : Nat]
      /\ Has(t)' /\ StoredUnread(t)' = new
      /\ \A s \in Threads : s # t => threads'[s] = threads[s]
  BY <1>5, <1>7, ArrivedProperties
<1>9. counts' = ReadChangedCounts(Previous(t, e.prev), new)
  BY <1>6, <1>7 DEF ThreadArrived
<1>10. new = e.new \/ Pending(t)'
  <2> SUFFICES ASSUME ToNow(t) \in updates'
               PROVE  Pending(t)'
    BY <1>7
  <2>1. CASE t \notin deleted
    BY <1>5, <2>1, ToNowProperties DEF Pending
  <2>2. CASE t \in deleted
    <3>1. 1 \in 1 .. Len(wire)
      BY <1>3
    <3>2. PICK j \in 1 .. Len(wire) :
            1 < j /\ wire[j].type = "deleted" /\ wire[j].thread = t
      BY <1>3, <1>4, <2>2, <3>1 DEF Inv, DeletedLast
    <3>3. j - 1 \in 1 .. Len(wire') /\ About(wire'[j - 1], t)
      BY <1>3, <3>2 DEF About
    <3> QED
      BY <3>3 DEF Pending
  <2> QED
    BY <2>1, <2>2
<1>11. \A G : Follows(G) => ThreadsFollow(G)' /\ CountsFollow(G)'
  BY <1>1, <1>3, <1>4, <1>5, <1>7, <1>8, <1>9, <1>10, ThreadChanges
<1> QED
  BY <1>5, <1>7, <1>8, <1>11, HandledInv DEF Typed

LEMMA ThreadReadChangedInv ==
  ASSUME Inv, Handling, HandleThreadReadChanged(Head(wire))
  PROVE  Inv'
<1>1. PICK e : e = Head(wire)
  OBVIOUS
<1>2. PICK H : Follows(H)
  BY DEF Inv
<1>3. e \in Events /\ e.type = "read"
  BY <1>1, <1>2, HandlingProperties DEF HandleThreadReadChanged
<1>4. PICK t \in Threads : t = e.thread
  BY <1>3, EventProperties
<1>5. /\ Typed /\ causes' = causes /\ updates' = updates /\ manual' \subseteq manual
      /\ e.prev \in UnreadCounts /\ e.new \in UnreadCounts
      /\ ReadChanged(t, Previous(t, e.prev), e.new)
  BY <1>1, <1>3, <1>4, EventProperties DEF Inv, HandleThreadReadChanged
<1>6. Previous(t, e.prev) \in UnreadCounts
  BY <1>5, StoredProperties DEF Previous
<1>7. counts' = ReadChangedCounts(Previous(t, e.prev), e.new)
      /\ counts' \in [threads : Nat, mentions : Nat]
  BY <1>5, <1>6, ReadChangedTyped DEF ReadChanged
<1>8. PICK x : x = Entry(e.new, Has(t) /\ threads[t].whole)
  OBVIOUS
<1>9. x \in Entries /\ x # NoThread /\ Unread(x.replies, x.mentions) = e.new
  <2>1. (Has(t) /\ threads[t].whole) \in BOOLEAN
    BY <1>5, StoredProperties
  <2> QED
    BY <1>5, <1>8, <2>1, EntryProperties
<1>10. threads \in [Threads -> Entries \cup {NoThread}] /\ threads' = [threads EXCEPT ![t] = x]
  BY <1>5, <1>8 DEF Typed, ReadChanged
<1>11. /\ threads' \in [Threads -> Entries \cup {NoThread}]
       /\ threads'[t] = x /\ \A s \in Threads : s # t => threads'[s] = threads[s]
  BY <1>9, <1>10
<1>12. Has(t)' /\ StoredUnread(t)' = e.new
  BY <1>9, <1>11 DEF Has, StoredUnread
<1>13. \A G : Follows(G) => ThreadsFollow(G)' /\ CountsFollow(G)'
  BY <1>1, <1>3, <1>4, <1>5, <1>7, <1>11, <1>12, ThreadChanges
<1> QED
  BY <1>5, <1>7, <1>11, <1>13, HandledInv DEF Typed

LEMMA ChannelReadInv ==
  ASSUME Inv, Handling, HandleChannelRead(Head(wire))
  PROVE  Inv'
<1>1. /\ Typed /\ Head(wire).type = "channel"
      /\ counts' = counts /\ manual' = manual /\ updates' = updates
      /\ causes' = causes \cup {"channel"}
      /\ threads' = [t \in Threads |->
           IF Has(t) /\ threads[t].whole THEN Entry(AllRead, TRUE) ELSE threads[t]]
  BY DEF Inv, HandleChannelRead
<1>2. PICK x : x = Entry(AllRead, TRUE)
  OBVIOUS
<1>3. x \in Entries /\ Unread(x.replies, x.mentions) = AllRead
  BY <1>2, AllReadTyped, EntryProperties
<1>4. \A t \in Threads : threads'[t] = IF Has(t) /\ threads[t].whole THEN x ELSE threads[t]
  BY <1>1, <1>2
<1>5. threads' \in [Threads -> Entries \cup {NoThread}]
  <2>1. \A t \in Threads : threads'[t] \in Entries \cup {NoThread}
    BY <1>1, <1>3, <1>4 DEF Typed
  <2> QED
    BY <1>1, <2>1
<1>6. ASSUME NEW H, Follows(H)
      PROVE  ThreadsFollow(H)' /\ CountsFollow(H)'
  <2>1. PICK e : e = Head(wire)
    OBVIOUS
  <2>2. Seen' = Seen + 1 /\ Tells(e, H[Seen], H[Seen + 1])
    BY <1>6, <2>1, HandlingProperties
  <2>3. \A t \in Threads : H[Seen'][t] = AllRead
    BY <1>1, <2>1, <2>2 DEF Tells, About
  <2>4. ASSUME NEW t \in Threads, Has(t)', threads'[t].whole
        PROVE  StoredUnread(t)' = AllRead
    <3>1. Has(t) /\ threads[t].whole
      BY <1>4, <2>4 DEF Has
    <3> QED
      BY <1>3, <1>4, <3>1 DEF StoredUnread
  <2>5. ThreadsFollow(H)'
    BY <1>1, <2>3, <2>4 DEF ThreadsFollow
  <2> QED
    BY <1>1, <2>5 DEF CountsFollow
<1>7. causes' \subseteq Causes
  BY <1>1 DEF Typed, Causes
<1> QED
  BY <1>1, <1>5, <1>6, <1>7, HandledInv DEF Typed

LEMMA TeamReadInv ==
  ASSUME Inv, Handling, HandleTeamRead(Head(wire))
  PROVE  Inv'
<1>1. /\ Typed /\ Head(wire).type = "team" /\ AllTeamThreadsRead
      /\ manual' = manual /\ updates' = updates /\ causes' = causes
  BY DEF Inv, HandleTeamRead
<1>2. /\ threads' \in [Threads -> Entries \cup {NoThread}]
      /\ counts' \in [threads : Nat, mentions : Nat] /\ counts' = Zero
      /\ \A t \in Threads : Has(t)' => StoredUnread(t)' = AllRead
  BY <1>1, AllReadProperties DEF AllTeamThreadsRead
<1>3. ASSUME NEW H, Follows(H)
      PROVE  ThreadsFollow(H)' /\ CountsFollow(H)'
  <2>1. PICK e : e = Head(wire)
    OBVIOUS
  <2>2. /\ Seen' = Seen + 1 /\ H[Seen + 1] \in UnreadMaps
        /\ Tells(e, H[Seen], H[Seen + 1])
    BY <1>3, <2>1, HandlingProperties
  <2>3. PICK g : g = H[Seen']
    OBVIOUS
  <2>4. g \in UnreadMaps /\ \A t \in Threads : g[t] = AllRead
    BY <1>1, <2>1, <2>2, <2>3 DEF Tells, About
  <2>5. ThreadsFollow(H)'
    BY <1>2, <2>3, <2>4 DEF ThreadsFollow
  <2>6. Known(H)' = g
    BY <1>2, <2>3, <2>4, KnownNext
  <2>7. counts' = Totals(Known(H)')
    BY <1>2, <2>4, <2>6, TotalsZero
  <2> QED
    BY <2>5, <2>7 DEF CountsFollow, Totals
<1> QED
  BY <1>1, <1>2, <1>3, HandledInv DEF Typed

LEMMA PostDeleteInv ==
  ASSUME Inv, Handling, HandlePostDelete(Head(wire))
  PROVE  Inv'
<1>1. PICK e : e = Head(wire)
  OBVIOUS
<1>2. PICK G : Follows(G)
  BY DEF Inv
<1>3. e \in Events /\ e.type = "deleted"
  BY <1>1, <1>2, HandlingProperties DEF HandlePostDelete
<1>4. PICK t \in Threads : t = e.thread
  BY <1>3, EventProperties
<1>5. /\ Typed /\ manual' = manual /\ updates' = updates
      /\ threads' = [threads EXCEPT ![t] = NoThread]
      /\ causes' = IF Has(t) /\ threads[t].replies <= 1 THEN causes ELSE causes \cup {"deleted"}
      /\ counts' = IF Has(t)
                   THEN [threads |-> AtLeastZero(counts.threads - threads[t].replies),
                         mentions |-> AtLeastZero(counts.mentions - threads[t].mentions)]
                   ELSE counts
  BY <1>1, <1>4 DEF Inv, HandlePostDelete
<1>6. /\ threads' \in [Threads -> Entries \cup {NoThread}]
      /\ ~Has(t)' /\ \A s \in Threads : s # t => threads'[s] = threads[s]
  BY <1>5 DEF Typed, Has
<1>7. /\ counts \in [threads : Nat, mentions : Nat]
      /\ Has(t) => threads[t].replies \in Nat /\ threads[t].mentions \in Nat
  BY <1>5, StoredProperties DEF Typed, Entries
<1>8. counts' \in [threads : Nat, mentions : Nat]
  BY <1>5, <1>7 DEF AtLeastZero
<1>9. ASSUME NEW H, Follows(H)
      PROVE  ThreadsFollow(H)' /\ CountsFollow(H)'
  <2>1. /\ Seen' = Seen + 1 /\ Tells(e, H[Seen], H[Seen + 1])
        /\ Remembers(H) /\ ThreadsFollow(H) /\ CountsFollow(H)
    BY <1>1, <1>9, HandlingProperties DEF Follows
  <2>2. \A s \in Threads : s # t => ~About(e, s)
    BY <1>3, <1>4 DEF About
  <2>3. H[Seen'][t] = AllRead /\ \A s \in Threads : s # t => H[Seen'][s] = H[Seen][s]
    BY <1>3, <1>4, <2>1, <2>2 DEF Tells, About
  <2>4. \A s \in Threads : s # t /\ Pending(s) => Pending(s)'
    BY <1>1, <1>5, <2>2, StillPending
  <2>5. causes \subseteq causes'
    BY <1>5
  <2>6. ThreadsFollow(H)'
    BY <1>6, <2>1, <2>3, <2>4, <2>5 DEF ThreadsFollow, Has, StoredUnread
  <2>7. ASSUME causes' = {}
        PROVE  counts' = Totals(Known(H)') \/ \E k \in 1 .. Len(wire') : wire'[k].type = "team"
    <3>1. Has(t) /\ threads[t].replies <= 1 /\ causes = {}
      BY <1>5, <2>7
    <3>2. CASE \E k \in 1 .. Len(wire) : wire[k].type = "team"
      BY <1>1, <1>3, <3>2, TeamStillComes
    <3>3. CASE counts = Totals(Known(H))
      <4>1. Known(H)[t] = StoredUnread(t)
        BY <3>1 DEF Known
      <4>2. counts' = ReadChangedCounts(StoredUnread(t), AllRead)
        <5>1. threads[t].replies = 0 \/ threads[t].replies = 1
          BY <1>7, <3>1
        <5>2. counts'.mentions = ReadChangedCounts(StoredUnread(t), AllRead).mentions
          BY <1>5, <1>7, <3>1 DEF ReadChangedCounts, StoredUnread, AllRead, Unread
        <5>3. counts'.threads = ReadChangedCounts(StoredUnread(t), AllRead).threads
          <6>1. counts'.threads = AtLeastZero(counts.threads - threads[t].replies)
            BY <1>5, <3>1
          <6>2. CASE threads[t].replies = 0
            BY <1>7, <6>1, <6>2 DEF ReadChangedCounts, StoredUnread, AllRead, Unread, AtLeastZero
          <6>3. CASE threads[t].replies = 1
            BY <1>7, <6>1, <6>3 DEF ReadChangedCounts, StoredUnread, AllRead, Unread
          <6> QED
            BY <5>1, <6>2, <6>3
        <5> QED
          BY <1>8, <5>2, <5>3 DEF ReadChangedCounts
      <4>3. \A s \in Threads : (IF Has(s)' THEN StoredUnread(s)' ELSE H[Seen'][s]) =
                               IF s = t THEN AllRead ELSE Known(H)[s]
        BY <1>6, <2>3 DEF Known, Has, StoredUnread
      <4> QED
        BY <1>5, <2>1, <3>3, <4>1, <4>2, <4>3, AllReadTyped, CountsMove
    <3> QED
      BY <2>1, <3>1, <3>2, <3>3 DEF CountsFollow
  <2> QED
    BY <2>6, <2>7 DEF CountsFollow, Totals
<1>10. causes' \subseteq Causes
  BY <1>5 DEF Typed, Causes
<1> QED
  BY <1>5, <1>6, <1>8, <1>9, <1>10, HandledInv DEF Typed

LEMMA HandleEventInv ==
  ASSUME Inv, HandleEvent
  PROVE  Inv'
<1>1. Handling
  BY DEF HandleEvent, Handling
<1> QED
  BY <1>1, ThreadUpdatedInv, ThreadReadChangedInv, ChannelReadInv, TeamReadInv, PostDeleteInv
  DEF HandleEvent

-----------------------------------------------------------------------------

LEMMA StepInv == Inv /\ [Next]_vars => Inv'
<1> SUFFICES ASSUME Inv, [Next]_vars
             PROVE  Inv'
  OBVIOUS
<1>1. CASE \E t \in Threads : \E mention \in BOOLEAN : Reply(t, mention)
  BY <1>1, ReplyInv
<1>2. ASSUME NEW t \in Threads, NEW last \in 0 .. Len(replies[t]), OtherSessionReads(t, last)
      PROVE  Inv'
  <2>1. Typed /\ replies[t] \in Seq(BOOLEAN)
    BY DEF Inv, Typed, ServerTyped
  <2>2. last \in Nat /\ last <= Len(replies[t])
    BY <2>1
  <2>3. /\ SetViewed(t, last) /\ updates' = updates
        /\ UNCHANGED <<threads, counts, causes, open, manual, answers, asked>>
    BY <1>2 DEF OtherSessionReads, Elsewhere, screen, history
  <2> QED
    BY <2>2, <2>3, SetViewedInv
<1>3. CASE \E t \in Threads : \E last \in 0 .. Len(replies[t]) : MarkThread(t, last)
  BY <1>3, MarkThreadInv
<1>4. CASE \E type \in {"channel", "team"} : OtherSessionReadsAll(type)
  <2>1. PICK type \in {"channel", "team"} : OtherSessionReadsAll(type)
    BY <1>4
  <2>2. /\ AllViewed(type) /\ answers' = answers
        /\ UNCHANGED <<threads, counts, causes, open, manual, updates>> /\ asked' = asked
    BY <2>1 DEF OtherSessionReadsAll, Elsewhere, screen, history
  <2>3. asked' \in Nat
    BY <2>2 DEF Inv, Typed
  <2> QED
    BY <2>2, <2>3, AllViewedInv
<1>5. CASE \E t \in Threads : RootDeleted(t) \/ Open(t) \/ GetThread(t)
  BY <1>5, RootDeletedInv, OpenInv, AskedInv
<1>6. CASE Close
  BY <1>6, CloseInv
<1>7. CASE \E u \in updates : ServerTakes(u) \/ UpdateFails(u)
  BY <1>7, ServerTakesInv, UpdateFailsInv
<1>8. CASE GetThreadCounts
  BY <1>8, AskedInv
<1>9. CASE MarkAllThreadsInTeamRead
  <2>1. /\ AllViewed("team") /\ answers' = answers \cup {Answer("team", NoThread)'}
        /\ UNCHANGED <<threads, counts, causes, open, manual, updates>> /\ asked' = asked + 1
    BY <1>9 DEF MarkAllThreadsInTeamRead, Ask, screen
  <2>2. asked' \in Nat
    BY <2>1 DEF Inv, Typed
  <2>3. \A x \in answers' : x \in answers \/ x = Answer("team", NoThread)'
    BY <2>1
  <2> QED
    BY <2>1, <2>2, <2>3, AllViewedInv
<1>10. CASE HandleEvent
  BY <1>10, HandleEventInv
<1>11. CASE \E a \in answers :
              ReceiveCounts(a) \/ ReceiveThread(a) \/ ReceiveTeamRead(a) \/ RequestFails(a)
  BY <1>11, ReceiveCountsInv, ReceiveThreadInv, ReceiveTeamReadInv, RequestFailsInv
<1>12. CASE UNCHANGED vars
  BY <1>12, QuietInv DEF vars, server, Inv, Typed
<1> QED
  BY <1>1, <1>2, <1>3, <1>4, <1>5, <1>6, <1>7, <1>8, <1>9, <1>10, <1>11, <1>12 DEF Next

LEMMA InvHolds == Spec => []Inv
BY InitInv, StepInv, PTL DEF Spec

\* Whatever is read, deleted, answered or lost, no count goes below zero, and
\* the threads keep the shape the selectors rely on.
THEOREM TypeCorrect == Spec => []TypeOK
<1>1. Inv => TypeOK
  BY DEF Inv, Typed, ServerTyped, TypeOK, Has, Entries
<1> QED
  BY <1>1, InvHolds, PTL

\* With nothing on its way the history ends with what the server has.
LEMMA WhenSettled ==
  ASSUME Inv, Settled
  PROVE  \E H : Follows(H) /\ H[Seen] = Now /\ (\A k \in 1 .. Len(wire) : FALSE)
                /\ \A t \in Threads : ~Pending(t)
<1>1. PICK H : Follows(H)
  BY DEF Inv
<1>2. Len(wire) = 0
  BY DEF Settled
<1>3. Seen = sent
  <2>1. sent \in Nat
    BY DEF Inv, Typed
  <2> QED
    BY <1>2, <2>1 DEF Seen
<1>4. \A k \in 1 .. Len(wire) : FALSE
  BY <1>2
<1> QED
  BY <1>1, <1>3, <1>4 DEF Follows, Remembers, Settled, Pending

\* Once everything has arrived the team's counts are the server's, although
\* every event only moved them by a difference: however many threads and
\* replies there are, and however the reads of this and of other sessions
\* interleave with the events and the answers.
THEOREM CountsFollowServer == Spec => []CountsMatchServer
<1>1. ASSUME Inv, Settled, causes = {}
      PROVE  counts = ServerTotals
  <2>1. PICK H : /\ Follows(H) /\ H[Seen] = Now /\ (\A k \in 1 .. Len(wire) : FALSE)
                 /\ \A t \in Threads : ~Pending(t)
    BY <1>1, WhenSettled
  <2>2. counts = Totals(Known(H))
    BY <1>1, <2>1 DEF Follows, CountsFollow
  <2>3. \A t \in Threads : Has(t) => StoredUnread(t) = Now[t]
    BY <1>1, <2>1 DEF Follows, ThreadsFollow
  <2>4. Known(H) = Now
    BY <2>1, <2>3 DEF Known, Now
  <2> QED
    BY <2>2, <2>4 DEF ServerTotals, Now
<1>2. Inv => CountsMatchServer
  BY <1>1 DEF CountsMatchServer
<1> QED
  BY <1>2, InvHolds, PTL

\* Once everything has arrived the threads of the store have what the server
\* says they have unread, also those read here before the server knew.
THEOREM ThreadsFollowServer == Spec => []ThreadsMatchServer
<1>1. ASSUME Inv, Settled, causes \subseteq {"counts", "deleted", "channel"},
             NEW t \in Threads, Has(t), threads[t].whole \/ "channel" \notin causes
      PROVE  StoredUnread(t) = ServerUnread(t)
  <2>1. PICK H : /\ Follows(H) /\ H[Seen] = Now /\ \A s \in Threads : ~Pending(s)
    BY <1>1, WhenSettled
  <2>2. StoredUnread(t) = Now[t]
    BY <1>1, <2>1 DEF Follows, ThreadsFollow
  <2> QED
    BY <2>2 DEF Now
<1>2. Inv => ThreadsMatchServer
  BY <1>1 DEF ThreadsMatchServer
<1> QED
  BY <1>2, InvHolds, PTL
=============================================================================
