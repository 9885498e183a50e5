--------------------------- MODULE ChannelSyncProofs ---------------------------
(***************************************************************************)
(* The invariants of ChannelSync, for channels of any length, any number   *)
(* of synchronisations crossing each other and any limits of the queue.    *)
(***************************************************************************)
EXTENDS ChannelSync, SequenceTheorems, WellFoundedInduction, TLAPS

-----------------------------------------------------------------------------
(* Least and greatest numbers *)

\* A set of numbers that is not empty has a least one.
LEMMA NatLeast ==
  ASSUME NEW T, T \subseteq Nat, T # {}
  PROVE  \E x \in T : \A y \in T : x <= y
<1>1. PICK x \in T : \A y \in T : ~ (<<y, x>> \in OpToRel(<, Nat))
  BY WFMin, NatLessThanWellFounded
<1>2. \A y, z \in Nat : y < z => <<y, z>> \in OpToRel(<, Nat)
  BY DEF OpToRel
<1>3. \A y \in T : ~ (y < x)
  BY <1>1, <1>2
<1> QED BY <1>3

\* Max of a set of posts is one of them, and none is greater.
LEMMA MaxProperties ==
  ASSUME NEW n \in Nat, NEW S, S \subseteq 1..n, S # {}
  PROVE  Max(S) \in S /\ \A y \in S : Max(S) >= y
<1> DEFINE T == {k \in Nat : \A y \in S : y <= k}
<1>1. n \in T
  OBVIOUS
<1>2. PICK x \in T : \A y \in T : x <= y
  BY <1>1, NatLeast
<1>3. x \in S
  <2>1. SUFFICES ASSUME x \notin S PROVE FALSE
    OBVIOUS
  <2>2. PICK y \in S : TRUE
    OBVIOUS
  <2>3. y < x /\ x - 1 \in Nat
    BY <2>1, <2>2
  <2>4. \A z \in S : z <= x - 1
    BY <2>1
  <2>5. x - 1 \in T
    BY <2>3, <2>4
  <2> QED BY <2>3, <2>5, <1>2
<1> QED BY <1>3 DEF Max

\* Min of a set of posts that holds the first one is 1.
LEMMA MinIsOne ==
  ASSUME NEW S, S \subseteq Nat \ {0}, 1 \in S
  PROVE  Min(S) = 1
<1>1. \A x \in S : (\A y \in S : x <= y) => x = 1
  OBVIOUS
<1>2. \A y \in S : 1 <= y
  OBVIOUS
<1> QED BY <1>1, <1>2 DEF Min

-----------------------------------------------------------------------------
(* The inductive invariant *)

Requests ==
  [since : 1..newest, fromNewest : BOOLEAN, time : 1..newest, fresh : BOOLEAN,
   answer : SUBSET (0..newest)]

\* Posts are numbered up to the newest one, and the first is known.
Numbered ==
  /\ newest \in Nat
  /\ 1 \in known
  /\ known \subseteq 1..newest
  /\ overtaken \subseteq 1..newest
  /\ lastGet \in [time : 1..newest, fresh : BOOLEAN]
  /\ requests \subseteq Requests
  /\ events \in Seq(1..newest)
  /\ queue \in Seq(1..newest)

\* What a synchronisation does not ask for is loaded, when it starts from the last fetch.
AsksForTheRest ==
  \A r \in requests : ~r.fromNewest => 1..r.since \subseteq known \cup overtaken

\* Its answer holds all that was posted from there to its time.
AnswersInFull ==
  \A r \in requests : r.answer # NoAnswer => (r.since + 1)..r.time \subseteq r.answer

IInv == Numbered /\ NothingElseMissed /\ AsksForTheRest /\ AnswersInFull

LEMMA InitIInv == ASSUME Init PROVE IInv
<1> USE SyncAssumption
<1>1. Numbered
  BY DEF Init, Numbered, Requests, QueueInit
<1>2. NothingElseMissed /\ AsksForTheRest /\ AnswersInFull
  BY DEF Init, NothingElseMissed, AsksForTheRest, AnswersInFull
<1> QED BY <1>1, <1>2 DEF IInv

\* A greater number of posts leaves the types of what is there as they are.
LEMMA Growing ==
  ASSUME Numbered, newest' \in Nat, newest' >= newest
  PROVE  /\ 1..newest \subseteq 1..newest'
         /\ lastGet \in [time : 1..newest', fresh : BOOLEAN]
         /\ requests \subseteq Requests'
         /\ events \in Seq(1..newest')
         /\ queue \in Seq(1..newest')
<1>1. 1..newest \subseteq 1..newest' /\ 0..newest \subseteq 0..newest'
  BY DEF Numbered
<1>2. ASSUME NEW s \in Seq(1..newest) PROVE s \in Seq(1..newest')
  BY <1>1, ElementOfSeq, SeqMonotonic
<1>3. requests \subseteq Requests'
  <2>1. ASSUME NEW r \in Requests PROVE r \in Requests'
    <3>1. r.answer \in SUBSET (0..newest')
      BY <2>1, <1>1 DEF Requests
    <3> QED BY <2>1, <1>1, <3>1 DEF Requests
  <2> QED BY <2>1 DEF Numbered
<1> QED BY <1>1, <1>2, <1>3 DEF Numbered

\* A synchronisation that starts now.
LEMMA StartSyncStep ==
  ASSUME IInv, StartSync, UNCHANGED <<newest, known, lastGet, overtaken, events, queue>>
  PROVE  IInv'
<1> DEFINE new == [since |-> Since(lastGet.fresh), fromNewest |-> lastGet.fresh,
                   time |-> newest, fresh |-> TRUE, answer |-> NoAnswer]
<1>1. requests' = requests \cup {new}
  BY DEF StartSync
<1>2. Max(known) \in known
  BY MaxProperties DEF IInv, Numbered
<1>3. Since(lastGet.fresh) \in 1..newest
  BY <1>2 DEF Since, IInv, Numbered
<1>4. newest \in 1..newest
  BY DEF IInv, Numbered
<1>5. NoAnswer \in SUBSET (0..newest)
  BY DEF NoAnswer, IInv, Numbered
<1>6. new \in Requests
  BY <1>3, <1>4, <1>5 DEF IInv, Numbered, Requests
<1>7. Requests' = Requests
  BY DEF Requests
<1>8. Numbered'
  BY <1>1, <1>6, <1>7 DEF IInv, Numbered
<1>9. AsksForTheRest'
  <2>1. ~new.fromNewest => new.since = lastGet.time
    BY DEF Since, IInv, Numbered
  <2> QED BY <1>1, <2>1 DEF IInv, AsksForTheRest, NothingElseMissed
<1>10. AnswersInFull'
  BY <1>1 DEF IInv, AnswersInFull
<1>11. NothingElseMissed'
  BY DEF IInv, NothingElseMissed
<1> QED BY <1>8, <1>9, <1>10, <1>11 DEF IInv

\* A step that only moves posts towards the client.
LEMMA ReceiveStep ==
  ASSUME IInv, known \subseteq known', known' \subseteq 1..newest,
         events' \in Seq(1..newest), queue' \in Seq(1..newest),
         UNCHANGED <<newest, lastGet, requests, overtaken>>
  PROVE  IInv'
<1>1. Numbered'
  BY DEF IInv, Numbered, Requests
<1>2. NothingElseMissed' /\ AsksForTheRest' /\ AnswersInFull'
  BY DEF IInv, NothingElseMissed, AsksForTheRest, AnswersInFull
<1> QED BY <1>1, <1>2 DEF IInv

\* A post is made.
LEMMA PostStep ==
  ASSUME IInv, newest' = newest + 1, known \subseteq known', known' \subseteq 1..newest',
         events' \in Seq(1..newest'), UNCHANGED <<lastGet, requests, overtaken, queue>>
  PROVE  IInv'
<1>1. newest' \in Nat /\ newest' >= newest
  BY DEF IInv, Numbered
<1>2. Numbered'
  BY <1>1, Growing DEF IInv, Numbered
<1>3. NothingElseMissed' /\ AsksForTheRest' /\ AnswersInFull'
  BY DEF IInv, NothingElseMissed, AsksForTheRest, AnswersInFull
<1> QED BY <1>2, <1>3 DEF IInv

\* The event of a post just made.
LEMMA EventOnItsWay ==
  ASSUME Numbered, newest' = newest + 1,
         events' = IF link = "live" THEN Append(events, newest') ELSE events
  PROVE  events' \in Seq(1..newest')
<1>1. newest' \in Nat /\ newest' >= newest /\ newest' \in 1..newest'
  BY DEF Numbered
<1>2. events \in Seq(1..newest')
  BY <1>1, Growing
<1>3. Append(events, newest') \in Seq(1..newest')
  BY <1>1, <1>2, AppendProperties
<1> QED BY <1>2, <1>3

\* The arrival of an answer keeps the promise of lastGetPosts.
LEMMA SyncArrivesStep ==
  ASSUME IInv, NEW r \in requests, SyncArrives(r)
  PROVE  IInv'
<1>1. r \in Requests
  BY DEF IInv, Numbered
<1>2. Min(known) = 1
  <2>1. known \subseteq Nat \ {0}
    BY DEF IInv, Numbered
  <2> QED BY <2>1, MinIsOne DEF IInv, Numbered
<1>3. known' = known \cup {p \in r.answer : p > 1}
  BY <1>2 DEF SyncArrives, Added
<1>4. known' \subseteq 1..newest
  <2>1. r.answer \subseteq 0..newest
    BY <1>1 DEF Requests
  <2>2. \A p \in r.answer : p > 1 => p \in 1..newest
    BY <2>1 DEF IInv, Numbered
  <2> QED BY <1>3, <2>2 DEF IInv, Numbered
<1>5. overtaken \subseteq overtaken' /\ overtaken' \subseteq 1..newest
  <2>1. 1..r.since \subseteq 1..newest
    BY <1>1 DEF IInv, Numbered, Requests
  <2> QED BY <2>1 DEF SyncArrives, IInv, Numbered
<1>6. Numbered'
  <2>1. lastGet' \in [time : 1..newest, fresh : BOOLEAN]
    BY <1>1 DEF SyncArrives, Requests
  <2> QED BY <1>3, <1>4, <1>5, <2>1 DEF SyncArrives, IInv, Numbered, Requests, queueVars
<1>7. NothingElseMissed'
  <2>1. 1..r.since \subseteq known' \cup overtaken'
    BY <1>3, <1>5 DEF SyncArrives, IInv, AsksForTheRest
  <2>2. (r.since + 1)..r.time \subseteq known'
    BY <1>1, <1>3 DEF SyncArrives, IInv, AnswersInFull, Requests
  <2>3. 1..r.time \subseteq (1..r.since) \cup ((r.since + 1)..r.time)
    BY <1>1 DEF Requests, IInv, Numbered
  <2> QED BY <2>1, <2>2, <2>3 DEF SyncArrives, NothingElseMissed
<1>8. AsksForTheRest' /\ AnswersInFull'
  BY <1>3, <1>5 DEF SyncArrives, IInv, AsksForTheRest, AnswersInFull
<1> QED BY <1>6, <1>7, <1>8 DEF IInv

LEMMA NextIInv == ASSUME IInv, [Next]_vars PROVE IInv'
<1> USE DEF queueVars
<1>1. CASE OtherPosts
  <2>1. newest' = newest + 1 /\ known' \subseteq 1..newest' /\ events' \in Seq(1..newest')
    BY <1>1, EventOnItsWay DEF OtherPosts, IInv, Numbered
  <2> QED BY <1>1, <2>1, PostStep DEF OtherPosts
<1>2. CASE OwnPost
  <2>1. newest' = newest + 1 /\ known' \subseteq 1..newest' /\ events' \in Seq(1..newest')
    BY <1>2, EventOnItsWay DEF OwnPost, IInv, Numbered
  <2> QED BY <1>2, <2>1, PostStep DEF OwnPost
<1>3. CASE PostedEvent
  <2>1. Head(events) \in 1..newest /\ Tail(events) \in Seq(1..newest)
    BY <1>3 DEF PostedEvent, IInv, Numbered
  <2>2. queue' \in Seq(1..newest)
    <3>1. <<>> \in Seq(1..newest)
      OBVIOUS
    <3>2. Append(queue, Head(events)) \in Seq(1..newest)
      BY <2>1, AppendProperties DEF IInv, Numbered
    <3>3. queue' \in {queue, <<>>, Append(queue, Head(events))}
      BY <1>3 DEF PostedEvent, HandleNow, Enqueue
    <3> QED BY <3>1, <3>2, <3>3 DEF IInv, Numbered
  <2>3. known \subseteq known' /\ known' \subseteq 1..newest
    BY <1>3, <2>1 DEF PostedEvent, IInv, Numbered
  <2> QED BY <1>3, <2>1, <2>2, <2>3, ReceiveStep DEF PostedEvent
<1>4. CASE QueueTriggered
  <2>1. ToSet(queue) \subseteq 1..newest
    BY DEF ToSet, IInv, Numbered
  <2>2. known \subseteq known' /\ known' \subseteq 1..newest
    BY <1>4, <2>1 DEF QueueTriggered, IInv, Numbered
  <2>3. queue' \in Seq(1..newest)
    BY <1>4 DEF QueueTriggered, Triggered
  <2>4. events' \in Seq(1..newest)
    BY <1>4 DEF QueueTriggered, IInv, Numbered
  <2> QED BY <1>4, <2>2, <2>3, <2>4, ReceiveStep DEF QueueTriggered
<1>5. CASE Break
  <2>1. known' \subseteq 1..newest /\ events' \in Seq(1..newest) /\ queue' \in Seq(1..newest)
    BY <1>5 DEF Break, IInv, Numbered
  <2> QED BY <1>5, <2>1, ReceiveStep DEF Break
<1>6. CASE NoticeBreak
  <2>1. requests' = {[r EXCEPT !.fresh = FALSE] : r \in requests}
    BY <1>6 DEF NoticeBreak
  <2>2. lastGet' \in [time : 1..newest, fresh : BOOLEAN] /\ lastGet'.time = lastGet.time
    BY <1>6 DEF NoticeBreak, IInv, Numbered
  <2>3. ASSUME NEW r \in requests
        PROVE  [r EXCEPT !.fresh = FALSE] \in Requests
    BY DEF IInv, Numbered, Requests
  <2>4. Requests' = Requests
    BY <1>6 DEF NoticeBreak, Requests
  <2>5. Numbered'
    BY <1>6, <2>1, <2>2, <2>3, <2>4 DEF NoticeBreak, IInv, Numbered
  <2>6. ASSUME NEW q \in requests'
        PROVE  \E r \in requests : /\ q.fromNewest = r.fromNewest
                                   /\ q.since = r.since
                                   /\ q.time = r.time
                                   /\ q.answer = r.answer
    BY <2>1 DEF IInv, Numbered, Requests
  <2>7. AsksForTheRest' /\ AnswersInFull'
    BY <1>6, <2>6 DEF NoticeBreak, IInv, AsksForTheRest, AnswersInFull
  <2>8. NothingElseMissed'
    BY <1>6, <2>2 DEF NoticeBreak, IInv, NothingElseMissed
  <2> QED BY <2>5, <2>7, <2>8 DEF IInv
<1>7. CASE Reconnect
  BY <1>7, StartSyncStep DEF Reconnect
<1>8. CASE Subscribed \/ Resubscribe
  <2>1. UNCHANGED <<newest, known, lastGet, requests, overtaken, events, queue>>
    BY <1>8 DEF Subscribed, Resubscribe
  <2> QED BY <2>1, ReceiveStep DEF IInv, Numbered
<1>9. CASE OpenChannel
  BY <1>9, StartSyncStep DEF OpenChannel
<1>10. CASE Answer
  <2>1. PICK r \in requests : ServerAnswers(r)
    BY <1>10 DEF Answer
  <2> DEFINE q == [r EXCEPT !.answer = (r.since + 1)..newest]
  <2>2. requests' = (requests \ {r}) \cup {q}
    BY <2>1 DEF ServerAnswers
  <2>3. r \in Requests
    BY DEF IInv, Numbered
  <2>4. q \in Requests /\ q.since = r.since /\ q.time = r.time /\ q.fromNewest = r.fromNewest
        /\ q.answer = (r.since + 1)..newest
    <3>1. r.since \in 1..newest /\ newest \in Nat
      BY <2>3 DEF Requests, IInv, Numbered
    <3>2. (r.since + 1)..newest \in SUBSET (0..newest)
      BY <3>1
    <3> QED BY <2>3, <3>2 DEF Requests
  <2>5. (r.since + 1)..r.time \subseteq (r.since + 1)..newest
    <3>1. r.since \in 1..newest /\ r.time \in 1..newest /\ newest \in Nat
      BY <2>3 DEF Requests, IInv, Numbered
    <3> QED BY <3>1
  <2>6. Numbered'
    BY <2>1, <2>2, <2>4 DEF ServerAnswers, IInv, Numbered, Requests
  <2>7. NothingElseMissed' /\ AsksForTheRest' /\ AnswersInFull'
    BY <2>1, <2>2, <2>4, <2>5
    DEF ServerAnswers, IInv, NothingElseMissed, AsksForTheRest, AnswersInFull
  <2> QED BY <2>6, <2>7 DEF IInv
<1>11. CASE Arrival
  BY <1>11, SyncArrivesStep DEF Arrival
<1>12. CASE \E r \in requests : SyncFails(r)
  BY <1>12 DEF SyncFails, IInv, Numbered, Requests, NothingElseMissed, AsksForTheRest,
               AnswersInFull
<1>13. CASE UNCHANGED vars
  BY <1>13 DEF vars, IInv, Numbered, Requests, NothingElseMissed, AsksForTheRest, AnswersInFull
<1> QED
  BY <1>1, <1>2, <1>3, <1>4, <1>5, <1>6, <1>7, <1>8, <1>9, <1>10, <1>11, <1>12, <1>13 DEF Next

\* Up to the time of the last fetch everything is loaded, but what a synchronisation from
\* the newest post has left behind.
THEOREM NothingElseIsMissed == Spec => []NothingElseMissed
<1>1. Init => IInv
  BY InitIInv
<1>2. IInv /\ [Next]_vars => IInv'
  BY NextIInv
<1>3. IInv => NothingElseMissed
  BY DEF IInv
<1> QED BY <1>1, <1>2, <1>3, PTL DEF Spec

-----------------------------------------------------------------------------

\* What TypeOK says beyond Numbered.
Bounded ==
  /\ newest \in Initial..MaxPosts
  /\ link \in Links
  /\ resubscribe \in BOOLEAN
  /\ Len(queue) <= QueueLimit
  /\ count \in 0..(BurstLimit + 1)
  /\ timer \in BOOLEAN
  /\ timer \/ count = 0

LEMMA InitBounded == ASSUME Init PROVE Bounded
<1>1. Len(<<>>) = 0
  OBVIOUS
<1>2. newest \in Initial..MaxPosts
  BY SyncAssumption DEF Init
<1>3. Len(queue) <= QueueLimit /\ count \in 0..(BurstLimit + 1) /\ count = 0
  BY <1>1, QueueAssumption DEF Init, QueueInit
<1> QED BY <1>2, <1>3 DEF Init, QueueInit, Bounded, Links

LEMMA NextBounded == ASSUME IInv, Bounded, [Next]_vars PROVE Bounded'
<1> USE SyncAssumption, QueueAssumption DEF queueVars
<1>1. CASE OtherPosts \/ OwnPost
  BY <1>1 DEF OtherPosts, OwnPost, Bounded
<1>2. CASE PostedEvent
  <2>1. CASE HandleNow
    BY <1>2, <2>1 DEF PostedEvent, HandleNow, Bursting, Bounded
  <2>2. CASE Enqueue(Head(events))
    <3>1. Head(events) \in 1..newest
      BY <1>2 DEF PostedEvent, IInv, Numbered
    <3>2. Len(Append(queue, Head(events))) = Len(queue) + 1 /\ Len(queue) \in Nat
      BY <3>1, AppendProperties, LenProperties DEF IInv, Numbered
    <3>3. Len(queue') <= QueueLimit
      BY <2>2, <3>2 DEF Enqueue, Overflows, Bounded
    <3> QED BY <1>2, <2>2, <3>3 DEF PostedEvent, Enqueue, Bounded
  <2> QED BY <1>2, <2>1, <2>2 DEF PostedEvent
<1>3. CASE QueueTriggered
  <2>1. Len(<<>>) = 0
    OBVIOUS
  <2>2. Len(queue') <= QueueLimit /\ count' \in 0..(BurstLimit + 1)
    BY <1>3, <2>1 DEF QueueTriggered, Triggered
  <2> QED BY <1>3, <2>2 DEF QueueTriggered, Triggered, Bounded
<1>4. CASE Break \/ NoticeBreak \/ Reconnect \/ Subscribed \/ Resubscribe
  <2>1. newest' = newest /\ queue' = queue /\ count' = count /\ timer' = timer
    BY <1>4, Zenon DEF Break, NoticeBreak, Reconnect, Subscribed, Resubscribe, queueVars
  <2>2. link' \in Links
    BY <1>4 DEF Break, NoticeBreak, Reconnect, Subscribed, Resubscribe, Links
  <2>3. resubscribe' \in BOOLEAN
    BY <1>4, Zenon DEF Break, NoticeBreak, Reconnect, Subscribed, Resubscribe, Bounded
  <2> QED BY <2>1, <2>2, <2>3 DEF Bounded
<1>5. CASE OpenChannel \/ Answer \/ Arrival \/ \E r \in requests : SyncFails(r)
  BY <1>5 DEF OpenChannel, Answer, ServerAnswers, Arrival, SyncArrives, SyncFails, Bounded
<1>6. CASE UNCHANGED vars
  BY <1>6 DEF vars, Bounded
<1> QED BY <1>1, <1>2, <1>3, <1>4, <1>5, <1>6 DEF Next

\* The state of the channel, of the event queue and of the synchronisations is well formed,
\* and the queue never exceeds its limit.
THEOREM TypeCorrect == Spec => []TypeOK
<1>1. Init => IInv /\ Bounded
  BY InitIInv, InitBounded
<1>2. IInv /\ Bounded /\ [Next]_vars => IInv' /\ Bounded'
  BY NextIInv, NextBounded
<1>3. IInv /\ Bounded => TypeOK
  BY DEF IInv, Numbered, Bounded, TypeOK, Requests
<1> QED BY <1>1, <1>2, <1>3, PTL DEF Spec

=============================================================================
