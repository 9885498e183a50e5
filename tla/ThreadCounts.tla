---------------------------- MODULE ThreadCounts ----------------------------
(***************************************************************************)
(* The threads a user follows in one public channel: the unread replies    *)
(* and mentions the store keeps for each, and the team's counts of unread  *)
(* threads and of mentions.  The store never adds the threads up: every    *)
(* websocket event moves the counts by the difference it makes, answers    *)
(* to requests replace them or a thread, and a reply in the thread on      *)
(* screen is read here before the server knows.                            *)
(*                                                                         *)
(* The websocket keeps its order; requests and their answers have none.    *)
(* The model starts once the counts are loaded.  Urgent threads, the total *)
(* of followed threads, direct channels, leaving a channel and losing the  *)
(* connection are left out.                                                *)
(***************************************************************************)
EXTENDS Integers, FiniteSets, Sequences

CONSTANTS
  Threads,
  MaxReplies,   \* bound: replies of a thread
  MaxEvents,    \* bound: websocket events
  MaxRequests,  \* bound: requests of this session
  NoThread      \* no thread is open; a thread the store does not have

ASSUME ThreadAssumption ==
  /\ IsFiniteSet(Threads) /\ NoThread \notin Threads
  /\ NoThread \notin [replies : Nat, mentions : Nat]
  /\ NoThread \notin [replies : Nat, mentions : Nat, whole : BOOLEAN]
  /\ {MaxReplies, MaxEvents, MaxRequests} \subseteq Nat

VARIABLES
  replies,   \* server: per thread, whether each reply mentions the user
  viewed,    \* server: per thread, the last reply that counts as read
  deleted,   \* server: threads whose root is deleted
  sent,      \* server: number of websocket events sent
  wire,      \* websocket events on their way, oldest first
  threads,   \* entities.threads.threads
  counts,    \* entities.threads.countsIncludingDirect of the team
  open,      \* the thread isThreadOpen is true of
  manual,    \* views.threads.manuallyUnread
  updates,   \* requests to read or unread a thread on their way
  answers,   \* answers of the server on their way
  asked,     \* number of requests of this session
  causes     \* history: what has let counts or threads leave the server's

server == <<replies, viewed, deleted>>
screen == <<open, manual>>
history == <<asked, causes>>
vars == <<replies, viewed, deleted, sent, wire, threads, counts, open, manual,
          updates, answers, asked, causes>>

Unread(r, m) == [replies |-> r, mentions |-> m]

AllRead == Unread(0, 0)

\* What the server says a thread has unread.
UnreadAfter(t, last) ==
  IF t \in deleted THEN AllRead
  ELSE Unread(Len(replies[t]) - last,
              Cardinality({i \in last + 1 .. Len(replies[t]) : replies[t][i]}))

ServerUnread(t) == UnreadAfter(t, viewed[t])

\* The threads with unread replies, and all the unread mentions, one by one.
Totals(unread) ==
  [threads |-> Cardinality({t \in DOMAIN unread : unread[t].replies > 0}),
   mentions |-> Cardinality(UNION {{t} \X (1 .. unread[t].mentions) : t \in DOMAIN unread})]

ServerTotals == Totals([t \in Threads |-> ServerUnread(t)])

Seen == sent - Len(wire)

Causes == {"counts", "thread", "channel", "team", "deleted", "failed"}

(***************************************************************************)
(* The reducers.  A thread the store learns of by READ_CHANGED_THREAD only *)
(* has no post (whole is FALSE), and is not found by its channel.          *)
(***************************************************************************)
Has(t) == threads[t] # NoThread

Entry(unread, whole) ==
  [replies |-> unread.replies, mentions |-> unread.mentions, whole |-> whole]

StoredUnread(t) == Unread(threads[t].replies, threads[t].mentions)

Zero == [threads |-> 0, mentions |-> 0]

AtLeastZero(n) == IF n < 0 THEN 0 ELSE n

\* Slip: a difference may take the counts below zero.
ReadChangedUnclamped(prev, new) ==
  [mentions |-> counts.mentions + new.mentions - prev.mentions,
   threads |-> IF new.replies > 0 /\ prev.replies = 0 THEN counts.threads + 1
               ELSE IF prev.replies > 0 /\ new.replies = 0 THEN counts.threads - 1
               ELSE counts.threads]

ReadChangedCounts(prev, new) ==
  [mentions |-> AtLeastZero(counts.mentions + new.mentions - prev.mentions),
   threads |->
     IF new.replies > 0 /\ prev.replies = 0 THEN counts.threads + 1
     ELSE IF prev.replies > 0 /\ new.replies = 0
     THEN AtLeastZero(counts.threads - 1)
     ELSE counts.threads]

ReadChanged(t, prev, new) ==
  /\ counts' = ReadChangedCounts(prev, new)
  /\ threads' = [threads EXCEPT ![t] = Entry(new, Has(t) /\ threads[t].whole)]

\* Slip: the event's previous values count even if the store has moved on.
PreviousFromEvent(t, prev) == IF prev = NoThread THEN StoredUnread(t) ELSE prev

\* The previous values: the store's if it has the thread, else the event's.
Previous(t, prev) == IF Has(t) THEN StoredUnread(t) ELSE prev

\* handleThreadArrived; prev is NoThread when there are no previous values.
ThreadArrived(t, prev, new) ==
  /\ threads' = [threads EXCEPT ![t] = Entry(new, TRUE)]
  /\ counts' = IF Has(t) \/ prev # NoThread
               THEN ReadChangedCounts(Previous(t, prev), new)
               ELSE counts

AllTeamThreadsRead ==
  /\ counts' = Zero
  /\ threads' = [t \in Threads |->
       IF Has(t) THEN Entry(AllRead, threads[t].whole) ELSE NoThread]

-----------------------------------------------------------------------------

\* The counts are loaded, the threads, some of them unread, are not.
Init ==
  /\ replies \in [Threads -> {<<>>, <<TRUE>>}]
  /\ viewed = [t \in Threads |-> 0]
  /\ deleted = {}
  /\ sent = 0
  /\ wire = <<>>
  /\ threads = [t \in Threads |-> NoThread]
  /\ counts = ServerTotals
  /\ open = NoThread
  /\ manual = {}
  /\ updates = {}
  /\ answers = {}
  /\ asked = 0
  /\ causes = {}

-----------------------------------------------------------------------------
(***************************************************************************)
(* The server, which changes its threads and tells this session.           *)
(***************************************************************************)
Send(event) == wire' = Append(wire, event) /\ sent' = sent + 1

Update(type, t, prev, new) == [type |-> type, thread |-> t, prev |-> prev, new |-> new]

\* What the bound MaxEvents counts.
Elsewhere ==
  /\ sent < MaxEvents
  /\ UNCHANGED <<threads, counts, screen, updates, answers, history>>

\* Somebody replies: thread_updated.
Reply(t, mention) ==
  /\ Elsewhere
  /\ t \notin deleted /\ Len(replies[t]) < MaxReplies
  /\ replies' = [replies EXCEPT ![t] = Append(@, mention)]
  /\ UNCHANGED <<viewed, deleted>>
  /\ Send(Update("updated", t, ServerUnread(t), ServerUnread(t)'))

\* A thread is read, or unread again, up to a reply: thread_read_changed.
SetViewed(t, last) ==
  /\ t \notin deleted
  /\ viewed' = [viewed EXCEPT ![t] = last]
  /\ Send(Update("read", t, ServerUnread(t), UnreadAfter(t, last)))
  /\ UNCHANGED <<replies, deleted>>

OtherSessionReads(t, last) == Elsewhere /\ last # viewed[t] /\ SetViewed(t, last)

\* All threads of the channel, or of the team, are read: thread_read_changed
\* without a thread.
AllViewed(type) ==
  /\ viewed' = [t \in Threads |-> Len(replies[t])]
  /\ Send([type |-> type])
  /\ UNCHANGED <<replies, deleted>>

OtherSessionReadsAll(type) == Elsewhere /\ AllViewed(type)

\* The root of a thread is deleted: post_deleted.
RootDeleted(t) ==
  /\ Elsewhere
  /\ t \notin deleted
  /\ deleted' = deleted \cup {t}
  /\ Send([type |-> "deleted", thread |-> t])
  /\ UNCHANGED <<replies, viewed>>

-----------------------------------------------------------------------------
(***************************************************************************)
(* The requests of this session.                                           *)
(***************************************************************************)
UpTo(t, last) == [thread |-> t, last |-> last]

ToNow(t) == UpTo(t, Len(replies[t]))

Ask == asked < MaxRequests /\ asked' = asked + 1 /\ UNCHANGED causes

\* ThreadViewer: markThreadRead, when it shows t and the thread becomes known.
MarkThreadRead(t, unread) ==
  /\ manual' = manual \ {t}
  /\ updates' = IF unread # AllRead THEN updates \cup {ToNow(t)} ELSE updates

Open(t) ==
  /\ open # t
  /\ Ask
  /\ open' = t
  /\ IF Has(t) /\ threads[t].whole THEN MarkThreadRead(t, StoredUnread(t))
     ELSE UNCHANGED <<manual, updates>>
  /\ UNCHANGED <<server, sent, wire, threads, counts, answers>>

Close ==
  /\ open # NoThread
  /\ open' = NoThread
  /\ UNCHANGED <<server, sent, wire, threads, counts, manual, updates, answers, history>>

\* The user marks a thread as read (last is the last reply) or as unread from
\* a reply on; only the server's event changes the store.
MarkThread(t, last) ==
  /\ Ask
  /\ Has(t) \/ open = t
  /\ manual' = manual \cup {t}
  /\ updates' = updates \cup {UpTo(t, last)}
  /\ UNCHANGED <<server, sent, wire, threads, counts, open, answers>>

ServerTakes(u) ==
  /\ updates' = updates \ {u}
  /\ \/ SetViewed(u.thread, u.last)
     \/ u.thread \in deleted /\ UNCHANGED <<server, sent, wire>>
  /\ UNCHANGED <<threads, counts, screen, answers, history>>

UpdateFails(u) ==
  /\ updates' = updates \ {u}
  /\ causes' = causes \cup {"failed"}
  /\ UNCHANGED <<server, sent, wire, threads, counts, screen, answers, asked>>

\* The server answers a request with what it has now; the answer may overtake
\* its events and be overtaken by later ones.
Answer(kind, t) ==
  [kind |-> kind, thread |-> t, seq |-> sent, unread |-> [s \in Threads |-> ServerUnread(s)]]

GetThreadCounts ==
  /\ Ask
  /\ answers' = answers \cup {Answer("counts", NoThread)}
  /\ UNCHANGED <<server, sent, wire, threads, counts, screen, updates>>

GetThread(t) ==
  /\ Ask
  /\ t \notin deleted
  /\ answers' = answers \cup {Answer("thread", t)}
  /\ UNCHANGED <<server, sent, wire, threads, counts, screen, updates>>

MarkAllThreadsInTeamRead ==
  /\ Ask
  /\ AllViewed("team")
  /\ answers' = answers \cup {Answer("team", NoThread)'}
  /\ UNCHANGED <<threads, counts, screen, updates>>

-----------------------------------------------------------------------------
(***************************************************************************)
(* What arrives.                                                           *)
(***************************************************************************)
\* A thread that the viewer shows and that was not known before is marked read.
Arrives(t, prev, new) ==
  /\ ThreadArrived(t, prev, new)
  /\ IF open = t /\ ~(Has(t) /\ threads[t].whole) THEN MarkThreadRead(t, new)
     ELSE UNCHANGED <<manual, updates>>

\* Slip: the server is not told that the reply was read.
HandleThreadUpdatedUntold(e) ==
  /\ e.type = "updated"
  /\ \/ Arrives(e.thread, e.prev, e.new)
     \/ /\ open = e.thread /\ e.thread \notin manual
        /\ ThreadArrived(e.thread, e.prev, AllRead)
        /\ UNCHANGED <<manual, updates>>
  /\ UNCHANGED causes

\* handleThreadUpdated: a reply in the open thread counts as read at once.
HandleThreadUpdated(e) ==
  /\ e.type = "updated"
  /\ \/ Arrives(e.thread, e.prev, e.new)
     \/ /\ open = e.thread /\ e.thread \notin manual
        /\ ThreadArrived(e.thread, e.prev, AllRead)
        /\ updates' = updates \cup {ToNow(e.thread)}
        /\ UNCHANGED manual
  /\ UNCHANGED causes

HandleThreadReadChanged(e) ==
  /\ e.type = "read"
  /\ ReadChanged(e.thread, Previous(e.thread, e.prev), e.new)
  /\ manual' = IF Has(e.thread) /\ open # e.thread THEN manual \ {e.thread} ELSE manual
  /\ UNCHANGED <<updates, causes>>

\* handleAllThreadsInChannelMarkedRead gives no previous values, which then
\* are 0: the counts keep what the threads had.
HandleChannelRead(e) ==
  /\ e.type = "channel"
  /\ threads' = [t \in Threads |->
       IF Has(t) /\ threads[t].whole THEN Entry(AllRead, TRUE) ELSE threads[t]]
  /\ causes' = causes \cup {"channel"}
  /\ UNCHANGED <<counts, manual, updates>>

HandleTeamRead(e) ==
  /\ e.type = "team"
  /\ AllTeamThreadsRead
  /\ UNCHANGED <<manual, updates, causes>>

\* handlePostDeleteEvent: the thread's unread replies are taken from the number
\* of unread threads.
HandlePostDelete(e) ==
  /\ e.type = "deleted"
  /\ counts' = IF Has(e.thread)
               THEN [threads |-> AtLeastZero(counts.threads - threads[e.thread].replies),
                     mentions |-> AtLeastZero(counts.mentions - threads[e.thread].mentions)]
               ELSE counts
  /\ threads' = [threads EXCEPT ![e.thread] = NoThread]
  /\ causes' = IF Has(e.thread) /\ threads[e.thread].replies <= 1
               THEN causes ELSE causes \cup {"deleted"}
  /\ UNCHANGED <<manual, updates>>

HandleEvent ==
  /\ wire # <<>>
  /\ LET e == Head(wire) IN
       \/ HandleThreadUpdated(e)
       \/ HandleThreadReadChanged(e)
       \/ HandleChannelRead(e)
       \/ HandleTeamRead(e)
       \/ HandlePostDelete(e)
  /\ wire' = Tail(wire)
  /\ UNCHANGED <<server, sent, open, answers, asked>>

\* An answer of another moment than the store's leaves a cause; one about a
\* thread the store has is a difference like any other if it is not older.
InStep(a) ==
  CASE a.kind = "counts" ->
         a.seq = Seen /\ \A t \in Threads : Has(t) => StoredUnread(t) = a.unread[t]
    [] a.kind = "thread" -> a.seq = Seen \/ (Has(a.thread) /\ a.seq > Seen)
    [] a.kind = "team" -> a.seq >= Seen

Receive(a) ==
  /\ answers' = answers \ {a}
  /\ causes' = IF InStep(a) THEN causes ELSE causes \cup {a.kind}
  /\ UNCHANGED <<server, sent, wire, open, asked>>

ReceiveCounts(a) ==
  /\ a.kind = "counts"
  /\ Receive(a)
  /\ counts' = Totals(a.unread)
  /\ UNCHANGED <<threads, manual, updates>>

ReceiveThread(a) ==
  /\ a.kind = "thread"
  /\ Receive(a)
  /\ Arrives(a.thread, NoThread, a.unread[a.thread])

ReceiveTeamRead(a) ==
  /\ a.kind = "team"
  /\ Receive(a)
  /\ AllTeamThreadsRead
  /\ UNCHANGED <<manual, updates>>

RequestFails(a) ==
  /\ answers' = answers \ {a}
  /\ UNCHANGED <<server, sent, wire, threads, counts, screen, updates, history>>

Next ==
  \/ \E t \in Threads : \E mention \in BOOLEAN : Reply(t, mention)
  \/ \E t \in Threads : \E last \in 0 .. Len(replies[t]) :
       OtherSessionReads(t, last) \/ MarkThread(t, last)
  \/ \E type \in {"channel", "team"} : OtherSessionReadsAll(type)
  \/ \E t \in Threads : RootDeleted(t) \/ Open(t) \/ GetThread(t)
  \/ Close
  \/ \E u \in updates : ServerTakes(u) \/ UpdateFails(u)
  \/ GetThreadCounts \/ MarkAllThreadsInTeamRead
  \/ HandleEvent
  \/ \E a \in answers :
       ReceiveCounts(a) \/ ReceiveThread(a) \/ ReceiveTeamRead(a) \/ RequestFails(a)

Spec == Init /\ [][Next]_vars

-----------------------------------------------------------------------------

UnreadCounts == [replies : Nat, mentions : Nat]

\* The values the variables may take: no count is ever negative.
TypeOK ==
  /\ replies \in [Threads -> Seq(BOOLEAN)]
  /\ viewed \in [Threads -> Nat]
  /\ deleted \subseteq Threads
  /\ sent \in Nat /\ asked \in Nat
  /\ Len(wire) <= sent
  /\ \A t \in Threads :
       Has(t) => threads[t] \in [replies : Nat, mentions : Nat, whole : BOOLEAN]
  /\ counts \in [threads : Nat, mentions : Nat]
  /\ open \in Threads \cup {NoThread}
  /\ manual \subseteq Threads
  /\ updates \subseteq [thread : Threads, last : Nat]
  /\ causes \subseteq Causes

\* Every event has arrived, and every thread read here is read on the server.
Settled == wire = <<>> /\ updates = {}

\* The counts shown beside the list of threads are the server's, although the
\* store only ever adds differences to them, whatever other sessions do and
\* also when a thread was read here first: the cases in which they are not are
\* those of causes, each an answer that crossed an event, a request that
\* failed, a channel read as a whole, or a deleted thread.
CountsMatchServer == Settled /\ causes = {} => counts = ServerTotals

\* The threads in the store have what the server says they have unread, unless
\* an answer older than the store, or a failure, was the last to change them;
\* a channel read as a whole does not reach the threads without a post.
ThreadsMatchServer ==
  Settled /\ causes \subseteq {"counts", "deleted", "channel"} =>
    \A t \in Threads :
      Has(t) /\ (threads[t].whole \/ "channel" \notin causes) =>
        StoredUnread(t) = ServerUnread(t)
=============================================================================
