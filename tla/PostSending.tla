---------------------------- MODULE PostSending ----------------------------
(***************************************************************************)
(* How a message the user sends becomes a post of the channel on screen:   *)
(* createPost shows a pending post and sends it, the server creates the    *)
(* real post, and the client hears of it twice, in the answer to its own   *)
(* request and in the "posted" event of the websocket, in either order,    *)
(* while the request may fail, be retried or be cancelled and other        *)
(* people post and delete.                                                 *)
(*                                                                         *)
(* The store is that of reducers/entities/posts.ts for one channel whose   *)
(* most recent block is loaded: posts, the order of that block,            *)
(* postsInThread and pendingPostIds.  A post is its identity, the message  *)
(* it came from, its root, its times and its failed and deleted marks;     *)
(* text, files, participants and reply counts are left out.                *)
(***************************************************************************)
EXTENDS Naturals, SequencesExt

CONSTANTS
  Drafts,       \* what the user sends; a draft is also its pending post id
  Replies,      \* the drafts that answer the post Root, the others are roots
  CRT,          \* collapsed reply threads: replies stay out of the channel
  MaxAttempts,  \* bound: times a draft is sent
  MaxOthers     \* bound: posts by other people

Root == 1       \* a post by somebody else, loaded from the beginning
None == 0       \* '' where an id is expected

ASSUME SendingAssumption ==
  /\ IsFiniteSet(Drafts)
  /\ Replies \subseteq Drafts
  /\ Drafts \cap Nat = {}
  /\ CRT \in BOOLEAN
  /\ MaxAttempts \in Nat
  /\ MaxOthers \in Nat

VARIABLES
  posts,          \* entities.posts.posts
  order,          \* the order of the recent block of postsInChannel
  thread,         \* postsInThread[Root]
  pendingPostIds, \* entities.posts.pendingPostIds
  server,         \* the posts the server has created, oldest first
  events,         \* websocket events on their way, oldest first
  requests,       \* the create requests and what became of them
  deletions,      \* the delete requests on their way
  attempts,       \* how often each draft was sent
  dismissed       \* drafts the user cancelled, or whose post the user deleted

vars == <<posts, order, thread, pendingPostIds, server, events, requests,
          deletions, attempts, dismissed>>

RootOf(d) == IF d \in Replies THEN Root ELSE None

\* A post as the client holds it.  Ids of server posts grow with their
\* create_at; a pending post carries the time of its attempt, which is only
\* ever compared with that of another pending post.
Post(id, pending, root, time, failed) ==
  [id |-> id, pending |-> pending, root |-> root, createAt |-> time,
   failed |-> failed, deleted |-> FALSE]

\* What the server sends of one of its posts.
Payload(id) == Post(id, server[id].draft, server[id].root, id, FALSE)

\* The post createPost puts into the store for an attempt, and, when it has
\* failed, puts there again.
PendingPost(d, time, failed) == Post(d, d, RootOf(d), time, failed)

PostsOf(d) == {id \in DOMAIN server : server[id].draft = d}

-----------------------------------------------------------------------------
\* The reducers.

\* The pending post that post p takes the place of.
Replaced(p) == {p.pending} \ {None, p.id}

PendingOrFailed(p) == p.failed \/ p.id = p.pending

\* handlePostReceived: a server post that is stored is not newer the second
\* time (shouldUpdatePost) and is ignored altogether; otherwise the post is
\* stored and its pending post goes.
PostsWith(p) ==
  IF p.id \in DOMAIN posts /\ ~PendingOrFailed(p)
  THEN posts
  ELSE [x \in (DOMAIN posts \cup {p.id}) \ Replaced(p) |->
          IF x = p.id THEN p ELSE posts[x]]

\* comparePosts(a, b) < 0
Before(a, b) ==
  \/ PendingOrFailed(a) /\ ~PendingOrFailed(b)
  \/ (PendingOrFailed(a) <=> PendingOrFailed(b)) /\ a.createAt > b.createAt

\* order.sort(comparePosts), which keeps the order of equal posts.
SortedBy(s, ps) ==
  {[i \in DOMAIN s |-> s[p[i]]] :
     p \in {q \in SetToSeqs(DOMAIN s) :
              \A i, j \in DOMAIN s : i < j =>
                \/ Before(ps[s[q[i]]], ps[s[q[j]]])
                \/ ~Before(ps[s[q[j]]], ps[s[q[i]]]) /\ q[i] < q[j]}}

\* order.filter(id => id \notin gone)
FilteredFrom(s, gone) ==
  LET kept == {i \in DOMAIN s : s[i] \notin gone}
  IN  {[i \in 1..Cardinality(kept) |-> s[p[i]]] :
         p \in {q \in SetToSeqs(kept) :
                  \A i, j \in 1..Cardinality(kept) : i < j => q[i] < q[j]}}

InChannel(p) == ~(CRT /\ p.root # None)

\* indexOf
IsIndex(i, s, x) == i \in DOMAIN s /\ s[i] = x /\ \A j \in 1..(i - 1) : s[j] # x

\* Slip: the order is not searched for the post first.
OrderNewPostTwice(p) ==
  LET extended == Cons(p.id, order)
  IN  IF InChannel(p)
      THEN IF Replaced(p) \cap ToSet(extended) = {}
           THEN order' = extended
           ELSE \E i \in DOMAIN extended :
                  /\ IsIndex(i, extended, p.pending)
                  /\ order' \in SortedBy(RemoveAt(extended, i), posts')
      ELSE order' = order

\* Slip: a post whose pending post is still being sent is left to the answer
\* of the request.
OrderNewPostTrustsAnswer(p) ==
  IF InChannel(p) /\ p.id \notin ToSet(order) /\ Replaced(p) \cap pendingPostIds = {}
  THEN order' = Cons(p.id, order)
  ELSE order' = order

\* postsInChannel on RECEIVED_NEW_POST: the post goes first; the order is
\* only sorted again when a pending post leaves it.
OrderNewPost(p) ==
  LET extended == IF p.id \in ToSet(order) THEN order ELSE Cons(p.id, order)
  IN  IF InChannel(p)
      THEN IF Replaced(p) \cap ToSet(extended) = {}
           THEN order' = extended
           ELSE \E i \in DOMAIN extended :
                  /\ IsIndex(i, extended, p.pending)
                  /\ order' \in SortedBy(RemoveAt(extended, i), posts')
      ELSE order' = order

\* Slip: a post whose pending post is not in the order goes first.
OrderReceivedAlways(p) ==
  IF InChannel(p) /\ p.pending # None
  THEN IF p.pending \in ToSet(order)
       THEN \E i \in DOMAIN order :
              /\ IsIndex(i, order, p.pending)
              /\ order' = ReplaceAt(order, i, p.id)
       ELSE order' = IF p.id \in ToSet(order) THEN order ELSE Cons(p.id, order)
  ELSE order' = order

\* postsInChannel on RECEIVED_POST: the post takes the place of its pending
\* post, where that happens to be.
OrderReceived(p) ==
  IF InChannel(p) /\ p.pending \in ToSet(order)
  THEN \E i \in DOMAIN order :
         /\ IsIndex(i, order, p.pending)
         /\ order' = ReplaceAt(order, i, p.id)
  ELSE order' = order

\* Slip: the pending reply stays in the thread.
ThreadWithPending(p) == IF p.root = None THEN thread ELSE thread \cup {p.id}

\* postsInThread, on both.
ThreadWith(p) ==
  IF p.root = None THEN thread ELSE (thread \cup {p.id}) \ Replaced(p)

\* Slip: every new post is put among the ids being sent.
ReceiveNewPostPending(p) ==
  /\ posts' = PostsWith(p)
  /\ OrderNewPost(p)
  /\ thread' = ThreadWith(p)
  /\ pendingPostIds' = pendingPostIds \cup {p.pending}

ReceiveNewPost(p) ==
  /\ posts' = PostsWith(p)
  /\ OrderNewPost(p)
  /\ thread' = ThreadWith(p)
  /\ pendingPostIds' = pendingPostIds \cup ({p.pending} \ {None})

ReceivePost(p) ==
  /\ posts' = PostsWith(p)
  /\ OrderReceived(p)
  /\ thread' = ThreadWith(p)
  /\ pendingPostIds' = pendingPostIds \ {p.pending}

CommentsOf(id) == {x \in DOMAIN posts : posts[x].root = id}

\* POST_DELETED: the post stays as a placeholder, its comments go.
DeletePost(id) ==
  /\ posts' = IF id \in DOMAIN posts
              THEN [x \in DOMAIN posts \ CommentsOf(id) |->
                      IF x = id THEN [posts[x] EXCEPT !.deleted = TRUE] ELSE posts[x]]
              ELSE posts
  /\ order' \in FilteredFrom(order, CommentsOf(id))
  /\ thread' = IF id = Root THEN {} ELSE thread
  /\ UNCHANGED pendingPostIds

\* POST_REMOVED of a post without comments.
RemovePost(id) ==
  /\ posts' = [x \in DOMAIN posts \ {id} |-> posts[x]]
  /\ order' \in FilteredFrom(order, {id})
  /\ thread' = thread \ {id}
  /\ pendingPostIds' = pendingPostIds \ {id}

-----------------------------------------------------------------------------
\* The client.

Init ==
  /\ server = <<[draft |-> None, root |-> None, deleted |-> FALSE]>>
  /\ posts = [id \in {Root} |-> Post(Root, None, None, Root, FALSE)]
  /\ order = <<Root>>
  /\ thread = {}
  /\ pendingPostIds = {}
  /\ events = <<>>
  /\ requests = {}
  /\ deletions = {}
  /\ attempts = [d \in Drafts |-> 0]
  /\ dismissed = {}

AttemptTime ==
  1 + Cardinality({e \in Drafts \X (1..MaxAttempts) : e[2] <= attempts[e[1]]})

\* The optimistic half of createPost and its request.
Send(d, failed) ==
  /\ attempts[d] < MaxAttempts
  /\ ReceiveNewPost(PendingPost(d, AttemptTime, failed))
  /\ attempts' = [attempts EXCEPT ![d] = @ + 1]
  /\ requests' = requests \cup {[draft |-> d, time |-> AttemptTime, open |-> TRUE,
                                 outcome |-> "sent", id |-> None]}
  /\ UNCHANGED <<server, events, deletions, dismissed>>

\* Slip: isPostIdSending is not asked.
CreatePostUnguarded(d, failed) == Send(d, failed)

\* createPost does nothing while the draft is among the ids being sent.
CreatePost(d, failed) == d \notin pendingPostIds /\ Send(d, failed)

Submit(d) == attempts[d] = 0 /\ CreatePost(d, FALSE)

\* The channel and the thread pane show the Retry and Cancel links.
ShowsFailed(d) ==
  /\ d \in DOMAIN posts
  /\ posts[d].failed
  /\ d \in ToSet(order) \cup thread

\* retryPost spreads the stored post, with its failed mark, into the new one.
Retry(d) == ShowsFailed(d) /\ CreatePost(d, TRUE)

Cancel(d) ==
  /\ ShowsFailed(d)
  /\ RemovePost(d)
  /\ dismissed' = dismissed \cup {d}
  /\ UNCHANGED <<server, events, requests, deletions, attempts>>

\* The client is done with a request; the server may not be.
Settle(r) ==
  requests' = (requests \ {r}) \cup
              {q \in {[r EXCEPT !.open = FALSE]} : q.outcome = "sent"}

\* The answer: receivedPost(created).
CreateSucceeds(r) ==
  /\ r.open /\ r.outcome = "created"
  /\ ReceivePost(Payload(r.id))
  /\ Settle(r)
  /\ UNCHANGED <<server, events, deletions, attempts, dismissed>>

\* Slip: every error removes the post.
CreateFailsAndRemoves(r) ==
  /\ r.open /\ r.outcome # "rootGone"
  /\ RemovePost(r.draft)
  /\ Settle(r)
  /\ UNCHANGED <<server, events, deletions, attempts, dismissed>>

\* Slip: the failed mark is forgotten.
CreateFailsUnmarked(r) ==
  /\ r.open /\ r.outcome # "rootGone"
  /\ ReceivePost(PendingPost(r.draft, r.time, FALSE))
  /\ Settle(r)
  /\ UNCHANGED <<server, events, deletions, attempts, dismissed>>

\* The catch block: the error is not one of those that remove the post.  The
\* server may have created the post, may create it later, or never.
CreateFails(r) ==
  /\ r.open /\ r.outcome # "rootGone"
  /\ ReceivePost(PendingPost(r.draft, r.time, TRUE))
  /\ Settle(r)
  /\ UNCHANGED <<server, events, deletions, attempts, dismissed>>

\* The root post is gone: removePost(data).
CreateRefused(r) ==
  /\ r.open /\ r.outcome = "rootGone"
  /\ RemovePost(r.draft)
  /\ Settle(r)
  /\ UNCHANGED <<server, events, deletions, attempts, dismissed>>

\* handleNewPostEvent and handlePostDeleteEvent.
HandleEvent ==
  /\ events # <<>>
  /\ events' = Tail(events)
  /\ \/ Head(events).type = "posted" /\ ReceiveNewPost(Payload(Head(events).id))
     \/ Head(events).type = "post_deleted" /\ DeletePost(Head(events).id)
  /\ UNCHANGED <<server, requests, deletions, attempts, dismissed>>

\* deleteAndRemovePost: the post is marked and then removed before anything
\* else runs, and the request is sent.
DeleteOwn(id) ==
  /\ id \in DOMAIN posts \cap DOMAIN server
  /\ server[id].draft # None /\ ~posts[id].deleted
  /\ id \in ToSet(order) \cup thread
  /\ RemovePost(id)
  /\ deletions' = deletions \cup {id}
  /\ dismissed' = dismissed \cup {server[id].draft}
  /\ UNCHANGED <<server, events, requests, attempts>>

-----------------------------------------------------------------------------
\* The server and the other people.

NextId == Len(server) + 1

Created(draft, root) ==
  /\ server' = Append(server, [draft |-> draft, root |-> root, deleted |-> FALSE])
  /\ events' = Append(events, [type |-> "posted", id |-> NextId])

\* A request may be carried out after the client has given up on it.
ServerCreates(r) ==
  /\ r.outcome = "sent"
  /\ r.draft \in Replies => ~server[Root].deleted
  /\ Created(r.draft, RootOf(r.draft))
  /\ requests' = (requests \ {r}) \cup
                 {q \in {[r EXCEPT !.outcome = "created", !.id = NextId]} : q.open}
  /\ UNCHANGED <<posts, order, thread, pendingPostIds, deletions, attempts, dismissed>>

ServerRefuses(r) ==
  /\ r.outcome = "sent"
  /\ r.draft \in Replies /\ server[Root].deleted
  /\ requests' = (requests \ {r}) \cup
                 {q \in {[r EXCEPT !.outcome = "rootGone"]} : q.open}
  /\ UNCHANGED <<posts, order, thread, pendingPostIds, server, events,
                 deletions, attempts, dismissed>>

OtherPosts ==
  /\ Cardinality(PostsOf(None)) <= MaxOthers
  /\ Created(None, None)
  /\ UNCHANGED <<posts, order, thread, pendingPostIds, requests, deletions, attempts, dismissed>>

Deleted(id) ==
  /\ ~server[id].deleted
  /\ server' = [server EXCEPT ![id].deleted = TRUE]
  /\ events' = Append(events, [type |-> "post_deleted", id |-> id])

OtherDeletesRoot ==
  /\ Replies # {}
  /\ Deleted(Root)
  /\ UNCHANGED <<posts, order, thread, pendingPostIds, requests, deletions,
                 attempts, dismissed>>

ServerDeletes(id) ==
  /\ id \in deletions
  /\ deletions' = deletions \ {id}
  /\ Deleted(id)
  /\ UNCHANGED <<posts, order, thread, pendingPostIds, requests, attempts, dismissed>>

Next ==
  \/ \E d \in Drafts : Submit(d) \/ Retry(d) \/ Cancel(d)
  \/ \E r \in requests : CreateSucceeds(r) \/ CreateFails(r) \/ CreateRefused(r)
  \/ HandleEvent
  \/ \E id \in DOMAIN server : DeleteOwn(id) \/ ServerDeletes(id)
  \/ \E r \in requests : ServerCreates(r) \/ ServerRefuses(r)
  \/ OtherPosts
  \/ OtherDeletesRoot

\* The websocket delivers, and every request of the browser ends, in an
\* answer or in a network error.  Nobody has to send, retry, cancel or
\* delete, and the server need not carry anything out.
Fairness ==
  /\ WF_vars(HandleEvent)
  /\ WF_vars(\E r \in requests : CreateSucceeds(r) \/ CreateFails(r) \/ CreateRefused(r))

Spec == Init /\ [][Next]_vars /\ Fairness

-----------------------------------------------------------------------------

Ids == Drafts \cup Nat

PostRecords ==
  [id : Ids, pending : Drafts \cup {None}, root : {None, Root}, createAt : Nat,
   failed : BOOLEAN, deleted : BOOLEAN]

ServerPosts == [draft : Drafts \cup {None}, root : {None, Root}, deleted : BOOLEAN]

Requests ==
  [draft : Drafts, time : Nat, open : BOOLEAN,
   outcome : {"sent", "created", "rootGone"}, id : Nat]

\* The values the variables may take.
TypeOK ==
  /\ DOMAIN posts \subseteq Ids
  /\ posts \in [DOMAIN posts -> PostRecords]
  /\ order \in Seq(Ids)
  /\ thread \subseteq Ids
  /\ pendingPostIds \subseteq Drafts
  /\ server \in Seq(ServerPosts)
  /\ events \in Seq([type : {"posted", "post_deleted"}, id : Nat])
  /\ requests \subseteq Requests
  /\ deletions \subseteq Nat
  /\ attempts \in [Drafts -> Nat]
  /\ dismissed \subseteq Drafts

\* The channel never shows a post twice, whichever of the answer and the
\* event brings it first.
NoDuplicates == IsInjective(order)

\* What the channel and the thread list is in the store.  The reducers of
\* POST_DELETED and POST_REMOVED read prevPosts[postId].root_id of every
\* listed id and would throw.
StoredBeforeShown ==
  /\ ToSet(order) \subseteq DOMAIN posts
  /\ thread \subseteq DOMAIN posts

\* A draft is never on its way twice, even though Retry shows while it is
\* being sent again and an event or Cancel changes the ids being sent.
OneRequestPerDraft ==
  \A r, s \in requests : r.open /\ s.open /\ r.draft = s.draft => r = s

\* A root message never stands in the channel next to the post made from it,
\* also when the event came before a network error.
NoTwinRoot ==
  \A d \in Drafts \ Replies :
    d \in ToSet(order) => PostsOf(d) \cap ToSet(order) = {}

Answerable(d) == d \in Replies => ~server[Root].deleted

\* The posts that stand for a draft, and where it belongs.
StandIns(d) == {d} \cup PostsOf(d)

View(d) == IF d \in Replies THEN thread ELSE ToSet(order)

Shown(d) == StandIns(d) \cap View(d) # {}

\* What the user sent stays visible, as a pending, a failed or a delivered
\* post, until the user takes it back or the thread is deleted.
NothingLost ==
  \A d \in Drafts :
    attempts[d] > 0 /\ d \notin dismissed /\ Answerable(d) => Shown(d)

\* The drafts that show as being sent.
BeingSent == {d \in Drafts \cap DOMAIN posts : ~posts[d].failed}

\* A post that shows as being sent does not stay so: it is replaced or
\* removed, or its failed mark offers Retry and Cancel.
SendingEnds == \A d \in Drafts : (d \in BeingSent) ~> (d \notin BeingSent)

\* The server posts that belong into the channel.
RootPosts == {id \in DOMAIN server : server[id].root = None}

TakenBack == {id \in DOMAIN server : server[id].draft \in dismissed}

\* Every root message the server creates comes into the channel, even when
\* the client was told that it failed, unless its author took it back.
DeliveredIsShown ==
  \A id \in 1..(1 + MaxOthers + MaxAttempts * Cardinality(Drafts)) :
    (id \in RootPosts) ~> (id \in ToSet(order) \cup TakenBack)

-----------------------------------------------------------------------------
\* What the author sees of a draft, in the terms of Outbox.

Delivered(d) == PostsOf(d) \cap View(d) # {}

PhaseOf(d) ==
  CASE attempts[d] = 0 -> "unsent"
    [] attempts[d] > 0 /\ (d \in dismissed \/ ~Answerable(d)) -> "over"
    [] attempts[d] > 0 /\ d \notin dismissed /\ Answerable(d) ->
         IF Delivered(d) THEN "delivered"
         ELSE IF d \notin View(d) THEN "lost"
         ELSE IF posts[d].failed THEN "failed" ELSE "sending"

phase == [d \in Drafts |-> PhaseOf(d)]

created == {d \in Drafts : PostsOf(d) # {}}

O == INSTANCE Outbox WITH threadGone <- server[Root].deleted

\* Sending implements Outbox: no order of answers, events, errors, retries and
\* deletions turns a delivered message into a failed or a pending one, takes a
\* message from the screen that its author did not take back, or leaves one
\* that the server has made undelivered.
ImplementsOutbox == O!Spec
=============================================================================
