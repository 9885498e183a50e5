----------------------------- MODULE PostBlocks -----------------------------
(***************************************************************************)
(* Which posts of a channel are loaded: postsInChannel holds blocks of     *)
(* consecutive posts, one of which is marked as the most recent.  Pages    *)
(* come from requests (the latest posts, the posts around the first unread *)
(* one or around a permalink, those before or after the end of a block),   *)
(* new posts come from the websocket, and overlapping blocks are merged.   *)
(*                                                                         *)
(* An answer is what the server knew when it made it: several requests may *)
(* be on their way, and posts may be announced between an answer and its   *)
(* arrival.  The posts are root posts by anybody, named by the order of    *)
(* their create_at; sending is the subject of PostSending.                 *)
(***************************************************************************)
EXTENDS Naturals, SequencesExt

CONSTANTS
  Initial,      \* posts the channel has when it is first opened
  PageSize,     \* posts of a page, on each side of the anchor if it has one
  MaxPosts,     \* bound: posts of the channel
  MaxBacklog,   \* bound: announcements on their way at once
  MaxRequests,  \* bound: requests on their way when the user makes another
  MaxFails,     \* bound: requests that fail
  MaxRemovals   \* bound: posts the user deletes

None == 0

ASSUME BlocksAssumption ==
  /\ {Initial, MaxPosts, MaxRequests, MaxFails, MaxRemovals} \subseteq Nat
  /\ Initial <= MaxPosts
  /\ PageSize \in Nat \ {0}
  /\ MaxBacklog \in 1..PageSize

VARIABLES
  newest,       \* the newest post on the server
  heard,        \* the newest post announced to the client
  posts,        \* entities.posts.posts: the ids that are stored
  loaded,       \* whether postsInChannel has an entry for the channel
  blocks,       \* that entry
  requests,     \* the requests on their way
  removed,      \* posts the user has deleted
  atRecent,     \* the list shows the recent block, not that of a permalink
  missingId,    \* latestPostNoChunkId of the last rendering
  fails,        \* requests that have failed
  dropped,      \* history: posts announced before the channel was loaded
  early         \* history: posts deleted here before they were announced

history == <<dropped, early>>
vars == <<newest, heard, posts, loaded, blocks, requests, removed, atRecent,
          missingId, fails, dropped, early>>

Block(order, recent, oldest) == [order |-> order, recent |-> recent, oldest |-> oldest]

\* The nth smallest member of a set of numbers.
Nth(S, n) == CHOOSE x \in S : Cardinality({y \in S : y < x}) = n - 1

\* S with the newest post first.
NewestFirst(S) == [n \in 1..Cardinality(S) |-> Nth(S, Cardinality(S) + 1 - n)]

\* What s has at the indices D, in the order of s.
Kept(s, D) == [n \in 1..Cardinality(D) |-> s[Nth(D, n)]]

Listed(b) == ToSet(b.order)

-----------------------------------------------------------------------------
\* The reducer postsInChannel.

RemoveNonRecentEmpty(bs) ==
  Kept(bs, {i \in DOMAIN bs : bs[i].order # <<>> \/ bs[i].recent})

\* blocks.sort by the create_at of the first post, newest first
Ahead(bs, i) ==
  {j \in DOMAIN bs \ {i} :
     \/ Head(bs[j].order) > Head(bs[i].order)
     \/ Head(bs[j].order) = Head(bs[i].order) /\ j < i}

SortedBlocks(bs) ==
  [k \in DOMAIN bs |->
     bs[CHOOSE i \in DOMAIN bs : Cardinality(Ahead(bs, i)) = k - 1]]

\* Slip: posts of later blocks are put behind those of the first.
MergeOrderUnsorted(bs, run) ==
  LET all == UNION {Listed(bs[i]) : i \in run}
      first == bs[CHOOSE i \in run : \A j \in run : i <= j]
  IN  first.order \o NewestFirst(all \ Listed(first))

\* mergePostOrder along a run of blocks: an order that gains nothing is left
\* as it is, any other is sorted.
MergeOrder(bs, run) ==
  LET all   == UNION {Listed(bs[i]) : i \in run}
      first == bs[CHOOSE i \in run : \A j \in run : i <= j]
  IN  IF all = Listed(first) THEN first.order ELSE NewestFirst(all)

\* Slip: blocks that share only one post stay apart.
EndsApart(bs) ==
  {k \in DOMAIN bs :
     \A i, j \in DOMAIN bs : i <= k /\ k < j => Last(bs[i].order) >= Head(bs[j].order)}

\* Blocks, sorted, are merged from one to the next until one ends above the
\* start of all that follow.
Ends(bs) ==
  {k \in DOMAIN bs :
     \A i, j \in DOMAIN bs : i <= k /\ k < j => Last(bs[i].order) > Head(bs[j].order)}

Run(bs, end) == {i \in 1..end : \A k \in Ends(bs) : k < end => k < i}

MergeRuns(bs) ==
  [n \in 1..Cardinality(Ends(bs)) |->
     LET end == Nth(Ends(bs), n)
         run == Run(bs, end)
     IN  Block(MergeOrder(bs, run),
               \E i \in run : bs[i].recent,
               \E i \in run : bs[i].oldest)]

Merged(bs) == MergeRuns(SortedBlocks(RemoveNonRecentEmpty(bs)))

\* mergePostBlocks; where nothing is merged the blocks stay unsorted.
MergePostBlocks(bs) ==
  LET merged == Merged(bs)
  IN  IF merged = <<>> \/ Len(merged) = Len(bs) THEN bs ELSE merged

\* mergePostBlocks reads the first post of every block, the last post of
\* every block but the last, and every post of an order it sorts: an empty
\* block, or a listed post that is not stored, makes it throw.
Throws(bs, stored) ==
  LET kept == RemoveNonRecentEmpty(bs)
      merged == Merged(bs)
      unread(k) == IF k = Len(merged) /\ merged[k] \in ToSet(kept)
                   THEN ToSet(Tail(merged[k].order)) ELSE {}
  IN  /\ Len(kept) > 1
      /\ \/ \E i \in DOMAIN kept : kept[i].order = <<>>
         \/ \E k \in DOMAIN merged : ~(Listed(merged[k]) \subseteq stored \cup unread(k))

\* findIndex(block => block.recent)
IsRecentIndex(i) ==
  /\ i \in DOMAIN blocks
  /\ blocks[i].recent
  /\ \A j \in 1..(i - 1) : ~blocks[j].recent

HasRecent == \E i \in DOMAIN blocks : blocks[i].recent

\* Slip: without a recent block the new post goes to the first one.
BlocksWithNewPostAnywhere(id) ==
  IF ~loaded THEN blocks
  ELSE IF blocks = <<>> THEN <<Block(<<id>>, TRUE, FALSE)>>
  ELSE LET i == IF HasRecent THEN CHOOSE j \in DOMAIN blocks : IsRecentIndex(j) ELSE 1
       IN  IF id \in Listed(blocks[i]) THEN blocks
           ELSE [blocks EXCEPT ![i].order = Cons(id, @)]

\* RECEIVED_NEW_POST
BlocksWithNewPost(id) ==
  IF ~loaded THEN blocks
  ELSE IF ~HasRecent THEN Append(blocks, Block(<<id>>, TRUE, FALSE))
  ELSE LET i == CHOOSE j \in DOMAIN blocks : IsRecentIndex(j)
       IN  IF id \in Listed(blocks[i]) THEN blocks
           ELSE [blocks EXCEPT ![i].order = Cons(id, @)]

\* The page that is received again, by its length and its ends.
SamePage(b, order) ==
  /\ Len(b.order) = Len(order)
  /\ order # <<>> => Head(b.order) = Head(order) /\ Last(b.order) = Last(order)

\* Slip: the recent block makes room for the new one.
BlocksWithPageInstead(order, recent, oldest) ==
  IF recent /\ HasRecent
  THEN LET i == CHOOSE j \in DOMAIN blocks : IsRecentIndex(j)
       IN  Append(RemoveAt(blocks, i), Block(order, recent, oldest))
  ELSE Append(blocks, Block(order, recent, oldest))

\* RECEIVED_POSTS_IN_CHANNEL, up to mergePostBlocks: a recent page takes the
\* mark from the block that had it.
BlocksWithPage(order, recent, oldest) ==
  IF recent /\ HasRecent
  THEN LET i == CHOOSE j \in DOMAIN blocks : IsRecentIndex(j)
       IN  Append([blocks EXCEPT ![i].recent = FALSE], Block(order, recent, oldest))
  ELSE Append(blocks, Block(order, recent, oldest))

PageIgnored(order, recent) ==
  \/ order = <<>> /\ loaded
  \/ recent /\ \E i \in DOMAIN blocks : IsRecentIndex(i) /\ SamePage(blocks[i], order)

\* Slip: the anchor is put into a page of the latest posts, which has none.
BlocksWithAnswerAnchored(r) ==
  CASE r.kind = "after"  ->
         Append(blocks, Block(Append(r.order, r.anchor), r.recent, FALSE))
    [] r.kind = "before" ->
         Append(blocks, Block(Cons(r.anchor, r.order), FALSE, r.oldest))
    [] r.kind = "latest" ->
         BlocksWithPage(Append(r.order, r.anchor), r.recent, r.oldest)
    [] OTHER -> BlocksWithPage(r.order, r.recent, r.oldest)

\* RECEIVED_POSTS_AFTER, RECEIVED_POSTS_BEFORE and RECEIVED_POSTS_IN_CHANNEL,
\* up to mergePostBlocks: the first two put the anchor into the new block.
BlocksWithAnswer(r) ==
  CASE r.kind = "after"  ->
         Append(blocks, Block(Append(r.order, r.anchor), r.recent, FALSE))
    [] r.kind = "before" ->
         Append(blocks, Block(Cons(r.anchor, r.order), FALSE, r.oldest))
    [] OTHER -> BlocksWithPage(r.order, r.recent, r.oldest)

AnswerIgnored(r) ==
  IF r.kind \in {"after", "before"} THEN r.order = <<>> ELSE PageIgnored(r.order, r.recent)

-----------------------------------------------------------------------------
\* The server.

Live == (1..newest) \ removed

Newer(a) == {x \in Live : x > a /\ Cardinality({y \in Live : a < y /\ y < x}) < PageSize}

Older(a) == {x \in Live : x < a /\ Cardinality({y \in Live : x < y /\ y < a}) < PageSize}

\* What a request is answered with: the posts, and whether nothing newer or
\* older is left.
Page(kind, a) ==
  CASE kind = "latest" -> Older(newest + 1)
    [] kind = "after"  -> Newer(a)
    [] kind = "before" -> Older(a)
    [] OTHER           -> Older(a) \cup ({a} \cap Live) \cup Newer(a)

Answered(r) ==
  LET page == Page(r.kind, r.anchor)
  IN  [r EXCEPT !.answered = TRUE,
                !.order  = NewestFirst(page),
                !.recent = r.kind = "latest" \/ \A x \in Live : x > r.anchor => x \in page,
                !.oldest = \A x \in Live :
                             x < (IF r.kind = "latest" THEN newest + 1 ELSE r.anchor) => x \in page]

Answer(r) ==
  /\ ~r.answered
  /\ r.kind = "around" => r.anchor \notin removed
  /\ requests' = (requests \ {r}) \cup {Answered(r)}
  /\ UNCHANGED <<newest, heard, posts, loaded, blocks, removed, atRecent,
                 missingId, fails, history>>

OtherPosts ==
  /\ newest < MaxPosts
  /\ newest < heard + MaxBacklog
  /\ newest' = newest + 1
  /\ UNCHANGED <<heard, posts, loaded, blocks, requests, removed, atRecent,
                 missingId, fails, history>>

-----------------------------------------------------------------------------
\* The client.

Init ==
  /\ newest = Initial
  /\ heard = Initial
  /\ posts = {}
  /\ loaded = FALSE
  /\ blocks = <<>>
  /\ requests = {}
  /\ removed = {}
  /\ atRecent = TRUE
  /\ missingId = None
  /\ fails = 0
  /\ dropped = {}
  /\ early = {}

Request(kind, anchor) ==
  [kind |-> kind, anchor |-> anchor, answered |-> FALSE, order |-> <<>>,
   recent |-> FALSE, oldest |-> FALSE]

Send(kind, anchor) ==
  /\ requests' = requests \cup {Request(kind, anchor)}
  /\ UNCHANGED <<newest, heard, posts, loaded, blocks, removed, fails, history>>

\* The requests the user makes are bounded, those of LoadMissingPosts are not.
Ask(kind, anchor) == Cardinality(requests) < MaxRequests /\ Send(kind, anchor)

\* postsOnLoad of a channel that is not loaded: loadUnreads, which asks for
\* the posts around the first unread one.
LoadUnreads(firstUnread) ==
  /\ ~loaded
  /\ atRecent' = TRUE
  /\ Ask("unread", firstUnread)
  /\ UNCHANGED missingId

\* postsOnLoad of a channel without a block to show, or after a permalink
\* that could not be loaded.
LoadLatestPosts ==
  /\ atRecent' = TRUE
  /\ Ask("latest", None)
  /\ UNCHANGED missingId

\* postsOnLoad of a permalink.
LoadPostsAround(id) ==
  /\ id \in Live
  /\ atRecent' = FALSE
  /\ Ask("around", id)
  /\ UNCHANGED missingId

\* The user leaves the permalink for the recent posts.
JumpToRecent ==
  /\ ~atRecent /\ HasRecent
  /\ atRecent' = TRUE
  /\ UNCHANGED <<newest, heard, posts, loaded, blocks, requests, removed,
                 missingId, fails, history>>

Displayed(i) == atRecent => IsRecentIndex(i)

\* canLoadMorePosts: older posts, or newer ones where the block is not the
\* recent one.
GetPostsBefore(i) ==
  /\ Displayed(i) /\ blocks[i].order # <<>> /\ ~blocks[i].oldest
  /\ Ask("before", Last(blocks[i].order))
  /\ UNCHANGED <<atRecent, missingId>>

GetPostsAfter(i) ==
  /\ Displayed(i) /\ blocks[i].order # <<>> /\ ~blocks[i].recent
  /\ Ask("after", Head(blocks[i].order))
  /\ UNCHANGED <<atRecent, missingId>>

\* getNotRecentPostsChunkInChannel: latestPostNoChunkId of mapStateToProps,
\* None while the list does not show the recent block.
LatestPostNoChunkId ==
  IF atRecent
  THEN LET others == Kept(blocks, {i \in DOMAIN blocks : ~blocks[i].recent})
       IN  IF others = <<>> \/ Head(others).order = <<>> THEN None
           ELSE Head(Head(others).order)
  ELSE None

\* componentDidUpdate: when there is a block the list does not show, the
\* posts around the newest one of it are loaded, each time that post changes.
LoadMissingPosts ==
  /\ LatestPostNoChunkId # missingId
  /\ missingId' = LatestPostNoChunkId
  /\ IF LatestPostNoChunkId # None
     THEN Send("around", LatestPostNoChunkId)
     ELSE UNCHANGED <<newest, heard, posts, loaded, blocks, requests, removed,
                      fails, history>>
  /\ UNCHANGED atRecent

\* The answer arrives; where the reducer throws, the store stays as it was.
Receive(r) ==
  LET stored == posts \cup ToSet(r.order)
      next   == BlocksWithAnswer(r)
  IN  /\ r.answered
      /\ requests' = requests \ {r}
      /\ IF AnswerIgnored(r)
         THEN /\ posts' = stored
              /\ UNCHANGED <<loaded, blocks>>
         ELSE IF Throws(next, stored)
              THEN UNCHANGED <<posts, loaded, blocks>>
              ELSE /\ posts' = stored
                   /\ loaded' = TRUE
                   /\ blocks' = MergePostBlocks(next)
      /\ UNCHANGED <<newest, heard, removed, atRecent, missingId, fails, history>>

\* A request fails; when it was for a permalink the latest posts are loaded.
Fail(r) ==
  /\ \/ fails < MaxFails /\ fails' = fails + 1
     \/ r.kind = "around" /\ r.anchor \in removed /\ ~r.answered /\ UNCHANGED fails
  /\ \/ requests' = requests \ {r} /\ UNCHANGED atRecent
     \/ /\ r.kind = "around" /\ ~atRecent
        /\ requests' = (requests \ {r}) \cup {Request("latest", None)}
        /\ atRecent' = TRUE
  /\ UNCHANGED <<newest, heard, posts, loaded, blocks, removed, missingId, history>>

\* The posted event of the next post.
HandleNewPost ==
  /\ heard < newest
  /\ heard' = heard + 1
  /\ posts' = posts \cup {heard'}
  /\ blocks' = BlocksWithNewPost(heard')
  /\ dropped' = IF loaded THEN dropped ELSE dropped \cup {heard'}
  /\ UNCHANGED <<newest, loaded, requests, removed, atRecent, missingId, fails, early>>

\* deleteAndRemovePost, POST_REMOVED; the reducer reads every listed post.
RemovePost(id) ==
  /\ Cardinality(removed) < MaxRemovals
  /\ id \in posts \ removed
  /\ \A i \in DOMAIN blocks : Listed(blocks[i]) \subseteq posts
  /\ removed' = removed \cup {id}
  /\ posts' = posts \ {id}
  /\ early' = IF id > heard THEN early \cup {id} ELSE early
  /\ blocks' = LET without == [i \in DOMAIN blocks |->
                     [blocks[i] EXCEPT !.order = Kept(@, {j \in DOMAIN @ : @[j] # id})]]
               IN  IF without = blocks THEN blocks ELSE RemoveNonRecentEmpty(without)
  /\ UNCHANGED <<newest, heard, loaded, requests, atRecent, missingId, fails, dropped>>

\* React 17 renders the list as part of each dispatch, before the next answer,
\* event or click.
Rendered == missingId = LatestPostNoChunkId

Next ==
  \/ OtherPosts
  \/ \E r \in requests : Answer(r)
  \/ LoadMissingPosts
  \/ /\ Rendered
     /\ \/ HandleNewPost
        \/ \E a \in 1..(MaxPosts + 1) : a <= newest + 1 /\ LoadUnreads(a)
        \/ LoadLatestPosts
        \/ \E id \in 1..MaxPosts : LoadPostsAround(id) \/ RemovePost(id)
        \/ JumpToRecent
        \/ \E i \in DOMAIN blocks : GetPostsBefore(i) \/ GetPostsAfter(i)
        \/ \E r \in requests : Receive(r) \/ Fail(r)

Asked(id) == \E r \in requests : r.kind = "around" /\ r.anchor = id

\* Announcements arrive, every request around a post is answered or fails in
\* the end, and the list is rendered after a change of its properties: stated
\* by what these actions, which nothing can stop, bring about.  The user need
\* not do anything.
Fairness ==
  /\ []<>(heard = newest)
  /\ \A id \in 1..MaxPosts : []<>(~Asked(id))
  /\ []<>(missingId = LatestPostNoChunkId)

Spec == Init /\ [][Next]_vars /\ Fairness
-----------------------------------------------------------------------------

Ids == 1..MaxPosts

BlockRecords == [order : Seq(Ids), recent : BOOLEAN, oldest : BOOLEAN]

\* The values the variables may take.
TypeOK ==
  /\ newest \in Nat /\ heard \in Initial..newest
  /\ posts \subseteq Ids /\ removed \subseteq Ids
  /\ dropped \subseteq Ids /\ early \subseteq removed
  /\ loaded \in BOOLEAN /\ atRecent \in BOOLEAN
  /\ blocks \in Seq(BlockRecords)
  /\ requests \subseteq
       [kind : {"latest", "unread", "around", "before", "after"}, anchor : 0..(MaxPosts + 1),
        answered : BOOLEAN, order : Seq(Ids), recent : BOOLEAN, oldest : BOOLEAN]
  /\ missingId \in Ids \cup {None}
  /\ fails \in Nat

\* Every block is listed from its newest to its oldest post and lists none
\* twice, though new posts are only put first and pages are only appended;
\* unless a post was deleted here before its announcement, which then puts it
\* back, in front of the posts that were loaded with it.
OrdersSorted ==
  early = {} =>
    \A k \in DOMAIN blocks :
      \A i, j \in DOMAIN blocks[k].order : i < j => blocks[k].order[i] > blocks[k].order[j]

AllListed == UNION {Listed(blocks[k]) : k \in DOMAIN blocks}

\* The deleted posts that an answer or an announcement has brought back.
Returned == removed \cap (posts \cup AllListed)

\* A post that came with an answer, or was announced once the channel was
\* loaded, stays in a block, whatever pages arrive in whatever order; unless
\* deleted posts came back, which can make another page look like a received
\* one.
KeptPosts == early = {} /\ Returned = {} => posts \ dropped \subseteq AllListed

\* Posts between two posts of a block that are not in it.
Holes(b) ==
  {x \in Live \ Listed(b) : Listed(b) # {} /\ x < Head(b.order) /\ x > Last(b.order)}

\* When the blocks have become one, nothing is missing inside it but what is
\* still to be announced or was announced before the channel was loaded.
OneBlockIsWhole ==
  Len(blocks) = 1 => \A x \in Holes(blocks[1]) : x > heard \/ x \in dropped

\* While the list shows the recent posts, every block that it does not show
\* and that is not marked as recent is in the end joined with one that is,
\* unless a request fails or a removal empties a block: the list asks once.
BlocksJoin ==
  [](fails = 0 /\ removed = {}) /\ <>[]atRecent => <>[](LatestPostNoChunkId = None)

\* "Remove any blocks that may have become empty by removing posts"
\* (mergePostBlocks): no block is empty next to others.  A recent block stays
\* when its posts are removed, and every later merge throws.
NoEmptyBlockAmongMany ==
  Len(blocks) > 1 => \A i \in DOMAIN blocks : blocks[i].order # <<>>
=============================================================================
