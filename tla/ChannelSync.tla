----------------------------- MODULE ChannelSync -----------------------------
(***************************************************************************)
(* How the posts of the channel on the screen survive a lost connection.   *)
(* Posted events come while the client is subscribed and go through the    *)
(* event queue; what was posted while it was not is fetched with           *)
(* syncPostsInChannel, on a reconnection and when the channel is opened    *)
(* again.  Its answer is what the server knew when it made it.             *)
(*                                                                         *)
(* Posts are numbered in the order of their create_at, and a time of the   *)
(* client's clock is the number of the newest post at that time: the clock *)
(* is assumed to agree with the server's.                                  *)
(***************************************************************************)
EXTENDS PostEventQueue, FiniteSetsExt, SequencesExt

CONSTANTS
  Initial,       \* posts of the channel when it was loaded
  MaxPosts,      \* bound: posts of the channel
  MaxRequests    \* bound: synchronisations on their way at once

ASSUME SyncAssumption ==
  /\ Initial \in Nat \ {0}
  /\ {MaxPosts, MaxRequests} \subseteq Nat
  /\ Initial <= MaxPosts

VARIABLES
  newest,       \* the newest post on the server
  known,        \* posts of the recent block, those before the channel was loaded aside
  link,         \* what the connection and the subscription are worth
  resubscribe,  \* reconnectAllChannels has still to renew the subscription
  events,       \* posted events on their way
  lastGet,      \* lastGetPosts, and whether it is not before lastDisconnectAt
  requests,     \* synchronisations on their way
  overtaken     \* history: posts that a synchronisation from the newest one left behind

vars == <<newest, known, link, resubscribe, events, lastGet, requests, overtaken,
          queueVars>>

\* live: events come.  broken: they do not, and the client has not noticed.
\* down: it has.  unsubscribed: connected again, or subscribing anew.
Links == {"live", "broken", "down", "unsubscribed"}

NoAnswer == {0}

-----------------------------------------------------------------------------
Init ==
  /\ newest = Initial
  /\ known = 1..Initial
  /\ link = "live"
  /\ resubscribe = FALSE
  /\ events = <<>>
  /\ lastGet = [time |-> Initial, fresh |-> TRUE]
  /\ requests = {}
  /\ overtaken = {}
  /\ QueueInit

\* Slip: what was fetched last plays no part.
SinceNewest(fresh) == Max(known)

\* From where syncPostsInChannel fetches: from the last fetch when the connection has been
\* lost since, and otherwise from the newest post.
Since(fresh) == IF fresh THEN Max(known) ELSE lastGet.time

\* syncPostsInChannel
StartSync ==
  /\ Cardinality(requests) < MaxRequests
  /\ requests' = requests \cup {[since |-> Since(lastGet.fresh), fromNewest |-> lastGet.fresh,
                                 time |-> newest, fresh |-> TRUE, answer |-> NoAnswer]}

\* A post of another user, or of this user on another device.
OtherPosts ==
  /\ newest < MaxPosts
  /\ newest' = newest + 1
  /\ events' = IF link = "live" THEN Append(events, newest') ELSE events
  /\ UNCHANGED <<known, link, resubscribe, lastGet, requests, overtaken, queueVars>>

\* A post of the user: the answer to createPost brings it, whatever the connection.
OwnPost ==
  /\ newest < MaxPosts
  /\ newest' = newest + 1
  /\ known' = known \cup {newest'}
  /\ events' = IF link = "live" THEN Append(events, newest') ELSE events
  /\ UNCHANGED <<link, resubscribe, lastGet, requests, overtaken, queueVars>>

\* handleNewPostEventDebounced
PostedEvent ==
  /\ events # <<>>
  /\ events' = Tail(events)
  /\ \/ HandleNow /\ known' = known \cup {Head(events)}
     \/ Enqueue(Head(events)) /\ UNCHANGED known
  /\ UNCHANGED <<newest, link, resubscribe, lastGet, requests, overtaken>>

\* handleNewPostEvents
QueueTriggered ==
  /\ known' = known \cup ToSet(queue)
  /\ Triggered
  /\ UNCHANGED <<newest, link, resubscribe, events, lastGet, requests, overtaken>>

-----------------------------------------------------------------------------
(* The connection *)

\* Events stop, and those on their way are lost.
Break ==
  /\ link \in {"live", "unsubscribed"}
  /\ link' = "broken"
  /\ events' = <<>>
  /\ UNCHANGED <<newest, known, resubscribe, lastGet, requests, overtaken, queueVars>>

\* WEBSOCKET_FAILURE sets lastDisconnectAt.
NoticeBreak ==
  /\ link = "broken"
  /\ link' = "down"
  /\ lastGet' = [lastGet EXCEPT !.fresh = FALSE]
  /\ requests' = {[r EXCEPT !.fresh = FALSE] : r \in requests}
  /\ UNCHANGED <<newest, known, resubscribe, events, overtaken, queueVars>>

\* reconnect()
Reconnect ==
  /\ link = "down"
  /\ link' = "unsubscribed"
  /\ resubscribe' = TRUE
  /\ StartSync
  /\ UNCHANGED <<newest, known, events, lastGet, overtaken, queueVars>>

\* Pusher or the client has subscribed again.
Subscribed ==
  /\ link = "unsubscribed"
  /\ link' = "live"
  /\ UNCHANGED <<newest, known, resubscribe, events, lastGet, requests, overtaken,
                 queueVars>>

\* After the prefetch the team channel is unsubscribed and subscribed anew.
Resubscribe ==
  /\ link = "live"
  /\ resubscribe
  /\ resubscribe' = FALSE
  /\ link' = "unsubscribed"
  /\ UNCHANGED <<newest, known, events, lastGet, requests, overtaken, queueVars>>

-----------------------------------------------------------------------------
(* Synchronisation *)

\* The user opens the channel again.
OpenChannel ==
  /\ StartSync
  /\ UNCHANGED <<newest, known, link, resubscribe, events, lastGet, overtaken, queueVars>>

ServerAnswers(r) ==
  /\ r.answer = NoAnswer
  /\ requests' = (requests \ {r}) \cup {[r EXCEPT !.answer = (r.since + 1)..newest]}
  /\ UNCHANGED <<newest, known, link, resubscribe, events, lastGet, overtaken, queueVars>>

\* Slip: only posts newer than the newest one are added.
AddedNewer(answer) == {p \in answer : p > Max(known)}

\* RECEIVED_POSTS_SINCE: posts newer than the oldest of the recent block are added.
Added(answer) == {p \in answer : p > Min(known)}

\* RECEIVED_POSTS_SINCE, then RECEIVED_POSTS_FOR_CHANNEL_AT_TIME with the time of the request.
SyncArrives(r) ==
  /\ r.answer # NoAnswer
  /\ known' = known \cup Added(r.answer)
  /\ lastGet' = [time |-> r.time, fresh |-> r.fresh]
  /\ overtaken' = IF r.fromNewest THEN overtaken \cup (1..r.since \ known') ELSE overtaken
  /\ requests' = requests \ {r}
  /\ UNCHANGED <<newest, link, resubscribe, events, queueVars>>

\* Slip: a failed request counts as a fetch.
SyncFailsUnnoticed(r) ==
  /\ requests' = requests \ {r}
  /\ lastGet' = [time |-> r.time, fresh |-> r.fresh]
  /\ UNCHANGED <<newest, known, link, resubscribe, events, overtaken, queueVars>>

SyncFails(r) ==
  /\ requests' = requests \ {r}
  /\ UNCHANGED <<newest, known, link, resubscribe, events, lastGet, overtaken, queueVars>>

-----------------------------------------------------------------------------
Arrival == \E r \in requests : SyncArrives(r)
Answer  == \E r \in requests : ServerAnswers(r)

Next ==
  \/ OtherPosts
  \/ OwnPost
  \/ PostedEvent
  \/ QueueTriggered
  \/ Break
  \/ NoticeBreak
  \/ Reconnect
  \/ Subscribed
  \/ Resubscribe
  \/ OpenChannel
  \/ Answer
  \/ Arrival
  \/ \E r \in requests : SyncFails(r)

\* Timers fire, events arrive, a lost connection is noticed and replaced, and not every
\* synchronisation fails.
Fairness ==
  /\ WF_vars(PostedEvent)
  /\ WF_vars(QueueTriggered)
  /\ WF_vars(NoticeBreak)
  /\ WF_vars(Reconnect)
  /\ SF_vars(Answer)
  /\ SF_vars(Arrival)

Spec == Init /\ [][Next]_vars /\ Fairness

-----------------------------------------------------------------------------
TypeOK ==
  /\ newest \in Initial..MaxPosts
  /\ known \subseteq 1..newest
  /\ link \in Links
  /\ resubscribe \in BOOLEAN
  /\ events \in Seq(1..newest)
  /\ lastGet \in [time : 1..newest, fresh : BOOLEAN]
  /\ requests \subseteq [since : 1..newest, fromNewest : BOOLEAN, time : 1..newest,
                         fresh : BOOLEAN, answer : SUBSET (0..newest)]
  /\ overtaken \subseteq 1..newest
  /\ queue \in Seq(1..newest)
  /\ Len(queue) <= QueueLimit
  /\ count \in 0..(BurstLimit + 1)
  /\ timer \in BOOLEAN

\* Up to lastGetPosts every post is loaded, unless a synchronisation that started from the
\* newest post left it behind: no outage makes the time of the last fetch run ahead of what
\* was fetched.
NothingElseMissed == 1..lastGet.time \subseteq known \cup overtaken

\* A post that was missed for whatever reason (an outage, the gap until the client is
\* subscribed again, a queue that was thrown away, a failed synchronisation) is loaded after
\* a later reconnection, if it was not left behind as above.
MissedPostsComeBack ==
  []<>(link = "down") =>
    \A p \in 1..MaxPosts : (p <= newest) ~> (p \in known \cup overtaken)

=============================================================================
