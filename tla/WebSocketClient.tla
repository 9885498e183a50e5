---------------------------- MODULE WebSocketClient ----------------------------
(***************************************************************************)
(* The client of the Pusher websocket (platform/client/src/websocket.ts),  *)
(* with the components that tell it which channel and which thread are on  *)
(* the screen, the listeners of actions/websocket_actions.jsx and the data *)
(* prefetch that lets it subscribe again after a reconnection.             *)
(*                                                                         *)
(* Pusher is external and modelled from its use: subscribe() of a name     *)
(* that is there returns the same channel object, unsubscribe() forgets    *)
(* it, and whenever the connection is up again every channel that is there *)
(* is subscribed anew.  A channel has as many global handlers as were      *)
(* bound to it: each hands every event to the message listeners.           *)
(***************************************************************************)
EXTENDS Naturals, FiniteSets

CONSTANTS
  Channels,      \* channels of the team, each with a presence channel
  Privates,      \* the private subscriptions: team, user, user of the team
  None,          \* an empty id, or no channel object
  Desktop,       \* whether this is the desktop app, which renews its token
  Threads,       \* channels whose threads the user opens
  MaxTimers,     \* bound: timers of one kind that are pending together
  MaxHandlers    \* bound: handlers of one channel that are told apart

ASSUME ClientAssumption ==
  /\ None \notin Channels
  /\ Threads \subseteq Channels
  /\ Desktop \in BOOLEAN
  /\ MaxTimers \in Nat \ {0}
  /\ MaxHandlers \in Nat \ {0, 1}

VARIABLES
  conn,            \* state of this.conn.connection
  failed,          \* connectFailCount > 0
  reconnecting,
  given, initial,  \* ids and presence channel: of initialize(), and as copied on connected
  privates,        \* teamChannel, userChannel, userTeamChannel and currentTeam,
                   \* currentUser, currentTeamUser: the ids they are for
  subs,            \* Pusher's channels, and the fields about the presence channels
  retries,         \* pending calls of reconnectAllChannels, 2 s apart
  jitters,         \* pending subscriptions to all channels
  refused,         \* private names to be subscribed again after an error
  renewing,        \* reconnect() waits for a new token
  view, thread     \* on the screen: the channel, and the channel of the open thread

vars == <<conn, failed, reconnecting, given, initial, privates, subs,
          retries, jitters, refused, renewing, view, thread>>

-----------------------------------------------------------------------------
(* Names and channel objects *)

\* Ids are right, or empty when the client is initialized with fields that no
\* subscription has set yet.
Ids == {"right", "empty"}

PrivateNames == Privates \X Ids
Names        == PrivateNames \cup Channels

Gone == [state |-> "none", handlers |-> 0]

\* A channel object of a presence channel: Pusher's present one of that name, or
\* one that has been unsubscribed since.
Objects == [channel : Channels, present : BOOLEAN]

Present(c) == [channel |-> c, present |-> TRUE]

\* What becomes of an object held by the client when Pusher forgets channel c.
Outdated(object, c) ==
  IF object = Present(c) THEN [object EXCEPT !.present = FALSE] ELSE object

-----------------------------------------------------------------------------
(* Pusher *)

\* subscribe(name)
Subscribed(entry) ==
  IF \/ entry.state = "none"
     \/ entry.state = "refused" /\ conn = "connected"
    THEN [entry EXCEPT !.state = "waiting"] ELSE entry

\* subscribe(name) followed by bind_global.
Bound(entry) ==
  [Subscribed(entry) EXCEPT !.handlers = IF @ < MaxHandlers THEN @ + 1 ELSE @]

\* unsubscribe(presence-channel.c).
Unsubscribed(s, c) ==
  [s EXCEPT !.channels[c] = Gone,
            !.presence    = Outdated(@, c),
            !.thread      = Outdated(@, c)]

-----------------------------------------------------------------------------
(* The presence channels of the client *)

\* bindPresenceChannel(c)
PresenceBound(s, c) ==
  [s EXCEPT !.currentPresence = c,
            !.presence        = Present(c),
            !.channels[c]     = Subscribed(@)]

\* unbindPresenceChannel(c): unbind_global is given a new closure and removes nothing,
\* and a thread that relies on the subscription takes it over.
PresenceUnbound(s, c) ==
  IF s.currentThread = c /\ s.thread = None
    THEN [s EXCEPT !.thread = s.presence, !.presence = None, !.currentPresence = None]
    ELSE [Unsubscribed(s, c) EXCEPT !.presence = None, !.currentPresence = None]

\* unbindThreadPresenceChannel()
ThreadUnbound(s) ==
  IF s.currentThread = None THEN s
  ELSE IF s.thread = None \/ s.thread = s.presence
    THEN [s EXCEPT !.thread = None, !.currentThread = None]
    ELSE [Unsubscribed(s, s.currentThread) EXCEPT !.thread = None, !.currentThread = None]

\* bindThreadPresenceChannel(c)
ThreadBound(s, c) ==
  IF c = s.currentThread THEN s
  ELSE LET t == [ThreadUnbound(s) EXCEPT !.currentThread = c]
       IN  IF c = t.currentPresence THEN t
           ELSE [t EXCEPT !.thread = Present(c), !.channels[c] = Subscribed(@)]

-----------------------------------------------------------------------------
(* Subscribing *)

\* Slip: the former channel object is left as it is.
PrivateSubscribedAgain(channels, p, id) ==
  [channels EXCEPT ![<<p, id>>] = Bound(@)]

\* subscribeToTeamChannel(id) and its two likes: what was subscribed before is
\* unsubscribed with all its handlers.
PrivateSubscribed(channels, p, id) ==
  [n \in Names |->
     CASE n = <<p, id>>          -> Bound(IF privates[p] = id THEN Gone ELSE channels[n])
       [] n = <<p, privates[p]>> /\ n # <<p, id>> -> Gone
       [] OTHER                  -> channels[n]]

\* All private channels, subscribed one after another.
AllPrivatesSubscribed(channels, id) ==
  [n \in Names |-> IF n \in PrivateNames THEN PrivateSubscribed(channels, n[1], id)[n]
                   ELSE channels[n]]

\* Slip: a presence channel is bound also when there is none.
AllSubscribedUnguarded(s, id) ==
  LET s1 == [s EXCEPT !.channels = AllPrivatesSubscribed(@, id)]
  IN  PresenceBound(s1, IF initial.presence # None THEN initial.presence ELSE s1.currentPresence)

\* The callback of the jitter timer.  The presence channel is the one given to
\* initialize(), if there was one, and otherwise the one bound last.
AllSubscribed(s, id) ==
  LET s1 == [s EXCEPT !.channels = AllPrivatesSubscribed(@, id)]
      c  == IF initial.presence # None THEN initial.presence ELSE s1.currentPresence
      s2 == IF c = None THEN s1 ELSE PresenceBound(s1, c)
  IN  IF s2.currentThread = None THEN s2
      ELSE ThreadBound([s2 EXCEPT !.currentThread = None, !.thread = None],
                       s2.currentThread)

\* reconnectAllChannels()
ReconnectAllChannels(connection) ==
  IF connection # "connected"
    THEN /\ retries < MaxTimers
         /\ retries' = retries + 1
         /\ UNCHANGED <<jitters, reconnecting>>
    ELSE /\ jitters < MaxTimers
         /\ jitters' = jitters + 1
         /\ reconnecting' = FALSE
         /\ UNCHANGED retries

-----------------------------------------------------------------------------
(* The connection *)

\* The app has started: initialize() has run with the channel of the store, if any.
Init ==
  /\ conn = "connecting"
  /\ failed = FALSE
  /\ reconnecting = FALSE
  /\ view \in Channels \cup {None}
  /\ given = [ids |-> "right", presence |-> view]
  /\ initial = [ids |-> "empty", presence |-> None]
  /\ privates = [p \in Privates |-> None]
  /\ subs = [channels |-> [n \in Names |-> Gone], presence |-> None, thread |-> None,
             currentPresence |-> view, currentThread |-> None]
  /\ retries = 0
  /\ jitters = 0
  /\ refused = {}
  /\ renewing = FALSE
  /\ thread = None

\* The connected event: subscriptions start at once on the first connection, and
\* after a failure reconnect() runs, which may have to renew the token first.
Connected ==
  /\ conn \in {"connecting", "unavailable"}
  /\ conn' = "connected"
  /\ initial' = given
  /\ failed' = FALSE
  /\ IF failed
       THEN /\ reconnecting' = TRUE
            /\ renewing' \in (IF Desktop THEN BOOLEAN ELSE {FALSE})
            /\ UNCHANGED <<retries, jitters>>
       ELSE /\ ReconnectAllChannels("connected")
            /\ UNCHANGED renewing
  /\ subs' = [subs EXCEPT !.channels = [n \in Names |->
                IF @[n].state = "refused" THEN [@[n] EXCEPT !.state = "waiting"] ELSE @[n]]]
  /\ UNCHANGED <<given, privates, refused, view, thread>>

\* A state change that counts as a failure: the connection is lost, or does not come up.
ConnectionLost ==
  /\ \/ conn = "connected"  /\ conn' = "connecting"
     \/ conn = "connecting" /\ conn' = "unavailable"
  /\ failed' = TRUE
  /\ subs' = [subs EXCEPT !.channels = [n \in Names |->
                IF @[n].state = "live" THEN [@[n] EXCEPT !.state = "waiting"] ELSE @[n]]]
  /\ UNCHANGED <<reconnecting, given, initial, privates, retries, jitters,
                 refused, renewing, view, thread>>

\* An error event: the presence channels are given up.  Some errors make Pusher
\* disconnect for good.
ConnectionError ==
  /\ conn \in {"connecting", "connected", "unavailable"}
  /\ conn' \in {conn, "disconnected"}
  /\ failed' = TRUE
  /\ LET Dropped(s, object) == IF object = None THEN s ELSE Unsubscribed(s, object.channel)
         both == Dropped(Dropped(subs, subs.thread), subs.presence)
     IN  subs' = [both EXCEPT !.thread = None, !.presence = None,
                              !.channels = [n \in Names |->
                    IF conn' = "disconnected" /\ @[n].state = "live"
                      THEN [@[n] EXCEPT !.state = "waiting"] ELSE @[n]]]
  /\ UNCHANGED <<reconnecting, given, initial, privates, retries, jitters,
                 refused, renewing, view, thread>>

\* What currentTeam, currentUser and currentTeamUser hold: nothing before the first
\* subscription.
CurrentIds == IF \A p \in Privates : privates[p] = "right" THEN "right" ELSE "empty"

\* A new Pusher, initialized with what the fields hold.
NewConnection ==
  /\ conn' = "connecting"
  /\ given' = [ids |-> CurrentIds, presence |-> subs.currentPresence]
  /\ subs' = [subs EXCEPT !.channels = [n \in Names |-> Gone],
                          !.presence = IF @ = None THEN None ELSE Outdated(@, @.channel),
                          !.thread   = IF @ = None THEN None ELSE Outdated(@, @.channel)]
  /\ UNCHANGED <<failed, reconnecting, initial, privates, retries, jitters,
                 refused, view, thread>>

\* updateToken(), when the token has come.
UpdateToken ==
  /\ renewing
  /\ renewing' = FALSE
  /\ NewConnection

TokenRefused ==
  /\ renewing
  /\ renewing' = FALSE
  /\ UNCHANGED <<conn, failed, reconnecting, given, initial, privates, subs,
                 retries, jitters, refused, view, thread>>

\* sendMessage() finds that Pusher has given up, or sendPresenceMessage() that there is
\* no presence channel: the user types in the channel on the screen.
SendMessage ==
  /\ \/ conn = "disconnected"
     \/ /\ view # None
        /\ subs.presence = None
        /\ ~(view = subs.currentThread /\ subs.thread # None)
  /\ NewConnection
  /\ UNCHANGED renewing

-----------------------------------------------------------------------------
(* Timers and subscriptions *)

\* All prefetching has succeeded: reconnectWsChannels().
PrefetchSucceeds ==
  /\ reconnecting
  /\ ReconnectAllChannels(conn)
  /\ UNCHANGED <<conn, failed, given, initial, privates, subs, refused,
                 renewing, view, thread>>

RetryFires ==
  /\ retries > 0
  /\ conn = "connected"      \* otherwise the timer is set again
  /\ jitters < MaxTimers
  /\ retries' = retries - 1
  /\ jitters' = jitters + 1
  /\ reconnecting' = FALSE
  /\ UNCHANGED <<conn, failed, given, initial, privates, subs, refused,
                 renewing, view, thread>>

JitterFires ==
  /\ jitters > 0
  /\ jitters' = jitters - 1
  /\ subs' = AllSubscribed(subs, initial.ids)
  /\ privates' = [p \in Privates |-> initial.ids]
  /\ UNCHANGED <<conn, failed, reconnecting, given, initial, retries, refused, renewing,
                 view, thread>>

\* The server has accepted a subscription.
SubscriptionSucceeds(n) ==
  /\ conn = "connected"
  /\ subs.channels[n].state = "waiting"
  /\ subs' = [subs EXCEPT !.channels[n].state = "live"]
  /\ UNCHANGED <<conn, failed, reconnecting, given, initial, privates, retries,
                 jitters, refused, renewing, view, thread>>

\* Slip: a refused subscription is not tried again.
SubscriptionFailsForGood(n) ==
  /\ conn = "connected"
  /\ subs.channels[n].state = "waiting"
  /\ subs' = [subs EXCEPT !.channels[n].state = "refused"]
  /\ UNCHANGED <<conn, failed, reconnecting, given, initial, privates, retries,
                 jitters, refused, renewing, view, thread>>

\* The server has refused one: for a private channel the client tries again later.
SubscriptionFails(n) ==
  /\ conn = "connected"
  /\ subs.channels[n].state = "waiting"
  /\ subs' = [subs EXCEPT !.channels[n].state = "refused"]
  /\ refused' = refused \cup ({n} \cap PrivateNames)
  /\ UNCHANGED <<conn, failed, reconnecting, given, initial, privates, retries,
                 jitters, renewing, view, thread>>

RefusedRetryFires(n) ==
  /\ n \in refused
  /\ refused' = refused \ {n}
  /\ subs' = [subs EXCEPT !.channels = PrivateSubscribed(@, n[1], n[2])]
  /\ privates' = [privates EXCEPT ![n[1]] = n[2]]
  /\ UNCHANGED <<conn, failed, reconnecting, given, initial, retries, jitters, renewing,
                 view, thread>>

-----------------------------------------------------------------------------
(* The screen *)

\* componentDidUpdate of the channel view.
ViewChannel(c) ==
  /\ c # view
  /\ view' = c
  /\ subs' = PresenceBound(IF view = None THEN subs ELSE PresenceUnbound(subs, view), c)
  /\ UNCHANGED <<conn, failed, reconnecting, given, initial, privates, retries,
                 jitters, refused, renewing, thread>>

\* The effect of the thread view, after the cleanup of the one before it.
OpenThread(c) ==
  /\ c # thread
  /\ thread' = c
  /\ subs' = ThreadBound(IF thread = None THEN subs ELSE ThreadUnbound(subs), c)
  /\ UNCHANGED <<conn, failed, reconnecting, given, initial, privates, retries,
                 jitters, refused, renewing, view>>

CloseThread ==
  /\ thread # None
  /\ thread' = None
  /\ subs' = ThreadUnbound(subs)
  /\ UNCHANGED <<conn, failed, reconnecting, given, initial, privates, retries,
                 jitters, refused, renewing, view>>

-----------------------------------------------------------------------------
Next ==
  \/ Connected
  \/ ConnectionLost
  \/ ConnectionError
  \/ UpdateToken
  \/ TokenRefused
  \/ SendMessage
  \/ PrefetchSucceeds
  \/ RetryFires
  \/ JitterFires
  \/ \E n \in Names : SubscriptionSucceeds(n) \/ SubscriptionFails(n)
  \/ \E n \in PrivateNames : RefusedRetryFires(n)
  \/ \E c \in Channels : ViewChannel(c)
  \/ \E c \in Threads : OpenThread(c)
  \/ CloseThread

\* Timers fire, prefetching succeeds in the end, and the server does not refuse a
\* subscription for ever.
Fairness ==
  /\ WF_vars(PrefetchSucceeds)
  /\ WF_vars(RetryFires)
  /\ WF_vars(JitterFires)
  /\ \A n \in PrivateNames : SF_vars(SubscriptionSucceeds(n)) /\ WF_vars(RefusedRetryFires(n))

Spec == Init /\ [][Next]_vars /\ Fairness

-----------------------------------------------------------------------------
Entries == [state : {"none", "waiting", "live", "refused"}, handlers : 0..MaxHandlers]

Subs == [channels : [Names -> Entries],
         presence : Objects \cup {None}, thread : Objects \cup {None},
         currentPresence : Channels \cup {None},
         currentThread : Channels \cup {None}]

\* The values the variables may take.
TypeOK ==
  /\ conn \in {"connecting", "connected", "unavailable", "disconnected"}
  /\ failed \in BOOLEAN
  /\ reconnecting \in BOOLEAN
  /\ given \in [ids : Ids, presence : Channels \cup {None}]
  /\ initial \in [ids : Ids, presence : Channels \cup {None}]
  /\ privates \in [Privates -> Ids \cup {None}]
  /\ subs \in Subs
  /\ retries \in 0..MaxTimers
  /\ jitters \in 0..MaxTimers
  /\ refused \subseteq PrivateNames
  /\ renewing \in BOOLEAN
  /\ view \in Channels \cup {None}
  /\ thread \in Threads \cup {None}

\* No event of a private channel is handled twice, however often reconnections, timers
\* and retries make the client subscribe to it.
HandledOnce ==
  \A n \in PrivateNames : subs.channels[n].handlers <= 1

\* When the connection stays up, every private subscription is live in the end, with one
\* handler, whatever was refused or interrupted before: unless the client has been
\* initialized again with ids that no subscription had set yet.
InTheEndListening ==
  (<>[](conn = "connected") /\ [](given.ids = "right"))
    => \A p \in Privates : <>[](subs.channels[<<p, "right">>] = [state |-> "live", handlers |-> 1])

=============================================================================
