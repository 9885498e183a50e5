----------------------------- MODULE KmeetCalls -----------------------------
(***************************************************************************)
(* kMeet calls in the web application: the conferences of the store, the   *)
(* one modal that rings, and the five websocket events about conferences.  *)
(* A new conference is only stored, and rings, after three requests about  *)
(* it have been answered one after the other; meanwhile further events,    *)
(* also about the same conference, are handled at once.                    *)
(*                                                                         *)
(* A conference is its number, its caller, who is in it, and whether its   *)
(* caller has answered (is 'approved' or 'denied').  The desktop           *)
(* application, calls on other servers and losing the connection are left  *)
(* out; the feature flag of dialing is on.                                 *)
(***************************************************************************)
EXTENDS Naturals, FiniteSets, Sequences

CONSTANTS
  Channels,
  Direct,      \* the direct and group channels, in which calls ring
  Users,
  Me,
  None,        \* no conference, no channel
  MaxCalls,    \* bound: conferences
  MaxEvents,   \* bound: websocket events, the ends of conferences not counted
  MaxRequests  \* bound: requests of the user

ASSUME CallAssumption ==
  /\ Me \in Users /\ None \notin Channels
  /\ None \notin [id : Nat, caller : Users, present : SUBSET Users, answered : BOOLEAN]
  /\ IsFiniteSet(Channels) /\ IsFiniteSet(Users) /\ Direct \subseteq Channels
  /\ {MaxCalls, MaxEvents, MaxRequests} \subseteq Nat

VARIABLES
  live,         \* server: the conference of each channel
  calls,        \* server: number of conferences so far
  wire,         \* websocket events on their way, oldest first
  sent,         \* number of websocket events so far
  conferences,  \* entities.kmeetCalls.conferences
  modal,        \* the channel the INCOMING_CALL modal rings for
  receiving,    \* receivedCall: conferences waiting for their requests
  parameters,   \* views.calls.callParameters: the last channel and conference
  requests,     \* requests of the user on their way
  asked,        \* number of requests of the user
  heard,        \* history: conferences that events but the first were about
  causes        \* history: what may have kept the store from following

server == <<live, calls, wire, sent>>
client == <<conferences, modal, receiving, parameters>>
vars == <<live, calls, wire, sent, conferences, modal, receiving, parameters,
          requests, asked, heard, causes>>

Conference(id, caller) == [id |-> id, caller |-> caller, present |-> {}, answered |-> FALSE]

Joined(conference, user) ==
  [conference EXCEPT !.present = @ \cup {user},
                     !.answered = @ \/ user = conference.caller]

Left(conference, user) == [conference EXCEPT !.present = @ \ {user}]

Denied(conference, user) == [conference EXCEPT !.answered = @ \/ user = conference.caller]

-----------------------------------------------------------------------------
(***************************************************************************)
(* The server.                                                             *)
(***************************************************************************)
Tell(type, c, id, user) ==
  /\ wire' = Append(wire, [type |-> type, channel |-> c, id |-> id, user |-> user])
  /\ sent' = sent + 1

ServerStarts(c, user) ==
  /\ live[c] = None /\ calls < MaxCalls
  /\ calls' = calls + 1
  /\ live' = [live EXCEPT ![c] = Conference(calls', user)]
  /\ Tell("added", c, calls', user)

ServerChanges(c, type, user, conference) ==
  /\ live' = [live EXCEPT ![c] = conference]
  /\ Tell(type, c, live[c].id, user)
  /\ UNCHANGED calls

ServerEnds(c) ==
  /\ live[c] # None
  /\ ServerChanges(c, "deleted", None, None)

Elsewhere == sent < MaxEvents /\ UNCHANGED <<client, requests, asked, heard, causes>>

OtherStarts(c, user) == Elsewhere /\ user # Me /\ ServerStarts(c, user)

\* Also the tab a joined call opens, and the user on other devices.
UserConnects(c, user) ==
  /\ Elsewhere
  /\ live[c] # None /\ user \notin live[c].present
  /\ ServerChanges(c, "connected", user, Joined(live[c], user))

UserDisconnects(c, user) ==
  /\ Elsewhere
  /\ live[c] # None /\ user \in live[c].present
  /\ ServerChanges(c, "disconnected", user, Left(live[c], user))

UserDenies(c, user) ==
  /\ Elsewhere
  /\ live[c] # None /\ user \notin live[c].present
  /\ ServerChanges(c, "denied", user, Denied(live[c], user))

CallEnds(c) ==
  /\ ServerEnds(c)
  /\ UNCHANGED <<client, requests, asked, heard, causes>>

-----------------------------------------------------------------------------
(***************************************************************************)
(* The store.  KmeetModal closes itself once the caller has answered.      *)
(***************************************************************************)
Stored(c) == conferences[c] # None

InCall(stored) == \E c \in Channels : stored[c] # None /\ Me \in stored[c].present

Shows(ringing, stored) ==
  /\ conferences' = stored
  /\ modal' = IF ringing # None /\ stored[ringing] # None /\ stored[ringing].answered
              THEN None ELSE ringing

With(c, conference) == [conferences EXCEPT ![c] = conference]

\* Slip: users make a conference of one that is not known.
WithRegistrantAnyway(c, conference) ==
  With(c, IF Stored(c) THEN conference ELSE Conference(0, Me))

\* The registrants of a conference that is not known are ignored.
WithRegistrant(c, conference) ==
  IF Stored(c) THEN With(c, conference) ELSE conferences

Ask(kind, c, id) ==
  requests' = requests \cup
    {[kind |-> kind, channel |-> c, id |-> id, outcome |-> "none", value |-> None]}

\* Slip: a call also rings in another call.
DialingInCall(c, stored) == IF modal # None THEN modal ELSE c

\* openCallDialingModal
Dialing(c, stored) == IF InCall(stored) \/ modal # None THEN modal ELSE c

\* Slip: the conference goes, and its modal goes on.
DeleteConferenceRinging(c, ringing) == Shows(ringing, With(c, None))

\* Slip: the modal of the conference goes on, with the conference.
DeleteConferenceNot(c, ringing) ==
  Shows(ringing, IF ringing = c THEN conferences ELSE With(c, None))

\* deleteConference: a conference whose modal is open stays in the store.
DeleteConference(c, ringing) ==
  IF ringing = c THEN Shows(None, conferences) ELSE Shows(ringing, With(c, None))

\* What the store is given is what the conference was when it was added.
Late(id) == causes' = IF id \in heard THEN causes \cup {"late"} ELSE causes

-----------------------------------------------------------------------------
(***************************************************************************)
(* The websocket events.                                                   *)
(***************************************************************************)
HandleReceiveCall(e) ==
  /\ e.type = "added"
  /\ receiving' = receiving \cup
       {[channel |-> e.channel, call |-> Conference(e.id, e.user), fetched |-> FALSE]}
  /\ UNCHANGED <<conferences, modal, parameters, requests, heard>>

\* The user is in the call, or the other side of the user's own call is.
HandleConferenceUserConnected(e) ==
  /\ e.type = "connected"
  /\ LET ringing == IF e.user = Me THEN None ELSE modal
         mine == Stored(e.channel) /\ conferences[e.channel].caller = Me
     IN  /\ Shows(ringing, WithRegistrant(e.channel, Joined(conferences[e.channel], e.user)))
         /\ IF mine /\ e.user # Me /\ ringing # None
            THEN Ask("accept", e.channel, conferences[e.channel].id)
            ELSE UNCHANGED requests
  /\ heard' = heard \cup {e.id}
  /\ UNCHANGED <<receiving, parameters>>

\* Slip: only the older store of calls is told who leaves.
HandleConferenceUserDisconnectedElsewhere(e) ==
  /\ e.type = "disconnected"
  /\ heard' = heard \cup {e.id}
  /\ UNCHANGED <<conferences, modal, receiving, parameters, requests>>

HandleConferenceUserDisconnected(e) ==
  /\ e.type = "disconnected"
  /\ Shows(modal, WithRegistrant(e.channel, Left(conferences[e.channel], e.user)))
  /\ heard' = heard \cup {e.id}
  /\ UNCHANGED <<receiving, parameters, requests>>

\* In a conference of two the caller's modal closes too.
HandleConferenceUserDenied(e) ==
  /\ e.type = "denied"
  /\ \E two \in BOOLEAN :
       LET over == e.user = Me \/
                   (two /\ Stored(e.channel) /\ conferences[e.channel].caller = Me)
       IN  Shows(IF over THEN None ELSE modal,
                 WithRegistrant(e.channel, Denied(conferences[e.channel], e.user)))
  /\ heard' = heard \cup {e.id}
  /\ UNCHANGED <<receiving, parameters, requests>>

\* callNoLongerExist closes the modal of any channel.
HandleConferenceDeleted(e) ==
  /\ e.type = "deleted"
  /\ DeleteConference(e.channel, IF parameters.id = e.id THEN None ELSE modal)
  /\ heard' = heard \cup {e.id}
  /\ UNCHANGED <<receiving, parameters, requests>>

HandleEvent ==
  /\ wire # <<>>
  /\ LET e == Head(wire) IN
       \/ HandleReceiveCall(e)
       \/ HandleConferenceUserConnected(e)
       \/ HandleConferenceUserDisconnected(e)
       \/ HandleConferenceUserDenied(e)
       \/ HandleConferenceDeleted(e)
  /\ wire' = Tail(wire)
  /\ UNCHANGED <<live, calls, sent, asked, causes>>

-----------------------------------------------------------------------------
(***************************************************************************)
(* receivedCall: the channel, then its users and the caller, are fetched;  *)
(* the channel of the store is that of the last answer.  The requests that *)
(* fail leave it as it is.                                                 *)
(***************************************************************************)
ChannelFetched(r) ==
  /\ ~r.fetched
  /\ receiving' = (receiving \ {r}) \cup {[r EXCEPT !.fetched = TRUE]}
  /\ \E failed \in BOOLEAN :
       parameters' = IF failed THEN parameters ELSE [parameters EXCEPT !.channel = r.channel]
  /\ UNCHANGED <<server, conferences, modal, requests, asked, heard, causes>>

\* A channel that is not known is no public one; disturb is the user's status.
Received(r) ==
  /\ r.fetched
  /\ receiving' = receiving \ {r}
  /\ Late(r.call.id)
  /\ LET stored == With(r.channel, r.call) IN
       \E disturb \in BOOLEAN :
         IF disturb /\ parameters.channel \notin Channels \ Direct /\ r.call.caller # Me
         THEN /\ Shows(Dialing(r.channel, stored), stored)
              /\ parameters' = [parameters EXCEPT !.id = r.call.id]
         ELSE Shows(modal, stored) /\ UNCHANGED parameters
  /\ UNCHANGED <<server, requests, asked, heard>>

-----------------------------------------------------------------------------
(***************************************************************************)
(* The user.                                                               *)
(***************************************************************************)
UserAsks(kind, c, id) ==
  /\ asked < MaxRequests /\ asked' = asked + 1
  /\ Ask(kind, c, id)
  /\ UNCHANGED <<server, client, heard, causes>>

\* The meet button, whose conference is not known, calls.
StartCall(c) == ~Stored(c) /\ UserAsks("start", c, None)

\* joinCall: the meet button, the modal's accept.
JoinCall(c) == Stored(c) /\ UserAsks("accept", c, conferences[c].id)

DeclineCall == modal # None /\ Stored(modal) /\ UserAsks("decline", modal, conferences[modal].id)

\* The modal's cancel, of the user's own call.
CancelCall ==
  /\ modal # None /\ Stored(modal) /\ conferences[modal].caller = Me
  /\ UserAsks("cancel", modal, conferences[modal].id)

\* The decline of a modal whose conference is gone.
CloseModal ==
  /\ modal # None /\ ~Stored(modal)
  /\ Shows(None, conferences)
  /\ UNCHANGED <<server, receiving, parameters, requests, asked, heard, causes>>

GetMyMeets == UserAsks("meets", None, None)

-----------------------------------------------------------------------------
(***************************************************************************)
(* The server's answers, and what the client does with them.               *)
(***************************************************************************)
Answered(r, outcome, value) ==
  requests' = (requests \ {r}) \cup {[r EXCEPT !.outcome = outcome, !.value = value]}

Answerable(r) == r.outcome = "none" /\ UNCHANGED <<client, asked, heard, causes>>

IsLive(r) == live[r.channel] # None /\ live[r.channel].id = r.id

ServerAnswersStart(r) ==
  /\ r.kind = "start" /\ Answerable(r)
  /\ ServerStarts(r.channel, Me)
  /\ Answered(r, "ok", Conference(calls', Me))

ServerAnswersAccept(r) ==
  /\ r.kind = "accept" /\ Answerable(r)
  /\ IsLive(r)
  /\ Answered(r, "ok", None)
  /\ UNCHANGED server

ServerAnswersDecline(r) ==
  /\ r.kind = "decline" /\ Answerable(r)
  /\ IsLive(r)
  /\ Answered(r, "ok", None)
  /\ ServerChanges(r.channel, "denied", Me, Denied(live[r.channel], Me))

ServerAnswersCancel(r) ==
  /\ r.kind = "cancel" /\ Answerable(r)
  /\ IsLive(r)
  /\ Answered(r, "ok", None)
  /\ ServerEnds(r.channel)

ServerAnswersMeets(r) ==
  /\ r.kind = "meets" /\ Answerable(r)
  /\ Answered(r, "ok", [live |-> live, sent |-> sent])
  /\ UNCHANGED server

\* A request about a conference that has ended, and any on a bad connection.
RequestFails(r) ==
  /\ Answerable(r)
  /\ Answered(r, "failed", None)
  /\ UNCHANGED server

Returns(r, kinds, outcome) ==
  /\ r.kind \in kinds /\ r.outcome = outcome
  /\ requests' = requests \ {r}
  /\ UNCHANGED <<server, receiving, parameters, asked, heard>>

CallStarted(r) ==
  /\ Returns(r, {"start"}, "ok")
  /\ LET stored == With(r.channel, r.value)
     IN  Shows(IF r.channel \in Direct THEN Dialing(r.channel, stored) ELSE modal, stored)
  /\ Late(r.value.id)

\* startCall closes the modal and opens the call in a tab; so do the others
\* close the modal, of whichever channel.
JoinedDeclinedOrCanceled(r) ==
  /\ Returns(r, {"accept", "decline", "cancel"}, "ok")
  /\ Shows(None, conferences)
  /\ UNCHANGED causes

\* Any failure counts as the end of the conference.
JoinFails(r) ==
  /\ Returns(r, {"accept"}, "failed")
  /\ DeleteConference(r.channel, modal)
  /\ causes' = IF live[r.channel] # None THEN causes \cup {"failed"} ELSE causes

OthersFail(r) ==
  /\ Returns(r, {"start", "decline", "cancel", "meets"}, "failed")
  /\ UNCHANGED <<conferences, modal, causes>>

\* VOICE_CHANNELS_RECEIVED
MeetsReceived(r) ==
  /\ Returns(r, {"meets"}, "ok")
  /\ Shows(modal, r.value.live)
  /\ causes' = IF r.value.sent = sent /\ wire = <<>> /\ receiving = {}
               THEN causes ELSE causes \cup {"meets"}

-----------------------------------------------------------------------------

\* Nothing has happened yet, or the user's first call rings.
Init ==
  /\ modal \in Direct \cup {None}
  /\ calls = IF modal = None THEN 0 ELSE 1
  /\ live = [c \in Channels |-> IF c = modal THEN Conference(1, Me) ELSE None]
  /\ conferences = live
  /\ wire = <<>>
  /\ sent = 0
  /\ receiving = {}
  /\ parameters = [channel |-> modal, id |-> None]
  /\ requests = {}
  /\ asked = 0
  /\ heard = {}
  /\ causes = {}

ServerAnswers(r) ==
  \/ ServerAnswersStart(r) \/ ServerAnswersAccept(r) \/ ServerAnswersDecline(r)
  \/ ServerAnswersCancel(r) \/ ServerAnswersMeets(r) \/ RequestFails(r)

RequestEnds(r) ==
  \/ CallStarted(r) \/ JoinedDeclinedOrCanceled(r) \/ JoinFails(r)
  \/ OthersFail(r) \/ MeetsReceived(r)

Next ==
  \/ \E c \in Channels, user \in Users :
       \/ OtherStarts(c, user) \/ UserConnects(c, user)
       \/ UserDisconnects(c, user) \/ UserDenies(c, user)
  \/ \E c \in Channels : CallEnds(c) \/ StartCall(c) \/ JoinCall(c)
  \/ HandleEvent
  \/ \E r \in receiving : ChannelFetched(r) \/ Received(r)
  \/ DeclineCall \/ CancelCall \/ CloseModal \/ GetMyMeets
  \/ \E r \in requests : ServerAnswers(r) \/ RequestEnds(r)

\* The connection and the browser carry on, and every conference ends.
Fairness ==
  /\ WF_vars(HandleEvent)
  /\ WF_vars(\E r \in receiving : ChannelFetched(r) \/ Received(r))
  /\ WF_vars(\E r \in requests : ServerAnswers(r) \/ RequestEnds(r))
  /\ \A c \in Channels : WF_vars(CallEnds(c))

Spec == Init /\ [][Next]_vars /\ Fairness

-----------------------------------------------------------------------------

Conferences ==
  [id : 1 .. calls, caller : Users, present : SUBSET Users, answered : BOOLEAN]

\* The values the variables may take.
TypeOK ==
  /\ live \in [Channels -> Conferences \cup {None}]
  /\ conferences \in [Channels -> Conferences \cup {None}]
  /\ calls \in Nat /\ sent \in Nat /\ asked \in Nat
  /\ Len(wire) <= sent
  /\ modal \in Channels \cup {None}
  /\ receiving \subseteq [channel : Channels, call : Conferences, fetched : BOOLEAN]
  /\ parameters.channel \in Channels \cup {None}
  /\ parameters.id \in 0 .. calls \cup {None}
  /\ heard \subseteq 1 .. calls
  /\ causes \subseteq {"late", "meets", "failed"}

\* Nothing is on its way.
Settled == wire = <<>> /\ receiving = {} /\ requests = {}

\* The modal rings for a conference the store has, so that its buttons work;
\* only the answer to getMyMeets takes the conference from under it.
RingHasConference == modal # None /\ causes = {} => Stored(modal)

\* What rings is still there to be answered, and the ring does not go on in a
\* call: when everything has arrived, the modal is that of a live conference
\* and the user is in none.
RingIsForLiveCall ==
  Settled /\ modal # None /\ causes = {} =>
    live[modal] # None /\ \A c \in Channels : live[c] # None => Me \notin live[c].present

\* Who is in a conference, as the store has it, is who is in it.
PresenceMatches ==
  Settled /\ causes = {} =>
    \A c \in Channels :
      Stored(c) /\ live[c] # None => conferences[c].present = live[c].present

\* Every ring ends, at the latest with its conference.
RingEnds ==
  \A c \in Channels : [](causes = {}) => (modal = c ~> modal # c)
=============================================================================
