-------------------------- MODULE KmeetCallsProofs --------------------------
(***************************************************************************)
(* The modal of an incoming call never rings without its conference, for   *)
(* any channels, users and number of calls, events and requests at a time. *)
(*                                                                         *)
(* That the modal's conference is stored is not inductive: the answer to   *)
(* getMyMeets puts the conferences of the server in place of the stored    *)
(* ones.  What rings is therefore followed back to the server, where its   *)
(* conference goes on or has an end that is still on the wire (Follows),   *)
(* and so is what may ring later, unless an event about it was handled     *)
(* before it was stored.                                                   *)
(***************************************************************************)
EXTENDS KmeetCalls, TLAPS

EventRecords ==
  [type : {"added", "connected", "disconnected", "denied", "deleted"},
   channel : Channels, id : 1 .. calls, user : Users \cup {None}]

ConferenceMaps == [Channels -> Conferences \cup {None}]

Snapshots == [live : ConferenceMaps, sent : Nat]

RequestRecords ==
  [kind : {"start", "accept", "decline", "cancel", "meets"},
   channel : Channels \cup {None}, id : (1 .. calls) \cup {None},
   outcome : {"none", "ok", "failed"}, value : Conferences \cup Snapshots \cup {None}]

Parameters == [channel : Channels \cup {None}, id : (0 .. calls) \cup {None}]

RequestTyped(r) ==
  /\ r \in RequestRecords
  /\ r.kind # "meets" => r.channel \in Channels
  /\ r.kind = "start" /\ r.outcome = "ok" => r.value \in Conferences
  /\ r.kind = "meets" /\ r.outcome = "ok" => r.value \in Snapshots

Receivings == [channel : Channels, call : Conferences, fetched : BOOLEAN]

ServerTyped ==
  /\ live \in ConferenceMaps
  /\ calls \in Nat /\ sent \in Nat
  /\ wire \in Seq(EventRecords) /\ Len(wire) <= sent
  /\ \A k \in 1 .. Len(wire) : wire[k].type # "deleted" => wire[k].user \in Users

Typed ==
  /\ ServerTyped
  /\ conferences \in ConferenceMaps
  /\ modal \in Channels \cup {None}
  /\ receiving \subseteq Receivings
  /\ parameters \in Parameters
  /\ \A r \in requests : RequestTyped(r)
  /\ asked \in Nat
  /\ heard \subseteq 1 .. calls
  /\ causes \subseteq {"late", "meets", "failed"}

\* The conference goes on, or its end is on its way.
Follows(c, id) ==
  \/ live[c] # None /\ live[c].id = id
  \/ \E k \in 1 .. Len(wire) : wire[k].type = "deleted" /\ wire[k].channel = c /\ wire[k].id = id

RingFollowed ==
  causes = {} /\ modal # None => Stored(modal) /\ Follows(modal, conferences[modal].id)

\* What may ring later.
EventsFollowed ==
  \A k \in 1 .. Len(wire) :
    wire[k].type = "added" => Follows(wire[k].channel, wire[k].id) \/ wire[k].id \in heard

ReceivingFollowed ==
  \A r \in receiving : Follows(r.channel, r.call.id) \/ r.call.id \in heard

RequestFollowed(r) ==
  /\ r.kind = "start" /\ r.outcome = "ok" =>
       Follows(r.channel, r.value.id) \/ r.value.id \in heard
  /\ r.kind = "meets" /\ r.outcome = "ok" =>
       r.value.sent <= sent /\ (r.value.sent = sent => r.value.live = live)

RequestsFollowed == \A r \in requests : RequestFollowed(r)

Inv ==
  Typed /\ RingFollowed /\ EventsFollowed /\ ReceivingFollowed /\ RequestsFollowed

USE CallAssumption

LEMMA TypedTypeOK == Typed => TypeOK
<1> SUFFICES ASSUME Typed
             PROVE  TypeOK
  OBVIOUS
<1>1. parameters.channel \in Channels \cup {None} /\ parameters.id \in (0 .. calls) \cup {None}
  BY DEF Typed, Parameters
<1> QED
  BY <1>1 DEF TypeOK, Typed, ServerTyped, ConferenceMaps, Receivings

-----------------------------------------------------------------------------
\* Conferences.

AnyConferences ==
  [id : Nat, caller : Users, present : SUBSET Users, answered : BOOLEAN]

LEMMA ConferenceProperties ==
  ASSUME calls \in Nat
  PROVE  /\ Conferences \subseteq AnyConferences
         /\ \A x \in Conferences : x # None /\ x.id \in 1 .. calls /\ x.present \subseteq Users
         /\ \A id \in 1 .. calls, u \in Users :
              Conference(id, u) \in Conferences /\ Conference(id, u).id = id
<1>1. Conferences \subseteq AnyConferences
  BY DEF Conferences, AnyConferences
<1>2. None \notin AnyConferences
  BY DEF AnyConferences
<1> QED
  BY <1>1, <1>2 DEF Conferences, Conference

LEMMA ChangedProperties ==
  ASSUME calls \in Nat, NEW x \in Conferences, NEW u \in Users
  PROVE  /\ Joined(x, u) \in Conferences /\ Joined(x, u).id = x.id
         /\ Left(x, u) \in Conferences /\ Left(x, u).id = x.id
         /\ Denied(x, u) \in Conferences /\ Denied(x, u).id = x.id
BY DEF Conferences, Joined, Left, Denied

LEMMA Grown ==
  ASSUME calls \in Nat, calls' \in Nat, calls <= calls'
  PROVE  /\ Conferences \subseteq Conferences'
         /\ ConferenceMaps \subseteq ConferenceMaps'
         /\ EventRecords \subseteq EventRecords'
         /\ Receivings \subseteq Receivings'
         /\ Parameters \subseteq Parameters'
         /\ \A r : RequestTyped(r) => RequestTyped(r)'
<1>1. 1 .. calls \subseteq 1 .. calls' /\ 0 .. calls \subseteq 0 .. calls'
  OBVIOUS
<1>2. Conferences \subseteq Conferences'
  BY <1>1 DEF Conferences
<1>3. ConferenceMaps \subseteq ConferenceMaps'
  BY <1>2 DEF ConferenceMaps
<1>4. Snapshots \subseteq Snapshots'
  BY <1>3 DEF Snapshots
<1>5. EventRecords \subseteq EventRecords'
  BY <1>1 DEF EventRecords
<1>6. Receivings \subseteq Receivings'
  BY <1>2 DEF Receivings
<1>7. Parameters \subseteq Parameters'
  BY <1>1 DEF Parameters
<1>8. RequestRecords \subseteq RequestRecords'
  BY <1>1, <1>2, <1>4 DEF RequestRecords
<1>9. \A r : RequestTyped(r) => RequestTyped(r)'
  BY <1>2, <1>4, <1>8 DEF RequestTyped
<1> QED
  BY <1>2, <1>3, <1>5, <1>6, <1>7, <1>9

LEMMA InitInv == Init => Inv
<1> SUFFICES ASSUME Init
             PROVE  Inv
  OBVIOUS
<1>1. /\ modal \in Channels \cup {None} /\ calls \in Nat
      /\ modal # None => calls = 1
      /\ live = [c \in Channels |-> IF c = modal THEN Conference(1, Me) ELSE None]
      /\ conferences = live /\ wire = <<>> /\ sent = 0 /\ receiving = {}
      /\ parameters = [channel |-> modal, id |-> None]
      /\ requests = {} /\ asked = 0 /\ heard = {} /\ causes = {}
  BY DEF Init
<1>2. modal # None =>
        Conference(1, Me) \in Conferences /\ Conference(1, Me) # None
  BY <1>1, ConferenceProperties
<1>3. live \in ConferenceMaps
  BY <1>1, <1>2 DEF ConferenceMaps
<1>4. Typed
  BY <1>1, <1>3 DEF Typed, ServerTyped, Parameters
<1>5. modal # None => conferences[modal] = Conference(1, Me) /\ live[modal] = conferences[modal]
  BY <1>1
<1>6. RingFollowed
  BY <1>2, <1>5 DEF RingFollowed, Stored, Follows
<1> QED
  BY <1>1, <1>4, <1>6
  DEF Inv, EventsFollowed, ReceivingFollowed, RequestsFollowed

-----------------------------------------------------------------------------
(* The server *)

\* What every change of the server brings: nothing it knew is forgotten
\* without an end that is announced.
ServerGrows ==
  /\ ServerTyped'
  /\ calls <= calls'
  /\ sent' = sent + 1
  /\ \A c \in Channels : \A id : Follows(c, id) => Follows(c, id)'
  /\ \A k \in 1 .. Len(wire') :
       \/ k \in 1 .. Len(wire) /\ wire'[k] = wire[k]
       \/ (wire[k].type = "added" => Follows(wire[k].channel, wire[k].id))'

LEMMA TellProperties ==
  ASSUME ServerTyped, calls' \in Nat, calls <= calls',
         NEW type \in {"added", "connected", "disconnected", "denied", "deleted"},
         NEW c \in Channels, NEW id \in 1 .. calls', NEW user \in Users \cup {None},
         type # "deleted" => user \in Users, Tell(type, c, id, user)
  PROVE  /\ wire' \in Seq(EventRecords') /\ Len(wire') <= sent'
         /\ sent' = sent + 1 /\ sent' \in Nat
         /\ Len(wire') = Len(wire) + 1
         /\ \A k \in 1 .. Len(wire) : wire'[k] = wire[k]
         /\ wire'[Len(wire')].type = type
         /\ wire'[Len(wire')].channel = c
         /\ wire'[Len(wire')].id = id
         /\ wire'[Len(wire')].user = user
         /\ \A k \in 1 .. Len(wire') : wire'[k].type # "deleted" => wire'[k].user \in Users
<1> DEFINE e == [type |-> type, channel |-> c, id |-> id, user |-> user]
<1>1. e \in EventRecords' /\ e.type = type /\ e.channel = c /\ e.id = id /\ e.user = user
  BY DEF EventRecords
<1>2. wire' = Append(wire, e) /\ sent' = sent + 1
  BY DEF Tell
<1>3. wire \in Seq(EventRecords')
  <2>1. EventRecords \subseteq EventRecords'
    BY Grown DEF ServerTyped
  <2> QED
    BY <2>1 DEF ServerTyped
<1> HIDE DEF e
<1>4. /\ wire' \in Seq(EventRecords') /\ Len(wire') = Len(wire) + 1
      /\ \A k \in 1 .. Len(wire) : wire'[k] = wire[k]
      /\ wire'[Len(wire) + 1] = e
      /\ Len(wire) \in Nat
  BY <1>1, <1>2, <1>3
<1>5. ASSUME NEW k \in 1 .. Len(wire'), wire'[k].type # "deleted"
      PROVE  wire'[k].user \in Users
  <2>1. CASE k \in 1 .. Len(wire)
    BY <1>4, <1>5, <2>1 DEF ServerTyped
  <2>2. CASE k = Len(wire) + 1
    BY <1>1, <1>4, <1>5, <2>2
  <2> QED
    BY <1>4, <2>1, <2>2
<1> QED
  BY <1>1, <1>2, <1>4, <1>5 DEF ServerTyped

LEMMA ServerStartsGrows ==
  ASSUME ServerTyped, NEW c \in Channels, NEW user \in Users, ServerStarts(c, user)
  PROVE  /\ ServerGrows
         /\ calls' \in 1 .. calls'
         /\ \A id : id = calls' => Follows(c, id)'
<1>1. /\ live[c] = None /\ calls' = calls + 1
      /\ live' = [live EXCEPT ![c] = Conference(calls', user)]
      /\ Tell("added", c, calls', user)
  BY DEF ServerStarts
<1>2. calls \in Nat /\ calls' \in Nat /\ calls <= calls' /\ calls' \in 1 .. calls'
  BY <1>1 DEF ServerTyped
<1>3. /\ wire' \in Seq(EventRecords') /\ Len(wire') <= sent'
      /\ sent' = sent + 1 /\ sent' \in Nat
      /\ Len(wire') = Len(wire) + 1
      /\ \A k \in 1 .. Len(wire) : wire'[k] = wire[k]
      /\ wire'[Len(wire')].type = "added"
      /\ wire'[Len(wire')].channel = c
      /\ wire'[Len(wire')].id = calls'
      /\ \A k \in 1 .. Len(wire') : wire'[k].type # "deleted" => wire'[k].user \in Users
  BY <1>1, <1>2, TellProperties
<1>4. Len(wire) \in Nat
  BY DEF ServerTyped
<1> DEFINE x == Conference(calls', user)
<1>5. x \in Conferences' /\ x # None /\ x.id = calls'
  <2>1. x \in Conferences' /\ x.id = calls'
    BY <1>2 DEF Conference, Conferences
  <2>2. x \in AnyConferences
    BY <1>2 DEF Conference, AnyConferences
  <2> QED
    BY <2>1, <2>2 DEF AnyConferences
<1>6. live' = [live EXCEPT ![c] = x]
  BY <1>1
<1> HIDE DEF x
<1>7. live \in ConferenceMaps'
  BY <1>2, Grown DEF ServerTyped
<1>8. live' \in ConferenceMaps'
  BY <1>5, <1>6, <1>7 DEF ConferenceMaps
<1>9. live'[c] = x /\ \A d \in Channels : d # c => live'[d] = live[d]
  BY <1>6, <1>7 DEF ConferenceMaps
<1>10. \A id : id = calls' => Follows(c, id)'
  BY <1>5, <1>9 DEF Follows
<1>11. ASSUME NEW d \in Channels, NEW id, Follows(d, id)
       PROVE  Follows(d, id)'
  BY <1>1, <1>3, <1>4, <1>9, <1>11 DEF Follows
<1>12. \A k \in 1 .. Len(wire') :
         \/ k \in 1 .. Len(wire) /\ wire'[k] = wire[k]
         \/ (wire[k].type = "added" => Follows(wire[k].channel, wire[k].id))'
  <2> TAKE k \in 1 .. Len(wire')
  <2>1. CASE k \in 1 .. Len(wire)
    BY <1>3, <2>1
  <2>2. CASE k = Len(wire')
    BY <1>3, <1>10, <2>2
  <2> QED
    BY <1>3, <1>4, <2>1, <2>2
<1>13. ServerTyped'
  BY <1>2, <1>3, <1>8 DEF ServerTyped
<1> QED
  BY <1>2, <1>3, <1>10, <1>11, <1>12, <1>13 DEF ServerGrows

LEMMA ServerChangesGrows ==
  ASSUME ServerTyped, NEW c \in Channels, live[c] # None,
         NEW type \in {"connected", "disconnected", "denied", "deleted"},
         NEW user \in Users \cup {None}, type # "deleted" => user \in Users,
         NEW x \in Conferences \cup {None},
         type # "deleted" => x \in Conferences /\ x.id = live[c].id,
         ServerChanges(c, type, user, x)
  PROVE  ServerGrows
<1>1. /\ live' = [live EXCEPT ![c] = x] /\ calls' = calls
      /\ Tell(type, c, live[c].id, user)
  BY DEF ServerChanges
<1>2. calls \in Nat /\ calls' \in Nat /\ calls <= calls'
  BY <1>1 DEF ServerTyped
<1>3. live[c] \in Conferences /\ live[c].id \in 1 .. calls'
  BY <1>1, <1>2, ConferenceProperties DEF ServerTyped, ConferenceMaps
<1>4. /\ wire' \in Seq(EventRecords') /\ Len(wire') <= sent'
      /\ sent' = sent + 1 /\ sent' \in Nat
      /\ Len(wire') = Len(wire) + 1
      /\ \A k \in 1 .. Len(wire) : wire'[k] = wire[k]
      /\ wire'[Len(wire')].type = type
      /\ wire'[Len(wire')].channel = c
      /\ wire'[Len(wire')].id = live[c].id
      /\ \A k \in 1 .. Len(wire') : wire'[k].type # "deleted" => wire'[k].user \in Users
  BY <1>1, <1>2, <1>3, TellProperties
<1>5. Len(wire) \in Nat
  BY DEF ServerTyped
<1>6. live' \in ConferenceMaps'
  BY <1>1, <1>2 DEF ServerTyped, ConferenceMaps, Conferences
<1>7. live'[c] = x /\ \A d \in Channels : d # c => live'[d] = live[d]
  BY <1>1 DEF ServerTyped, ConferenceMaps
<1>8. x \in Conferences => x # None
  BY <1>2, ConferenceProperties
<1>9. ASSUME NEW d \in Channels, NEW id, Follows(d, id)
      PROVE  Follows(d, id)'
  <2>1. CASE live[d] # None /\ live[d].id = id
    <3>1. CASE d # c
      BY <1>7, <2>1, <3>1 DEF Follows
    <3>2. CASE d = c /\ type # "deleted"
      BY <1>7, <1>8, <2>1, <3>2 DEF Follows
    <3>3. CASE d = c /\ type = "deleted"
      <4>1. Len(wire') \in 1 .. Len(wire')
        BY <1>4, <1>5
      <4> QED
        BY <1>4, <2>1, <3>3, <4>1 DEF Follows
    <3> QED
      BY <3>1, <3>2, <3>3
  <2>2. CASE \E k \in 1 .. Len(wire) :
               wire[k].type = "deleted" /\ wire[k].channel = d /\ wire[k].id = id
    BY <1>4, <1>5, <2>2 DEF Follows
  <2> QED
    BY <1>9, <2>1, <2>2 DEF Follows
<1>10. \A k \in 1 .. Len(wire') :
         \/ k \in 1 .. Len(wire) /\ wire'[k] = wire[k]
         \/ (wire[k].type = "added" => Follows(wire[k].channel, wire[k].id))'
  <2> TAKE k \in 1 .. Len(wire')
  <2>1. CASE k \in 1 .. Len(wire)
    BY <1>4, <2>1
  <2>2. CASE k = Len(wire')
    BY <1>4, <2>2
  <2> QED
    BY <1>4, <1>5, <2>1, <2>2
<1>11. ServerTyped'
  BY <1>2, <1>4, <1>6 DEF ServerTyped
<1> QED
  BY <1>2, <1>4, <1>9, <1>10, <1>11 DEF ServerGrows

LEMMA ServerEndsGrows ==
  ASSUME ServerTyped, NEW c \in Channels, ServerEnds(c)
  PROVE  ServerGrows
BY ServerChangesGrows DEF ServerEnds

\* The client has heard nothing yet of a change of the server; a request may
\* have been answered with it.
LEMMA ServerGrowsInv ==
  ASSUME Inv, ServerGrows, UNCHANGED <<client, asked, heard, causes>>,
         \A r \in requests' :
           r \in requests \/ (RequestTyped(r)' /\ RequestFollowed(r)')
  PROVE  Inv'
<1>1. /\ calls \in Nat /\ calls' \in Nat /\ calls <= calls' /\ sent \in Nat
      /\ sent' = sent + 1
      /\ UNCHANGED <<conferences, modal, receiving, parameters, asked, heard, causes>>
  BY DEF Inv, Typed, ServerTyped, ServerGrows, client
<1>2. /\ ConferenceMaps \subseteq ConferenceMaps'
      /\ Receivings \subseteq Receivings'
      /\ Parameters \subseteq Parameters'
      /\ \A r : RequestTyped(r) => RequestTyped(r)'
  BY <1>1, Grown
<1>3. Typed'
  <2>1. heard' \subseteq 1 .. calls'
    BY <1>1 DEF Inv, Typed
  <2>2. \A r \in requests' : RequestTyped(r)'
    BY <1>2 DEF Inv, Typed
  <2> QED
    BY <1>1, <1>2, <2>1, <2>2 DEF Inv, Typed, ServerGrows
<1>4. \A c \in Channels : \A id : Follows(c, id) => Follows(c, id)'
  BY DEF ServerGrows
<1>5. RingFollowed'
  BY <1>1, <1>4 DEF Inv, Typed, RingFollowed, Stored
<1>6. EventsFollowed'
  <2>1. \A k \in 1 .. Len(wire) : wire[k].channel \in Channels
    <3>1. \A k \in 1 .. Len(wire) : wire[k] \in EventRecords
      BY DEF Inv, Typed, ServerTyped
    <3> QED
      BY <3>1 DEF EventRecords
  <2>2. ASSUME NEW k \in 1 .. Len(wire')
        PROVE  (wire[k].type = "added" => Follows(wire[k].channel, wire[k].id) \/ wire[k].id \in heard)'
    <3>1. CASE k \in 1 .. Len(wire) /\ wire'[k] = wire[k]
      BY <1>1, <1>4, <2>1, <3>1 DEF Inv, EventsFollowed
    <3>2. CASE (wire[k].type = "added" => Follows(wire[k].channel, wire[k].id))'
      BY <3>2
    <3> QED
      BY <3>1, <3>2 DEF ServerGrows
  <2> QED
    BY <2>2 DEF EventsFollowed
<1>7. ReceivingFollowed'
  BY <1>1, <1>4 DEF Inv, Typed, Receivings, ReceivingFollowed
<1>8. RequestsFollowed'
  <2>1. ASSUME NEW r \in requests
        PROVE  RequestFollowed(r)'
    <3>1. RequestTyped(r) /\ RequestFollowed(r)
      BY DEF Inv, Typed, RequestsFollowed
    <3>2. r.kind = "meets" /\ r.outcome = "ok" => r.value.sent \in Nat
      BY <3>1 DEF RequestTyped, Snapshots
    <3> QED
      BY <1>1, <1>4, <3>1, <3>2 DEF RequestTyped, RequestFollowed
  <2> QED
    BY <2>1 DEF RequestsFollowed
<1> QED
  BY <1>3, <1>5, <1>6, <1>7, <1>8 DEF Inv

\* What others do, and the end of a conference.
LEMMA ElsewhereInv ==
  ASSUME Inv, ServerGrows, UNCHANGED <<client, requests, asked, heard, causes>>
  PROVE  Inv'
BY ServerGrowsInv

LEMMA OthersInv ==
  ASSUME Inv, NEW c \in Channels, NEW user \in Users,
         \/ OtherStarts(c, user) \/ UserConnects(c, user)
         \/ UserDisconnects(c, user) \/ UserDenies(c, user)
  PROVE  Inv'
<1>1. ServerTyped /\ calls \in Nat /\ live \in ConferenceMaps
  BY DEF Inv, Typed, ServerTyped
<1>2. live[c] # None => live[c] \in Conferences
  BY <1>1 DEF ConferenceMaps
<1>3. CASE OtherStarts(c, user)
  BY <1>1, <1>3, ServerStartsGrows, ElsewhereInv DEF OtherStarts, Elsewhere
<1>4. CASE UserConnects(c, user)
  <2>1. ServerGrows
    BY <1>1, <1>2, <1>4, ChangedProperties, ServerChangesGrows DEF UserConnects
  <2> QED
    BY <1>4, <2>1, ElsewhereInv DEF UserConnects, Elsewhere
<1>5. CASE UserDisconnects(c, user)
  <2>1. live[c] # None
    BY <1>5 DEF UserDisconnects
  <2>2. ServerGrows
    BY <1>1, <1>2, <1>5, <2>1, ChangedProperties, ServerChangesGrows DEF UserDisconnects
  <2> QED
    BY <1>5, <2>2, ElsewhereInv DEF UserDisconnects, Elsewhere
<1>6. CASE UserDenies(c, user)
  <2>1. ServerGrows
    BY <1>1, <1>2, <1>6, ChangedProperties, ServerChangesGrows DEF UserDenies
  <2> QED
    BY <1>6, <2>1, ElsewhereInv DEF UserDenies, Elsewhere
<1> QED
  BY <1>3, <1>4, <1>5, <1>6

LEMMA CallEndsInv ==
  ASSUME Inv, NEW c \in Channels, CallEnds(c)
  PROVE  Inv'
BY ServerEndsGrows, ElsewhereInv DEF CallEnds, Inv, Typed

-----------------------------------------------------------------------------
(* Requests *)

AnswerOf(r, outcome, value) == [r EXCEPT !.outcome = outcome, !.value = value]

LEMMA AnsweredProperties ==
  ASSUME NEW r, RequestTyped(r), NEW outcome \in {"ok", "failed"}, NEW value,
         NEW a, a = AnswerOf(r, outcome, value)
  PROVE  /\ a.kind = r.kind /\ a.channel = r.channel /\ a.id = r.id
         /\ a.outcome = outcome /\ a.value = value
         /\ value \in Conferences \cup Snapshots \cup {None} => a \in RequestRecords
BY DEF AnswerOf, RequestTyped, RequestRecords

\* Nothing changes but the requests.
LEMMA RequestsInv ==
  ASSUME Inv, UNCHANGED <<server, client, heard, causes>>, asked' \in Nat,
         \A r \in requests' : r \in requests \/ (RequestTyped(r) /\ RequestFollowed(r))
  PROVE  Inv'
<1>1. /\ UNCHANGED <<live, calls, wire, sent>>
      /\ UNCHANGED <<conferences, modal, receiving, parameters, heard, causes>>
  BY DEF server, client
<1>2. \A r : RequestTyped(r)' <=> RequestTyped(r)
  BY <1>1 DEF RequestTyped, RequestRecords, Snapshots, ConferenceMaps, Conferences
<1>3. \A r : RequestFollowed(r)' <=> RequestFollowed(r)
  BY <1>1 DEF RequestFollowed, Follows
<1>4. Typed'
  BY <1>1, <1>2
  DEF Inv, Typed, ServerTyped, ConferenceMaps, Conferences, EventRecords, Receivings, Parameters
<1>5. RingFollowed' /\ EventsFollowed' /\ ReceivingFollowed'
  BY <1>1 DEF Inv, RingFollowed, EventsFollowed, ReceivingFollowed, Follows, Stored
<1>6. RequestsFollowed'
  BY <1>3 DEF Inv, RequestsFollowed
<1> QED
  BY <1>4, <1>5, <1>6 DEF Inv

LEMMA UserAsksInv ==
  ASSUME Inv, NEW kind \in {"start", "accept", "decline", "cancel", "meets"},
         NEW c \in Channels \cup {None}, NEW id \in (1 .. calls) \cup {None},
         kind # "meets" => c \in Channels, UserAsks(kind, c, id)
  PROVE  Inv'
<1> DEFINE r == [kind |-> kind, channel |-> c, id |-> id, outcome |-> "none", value |-> None]
<1>1. /\ requests' = requests \cup {r} /\ asked' \in Nat
      /\ UNCHANGED <<server, client, heard, causes>>
  BY DEF UserAsks, Ask, Inv, Typed
<1>2. RequestTyped(r) /\ RequestFollowed(r)
  BY DEF RequestTyped, RequestRecords, RequestFollowed
<1> HIDE DEF r
<1> QED
  BY <1>1, <1>2, RequestsInv

LEMMA StoredProperties ==
  ASSUME Inv, NEW c \in Channels, Stored(c)
  PROVE  conferences[c] \in Conferences /\ conferences[c].id \in 1 .. calls
<1>1. conferences[c] \in Conferences
  BY DEF Inv, Typed, ConferenceMaps, Stored
<1> QED
  BY <1>1 DEF Conferences

LEMMA UserInv ==
  ASSUME Inv,
         \/ \E c \in Channels : StartCall(c) \/ JoinCall(c)
         \/ DeclineCall \/ CancelCall \/ GetMyMeets
  PROVE  Inv'
<1>1. ASSUME NEW c \in Channels, StartCall(c)
      PROVE  Inv'
  BY <1>1, UserAsksInv DEF StartCall
<1>2. ASSUME NEW c \in Channels, JoinCall(c)
      PROVE  Inv'
  BY <1>2, StoredProperties, UserAsksInv DEF JoinCall
<1>3. modal \in Channels \cup {None}
  BY DEF Inv, Typed
<1>4. CASE DeclineCall
  BY <1>3, <1>4, StoredProperties, UserAsksInv DEF DeclineCall
<1>5. CASE CancelCall
  BY <1>3, <1>5, StoredProperties, UserAsksInv DEF CancelCall
<1>6. CASE GetMyMeets
  BY <1>6, UserAsksInv DEF GetMyMeets
<1> QED
  BY <1>1, <1>2, <1>4, <1>5, <1>6

LEMMA ServerAnswersInv ==
  ASSUME Inv, NEW r \in requests, ServerAnswers(r)
  PROVE  Inv'
<1>1. /\ ServerTyped /\ RequestTyped(r) /\ calls \in Nat /\ live \in ConferenceMaps
      /\ sent \in Nat
  BY DEF Inv, Typed, ServerTyped
<1>2. r.kind # "meets" => r.channel \in Channels
  BY <1>1 DEF RequestTyped
<1>3. live[r.channel] # None /\ r.channel \in Channels => live[r.channel] \in Conferences
  BY <1>1 DEF ConferenceMaps
<1>4. UNCHANGED <<client, asked, heard, causes>>
  BY DEF ServerAnswers, ServerAnswersStart, ServerAnswersAccept, ServerAnswersDecline,
         ServerAnswersCancel, ServerAnswersMeets, RequestFails, Answerable
<1>5. CASE ServerAnswersStart(r)
  <2>9. PICK x : x = Conference(calls', Me)
    OBVIOUS
  <2>10. PICK a : a = AnswerOf(r, "ok", x)
    OBVIOUS
  <2>1. ServerGrows /\ calls' \in 1 .. calls' /\ \A id : id = calls' => Follows(r.channel, id)'
    BY <1>1, <1>2, <1>5, ServerStartsGrows DEF ServerAnswersStart
  <2>2. x \in Conferences' /\ x.id = calls'
    BY <2>1, <2>9 DEF Conference, Conferences
  <2>3. r.kind = "start" /\ requests' = (requests \ {r}) \cup {a}
    BY <1>5, <2>9, <2>10 DEF ServerAnswersStart, Answered, AnswerOf
  <2>4. a.kind = "start" /\ a.channel = r.channel /\ a.id = r.id /\ a.outcome = "ok" /\ a.value = x
    BY <1>1, <2>3, <2>10, AnsweredProperties
  <2>5. RequestTyped(r)'
    BY <1>1, <2>1, Grown DEF ServerGrows, ServerTyped
  <2>6. a \in RequestRecords'
    BY <2>2, <2>5, <2>10 DEF AnswerOf, RequestTyped, RequestRecords
  <2>7. RequestTyped(a)'
    BY <1>2, <2>2, <2>3, <2>4, <2>6 DEF RequestTyped
  <2>8. RequestFollowed(a)'
    BY <2>1, <2>2, <2>4 DEF RequestFollowed
  <2> QED
    BY <1>4, <2>1, <2>3, <2>7, <2>8, ServerGrowsInv
<1>6. ASSUME NEW outcome \in {"ok", "failed"}, NEW value \in {None} \cup Snapshots,
             Answered(r, outcome, value), UNCHANGED server,
             outcome = "ok" => r.kind # "start",
             outcome = "ok" /\ r.kind = "meets" =>
               value \in Snapshots /\ value.sent = sent /\ value.live = live
      PROVE  Inv'
  <2>6. PICK a : a = AnswerOf(r, outcome, value)
    OBVIOUS
  <2>1. requests' = (requests \ {r}) \cup {a}
    BY <1>6, <2>6 DEF Answered, AnswerOf
  <2>2. /\ a.kind = r.kind /\ a.channel = r.channel /\ a.outcome = outcome /\ a.value = value
        /\ a \in RequestRecords
    BY <1>1, <2>6, AnsweredProperties
  <2>3. RequestTyped(a)
    BY <1>2, <1>6, <2>2 DEF RequestTyped
  <2>4. RequestFollowed(a)
    BY <1>1, <1>6, <2>2 DEF RequestFollowed
  <2>5. asked' \in Nat
    BY <1>4 DEF Inv, Typed
  <2> QED
    BY <1>4, <1>6, <2>1, <2>3, <2>4, <2>5, RequestsInv
<1>7. CASE ServerAnswersAccept(r)
  BY <1>6, <1>7 DEF ServerAnswersAccept
<1>8. CASE RequestFails(r)
  BY <1>6, <1>8 DEF RequestFails
<1>9. CASE ServerAnswersMeets(r)
  <2> DEFINE v == [live |-> live, sent |-> sent]
  <2>1. v \in Snapshots /\ v.sent = sent /\ v.live = live
    BY <1>1 DEF Snapshots
  <2>2. r.kind = "meets" /\ Answered(r, "ok", v) /\ UNCHANGED server
    BY <1>9 DEF ServerAnswersMeets
  <2> HIDE DEF v
  <2> QED
    BY <1>6, <2>1, <2>2
<1>10. CASE ServerAnswersDecline(r) \/ ServerAnswersCancel(r)
  <2>7. PICK a : a = AnswerOf(r, "ok", None)
    OBVIOUS
  <2>1. /\ r.kind \in {"decline", "cancel"} /\ live[r.channel] # None
        /\ requests' = (requests \ {r}) \cup {a}
    BY <1>10, <2>7 DEF ServerAnswersDecline, ServerAnswersCancel, IsLive, Answered, AnswerOf
  <2>2. ServerGrows
    <3>1. CASE ServerAnswersDecline(r)
      BY <1>1, <1>2, <1>3, <2>1, <3>1, ChangedProperties, ServerChangesGrows
      DEF ServerAnswersDecline
    <3>2. CASE ServerAnswersCancel(r)
      BY <1>1, <1>2, <2>1, <3>2, ServerEndsGrows DEF ServerAnswersCancel
    <3> QED
      BY <1>10, <3>1, <3>2
  <2>3. a.kind = r.kind /\ a.channel = r.channel /\ a \in RequestRecords
    BY <1>1, <2>7, AnsweredProperties
  <2>4. RequestTyped(a)
    BY <1>2, <2>1, <2>3 DEF RequestTyped
  <2>5. RequestTyped(a)'
    BY <1>1, <2>2, <2>4, Grown DEF ServerGrows, ServerTyped
  <2>6. RequestFollowed(a)'
    BY <2>1, <2>3 DEF RequestFollowed
  <2> QED
    BY <1>4, <2>1, <2>2, <2>5, <2>6, ServerGrowsInv
<1> QED
  BY <1>5, <1>7, <1>8, <1>9, <1>10 DEF ServerAnswers

-----------------------------------------------------------------------------
(* The client *)

\* What the store and the modal become.
LEMMA ShowsProperties ==
  ASSUME NEW ringing \in Channels \cup {None}, NEW stored, Shows(ringing, stored)
  PROVE  conferences' = stored /\ modal' \in {None, ringing} /\ modal' \in Channels \cup {None}
BY DEF Shows

LEMMA WithProperties ==
  ASSUME conferences \in ConferenceMaps, NEW c \in Channels, NEW x \in Conferences \cup {None}
  PROVE  /\ With(c, x) \in ConferenceMaps
         /\ With(c, x)[c] = x
         /\ \A d \in Channels : d # c => With(c, x)[d] = conferences[d]
BY DEF With, ConferenceMaps

\* The store with the conferences it had.
Keeps(stored) ==
  /\ stored \in ConferenceMaps
  /\ \A d \in Channels :
       conferences[d] # None => stored[d] # None /\ stored[d].id = conferences[d].id

LEMMA WithRegistrantKeeps ==
  ASSUME calls \in Nat, conferences \in ConferenceMaps, NEW c \in Channels, NEW x,
         Stored(c) => x \in Conferences /\ x.id = conferences[c].id
  PROVE  Keeps(WithRegistrant(c, x))
<1>1. CASE Stored(c)
  <2>1. x \in Conferences /\ x # None
    BY <1>1, ConferenceProperties
  <2> QED
    BY <1>1, <2>1, WithProperties DEF WithRegistrant, Keeps
<1>2. CASE ~Stored(c)
  BY <1>2 DEF WithRegistrant, Keeps
<1> QED
  BY <1>1, <1>2

\* A step of the client that takes no event.
LEMMA ClientInv ==
  ASSUME Inv, UNCHANGED server, RingFollowed',
         conferences' \in ConferenceMaps, modal' \in Channels \cup {None},
         \A r \in receiving' :
           r \in Receivings /\ \E o \in receiving : r.channel = o.channel /\ r.call = o.call,
         parameters' \in Parameters, requests' \subseteq requests, asked' = asked,
         heard' = heard, causes' \subseteq {"late", "meets", "failed"}
  PROVE  Inv'
<1>1. UNCHANGED <<live, calls, wire, sent>>
  BY DEF server
<1>2. /\ ConferenceMaps' = ConferenceMaps /\ Receivings' = Receivings
      /\ Parameters' = Parameters /\ EventRecords' = EventRecords
      /\ \A r : RequestTyped(r)' <=> RequestTyped(r)
  BY <1>1
  DEF ConferenceMaps, Receivings, Parameters, EventRecords, Conferences, RequestTyped,
      RequestRecords, Snapshots
<1>3. ServerTyped'
  BY <1>1, <1>2 DEF Inv, Typed, ServerTyped
<1>4. Typed'
  BY <1>1, <1>2, <1>3 DEF Inv, Typed
<1>5. \A c, id : Follows(c, id)' <=> Follows(c, id)
  BY <1>1 DEF Follows
<1>6. EventsFollowed'
  BY <1>1, <1>5 DEF Inv, EventsFollowed
<1>7. ReceivingFollowed'
  BY <1>5 DEF Inv, ReceivingFollowed
<1>8. RequestsFollowed'
  BY <1>1, <1>5 DEF Inv, RequestsFollowed, RequestFollowed
<1> QED
  BY <1>4, <1>6, <1>7, <1>8 DEF Inv

\* The modal rings on, or closes, with the conferences there were.
LEMMA RingKept ==
  ASSUME Inv, UNCHANGED server, causes \subseteq causes',
         NEW ringing \in {None, modal}, NEW stored, Keeps(stored), Shows(ringing, stored)
  PROVE  RingFollowed'
<1>1. conferences' = stored /\ modal' \in {None, modal}
  BY ShowsProperties DEF Inv, Typed
<1>2. ASSUME causes' = {}, modal' # None
      PROVE  Stored(modal)' /\ Follows(modal, conferences[modal].id)'
  <2>1. causes = {} /\ modal \in Channels /\ modal' = modal
    BY <1>1, <1>2 DEF Inv, Typed
  <2>2. Stored(modal) /\ Follows(modal, conferences[modal].id)
    BY <1>1, <1>2, <2>1 DEF Inv, RingFollowed
  <2>3. stored[modal] # None /\ stored[modal].id = conferences[modal].id
    BY <2>1, <2>2 DEF Keeps, Stored
  <2> QED
    BY <1>1, <2>1, <2>2, <2>3 DEF Stored, Follows, server
<1> QED
  BY <1>2 DEF RingFollowed

LEMMA SameKeeps == Inv => Keeps(conferences)
BY DEF Inv, Typed, Keeps

LEMMA CloseModalInv ==
  ASSUME Inv, CloseModal
  PROVE  Inv'
<1>1. /\ Shows(None, conferences)
      /\ UNCHANGED <<server, receiving, parameters, requests, asked, heard, causes>>
  BY DEF CloseModal
<1>2. RingFollowed'
  BY <1>1, SameKeeps, RingKept
<1>3. conferences' = conferences /\ modal' = None
  BY <1>1, ShowsProperties
<1> QED
  BY <1>1, <1>2, <1>3, ClientInv DEF Inv, Typed

LEMMA ChannelFetchedInv ==
  ASSUME Inv, NEW r \in receiving, ChannelFetched(r)
  PROVE  Inv'
<1> DEFINE a == [r EXCEPT !.fetched = TRUE]
<1>1. /\ receiving' = (receiving \ {r}) \cup {a}
      /\ UNCHANGED <<server, conferences, modal, requests, asked, heard, causes>>
  BY DEF ChannelFetched
<1>2. r \in Receivings /\ receiving \subseteq Receivings /\ parameters \in Parameters
  BY DEF Inv, Typed
<1>3. a \in Receivings /\ a.channel = r.channel /\ a.call = r.call
  BY <1>2 DEF Receivings
<1>4. parameters' \in Parameters
  BY <1>2 DEF ChannelFetched, Parameters, Receivings
<1> HIDE DEF a
<1>5. RingFollowed'
  BY <1>1 DEF Inv, RingFollowed, Stored, Follows, server
<1> QED
  BY <1>1, <1>2, <1>3, <1>4, <1>5, ClientInv DEF Inv, Typed

\* What is stored rings, or not; what rang rings on.
LEMMA StoredRings ==
  ASSUME Inv, UNCHANGED server, causes \subseteq causes',
         NEW c \in Channels, NEW x \in Conferences,
         causes' = {} => Follows(c, x.id),
         NEW ringing \in {modal, c}, Shows(ringing, With(c, x))
  PROVE  RingFollowed'
<1>1. /\ modal \in Channels \cup {None} /\ conferences \in ConferenceMaps /\ calls \in Nat
  BY DEF Inv, Typed, ServerTyped
<1>2. conferences' = With(c, x) /\ modal' \in {None, ringing}
  BY <1>1, ShowsProperties
<1>3. /\ conferences'[c] = x /\ x # None
      /\ \A d \in Channels : d # c => conferences'[d] = conferences[d]
  BY <1>1, <1>2, WithProperties, ConferenceProperties
<1>4. ASSUME causes' = {}, modal' # None
      PROVE  Stored(modal)' /\ Follows(modal, conferences[modal].id)'
  <2>1. CASE modal' = c
    BY <1>3, <1>4, <2>1 DEF Stored, Follows, server
  <2>2. CASE modal' # c
    <3>1. modal' = modal /\ modal \in Channels /\ causes = {}
      BY <1>1, <1>2, <1>4, <2>2
    <3>2. Stored(modal) /\ Follows(modal, conferences[modal].id)
      BY <1>4, <3>1 DEF Inv, RingFollowed
    <3> QED
      BY <1>3, <2>2, <3>1, <3>2 DEF Stored, Follows, server
  <2> QED
    BY <2>1, <2>2
<1> QED
  BY <1>4 DEF RingFollowed

LEMMA LateProperties ==
  ASSUME NEW id, Late(id)
  PROVE  /\ causes \subseteq causes'
         /\ causes' \subseteq causes \cup {"late"}
         /\ causes' = {} => id \notin heard
BY DEF Late

LEMMA ReceivedInv ==
  ASSUME Inv, NEW r \in receiving, Received(r)
  PROVE  Inv'
<1>1. /\ receiving' = receiving \ {r} /\ Late(r.call.id)
      /\ UNCHANGED <<server, requests, asked, heard>>
  BY DEF Received
<1>2. PICK ringing \in {modal, r.channel} : Shows(ringing, With(r.channel, r.call))
  BY DEF Received, Dialing
<1>3. r \in Receivings /\ receiving \subseteq Receivings /\ parameters \in Parameters
      /\ conferences \in ConferenceMaps /\ modal \in Channels \cup {None} /\ calls \in Nat
  BY DEF Inv, Typed, ServerTyped
<1>4. r.channel \in Channels /\ r.call \in Conferences
  BY <1>3 DEF Receivings
<1>5. r.call.id \in 0 .. calls
  BY <1>3, <1>4, ConferenceProperties
<1>6. parameters' \in Parameters
  BY <1>3, <1>5 DEF Received, Parameters
<1>7. /\ causes \subseteq causes' /\ causes' \subseteq causes \cup {"late"}
      /\ causes' = {} => r.call.id \notin heard
  BY <1>1, LateProperties
<1>8. causes' = {} => Follows(r.channel, r.call.id)
  BY <1>7 DEF Inv, ReceivingFollowed
<1>9. RingFollowed'
  BY <1>1, <1>2, <1>4, <1>7, <1>8, StoredRings
<1>10. conferences' \in ConferenceMaps /\ modal' \in Channels \cup {None}
  BY <1>2, <1>3, <1>4, ShowsProperties, WithProperties
<1>11. causes' \subseteq {"late", "meets", "failed"}
  BY <1>7 DEF Inv, Typed
<1> QED
  BY <1>1, <1>3, <1>6, <1>9, <1>10, <1>11, ClientInv

\* A request returns.
LEMMA ReturnsInv ==
  ASSUME Inv, NEW r \in requests,
         requests' = requests \ {r}, UNCHANGED <<server, receiving, parameters, asked, heard>>,
         RingFollowed', conferences' \in ConferenceMaps, modal' \in Channels \cup {None},
         causes' \subseteq {"late", "meets", "failed"}
  PROVE  Inv'
BY ClientInv DEF Inv, Typed

LEMMA CallStartedInv ==
  ASSUME Inv, NEW r \in requests, CallStarted(r)
  PROVE  Inv'
<1>1. /\ r.kind = "start" /\ r.outcome = "ok" /\ requests' = requests \ {r}
      /\ UNCHANGED <<server, receiving, parameters, asked, heard>>
      /\ Late(r.value.id)
  BY DEF CallStarted, Returns
<1>2. RequestTyped(r) /\ RequestFollowed(r)
  BY DEF Inv, Typed, RequestsFollowed
<1>3. r.channel \in Channels /\ r.value \in Conferences
  BY <1>1, <1>2 DEF RequestTyped
<1>4. PICK ringing \in {modal, r.channel} : Shows(ringing, With(r.channel, r.value))
  BY DEF CallStarted, Dialing
<1>5. conferences \in ConferenceMaps /\ modal \in Channels \cup {None}
  BY DEF Inv, Typed
<1>6. /\ causes \subseteq causes' /\ causes' \subseteq causes \cup {"late"}
      /\ causes' = {} => r.value.id \notin heard
  BY <1>1, LateProperties
<1>7. causes' = {} => Follows(r.channel, r.value.id)
  BY <1>1, <1>2, <1>6 DEF RequestFollowed
<1>8. RingFollowed'
  BY <1>1, <1>3, <1>4, <1>6, <1>7, StoredRings
<1>9. conferences' \in ConferenceMaps /\ modal' \in Channels \cup {None}
  BY <1>3, <1>4, <1>5, ShowsProperties, WithProperties
<1>10. causes' \subseteq {"late", "meets", "failed"}
  BY <1>6 DEF Inv, Typed
<1> QED
  BY <1>1, <1>8, <1>9, <1>10, ReturnsInv

LEMMA JoinedDeclinedOrCanceledInv ==
  ASSUME Inv, NEW r \in requests, JoinedDeclinedOrCanceled(r)
  PROVE  Inv'
<1>1. /\ requests' = requests \ {r}
      /\ UNCHANGED <<server, receiving, parameters, asked, heard, causes>>
      /\ Shows(None, conferences)
  BY DEF JoinedDeclinedOrCanceled, Returns
<1>2. RingFollowed'
  BY <1>1, SameKeeps, RingKept
<1>3. conferences' = conferences /\ modal' = None
  BY <1>1, ShowsProperties
<1> QED
  BY <1>1, <1>2, <1>3, ReturnsInv DEF Inv, Typed

\* deleteConference takes the conference of a channel that does not ring, and
\* ends the ringing of one that does.
LEMMA DeleteConferenceShows ==
  ASSUME Inv, NEW c \in Channels, NEW ringing \in {None, modal}, DeleteConference(c, ringing)
  PROVE  /\ conferences' \in ConferenceMaps
         /\ modal' \in {None, modal} \ {c}
         /\ modal' # None => conferences'[modal'] = conferences[modal']
<1>1. conferences \in ConferenceMaps /\ modal \in Channels \cup {None}
  BY DEF Inv, Typed
<1>2. CASE ringing = c
  <2>1. conferences' = conferences /\ modal' = None
    BY <1>2, ShowsProperties DEF DeleteConference
  <2> QED
    BY <1>1, <2>1
<1>3. CASE ringing # c
  <2>1. conferences' = With(c, None) /\ modal' \in {None, ringing}
    BY <1>1, <1>3, ShowsProperties DEF DeleteConference
  <2> QED
    BY <1>1, <1>3, <2>1, WithProperties
<1> QED
  BY <1>2, <1>3

LEMMA JoinFailsInv ==
  ASSUME Inv, NEW r \in requests, JoinFails(r)
  PROVE  Inv'
<1>1. /\ requests' = requests \ {r} /\ r.kind = "accept"
      /\ UNCHANGED <<server, receiving, parameters, asked, heard>>
      /\ DeleteConference(r.channel, modal)
      /\ causes' = IF live[r.channel] # None THEN causes \cup {"failed"} ELSE causes
  BY DEF JoinFails, Returns
<1>2. r.channel \in Channels
  BY <1>1 DEF Inv, Typed, RequestTyped
<1>3. /\ conferences' \in ConferenceMaps
      /\ modal' \in {None, modal} \ {r.channel}
      /\ modal' # None => conferences'[modal'] = conferences[modal']
  BY <1>1, <1>2, DeleteConferenceShows
<1>4. RingFollowed'
  <2>1. causes' = {} => causes = {}
    BY <1>1
  <2> QED
    BY <1>1, <1>3, <2>1 DEF Inv, RingFollowed, Stored, Follows, server
<1>5. modal' \in Channels \cup {None} /\ causes' \subseteq {"late", "meets", "failed"}
  BY <1>1, <1>3 DEF Inv, Typed
<1> QED
  BY <1>1, <1>3, <1>4, <1>5, ReturnsInv

LEMMA OthersFailInv ==
  ASSUME Inv, NEW r \in requests, OthersFail(r)
  PROVE  Inv'
<1>1. /\ requests' = requests \ {r}
      /\ UNCHANGED <<server, receiving, parameters, asked, heard>>
      /\ UNCHANGED <<conferences, modal, causes>>
  BY DEF OthersFail, Returns
<1>2. RingFollowed'
  BY <1>1 DEF Inv, RingFollowed, Stored, Follows, server
<1> QED
  BY <1>1, <1>2, ReturnsInv DEF Inv, Typed

\* The conferences of the server take the place of the stored ones: what rings
\* goes on there, if nothing is on its way.
LEMMA MeetsReceivedInv ==
  ASSUME Inv, NEW r \in requests, MeetsReceived(r)
  PROVE  Inv'
<1>1. /\ r.kind = "meets" /\ r.outcome = "ok" /\ requests' = requests \ {r}
      /\ UNCHANGED <<server, receiving, parameters, asked, heard>>
      /\ Shows(modal, r.value.live)
      /\ causes' = IF r.value.sent = sent /\ wire = <<>> /\ receiving = {}
                   THEN causes ELSE causes \cup {"meets"}
  BY DEF MeetsReceived, Returns
<1>2. RequestTyped(r) /\ RequestFollowed(r) /\ modal \in Channels \cup {None}
  BY DEF Inv, Typed, RequestsFollowed
<1>3. r.value.live \in ConferenceMaps
  BY <1>1, <1>2 DEF RequestTyped, Snapshots
<1>4. conferences' = r.value.live /\ modal' \in {None, modal} /\ modal' \in Channels \cup {None}
  BY <1>1, <1>2, ShowsProperties
<1>5. ASSUME causes' = {}, modal' # None
      PROVE  Stored(modal)' /\ Follows(modal, conferences[modal].id)'
  <2>1. /\ causes = {} /\ modal' = modal /\ modal # None
        /\ r.value.sent = sent /\ wire = <<>>
    BY <1>1, <1>4, <1>5
  <2>2. conferences' = live
    BY <1>1, <1>2, <1>4, <2>1 DEF RequestFollowed
  <2>3. Follows(modal, conferences[modal].id)
    BY <2>1 DEF Inv, RingFollowed
  <2>4. Len(wire) = 0
    BY <2>1
  <2>5. live[modal] # None
    BY <2>3, <2>4 DEF Follows
  <2> QED
    BY <1>1, <2>1, <2>2, <2>5 DEF Stored, Follows, server
<1>6. RingFollowed'
  BY <1>5 DEF RingFollowed
<1>7. causes' \subseteq {"late", "meets", "failed"}
  BY <1>1 DEF Inv, Typed
<1> QED
  BY <1>1, <1>3, <1>4, <1>6, <1>7, ReturnsInv

LEMMA RequestEndsInv ==
  ASSUME Inv, NEW r \in requests, RequestEnds(r)
  PROVE  Inv'
BY CallStartedInv, JoinedDeclinedOrCanceledInv, JoinFailsInv, OthersFailInv, MeetsReceivedInv
DEF RequestEnds

-----------------------------------------------------------------------------
(* Events *)

\* The end of a conference stays on the wire until it is handled.
LEMMA TailFollows ==
  ASSUME Inv, wire # <<>>, wire' = Tail(wire), live' = live, NEW c, NEW id, Follows(c, id),
         ~(Head(wire).type = "deleted" /\ Head(wire).channel = c /\ Head(wire).id = id)
  PROVE  Follows(c, id)'
<1>1. wire \in Seq(EventRecords)
  BY DEF Inv, Typed, ServerTyped
<1>2. /\ Len(wire) \in Nat \ {0} /\ Len(wire') = Len(wire) - 1
      /\ \A k \in 1 .. Len(wire') : wire'[k] = wire[k + 1]
      /\ Head(wire) = wire[1]
  BY <1>1
<1>3. CASE live[c] # None /\ live[c].id = id
  BY <1>3 DEF Follows
<1>4. CASE \E k \in 1 .. Len(wire) :
             wire[k].type = "deleted" /\ wire[k].channel = c /\ wire[k].id = id
  <2>1. PICK k \in 1 .. Len(wire) :
               wire[k].type = "deleted" /\ wire[k].channel = c /\ wire[k].id = id
    BY <1>4
  <2>2. k # 1
    BY <1>2, <2>1
  <2>3. k - 1 \in 1 .. Len(wire') /\ wire'[k - 1] = wire[k]
    BY <1>2, <2>2
  <2> QED
    BY <2>1, <2>3 DEF Follows
<1> QED
  BY <1>3, <1>4 DEF Follows

\* An event is taken from the wire.
LEMMA EventInv ==
  ASSUME Inv, wire # <<>>, wire' = Tail(wire), UNCHANGED <<live, calls, sent, asked, causes>>,
         NEW e, e = Head(wire),
         heard \subseteq heard', heard' \subseteq 1 .. calls,
         e.type = "deleted" => e.id \in heard',
         RingFollowed', conferences' \in ConferenceMaps, modal' \in Channels \cup {None},
         \A r \in receiving' :
           \/ r \in receiving
           \/ r \in Receivings /\ e.type = "added" /\ r.channel = e.channel /\ r.call.id = e.id,
         parameters' = parameters,
         \A r \in requests' : r \in requests \/ (RequestTyped(r) /\ r.outcome = "none")
  PROVE  Inv'
<1>1. wire \in Seq(EventRecords) /\ Len(wire) <= sent /\ calls \in Nat /\ sent \in Nat
  BY DEF Inv, Typed, ServerTyped
<1>2. /\ Len(wire) \in Nat \ {0} /\ Len(wire') = Len(wire) - 1
      /\ \A k \in 1 .. Len(wire') : wire'[k] = wire[k + 1] /\ k + 1 \in 1 .. Len(wire)
      /\ e = wire[1] /\ 1 \in 1 .. Len(wire) /\ wire' \in Seq(EventRecords)
  BY <1>1
<1>3. /\ ConferenceMaps' = ConferenceMaps /\ Receivings' = Receivings
      /\ Parameters' = Parameters /\ EventRecords' = EventRecords
      /\ \A r : RequestTyped(r)' <=> RequestTyped(r)
  BY DEF ConferenceMaps, Receivings, Parameters, EventRecords, Conferences, RequestTyped,
         RequestRecords, Snapshots
<1>4. ServerTyped'
  <2>1. \A k \in 1 .. Len(wire') : wire'[k].type # "deleted" => wire'[k].user \in Users
    BY <1>2 DEF Inv, Typed, ServerTyped
  <2> QED
    BY <1>1, <1>2, <1>3, <2>1 DEF Inv, Typed, ServerTyped
<1>5. Typed'
  BY <1>3, <1>4 DEF Inv, Typed
<1>6. ASSUME NEW c, NEW id, Follows(c, id) \/ id \in heard
      PROVE  Follows(c, id)' \/ id \in heard'
  BY <1>6, TailFollows
<1>7. EventsFollowed'
  BY <1>2, <1>6 DEF Inv, EventsFollowed
<1>8. ReceivingFollowed'
  BY <1>2, <1>6 DEF Inv, EventsFollowed, ReceivingFollowed
<1>9. RequestsFollowed'
  BY <1>6 DEF Inv, RequestsFollowed, RequestFollowed
<1> QED
  BY <1>5, <1>7, <1>8, <1>9 DEF Inv

\* What rings is not touched by an event that is not the end of a conference.
LEMMA EventKeepsRing ==
  ASSUME Inv, wire # <<>>, wire' = Tail(wire), live' = live, causes' = causes,
         Head(wire).type # "deleted", Keeps(conferences'), modal' \in {None, modal}
  PROVE  RingFollowed'
<1> SUFFICES ASSUME causes' = {}, modal' # None
             PROVE  Stored(modal)' /\ Follows(modal, conferences[modal].id)'
  BY DEF RingFollowed
<1>1. causes = {} /\ modal' = modal /\ modal \in Channels
  BY DEF Inv, Typed
<1>2. Stored(modal) /\ Follows(modal, conferences[modal].id)
  BY <1>1 DEF Inv, RingFollowed
<1>3. conferences'[modal] # None /\ conferences'[modal].id = conferences[modal].id
  BY <1>1, <1>2 DEF Keeps, Stored
<1>4. PICK m, id : m = modal /\ id = conferences[modal].id
  OBVIOUS
<1>5. Follows(m, id)'
  BY <1>2, <1>4, TailFollows
<1> QED
  BY <1>1, <1>3, <1>4, <1>5 DEF Stored, Follows

LEMMA AskProperties ==
  ASSUME Inv, NEW c \in Channels, Stored(c), Ask("accept", c, conferences[c].id)
  PROVE  \A r \in requests' : r \in requests \/ (RequestTyped(r) /\ r.outcome = "none")
<1> DEFINE a == [kind |-> "accept", channel |-> c, id |-> conferences[c].id,
                 outcome |-> "none", value |-> None]
<1>1. requests' = requests \cup {a}
  BY DEF Ask
<1>2. conferences[c].id \in 1 .. calls
  BY StoredProperties
<1>3. RequestTyped(a) /\ a.outcome = "none"
  BY <1>2 DEF RequestTyped, RequestRecords
<1> HIDE DEF a
<1> QED
  BY <1>1, <1>3

LEMMA HandleEventInv ==
  ASSUME Inv, HandleEvent
  PROVE  Inv'
<1>1. PICK e : e = Head(wire)
  OBVIOUS
<1>2. /\ wire # <<>> /\ wire' = Tail(wire)
      /\ UNCHANGED <<live, calls, sent, asked, causes>>
      /\ \/ HandleReceiveCall(e)
         \/ HandleConferenceUserConnected(e)
         \/ HandleConferenceUserDisconnected(e)
         \/ HandleConferenceUserDenied(e)
         \/ HandleConferenceDeleted(e)
  BY <1>1 DEF HandleEvent
<1>3. e \in EventRecords /\ (e.type # "deleted" => e.user \in Users)
  <2>1. wire \in Seq(EventRecords)
    BY DEF Inv, Typed, ServerTyped
  <2>2. 1 \in 1 .. Len(wire) /\ e = wire[1]
    BY <1>1, <1>2, <2>1
  <2> QED
    BY <2>1, <2>2 DEF Inv, Typed, ServerTyped
<1>4. e.channel \in Channels /\ e.id \in 1 .. calls /\ calls \in Nat
  BY <1>3 DEF EventRecords, Inv, Typed, ServerTyped
<1>5. /\ conferences \in ConferenceMaps /\ modal \in Channels \cup {None}
      /\ heard \subseteq 1 .. calls
  BY DEF Inv, Typed
<1>6. CASE HandleReceiveCall(e)
  <2> DEFINE w == [channel |-> e.channel, call |-> Conference(e.id, e.user), fetched |-> FALSE]
  <2>1. /\ e.type = "added" /\ receiving' = receiving \cup {w}
        /\ UNCHANGED <<conferences, modal, parameters, requests, heard>>
    BY <1>6 DEF HandleReceiveCall
  <2>2. w \in Receivings /\ w.channel = e.channel /\ w.call.id = e.id
    BY <1>3, <1>4, <2>1, ConferenceProperties DEF Receivings
  <2> HIDE DEF w
  <2>3. RingFollowed'
    <3>1. Keeps(conferences') /\ modal' \in {None, modal}
      BY <2>1, SameKeeps
    <3> QED
      BY <1>1, <1>2, <2>1, <3>1, EventKeepsRing
  <2> QED
    BY <1>1, <1>2, <1>5, <2>1, <2>2, <2>3, EventInv
<1>7. ASSUME NEW ringing \in {None, modal}, NEW x, e.type # "deleted",
             Stored(e.channel) => x \in Conferences /\ x.id = conferences[e.channel].id,
             Shows(ringing, WithRegistrant(e.channel, x)),
             heard' = heard \cup {e.id}, UNCHANGED <<receiving, parameters>>,
             \A r \in requests' : r \in requests \/ (RequestTyped(r) /\ r.outcome = "none")
      PROVE  Inv'
  <2>1. /\ conferences' = WithRegistrant(e.channel, x)
        /\ modal' \in {None, modal} /\ modal' \in Channels \cup {None}
    BY <1>5, <1>7, ShowsProperties
  <2>2. Keeps(conferences')
    BY <1>4, <1>5, <1>7, <2>1, WithRegistrantKeeps
  <2>3. RingFollowed'
    BY <1>1, <1>2, <1>7, <2>1, <2>2, EventKeepsRing
  <2>4. conferences' \in ConferenceMaps
    BY <2>2 DEF Keeps
  <2>5. heard \subseteq heard' /\ heard' \subseteq 1 .. calls
    BY <1>4, <1>5, <1>7
  <2> QED
    BY <1>1, <1>2, <1>7, <2>1, <2>3, <2>4, <2>5, EventInv
<1>8. Stored(e.channel) => conferences[e.channel] \in Conferences
  BY <1>4, StoredProperties
<1>9. CASE HandleConferenceUserConnected(e)
  <2>1. PICK ringing \in {None, modal} :
          Shows(ringing, WithRegistrant(e.channel, Joined(conferences[e.channel], e.user)))
    BY <1>9 DEF HandleConferenceUserConnected
  <2>2. /\ e.type = "connected" /\ heard' = heard \cup {e.id}
        /\ UNCHANGED <<receiving, parameters>>
    BY <1>9 DEF HandleConferenceUserConnected
  <2>3. \/ requests' = requests
        \/ Stored(e.channel) /\ Ask("accept", e.channel, conferences[e.channel].id)
    BY <1>9 DEF HandleConferenceUserConnected
  <2>4. \A r \in requests' : r \in requests \/ (RequestTyped(r) /\ r.outcome = "none")
    BY <1>4, <2>3, AskProperties
  <2> QED
    BY <1>3, <1>4, <1>7, <1>8, <2>1, <2>2, <2>4, ChangedProperties
<1>10. CASE HandleConferenceUserDisconnected(e)
  BY <1>3, <1>4, <1>7, <1>8, <1>10, ChangedProperties DEF HandleConferenceUserDisconnected
<1>11. CASE HandleConferenceUserDenied(e)
  <2>1. PICK ringing \in {None, modal} :
          Shows(ringing, WithRegistrant(e.channel, Denied(conferences[e.channel], e.user)))
    BY <1>11 DEF HandleConferenceUserDenied
  <2>2. /\ e.type = "denied" /\ heard' = heard \cup {e.id}
        /\ UNCHANGED <<receiving, parameters, requests>>
    BY <1>11 DEF HandleConferenceUserDenied
  <2> QED
    BY <1>3, <1>4, <1>7, <1>8, <2>1, <2>2, ChangedProperties
<1>12. CASE HandleConferenceDeleted(e)
  <2>1. /\ e.type = "deleted" /\ heard' = heard \cup {e.id}
        /\ UNCHANGED <<receiving, parameters, requests>>
    BY <1>12 DEF HandleConferenceDeleted
  <2>2. PICK ringing \in {None, modal} : DeleteConference(e.channel, ringing)
    BY <1>12 DEF HandleConferenceDeleted
  <2>3. /\ conferences' \in ConferenceMaps
        /\ modal' \in {None, modal} \ {e.channel}
        /\ modal' # None => conferences'[modal'] = conferences[modal']
    BY <1>4, <2>2, DeleteConferenceShows
  <2>4. ASSUME causes' = {}, modal' # None
        PROVE  Stored(modal)' /\ Follows(modal, conferences[modal].id)'
    <3>1. causes = {} /\ modal' = modal /\ modal # e.channel
      BY <1>2, <2>3, <2>4
    <3>2. Stored(modal) /\ Follows(modal, conferences[modal].id)
      BY <2>4, <3>1 DEF Inv, RingFollowed
    <3>3. conferences'[modal] = conferences[modal]
      BY <2>3, <2>4, <3>1
    <3>4. PICK m, id : m = modal /\ id = conferences[modal].id
      OBVIOUS
    <3>5. Follows(m, id)'
      BY <1>1, <1>2, <3>1, <3>2, <3>4, TailFollows
    <3> QED
      BY <3>1, <3>2, <3>3, <3>4, <3>5 DEF Stored, Follows
  <2>5. RingFollowed'
    BY <2>4 DEF RingFollowed
  <2>6. heard \subseteq heard' /\ heard' \subseteq 1 .. calls /\ e.id \in heard'
    BY <1>4, <1>5, <2>1
  <2>7. modal' \in Channels \cup {None}
    BY <1>5, <2>3
  <2> QED
    BY <1>1, <1>2, <2>1, <2>3, <2>5, <2>6, <2>7, EventInv
<1> QED
  BY <1>2, <1>6, <1>9, <1>10, <1>11, <1>12

-----------------------------------------------------------------------------

LEMMA StepInv == Inv /\ [Next]_vars => Inv'
<1> SUFFICES ASSUME Inv, [Next]_vars
             PROVE  Inv'
  OBVIOUS
<1>1. ASSUME NEW c \in Channels, NEW user \in Users,
             \/ OtherStarts(c, user) \/ UserConnects(c, user)
             \/ UserDisconnects(c, user) \/ UserDenies(c, user)
      PROVE  Inv'
  BY <1>1, OthersInv
<1>2. ASSUME NEW c \in Channels, CallEnds(c)
      PROVE  Inv'
  BY <1>2, CallEndsInv
<1>3. CASE (\E c \in Channels : StartCall(c) \/ JoinCall(c)) \/ DeclineCall \/ CancelCall \/ GetMyMeets
  BY <1>3, UserInv
<1>4. CASE CloseModal
  BY <1>4, CloseModalInv
<1>5. CASE HandleEvent
  BY <1>5, HandleEventInv
<1>6. ASSUME NEW r \in receiving, ChannelFetched(r) \/ Received(r)
      PROVE  Inv'
  BY <1>6, ChannelFetchedInv, ReceivedInv
<1>7. ASSUME NEW r \in requests, ServerAnswers(r) \/ RequestEnds(r)
      PROVE  Inv'
  BY <1>7, ServerAnswersInv, RequestEndsInv
<1>8. CASE UNCHANGED vars
  <2>1. /\ UNCHANGED <<server, client, requests, asked, heard, causes>>
    BY <1>8 DEF vars, server, client
  <2> QED
    BY <2>1, RequestsInv DEF Inv, Typed
<1> QED
  BY <1>1, <1>2, <1>3, <1>4, <1>5, <1>6, <1>7, <1>8 DEF Next

\* The store and what is on its way hold conferences, channels and users that
\* exist, for any number of them.
THEOREM TypeCorrect == Spec => []TypeOK
<1>1. Inv => TypeOK
  BY TypedTypeOK DEF Inv
<1> QED
  BY InitInv, StepInv, <1>1, PTL DEF Spec

\* The modal of an incoming call has its conference in the store, whatever
\* events, answers and failures come while it rings, unless a conference was
\* stored late, or getMyMeets or a failed join took one that goes on.
THEOREM RingAlwaysHasConference == Spec => []RingHasConference
<1>1. Inv => RingHasConference
  BY DEF Inv, RingFollowed, RingHasConference
<1> QED
  BY InitInv, StepInv, <1>1, PTL DEF Spec

\* When everything has arrived, what rings is a conference that goes on.
EndedRingStops == Settled /\ modal # None /\ causes = {} => live[modal] # None

\* Deleting a conference ends its ring, the events about it are not lost, and an answer
\* that comes after the end is one of the causes the code has no answer to: with none of
\* them, once every event is handled and no request is on its way, the modal does not
\* ring for a call that is over (callNoLongerExist, deleteConference).
THEOREM RingIsOver == Spec => []EndedRingStops
<1>1. Inv => EndedRingStops
  BY DEF Inv, RingFollowed, EndedRingStops, Settled, Follows
<1> QED
  BY InitInv, StepInv, <1>1, PTL DEF Spec

-----------------------------------------------------------------------------
(***************************************************************************)
(* Who is in a conference.  The stored conference is the server's with the *)
(* events on the wire undone: the last event about a user says whether the *)
(* user is in it, and about one no event is on its way of the store is     *)
(* right.  What came before the conference was announced is of no account. *)
(***************************************************************************)

Moves(k, c, u) ==
  /\ wire[k].type \in {"connected", "disconnected"}
  /\ wire[k].channel = c /\ wire[k].id = live[c].id /\ wire[k].user = u

Moving(c, u) == \E k \in 1 .. Len(wire) : Moves(k, c, u)

LastMoves(c) ==
  \A u \in Users, k \in 1 .. Len(wire) :
    Moves(k, c, u) /\ (\A j \in 1 .. Len(wire) : Moves(j, c, u) => j <= k) =>
      (wire[k].type = "connected" <=> u \in live[c].present)

\* The store has what the server has once the wire is played out.
Replays(c, present) ==
  \A u \in Users : Moving(c, u) \/ (u \in present <=> u \in live[c].present)

Adds(k, c) == wire[k].type = "added" /\ wire[k].channel = c /\ wire[k].id = live[c].id

Announced(c) == \E k \in 1 .. Len(wire) : Adds(k, c)

\* The events about an earlier conference come before the next one's first.
OldFirst(c) ==
  \A k \in 1 .. Len(wire) :
    wire[k].channel = c /\ wire[k].id # live[c].id =>
      \E j \in 1 .. Len(wire) : k < j /\ Adds(j, c)

NotEnding(c) ==
  \A k \in 1 .. Len(wire) :
    ~(wire[k].type = "deleted" /\ wire[k].channel = c /\ wire[k].id = live[c].id)

\* All that happened in it is still on the wire.
Unheard(c) == live[c].id \notin heard => Replays(c, {})

WireFollows(c) ==
  live[c] # None => LastMoves(c) /\ OldFirst(c) /\ NotEnding(c) /\ Unheard(c)

AddedFirst ==
  \A k \in 1 .. Len(wire) :
    wire[k].type = "added" =>
      wire[k].id \notin heard /\ \A j \in 1 .. Len(wire) : j < k => wire[j].id # wire[k].id

\* The conference's requests are on their way.
Arriving(c) == \E r \in receiving : r.channel = c /\ r.call.id = live[c].id

StoreFollows(c) ==
  causes = {} /\ live[c] # None /\ ~Announced(c) /\ ~Arriving(c) =>
    /\ conferences[c] # None /\ conferences[c].id = live[c].id
    /\ Replays(c, conferences[c].present)

\* A ring that starts or goes on while the user is in a call is about to stop,
\* or a conference is about to be stored late.
RingOutside(c) ==
  causes = {} /\ modal # None /\ live[c] # None /\ Me \in live[c].present =>
    Moving(c, Me) \/ (live[c].id \in heard /\ Arriving(c))

ReceivingFresh == \A r \in receiving : r.call.present = {}

RequestFresh(r) == r.kind = "start" /\ r.outcome = "ok" => r.value.present = {}

Presence ==
  /\ \A c \in Channels : WireFollows(c) /\ StoreFollows(c) /\ RingOutside(c)
  /\ AddedFirst /\ ReceivingFresh
  /\ \A r \in requests : RequestFresh(r)

LEMMA WireTyped ==
  ASSUME Inv
  PROVE  /\ Len(wire) \in Nat /\ calls \in Nat /\ wire \in Seq(EventRecords)
         /\ \A k \in 1 .. Len(wire) :
              wire[k].channel \in Channels /\ wire[k].id \in 1 .. calls
         /\ \A c \in Channels : live[c] # None =>
              live[c] \in Conferences /\ live[c].id \in 1 .. calls
<1>1. wire \in Seq(EventRecords) /\ live \in ConferenceMaps /\ calls \in Nat
  BY DEF Inv, Typed, ServerTyped
<1>2. Len(wire) \in Nat /\ \A k \in 1 .. Len(wire) : wire[k] \in EventRecords
  BY <1>1
<1>3. \A k \in 1 .. Len(wire) : wire[k].channel \in Channels /\ wire[k].id \in 1 .. calls
  BY <1>2 DEF EventRecords
<1>4. \A c \in Channels : live[c] # None =>
        live[c] \in Conferences /\ live[c].id \in 1 .. calls
  BY <1>1, ConferenceProperties DEF ConferenceMaps
<1> QED
  BY <1>1, <1>2, <1>3, <1>4

LEMMA InitPresence == Init => Presence
<1> SUFFICES ASSUME Init
             PROVE  Presence
  OBVIOUS
<1>1. /\ modal \in Channels \cup {None}
      /\ live = [c \in Channels |-> IF c = modal THEN Conference(1, Me) ELSE None]
      /\ conferences = live /\ wire = <<>> /\ receiving = {} /\ requests = {}
  BY DEF Init
<1>2. Len(wire) = 0
  BY <1>1
<1>3. \A c \in Channels : live[c] # None => live[c].present = {}
  BY <1>1 DEF Conference
<1>4. \A c \in Channels : WireFollows(c)
  BY <1>2, <1>3
  DEF WireFollows, LastMoves, OldFirst, NotEnding, Unheard, Replays
<1>5. \A c \in Channels : StoreFollows(c) /\ RingOutside(c)
  BY <1>1, <1>3 DEF StoreFollows, RingOutside, Replays
<1> QED
  BY <1>1, <1>2, <1>4, <1>5 DEF Presence, AddedFirst, ReceivingFresh

\* Who is in a conference matters only on the server's side: a step that leaves it,
\* the wire and what was heard alone.
LEMMA SameServerPresence ==
  ASSUME Presence, UNCHANGED <<live, wire, heard>>
  PROVE  /\ \A c \in Channels : WireFollows(c)'
         /\ AddedFirst'
         /\ \A c : Announced(c)' <=> Announced(c)
         /\ \A c, u : Moving(c, u)' <=> Moving(c, u)
         /\ \A c, p : Replays(c, p)' <=> Replays(c, p)
<1>1. \A k, c, u : Moves(k, c, u)' <=> Moves(k, c, u)
  BY DEF Moves
<1>2. \A k, c : Adds(k, c)' <=> Adds(k, c)
  BY DEF Adds
<1>3. \A c, u : Moving(c, u)' <=> Moving(c, u)
  BY <1>1 DEF Moving
<1>4. \A c, p : Replays(c, p)' <=> Replays(c, p)
  BY <1>3 DEF Replays
<1>5. \A c \in Channels : WireFollows(c)'
  BY <1>1, <1>2, <1>4
  DEF Presence, WireFollows, LastMoves, OldFirst, NotEnding, Unheard
<1>6. \A c : Announced(c)' <=> Announced(c)
  BY <1>2 DEF Announced
<1>7. AddedFirst'
  BY DEF Presence, AddedFirst
<1> QED
  BY <1>3, <1>4, <1>5, <1>6, <1>7

\* A conference starts, somebody in it does something, or it ends; one event says so.
ServerTells(b, e) ==
  /\ Len(wire') = Len(wire) + 1
  /\ \A k \in 1 .. Len(wire) : wire'[k] = wire[k]
  /\ wire'[Len(wire) + 1] = e
  /\ e.channel = b
  /\ \A d \in Channels : d # b => live'[d] = live[d]
  /\ \/ /\ e.type = "added" /\ e.id = calls + 1
        /\ live[b] = None /\ live'[b].id = e.id /\ live'[b].present = {}
     \/ /\ e.type \in {"connected", "disconnected", "denied"}
        /\ live[b] # None /\ live'[b].id = e.id /\ live[b].id = e.id
        /\ \A u \in Users :
             (u \in live'[b].present <=> u \in live[b].present)
               \/ (u = e.user /\ e.type \in {"connected", "disconnected"})
        /\ e.type = "connected" => e.user \in live'[b].present
        /\ e.type = "disconnected" => e.user \notin live'[b].present
     \/ e.type = "deleted" /\ live[b] # None /\ e.id = live[b].id /\ live'[b] = None

\* The channels it is not about.
LEMMA ToldElsewhere ==
  ASSUME Inv, Presence, NEW b \in Channels, NEW e, ServerTells(b, e),
         NEW c \in Channels, c # b, heard' = heard
  PROVE  /\ WireFollows(c)' /\ live'[c] = live[c]
         /\ Announced(c)' <=> Announced(c)
         /\ \A u : Moving(c, u)' <=> Moving(c, u)
         /\ \A p : Replays(c, p)' <=> Replays(c, p)
<1>1. /\ Len(wire) \in Nat /\ Len(wire') = Len(wire) + 1 /\ live'[c] = live[c]
      /\ \A k \in 1 .. Len(wire) : wire'[k] = wire[k]
      /\ wire'[Len(wire) + 1].channel = b
  BY WireTyped DEF ServerTells
<1>2. \A k \in 1 .. Len(wire') : k \in 1 .. Len(wire) \/ k = Len(wire) + 1
  BY <1>1
<1>3. \A k \in 1 .. Len(wire') :
        /\ wire'[k].channel = c => k \in 1 .. Len(wire) /\ wire'[k] = wire[k]
        /\ \A u : Moves(k, c, u)' => k \in 1 .. Len(wire) /\ Moves(k, c, u)
        /\ Adds(k, c)' => k \in 1 .. Len(wire) /\ Adds(k, c)
  BY <1>1, <1>2 DEF Moves, Adds
<1>4. \A k \in 1 .. Len(wire) :
        /\ k \in 1 .. Len(wire')
        /\ \A u : Moves(k, c, u)' <=> Moves(k, c, u)
        /\ Adds(k, c)' <=> Adds(k, c)
  BY <1>1 DEF Moves, Adds
<1>5. \A u : Moving(c, u)' <=> Moving(c, u)
  BY <1>3, <1>4 DEF Moving
<1>6. \A p : Replays(c, p)' <=> Replays(c, p)
  BY <1>1, <1>5 DEF Replays
<1>7. Announced(c)' <=> Announced(c)
  BY <1>3, <1>4 DEF Announced
<1>8. WireFollows(c)'
  <2>1. live[c] # None => LastMoves(c)'
    BY <1>1, <1>3, <1>4 DEF Presence, WireFollows, LastMoves
  <2>2. live[c] # None => OldFirst(c)'
    BY <1>1, <1>3, <1>4 DEF Presence, WireFollows, OldFirst
  <2>3. live[c] # None => NotEnding(c)'
    BY <1>1, <1>3 DEF Presence, WireFollows, NotEnding
  <2>4. live[c] # None => Unheard(c)'
    BY <1>1, <1>6 DEF Presence, WireFollows, Unheard
  <2> QED
    BY <1>1, <2>1, <2>2, <2>3, <2>4 DEF WireFollows
<1> QED
  BY <1>1, <1>5, <1>6, <1>7, <1>8

\* A new conference: all of its events are on the wire.
LEMMA ToldStart ==
  ASSUME Inv, Presence, NEW b \in Channels, NEW e, ServerTells(b, e), e.type = "added",
         heard' = heard
  PROVE  WireFollows(b)' /\ Announced(b)' /\ live'[b].present = {}
<1>0. PICK n : n = Len(wire) + 1
  OBVIOUS
<1>1. /\ Len(wire) \in Nat /\ n = Len(wire) + 1 /\ Len(wire') = n /\ calls \in Nat
      /\ \A k \in 1 .. Len(wire) : wire'[k] = wire[k] /\ wire[k].id \in 1 .. calls
      /\ wire'[n] = e /\ e.channel = b /\ e.id = calls + 1
      /\ live'[b].id = e.id /\ live'[b].present = {}
  BY <1>0, WireTyped DEF ServerTells
<1>2. n \in 1 .. Len(wire') /\ Adds(n, b)'
  BY <1>1 DEF Adds
<1>3. \A k \in 1 .. Len(wire') : k \in 1 .. Len(wire) \/ k = n
  BY <1>1
<1>4. \A k \in 1 .. Len(wire') : wire'[k].id = live'[b].id => k = n
  BY <1>1, <1>3
<1>5. \A k \in 1 .. Len(wire') : \A u : ~Moves(k, b, u)'
  BY <1>1, <1>4 DEF Moves
<1>6. \A k \in 1 .. Len(wire') : k < n \/ k = n
  BY <1>1
<1>7. LastMoves(b)' /\ NotEnding(b)'
  BY <1>1, <1>4, <1>5 DEF LastMoves, NotEnding
<1>8. OldFirst(b)'
  BY <1>1, <1>2, <1>6 DEF OldFirst
<1>9. Unheard(b)'
  BY <1>1 DEF Unheard, Replays
<1> QED
  BY <1>1, <1>2, <1>7, <1>8, <1>9 DEF WireFollows, Announced

\* A change is the last event about its user.
LEMMA ToldChange ==
  ASSUME Inv, Presence, NEW b \in Channels, NEW e, ServerTells(b, e),
         e.type \in {"connected", "disconnected", "denied"}, heard' = heard
  PROVE  /\ WireFollows(b)'
         /\ Announced(b)' <=> Announced(b)
         /\ \A u : Moving(b, u) => Moving(b, u)'
         /\ \A u \in Users : u \in live'[b].present =>
              Moving(b, u)' \/ u \in live[b].present
         /\ \A p : Replays(b, p) => Replays(b, p)'
<1>0. PICK n : n = Len(wire) + 1
  OBVIOUS
<1>1. /\ Len(wire) \in Nat /\ n = Len(wire) + 1 /\ Len(wire') = n
      /\ \A k \in 1 .. Len(wire) : wire'[k] = wire[k]
      /\ wire'[n] = e /\ e.channel = b
      /\ live[b] # None /\ live'[b].id = e.id /\ live[b].id = e.id
      /\ \A u \in Users :
           (u \in live'[b].present <=> u \in live[b].present)
             \/ (u = e.user /\ e.type \in {"connected", "disconnected"})
      /\ e.type = "connected" => e.user \in live'[b].present
      /\ e.type = "disconnected" => e.user \notin live'[b].present
  BY <1>0, WireTyped DEF ServerTells
<1>2. WireFollows(b)
  BY DEF Presence
<1>3. n \in 1 .. Len(wire')
  BY <1>1
<1>4. \A k \in 1 .. Len(wire') : k \in 1 .. Len(wire) \/ k = n
  BY <1>1
<1>5. \A k \in 1 .. Len(wire) : k \in 1 .. Len(wire') /\ k < n /\ k # n
  BY <1>1
<1>6. \A k \in 1 .. Len(wire) :
        /\ \A u : Moves(k, b, u)' <=> Moves(k, b, u)
        /\ Adds(k, b)' <=> Adds(k, b)
  BY <1>1 DEF Moves, Adds
<1>7. ~Adds(n, b)'
  BY <1>1 DEF Adds
<1>8. \A u : Moves(n, b, u)' <=> u = e.user /\ e.type \in {"connected", "disconnected"}
  BY <1>1 DEF Moves
<1>9. \A u : Moving(b, u) => Moving(b, u)'
  BY <1>5, <1>6 DEF Moving
<1>10. \A u : Moves(n, b, u)' => Moving(b, u)'
  BY <1>3 DEF Moving
<1>11. Announced(b)' <=> Announced(b)
  BY <1>4, <1>5, <1>6, <1>7 DEF Announced
<1>12. \A p : Replays(b, p) => Replays(b, p)'
  BY <1>1, <1>8, <1>9, <1>10 DEF Replays
<1>13. LastMoves(b)'
  <2> SUFFICES ASSUME NEW u \in Users, NEW k \in 1 .. Len(wire'), Moves(k, b, u)',
                      \A j \in 1 .. Len(wire') : Moves(j, b, u)' => j <= k
               PROVE  wire'[k].type = "connected" <=> u \in live'[b].present
    BY DEF LastMoves
  <2>1. CASE k = n
    BY <1>1, <1>8, <2>1
  <2>2. CASE k # n
    <3>1. k \in 1 .. Len(wire) /\ wire'[k] = wire[k] /\ Moves(k, b, u)
      BY <1>1, <1>4, <1>6, <2>2
    <3>2. ~(n <= k)
      BY <1>1, <3>1
    <3>3. ~Moves(n, b, u)'
      BY <1>3, <3>2
    <3>4. u \in live'[b].present <=> u \in live[b].present
      BY <1>1, <1>8, <3>3
    <3>5. \A j \in 1 .. Len(wire) : Moves(j, b, u) => j <= k
      BY <1>5, <1>6
    <3> QED
      BY <1>1, <1>2, <3>1, <3>4, <3>5 DEF WireFollows, LastMoves
  <2> QED
    BY <2>1, <2>2
<1>14. OldFirst(b)'
  <2> SUFFICES ASSUME NEW k \in 1 .. Len(wire'), wire'[k].channel = b, wire'[k].id # live'[b].id
               PROVE  \E j \in 1 .. Len(wire') : k < j /\ Adds(j, b)'
    BY DEF OldFirst
  <2>1. k \in 1 .. Len(wire) /\ wire[k].channel = b /\ wire[k].id # live[b].id
    BY <1>1, <1>4
  <2>2. PICK j \in 1 .. Len(wire) : k < j /\ Adds(j, b)
    BY <1>1, <1>2, <2>1 DEF WireFollows, OldFirst
  <2> QED
    BY <1>5, <1>6, <2>2
<1>15. NotEnding(b)'
  BY <1>1, <1>2, <1>4 DEF WireFollows, NotEnding
<1>16. Unheard(b)'
  BY <1>1, <1>2, <1>12 DEF WireFollows, Unheard
<1>17. \A u \in Users : u \in live'[b].present => Moving(b, u)' \/ u \in live[b].present
  BY <1>1, <1>8, <1>10
<1> QED
  BY <1>9, <1>11, <1>12, <1>13, <1>14, <1>15, <1>16, <1>17 DEF WireFollows

\* The client has heard nothing yet of it.
LEMMA ToldPresence ==
  ASSUME Inv, Presence, NEW b \in Channels, NEW e, ServerTells(b, e),
         UNCHANGED <<conferences, modal, receiving, heard, causes>>,
         \A r \in requests' : RequestFresh(r)
  PROVE  Presence'
<1>1. /\ Len(wire) \in Nat /\ Len(wire') = Len(wire) + 1 /\ calls \in Nat
      /\ \A k \in 1 .. Len(wire) : wire'[k] = wire[k] /\ wire[k].id \in 1 .. calls
      /\ wire'[Len(wire) + 1] = e
      /\ e.type = "added" => e.id = calls + 1
      /\ e.type \in {"added", "connected", "disconnected", "denied", "deleted"}
      /\ e.type # "added" => live'[b] = None \/ (live'[b].id = live[b].id /\ live[b] # None)
      /\ e.type = "deleted" => live'[b] = None
      /\ heard \subseteq 1 .. calls
  BY WireTyped DEF ServerTells, Inv, Typed
<1>2. ASSUME NEW c \in Channels, c # b
      PROVE  WireFollows(c)' /\ StoreFollows(c)' /\ RingOutside(c)'
  <2>1. /\ WireFollows(c)' /\ live'[c] = live[c]
        /\ Announced(c)' <=> Announced(c)
        /\ \A u : Moving(c, u)' <=> Moving(c, u)
        /\ \A p : Replays(c, p)' <=> Replays(c, p)
    BY <1>2, ToldElsewhere
  <2>2. Arriving(c)' <=> Arriving(c)
    BY <2>1 DEF Arriving
  <2>3. StoreFollows(c) /\ RingOutside(c)
    BY DEF Presence
  <2>4. StoreFollows(c)'
    BY <2>1, <2>2, <2>3 DEF StoreFollows
  <2>5. RingOutside(c)'
    BY <2>1, <2>2, <2>3 DEF RingOutside
  <2> QED
    BY <2>1, <2>4, <2>5
<1>3. WireFollows(b)' /\ StoreFollows(b)' /\ RingOutside(b)'
  <2>1. CASE e.type = "added"
    BY <2>1, ToldStart DEF StoreFollows, RingOutside
  <2>2. CASE e.type = "deleted"
    BY <1>1, <2>2 DEF WireFollows, StoreFollows, RingOutside
  <2>3. CASE e.type \in {"connected", "disconnected", "denied"}
    <3>1. /\ WireFollows(b)'
          /\ Announced(b)' <=> Announced(b)
          /\ \A u : Moving(b, u) => Moving(b, u)'
          /\ \A u \in Users : u \in live'[b].present =>
               Moving(b, u)' \/ u \in live[b].present
          /\ \A p : Replays(b, p) => Replays(b, p)'
      BY <2>3, ToldChange
    <3>2. live'[b] # None => (Arriving(b)' <=> Arriving(b))
      BY <1>1, <2>3 DEF Arriving
    <3>3. StoreFollows(b) /\ RingOutside(b)
      BY DEF Presence
    <3>4. StoreFollows(b)'
      BY <1>1, <2>3, <3>1, <3>2, <3>3 DEF StoreFollows
    <3>5. RingOutside(b)'
      BY <1>1, <2>3, <3>1, <3>2, <3>3 DEF RingOutside
    <3> QED
      BY <3>1, <3>4, <3>5
  <2> QED
    BY <1>1, <2>1, <2>2, <2>3
<1>4. AddedFirst'
  <2> SUFFICES ASSUME NEW k \in 1 .. Len(wire'), wire'[k].type = "added"
               PROVE  /\ wire'[k].id \notin heard
                      /\ \A j \in 1 .. Len(wire') : j < k => wire'[j].id # wire'[k].id
    BY DEF AddedFirst
  <2>1. CASE k \in 1 .. Len(wire)
    <3>1. \A j \in 1 .. Len(wire') : j < k => j \in 1 .. Len(wire)
      BY <1>1, <2>1
    <3> QED
      BY <1>1, <2>1, <3>1 DEF Presence, AddedFirst
  <2>2. CASE k = Len(wire) + 1
    <3>1. \A j \in 1 .. Len(wire') : j < k => j \in 1 .. Len(wire)
      BY <1>1, <2>2
    <3>2. wire'[k].id = calls + 1
      BY <1>1, <2>2
    <3> QED
      BY <1>1, <3>1, <3>2
  <2> QED
    BY <1>1, <2>1, <2>2
<1>5. ReceivingFresh'
  BY DEF Presence, ReceivingFresh
<1>6. \A r : RequestFresh(r)' <=> RequestFresh(r)
  BY DEF RequestFresh
<1> QED
  BY <1>2, <1>3, <1>4, <1>5, <1>6 DEF Presence

LEMMA ServerStartsTells ==
  ASSUME Inv, NEW c \in Channels, NEW user \in Users, ServerStarts(c, user)
  PROVE  /\ \E e : ServerTells(c, e)
         /\ Conference(calls', user).present = {}
<1>1. /\ live[c] = None /\ calls' = calls + 1
      /\ live' = [live EXCEPT ![c] = Conference(calls', user)]
      /\ Tell("added", c, calls', user)
  BY DEF ServerStarts
<1>2. /\ ServerTyped /\ calls \in Nat /\ live \in ConferenceMaps
      /\ calls' \in Nat /\ calls <= calls' /\ calls' \in 1 .. calls'
  BY <1>1 DEF Inv, Typed, ServerTyped
<1>3. /\ Len(wire') = Len(wire) + 1
      /\ \A k \in 1 .. Len(wire) : wire'[k] = wire[k]
      /\ wire'[Len(wire')].type = "added"
      /\ wire'[Len(wire')].channel = c
      /\ wire'[Len(wire')].id = calls'
  BY <1>1, <1>2, TellProperties
<1>4. PICK e : e = wire'[Len(wire')]
  OBVIOUS
<1>5. PICK x : x = Conference(calls', user)
  OBVIOUS
<1>6. x.present = {} /\ x.id = calls'
  BY <1>5 DEF Conference
<1>7. live'[c] = x /\ \A d \in Channels : d # c => live'[d] = live[d]
  BY <1>1, <1>2, <1>5 DEF ConferenceMaps
<1>8. ServerTells(c, e)
  BY <1>1, <1>3, <1>4, <1>6, <1>7 DEF ServerTells
<1> QED
  BY <1>5, <1>6, <1>8

LEMMA ServerChangesTells ==
  ASSUME Inv, NEW c \in Channels, live[c] # None,
         NEW type \in {"connected", "disconnected", "denied", "deleted"},
         NEW user \in Users \cup {None}, NEW x,
         type = "deleted" => x = None,
         type # "deleted" =>
           /\ user \in Users /\ x.id = live[c].id
           /\ \A u \in Users : (u \in x.present <=> u \in live[c].present)
                \/ (u = user /\ type \in {"connected", "disconnected"}),
         type = "connected" => user \in x.present,
         type = "disconnected" => user \notin x.present,
         ServerChanges(c, type, user, x)
  PROVE  \E e : ServerTells(c, e)
<1>1. /\ live' = [live EXCEPT ![c] = x] /\ calls' = calls
      /\ Tell(type, c, live[c].id, user)
  BY DEF ServerChanges
<1>2. ServerTyped /\ calls \in Nat /\ live \in ConferenceMaps /\ live[c].id \in 1 .. calls'
  BY <1>1, WireTyped DEF Inv, Typed, ServerTyped
<1>3. PICK id : id = live[c].id
  OBVIOUS
<1>4. /\ Len(wire') = Len(wire) + 1
      /\ \A k \in 1 .. Len(wire) : wire'[k] = wire[k]
      /\ wire'[Len(wire')].type = type
      /\ wire'[Len(wire')].channel = c
      /\ wire'[Len(wire')].id = id
      /\ wire'[Len(wire')].user = user
  BY <1>1, <1>2, <1>3, TellProperties
<1>5. PICK e : e = wire'[Len(wire')]
  OBVIOUS
<1>6. live'[c] = x /\ \A d \in Channels : d # c => live'[d] = live[d]
  BY <1>1, <1>2 DEF ConferenceMaps
<1>7. ServerTells(c, e)
  BY <1>3, <1>4, <1>5, <1>6 DEF ServerTells
<1> QED
  BY <1>7

LEMMA ServerEndsTells ==
  ASSUME Inv, NEW c \in Channels, ServerEnds(c)
  PROVE  \E e : ServerTells(c, e)
BY ServerChangesTells DEF ServerEnds

LEMMA OthersPresence ==
  ASSUME Inv, Presence, NEW c \in Channels, NEW user \in Users,
         \/ OtherStarts(c, user) \/ UserConnects(c, user)
         \/ UserDisconnects(c, user) \/ UserDenies(c, user) \/ CallEnds(c)
  PROVE  Presence'
<1>1. UNCHANGED <<conferences, modal, receiving, parameters, requests, heard, causes>>
  BY DEF OtherStarts, UserConnects, UserDisconnects, UserDenies, CallEnds, Elsewhere, client
<1>2. live[c] # None => live[c] \in Conferences
  BY WireTyped
<1>3. CASE OtherStarts(c, user)
  BY <1>1, <1>3, ServerStartsTells, ToldPresence DEF OtherStarts, Presence
<1>4. CASE UserConnects(c, user)
  <2>1. live[c] # None /\ ServerChanges(c, "connected", user, Joined(live[c], user))
    BY <1>4 DEF UserConnects
  <2>2. PICK x : x = Joined(live[c], user)
    OBVIOUS
  <2>3. x.id = live[c].id /\ x.present = live[c].present \cup {user}
    BY <1>2, <2>1, <2>2 DEF Joined, Conferences
  <2>4. \E e : ServerTells(c, e)
    BY <2>1, <2>2, <2>3, ServerChangesTells
  <2> QED
    BY <1>1, <2>4, ToldPresence DEF Presence
<1>5. CASE UserDisconnects(c, user)
  <2>1. live[c] # None /\ ServerChanges(c, "disconnected", user, Left(live[c], user))
    BY <1>5 DEF UserDisconnects
  <2>2. PICK x : x = Left(live[c], user)
    OBVIOUS
  <2>3. x.id = live[c].id /\ x.present = live[c].present \ {user}
    BY <1>2, <2>1, <2>2 DEF Left, Conferences
  <2>4. \E e : ServerTells(c, e)
    BY <2>1, <2>2, <2>3, ServerChangesTells
  <2> QED
    BY <1>1, <2>4, ToldPresence DEF Presence
<1>6. CASE UserDenies(c, user)
  <2>1. live[c] # None /\ ServerChanges(c, "denied", user, Denied(live[c], user))
    BY <1>6 DEF UserDenies
  <2>2. PICK x : x = Denied(live[c], user)
    OBVIOUS
  <2>3. x.id = live[c].id /\ x.present = live[c].present
    BY <1>2, <2>1, <2>2 DEF Denied, Conferences
  <2>4. \E e : ServerTells(c, e)
    BY <2>1, <2>2, <2>3, ServerChangesTells
  <2> QED
    BY <1>1, <2>4, ToldPresence DEF Presence
<1>7. CASE CallEnds(c)
  BY <1>1, <1>7, ServerEndsTells, ToldPresence DEF CallEnds, Presence
<1> QED
  BY <1>3, <1>4, <1>5, <1>6, <1>7

\* Neither the server's conferences nor the store change.
LEMMA SameStorePresence ==
  ASSUME Presence, UNCHANGED <<live, wire, conferences, heard, causes>>,
         modal' \in {None, modal},
         \A r \in receiving' : \E o \in receiving : r.channel = o.channel /\ r.call = o.call,
         \A o \in receiving : \E r \in receiving' : r.channel = o.channel /\ r.call = o.call,
         \A r \in requests' : RequestFresh(r)
  PROVE  Presence'
<1>1. /\ \A c \in Channels : WireFollows(c)'
      /\ AddedFirst'
      /\ \A c : Announced(c)' <=> Announced(c)
      /\ \A c, u : Moving(c, u)' <=> Moving(c, u)
      /\ \A c, p : Replays(c, p)' <=> Replays(c, p)
  BY SameServerPresence
<1>2. \A c : Arriving(c)' <=> Arriving(c)
  BY DEF Arriving
<1>3. ReceivingFresh'
  BY DEF Presence, ReceivingFresh
<1>4. \A c \in Channels : StoreFollows(c)'
  BY <1>1, <1>2 DEF Presence, StoreFollows
<1>5. \A c \in Channels : RingOutside(c)'
  BY <1>1, <1>2 DEF Presence, RingOutside
<1>6. \A r : RequestFresh(r)' <=> RequestFresh(r)
  BY DEF RequestFresh
<1> QED
  BY <1>1, <1>3, <1>4, <1>5, <1>6 DEF Presence

LEMMA UserPresence ==
  ASSUME Inv, Presence,
         \/ \E c \in Channels : StartCall(c) \/ JoinCall(c)
         \/ DeclineCall \/ CancelCall \/ GetMyMeets \/ CloseModal
  PROVE  Presence'
<1>1. /\ UNCHANGED <<live, wire, conferences, receiving, heard, causes>>
      /\ modal' \in {None, modal}
  BY DEF StartCall, JoinCall, DeclineCall, CancelCall, GetMyMeets, CloseModal, UserAsks,
         server, client, Shows
<1>2. \A r \in requests' : r \in requests \/ r.outcome = "none"
  BY DEF StartCall, JoinCall, DeclineCall, CancelCall, GetMyMeets, CloseModal, UserAsks, Ask
<1>3. \A r \in requests' : RequestFresh(r)
  BY <1>2 DEF Presence, RequestFresh
<1> QED
  BY <1>1, <1>3, SameStorePresence

LEMMA ServerAnswersPresence ==
  ASSUME Inv, Presence, NEW r \in requests, ServerAnswers(r)
  PROVE  Presence'
<1>1. UNCHANGED <<conferences, modal, receiving, heard, causes>>
  BY DEF ServerAnswers, ServerAnswersStart, ServerAnswersAccept, ServerAnswersDecline,
         ServerAnswersCancel, ServerAnswersMeets, RequestFails, Answerable, client
<1>2. RequestTyped(r)
  BY DEF Inv, Typed
<1>3. r.kind # "meets" => r.channel \in Channels
  BY <1>2 DEF RequestTyped
<1>4. ASSUME NEW outcome \in {"ok", "failed"}, NEW value, Answered(r, outcome, value),
             r.kind = "start" /\ outcome = "ok" => value.present = {}
      PROVE  \A s \in requests' : RequestFresh(s)
  <2>1. PICK a : a = AnswerOf(r, outcome, value)
    OBVIOUS
  <2>2. requests' = (requests \ {r}) \cup {a}
    BY <1>4, <2>1 DEF Answered, AnswerOf
  <2>3. a.kind = r.kind /\ a.outcome = outcome /\ a.value = value
    BY <1>2, <2>1, AnsweredProperties
  <2>4. RequestFresh(a)
    BY <1>4, <2>3 DEF RequestFresh
  <2> QED
    BY <2>2, <2>4 DEF Presence
<1>5. CASE ServerAnswersStart(r)
  <2>1. PICK x : x = Conference(calls', Me)
    OBVIOUS
  <2>2. r.kind = "start" /\ ServerStarts(r.channel, Me) /\ Answered(r, "ok", x)
    BY <1>5, <2>1 DEF ServerAnswersStart
  <2>3. x.present = {} /\ \E e : ServerTells(r.channel, e)
    BY <1>3, <2>1, <2>2, ServerStartsTells
  <2>4. \A s \in requests' : RequestFresh(s)
    BY <1>4, <2>2, <2>3
  <2> QED
    BY <1>1, <1>3, <2>2, <2>3, <2>4, ToldPresence
<1>6. CASE ServerAnswersDecline(r)
  <2>1. /\ r.kind = "decline" /\ live[r.channel] # None /\ Answered(r, "ok", None)
        /\ ServerChanges(r.channel, "denied", Me, Denied(live[r.channel], Me))
    BY <1>6 DEF ServerAnswersDecline, IsLive
  <2>2. PICK x : x = Denied(live[r.channel], Me)
    OBVIOUS
  <2>3. live[r.channel] \in Conferences
    BY <1>3, <2>1, WireTyped
  <2>4. x.id = live[r.channel].id /\ x.present = live[r.channel].present
    BY <2>2, <2>3 DEF Denied, Conferences
  <2>5. \E e : ServerTells(r.channel, e)
    BY <1>3, <2>1, <2>2, <2>4, ServerChangesTells
  <2>6. \A s \in requests' : RequestFresh(s)
    BY <1>4, <2>1
  <2> QED
    BY <1>1, <1>3, <2>1, <2>5, <2>6, ToldPresence
<1>7. CASE ServerAnswersCancel(r)
  <2>1. r.kind = "cancel" /\ Answered(r, "ok", None) /\ ServerEnds(r.channel)
    BY <1>7 DEF ServerAnswersCancel
  <2>2. \E e : ServerTells(r.channel, e)
    BY <1>3, <2>1, ServerEndsTells
  <2>3. \A s \in requests' : RequestFresh(s)
    BY <1>4, <2>1
  <2> QED
    BY <1>1, <1>3, <2>1, <2>2, <2>3, ToldPresence
<1>8. CASE ServerAnswersAccept(r) \/ ServerAnswersMeets(r) \/ RequestFails(r)
  <2>1. /\ UNCHANGED <<live, wire>>
        /\ \E outcome \in {"ok", "failed"} : \E value :
             Answered(r, outcome, value) /\ (outcome = "ok" => r.kind # "start")
    BY <1>8 DEF ServerAnswersAccept, ServerAnswersMeets, RequestFails, server
  <2>2. \A s \in requests' : RequestFresh(s)
    BY <1>4, <2>1
  <2> QED
    BY <1>1, <2>1, <2>2, SameStorePresence
<1> QED
  BY <1>5, <1>6, <1>7, <1>8 DEF ServerAnswers

\* What a request brought is stored: the server's conference, in which nothing has
\* happened that was handled, or one whose successor is announced.
LEMMA GivenFollows ==
  ASSUME Inv, Presence, causes = {}, NEW c \in Channels, NEW x \in Conferences,
         x.present = {}, x.id \notin heard, Follows(c, x.id),
         NEW stored, stored = With(c, x),
         NEW d \in Channels, live[d] # None, ~Announced(d), d # c => ~Arriving(d)
  PROVE  stored[d] # None /\ stored[d].id = live[d].id /\ Replays(d, stored[d].present)
<1>1. /\ stored[c] = x /\ x # None
      /\ \A b \in Channels : b # c => stored[b] = conferences[b]
  BY WithProperties, ConferenceProperties DEF Inv, Typed, ServerTyped
<1>2. WireFollows(d) /\ StoreFollows(d)
  BY DEF Presence
<1>3. CASE d # c
  BY <1>1, <1>2, <1>3 DEF StoreFollows
<1>4. CASE d = c
  <2>1. x.id = live[d].id
    BY <1>2, <1>4 DEF Follows, WireFollows, OldFirst, Announced
  <2>2. Replays(d, {})
    BY <1>2, <2>1 DEF WireFollows, Unheard
  <2> QED
    BY <1>1, <1>4, <2>1, <2>2
<1> QED
  BY <1>3, <1>4

LEMMA StoredPresence ==
  ASSUME Inv, Presence, UNCHANGED <<live, wire, heard>>,
         NEW c \in Channels, NEW x \in Conferences, x.present = {},
         Late(x.id), Follows(c, x.id) \/ x.id \in heard,
         NEW stored, stored = With(c, x),
         NEW ringing, ringing \in {modal, Dialing(c, stored)}, Shows(ringing, stored),
         receiving' \subseteq receiving,
         \A o \in receiving : o \in receiving' \/ (o.channel = c /\ o.call.id = x.id),
         requests' \subseteq requests
  PROVE  Presence'
<1>1. /\ \A d \in Channels : WireFollows(d)'
      /\ AddedFirst'
      /\ \A d : Announced(d)' <=> Announced(d)
      /\ \A d, u : Moving(d, u)' <=> Moving(d, u)
      /\ \A d, p : Replays(d, p)' <=> Replays(d, p)
  BY SameServerPresence
<1>2. conferences' = stored /\ modal' \in {None, ringing}
  BY DEF Shows
<1>3. causes' = {} => causes = {} /\ x.id \notin heard /\ Follows(c, x.id)
  BY LateProperties
<1>4. ASSUME NEW d \in Channels, Arriving(d), ~Arriving(d)'
      PROVE  d = c /\ x.id = live[d].id
  BY <1>4 DEF Arriving
<1>5. ASSUME NEW d \in Channels, causes' = {}, live[d] # None, ~Announced(d), ~Arriving(d)'
      PROVE  stored[d] # None /\ stored[d].id = live[d].id /\ Replays(d, stored[d].present)
  BY <1>3, <1>4, <1>5, GivenFollows
<1>6. ASSUME NEW d \in Channels
      PROVE  StoreFollows(d)'
  BY <1>1, <1>2, <1>5 DEF StoreFollows
<1>7. ASSUME NEW d \in Channels
      PROVE  RingOutside(d)'
  <2> SUFFICES ASSUME causes' = {}, modal' # None, live[d] # None, Me \in live[d].present,
                      ~Moving(d, Me)
               PROVE  live[d].id \in heard /\ Arriving(d)'
    BY <1>1 DEF RingOutside
  <2>1. WireFollows(d) /\ RingOutside(d) /\ AddedFirst
    BY DEF Presence
  <2>2. CASE modal # None
    <3>1. live[d].id \in heard /\ Arriving(d)
      BY <1>3, <2>1, <2>2 DEF RingOutside
    <3> QED
      BY <1>3, <1>4, <3>1
  <2>3. CASE modal = None
    <3>1. ~InCall(stored)
      BY <1>2, <2>3 DEF Dialing
    <3>2. live[d].id \in heard
      BY <2>1 DEF WireFollows, Unheard, Replays
    <3>3. ~Announced(d)
      BY <2>1, <3>2 DEF AddedFirst, Announced, Adds
    <3>4. ASSUME ~Arriving(d)'
          PROVE  FALSE
      <4>1. stored[d] # None /\ Replays(d, stored[d].present)
        BY <1>5, <3>3, <3>4
      <4> QED
        BY <3>1, <4>1 DEF Replays, InCall
    <3> QED
      BY <3>2, <3>4
  <2> QED
    BY <2>2, <2>3
<1>8. ReceivingFresh'
  BY DEF Presence, ReceivingFresh
<1>9. \A r : RequestFresh(r)' <=> RequestFresh(r)
  BY DEF RequestFresh
<1> QED
  BY <1>1, <1>6, <1>7, <1>8, <1>9 DEF Presence

LEMMA ReceivingPresence ==
  ASSUME Inv, Presence, NEW r \in receiving, ChannelFetched(r) \/ Received(r)
  PROVE  Presence'
<1>1. r \in Receivings
  BY DEF Inv, Typed
<1>2. CASE ChannelFetched(r)
  <2>1. PICK a : a = [r EXCEPT !.fetched = TRUE]
    OBVIOUS
  <2>2. /\ receiving' = (receiving \ {r}) \cup {a}
        /\ UNCHANGED <<live, wire, conferences, modal, requests, heard, causes>>
    BY <1>2, <2>1 DEF ChannelFetched, server
  <2>3. a.channel = r.channel /\ a.call = r.call
    BY <1>1, <2>1 DEF Receivings
  <2> QED
    BY <2>2, <2>3, SameStorePresence DEF Presence
<1>3. CASE Received(r)
  <2>1. PICK stored : stored = With(r.channel, r.call)
    OBVIOUS
  <2>2. /\ receiving' = receiving \ {r} /\ Late(r.call.id)
        /\ UNCHANGED <<live, wire, requests, heard>>
        /\ \E ringing \in {modal, Dialing(r.channel, stored)} : Shows(ringing, stored)
    BY <1>3, <2>1 DEF Received, server
  <2>3. r.channel \in Channels /\ r.call \in Conferences
    BY <1>1 DEF Receivings
  <2>4. r.call.present = {} /\ (Follows(r.channel, r.call.id) \/ r.call.id \in heard)
    BY DEF Presence, ReceivingFresh, Inv, ReceivingFollowed
  <2> QED
    BY <2>1, <2>2, <2>3, <2>4, StoredPresence
<1> QED
  BY <1>2, <1>3

LEMMA RequestEndsPresence ==
  ASSUME Inv, Presence, NEW r \in requests, RequestEnds(r)
  PROVE  Presence'
<1>1. RequestTyped(r) /\ RequestFollowed(r) /\ RequestFresh(r)
  BY DEF Inv, Typed, RequestsFollowed, Presence
<1>2. requests' = requests \ {r} /\ UNCHANGED <<live, wire, receiving, heard>>
  BY DEF RequestEnds, CallStarted, JoinedDeclinedOrCanceled, JoinFails, OthersFail,
         MeetsReceived, Returns, server
<1>3. \A s \in requests' : RequestFresh(s)
  BY <1>2 DEF Presence
<1>4. CASE CallStarted(r)
  <2>1. PICK stored : stored = With(r.channel, r.value)
    OBVIOUS
  <2>2. /\ r.kind = "start" /\ r.outcome = "ok" /\ Late(r.value.id)
        /\ \E ringing \in {modal, Dialing(r.channel, stored)} : Shows(ringing, stored)
    BY <1>4, <2>1 DEF CallStarted, Returns
  <2>3. /\ r.channel \in Channels /\ r.value \in Conferences /\ r.value.present = {}
        /\ Follows(r.channel, r.value.id) \/ r.value.id \in heard
    BY <1>1, <2>2 DEF RequestTyped, RequestFollowed, RequestFresh
  <2> QED
    BY <1>2, <2>1, <2>2, <2>3, StoredPresence
<1>5. CASE JoinedDeclinedOrCanceled(r)
  BY <1>2, <1>3, <1>5, SameStorePresence DEF JoinedDeclinedOrCanceled, Shows
<1>6. CASE OthersFail(r)
  BY <1>2, <1>3, <1>6, SameStorePresence DEF OthersFail
<1>7. /\ \A c \in Channels : WireFollows(c)'
      /\ AddedFirst' /\ ReceivingFresh'
      /\ \A c : Announced(c)' <=> Announced(c)
      /\ \A c, u : Moving(c, u)' <=> Moving(c, u)
      /\ \A c, p : Replays(c, p)' <=> Replays(c, p)
  BY <1>2, SameServerPresence DEF Presence, ReceivingFresh
<1>8. \A c : Arriving(c)' <=> Arriving(c)
  BY <1>2 DEF Arriving
<1>9. \A s : RequestFresh(s)' <=> RequestFresh(s)
  BY DEF RequestFresh
<1>10. ASSUME causes' = {} => causes = {}, modal' \in {None, modal}, NEW c \in Channels
       PROVE  RingOutside(c)'
  BY <1>2, <1>7, <1>8, <1>10 DEF Presence, RingOutside
<1>11. CASE JoinFails(r)
  <2>1. /\ r.kind = "accept" /\ DeleteConference(r.channel, modal)
        /\ causes' = IF live[r.channel] # None THEN causes \cup {"failed"} ELSE causes
    BY <1>11 DEF JoinFails, Returns
  <2>2. r.channel \in Channels
    BY <1>1, <2>1 DEF RequestTyped
  <2>3. /\ modal' \in {None, modal}
        /\ \A d \in Channels : d # r.channel => conferences'[d] = conferences[d]
    BY <2>1, <2>2, WithProperties DEF DeleteConference, Shows, Inv, Typed
  <2>4. \A c \in Channels : StoreFollows(c)'
    BY <1>2, <1>7, <1>8, <2>1, <2>3 DEF Presence, StoreFollows
  <2>5. causes' = {} => causes = {}
    BY <2>1
  <2> QED
    BY <1>3, <1>7, <1>9, <1>10, <2>3, <2>4, <2>5 DEF Presence
<1>12. CASE MeetsReceived(r)
  <2>1. /\ r.kind = "meets" /\ r.outcome = "ok"
        /\ conferences' = r.value.live /\ modal' \in {None, modal}
        /\ causes' = IF r.value.sent = sent /\ wire = <<>> /\ receiving = {}
                     THEN causes ELSE causes \cup {"meets"}
    BY <1>12 DEF MeetsReceived, Returns, Shows
  <2>2. causes' = {} => causes = {} /\ conferences' = live
    BY <1>1, <2>1 DEF RequestFollowed
  <2>3. \A c \in Channels : StoreFollows(c)'
    BY <1>2, <1>7, <2>2 DEF StoreFollows, Replays
  <2> QED
    BY <1>3, <1>7, <1>9, <1>10, <2>1, <2>2, <2>3 DEF Presence
<1> QED
  BY <1>4, <1>5, <1>6, <1>11, <1>12 DEF RequestEnds

\* An event is taken from the wire: the events after it are one place nearer.
LEMMA TakenFollows ==
  ASSUME Inv, Presence, wire # <<>>, wire' = Tail(wire), live' = live,
         NEW e, e = Head(wire),
         heard' = IF e.type = "added" THEN heard ELSE heard \cup {e.id}
  PROVE  /\ Len(wire) \in Nat /\ 1 \in 1 .. Len(wire) /\ e = wire[1]
         /\ \A c \in Channels : WireFollows(c)'
         /\ AddedFirst'
         /\ \A c : Announced(c) => Announced(c)' \/ Adds(1, c)
         /\ \A k \in 1 .. Len(wire) : \A c : k # 1 /\ Adds(k, c) => Announced(c)'
         /\ \A c, u : Moving(c, u) => Moving(c, u)' \/ Moves(1, c, u)
         /\ \A c \in Channels, u \in Users :
              live[c] # None /\ Moves(1, c, u) /\ ~Moving(c, u)' =>
                (e.type = "connected" <=> u \in live[c].present)
<1>1. /\ Len(wire) \in Nat \ {0} /\ Len(wire') = Len(wire) - 1
      /\ \A k \in 1 .. Len(wire') : wire'[k] = wire[k + 1]
      /\ e = wire[1] /\ 1 \in 1 .. Len(wire)
  BY WireTyped
<1>2. \A k \in 1 .. Len(wire') : k + 1 \in 1 .. Len(wire) /\ k + 1 # 1
  BY <1>1
<1>3. \A k \in 1 .. Len(wire) : k # 1 =>
        k - 1 \in 1 .. Len(wire') /\ wire'[k - 1] = wire[k]
  BY <1>1
<1>4. \A k \in 1 .. Len(wire') :
        /\ \A c, u : Moves(k, c, u)' <=> Moves(k + 1, c, u)
        /\ \A c : Adds(k, c)' <=> Adds(k + 1, c)
  BY <1>1 DEF Moves, Adds
<1>5. \A k \in 1 .. Len(wire) : k # 1 =>
        /\ \A c, u : Moves(k - 1, c, u)' <=> Moves(k, c, u)
        /\ \A c : Adds(k - 1, c)' <=> Adds(k, c)
  BY <1>3 DEF Moves, Adds
<1>6. \A k \in 1 .. Len(wire) : \A c, u : k # 1 /\ Moves(k, c, u) => Moving(c, u)'
  BY <1>3, <1>5 DEF Moving
<1>7. \A k \in 1 .. Len(wire) : \A c : k # 1 /\ Adds(k, c) => Announced(c)'
  BY <1>3, <1>5 DEF Announced
<1>8. \A c, u : Moving(c, u) => Moving(c, u)' \/ Moves(1, c, u)
  BY <1>6 DEF Moving
<1>9. \A c : Announced(c) => Announced(c)' \/ Adds(1, c)
  BY <1>7 DEF Announced
<1>10. ASSUME NEW c \in Channels, live[c] # None
       PROVE  LastMoves(c)'
  <2> SUFFICES ASSUME NEW u \in Users, NEW k \in 1 .. Len(wire'), Moves(k, c, u)',
                      \A j \in 1 .. Len(wire') : Moves(j, c, u)' => j <= k
               PROVE  wire'[k].type = "connected" <=> u \in live'[c].present
    BY DEF LastMoves
  <2>1. LastMoves(c)
    BY <1>10 DEF Presence, WireFollows
  <2>2. ASSUME NEW j \in 1 .. Len(wire), Moves(j, c, u)
        PROVE  j <= k + 1
    <3>1. CASE j = 1
      BY <1>1, <3>1
    <3>2. CASE j # 1
      <4>1. j - 1 \in 1 .. Len(wire') /\ Moves(j - 1, c, u)'
        BY <1>3, <1>5, <2>2, <3>2
      <4>2. j - 1 <= k
        BY <4>1
      <4> QED
        BY <1>1, <4>2
    <3> QED
      BY <3>1, <3>2
  <2>3. k + 1 \in 1 .. Len(wire) /\ Moves(k + 1, c, u) /\ wire'[k] = wire[k + 1]
    BY <1>1, <1>2, <1>4
  <2> QED
    BY <2>1, <2>2, <2>3 DEF LastMoves
<1>11. ASSUME NEW c \in Channels, live[c] # None
       PROVE  OldFirst(c)'
  <2> SUFFICES ASSUME NEW k \in 1 .. Len(wire'), wire'[k].channel = c, wire'[k].id # live'[c].id
               PROVE  \E j \in 1 .. Len(wire') : k < j /\ Adds(j, c)'
    BY DEF OldFirst
  <2>1. /\ k + 1 \in 1 .. Len(wire)
        /\ wire[k + 1].channel = c /\ wire[k + 1].id # live[c].id
    BY <1>1, <1>2
  <2>2. PICK j \in 1 .. Len(wire) : k + 1 < j /\ Adds(j, c)
    BY <1>11, <2>1 DEF Presence, WireFollows, OldFirst
  <2>3. j # 1 /\ k < j - 1
    BY <1>1, <2>2
  <2> QED
    BY <1>3, <1>5, <2>2, <2>3
<1>12. ASSUME NEW c \in Channels, live[c] # None
       PROVE  NotEnding(c)'
  BY <1>1, <1>2, <1>12 DEF Presence, WireFollows, NotEnding
<1>13. ASSUME NEW c \in Channels, live[c] # None
       PROVE  Unheard(c)'
  <2>1. live[c].id \notin heard' => \A u : ~Moves(1, c, u)
    BY <1>1 DEF Moves
  <2>2. live[c].id \notin heard' => live[c].id \notin heard
    OBVIOUS
  <2>3. Unheard(c)
    BY <1>13 DEF Presence, WireFollows
  <2> QED
    BY <1>8, <2>1, <2>2, <2>3 DEF Unheard, Replays
<1>14. \A c \in Channels : WireFollows(c)'
  BY <1>10, <1>11, <1>12, <1>13 DEF WireFollows
<1>15. AddedFirst'
  <2> SUFFICES ASSUME NEW k \in 1 .. Len(wire'), wire'[k].type = "added"
               PROVE  /\ wire'[k].id \notin heard'
                      /\ \A j \in 1 .. Len(wire') : j < k => wire'[j].id # wire'[k].id
    BY DEF AddedFirst
  <2>1. k + 1 \in 1 .. Len(wire) /\ wire'[k] = wire[k + 1] /\ 1 < k + 1
    BY <1>1, <1>2
  <2>2. /\ wire[k + 1].id \notin heard
        /\ \A j \in 1 .. Len(wire) : j < k + 1 => wire[j].id # wire[k + 1].id
    BY <2>1 DEF Presence, AddedFirst
  <2>3. wire'[k].id \notin heard'
    BY <1>1, <2>1, <2>2
  <2>4. ASSUME NEW j \in 1 .. Len(wire'), j < k
        PROVE  wire'[j].id # wire'[k].id
    BY <1>1, <1>2, <2>1, <2>2, <2>4
  <2> QED
    BY <2>3, <2>4
<1>16. ASSUME NEW c \in Channels, NEW u \in Users,
              live[c] # None, Moves(1, c, u), ~Moving(c, u)'
       PROVE  e.type = "connected" <=> u \in live[c].present
  <2>1. \A j \in 1 .. Len(wire) : Moves(j, c, u) => j <= 1
    BY <1>1, <1>6, <1>16
  <2> QED
    BY <1>1, <1>16, <2>1 DEF Presence, WireFollows, LastMoves
<1> QED
  BY <1>1, <1>7, <1>8, <1>9, <1>14, <1>15, <1>16

\* The ring does not go on in a call.
LEMMA TakenPresence ==
  ASSUME Inv, Presence, wire # <<>>, wire' = Tail(wire), UNCHANGED <<live, causes>>,
         NEW e, e = Head(wire),
         heard' = IF e.type = "added" THEN heard ELSE heard \cup {e.id},
         modal' \in {None, modal}, e.type = "connected" /\ e.user = Me => modal' = None,
         receiving \subseteq receiving', ReceivingFresh', \A r \in requests' : RequestFresh(r),
         \A c \in Channels : StoreFollows(c)'
  PROVE  Presence'
<1>1. /\ e = wire[1]
      /\ \A c \in Channels : WireFollows(c)'
      /\ AddedFirst'
      /\ \A c, u : Moving(c, u) => Moving(c, u)' \/ Moves(1, c, u)
      /\ \A c \in Channels, u \in Users :
           live[c] # None /\ Moves(1, c, u) /\ ~Moving(c, u)' =>
             (e.type = "connected" <=> u \in live[c].present)
  BY TakenFollows
<1>2. ASSUME NEW c \in Channels
      PROVE  RingOutside(c)'
  <2> SUFFICES ASSUME causes = {}, modal' # None, live[c] # None, Me \in live[c].present,
                      ~Moving(c, Me)'
               PROVE  live[c].id \in heard' /\ Arriving(c)'
    BY DEF RingOutside
  <2>1. Moving(c, Me) \/ (live[c].id \in heard /\ Arriving(c))
    BY DEF Presence, RingOutside
  <2>2. ~Moves(1, c, Me)
    BY <1>1 DEF Moves
  <2>3. live[c].id \in heard /\ Arriving(c)
    BY <1>1, <2>1, <2>2
  <2> QED
    BY <2>3 DEF Arriving
<1>3. \A r : RequestFresh(r)' <=> RequestFresh(r)
  BY DEF RequestFresh
<1> QED
  BY <1>1, <1>2, <1>3 DEF Presence

LEMMA HandleEventPresence ==
  ASSUME Inv, Presence, HandleEvent
  PROVE  Presence'
<1>1. PICK e : e = Head(wire)
  OBVIOUS
<1>2. /\ wire # <<>> /\ wire' = Tail(wire)
      /\ UNCHANGED <<live, calls, sent, asked, causes>>
      /\ \/ HandleReceiveCall(e)
         \/ HandleConferenceUserConnected(e)
         \/ HandleConferenceUserDisconnected(e)
         \/ HandleConferenceUserDenied(e)
         \/ HandleConferenceDeleted(e)
  BY <1>1 DEF HandleEvent
<1>3. heard' = IF e.type = "added" THEN heard ELSE heard \cup {e.id}
  BY <1>2 DEF HandleReceiveCall, HandleConferenceUserConnected, HandleConferenceUserDisconnected,
              HandleConferenceUserDenied, HandleConferenceDeleted
<1>4. /\ Len(wire) \in Nat /\ 1 \in 1 .. Len(wire) /\ e = wire[1]
      /\ \A c : Announced(c) => Announced(c)' \/ Adds(1, c)
      /\ \A k \in 1 .. Len(wire) : \A c : k # 1 /\ Adds(k, c) => Announced(c)'
      /\ \A c, u : Moving(c, u) => Moving(c, u)' \/ Moves(1, c, u)
      /\ \A c \in Channels, u \in Users :
           live[c] # None /\ Moves(1, c, u) /\ ~Moving(c, u)' =>
             (e.type = "connected" <=> u \in live[c].present)
  BY <1>1, <1>2, <1>3, TakenFollows
<1>5. e.channel \in Channels /\ (e.type # "deleted" => e.user \in Users)
  BY <1>4, WireTyped DEF Inv, Typed, ServerTyped
<1>6. conferences \in ConferenceMaps /\ modal \in Channels \cup {None}
  BY DEF Inv, Typed
\* An event about an earlier conference is followed by the next one's first.
<1>7. ASSUME NEW c \in Channels, live[c] # None, ~Announced(c)', e.channel = c
      PROVE  e.id = live[c].id
  <2>1. ASSUME e.id # live[c].id
        PROVE  FALSE
    <3>1. OldFirst(c)
      BY <1>7 DEF Presence, WireFollows
    <3>2. PICK j \in 1 .. Len(wire) : 1 < j /\ Adds(j, c)
      BY <1>4, <1>7, <2>1, <3>1 DEF OldFirst
    <3> QED
      BY <1>4, <1>7, <3>2
  <2> QED
    BY <2>1
<1>8. CASE HandleReceiveCall(e)
  <2>1. PICK w : w = [channel |-> e.channel, call |-> Conference(e.id, e.user), fetched |-> FALSE]
    OBVIOUS
  <2>2. /\ e.type = "added" /\ receiving' = receiving \cup {w}
        /\ UNCHANGED <<conferences, modal, parameters, requests, heard>>
    BY <1>8, <2>1 DEF HandleReceiveCall
  <2>3. w.channel = e.channel /\ w.call.id = e.id /\ w.call.present = {}
    BY <2>1 DEF Conference
  <2>4. ASSUME NEW c \in Channels
        PROVE  StoreFollows(c)'
    <3> SUFFICES ASSUME causes = {}, live[c] # None, ~Announced(c)', ~Arriving(c)'
                 PROVE  /\ conferences[c] # None /\ conferences[c].id = live[c].id
                        /\ Replays(c, conferences[c].present)'
      BY <1>2, <2>2 DEF StoreFollows
    <3>1. ~Adds(1, c) /\ ~Arriving(c)
      BY <1>2, <1>4, <2>2, <2>3 DEF Adds, Arriving
    <3>2. ~Announced(c)
      BY <1>4, <3>1
    <3>3. /\ conferences[c] # None /\ conferences[c].id = live[c].id
          /\ Replays(c, conferences[c].present)
      BY <3>1, <3>2 DEF Presence, StoreFollows
    <3>4. \A u : ~Moves(1, c, u)
      BY <1>4, <2>2 DEF Moves
    <3> QED
      BY <1>2, <1>4, <2>2, <3>3, <3>4 DEF Replays
  <2>5. ReceivingFresh'
    BY <2>2, <2>3 DEF Presence, ReceivingFresh
  <2> QED
    BY <1>1, <1>2, <1>3, <2>2, <2>4, <2>5, TakenPresence DEF Presence
<1>9. ASSUME NEW x, conferences' = WithRegistrant(e.channel, x),
             e.type \in {"connected", "disconnected", "denied"},
             Stored(e.channel) =>
               /\ x \in Conferences /\ x.id = conferences[e.channel].id
               /\ \A u \in Users : (u \in x.present <=> u \in conferences[e.channel].present)
                    \/ (u = e.user /\ e.type \in {"connected", "disconnected"})
               /\ e.type = "connected" => e.user \in x.present
               /\ e.type = "disconnected" => e.user \notin x.present,
             modal' \in {None, modal}, e.type = "connected" /\ e.user = Me => modal' = None,
             receiving' = receiving,
             \A r \in requests' : r \in requests \/ r.outcome = "none"
      PROVE  Presence'
  <2>1. ASSUME NEW c \in Channels
        PROVE  StoreFollows(c)'
    <3> SUFFICES ASSUME causes = {}, live[c] # None, ~Announced(c)', ~Arriving(c)'
                 PROVE  /\ conferences'[c] # None /\ conferences'[c].id = live[c].id
                        /\ Replays(c, conferences[c].present)'
      BY <1>2 DEF StoreFollows
    <3>1. ~Adds(1, c) /\ ~Arriving(c)
      BY <1>2, <1>4, <1>9 DEF Adds, Arriving
    <3>2. ~Announced(c)
      BY <1>4, <3>1
    <3>3. /\ conferences[c] # None /\ conferences[c].id = live[c].id
          /\ Replays(c, conferences[c].present)
      BY <3>1, <3>2 DEF Presence, StoreFollows
    <3>4. CASE c # e.channel
      <4>1. conferences'[c] = conferences[c]
        BY <1>6, <1>9, <3>4 DEF WithRegistrant, With, ConferenceMaps
      <4>2. \A u : ~Moves(1, c, u)
        BY <1>4, <3>4 DEF Moves
      <4> QED
        BY <1>2, <1>4, <3>3, <4>1, <4>2 DEF Replays
    <3>5. CASE c = e.channel
      <4>1. e.id = live[c].id
        BY <1>7, <3>5
      <4>2. conferences'[c] = x /\ x # None /\ x.id = live[c].id
        BY <1>6, <1>9, <3>3, <3>5, ConferenceProperties
        DEF WithRegistrant, With, ConferenceMaps, Stored, Inv, Typed, ServerTyped
      <4>3. \A u : Moves(1, c, u) <=> u = e.user /\ e.type \in {"connected", "disconnected"}
        BY <1>4, <3>5, <4>1 DEF Moves
      <4>4. ASSUME NEW u \in Users, ~Moving(c, u)'
            PROVE  u \in x.present <=> u \in live[c].present
        <5>1. CASE Moves(1, c, u)
          BY <1>4, <1>9, <3>3, <3>5, <4>3, <4>4, <5>1 DEF Stored
        <5>2. CASE ~Moves(1, c, u)
          BY <1>4, <1>9, <3>3, <3>5, <4>3, <4>4, <5>2 DEF Stored, Replays
        <5> QED
          BY <5>1, <5>2
      <4> QED
        BY <1>2, <4>2, <4>4 DEF Replays
    <3> QED
      BY <3>4, <3>5
  <2>2. ReceivingFresh'
    BY <1>9 DEF Presence, ReceivingFresh
  <2>3. \A r \in requests' : RequestFresh(r)
    BY <1>9 DEF Presence, RequestFresh
  <2> QED
    BY <1>1, <1>2, <1>3, <1>9, <2>1, <2>2, <2>3, TakenPresence
<1>10. Stored(e.channel) => conferences[e.channel] \in Conferences
  BY <1>5, StoredProperties
<1>11. CASE HandleConferenceUserConnected(e)
  <2>1. PICK x : x = Joined(conferences[e.channel], e.user)
    OBVIOUS
  <2>2. /\ e.type = "connected" /\ receiving' = receiving
        /\ conferences' = WithRegistrant(e.channel, x)
        /\ modal' \in {None, modal} /\ (e.user = Me => modal' = None)
    BY <1>11, <2>1 DEF HandleConferenceUserConnected, Shows
  <2>3. \A r \in requests' : r \in requests \/ r.outcome = "none"
    BY <1>11 DEF HandleConferenceUserConnected, Ask
  <2>4. Stored(e.channel) =>
          /\ x \in Conferences /\ x.id = conferences[e.channel].id
          /\ x.present = conferences[e.channel].present \cup {e.user}
    BY <1>5, <1>10, <2>1, <2>2 DEF Joined, Conferences
  <2> QED
    BY <1>9, <2>2, <2>3, <2>4
<1>12. CASE HandleConferenceUserDisconnected(e)
  <2>1. PICK x : x = Left(conferences[e.channel], e.user)
    OBVIOUS
  <2>2. /\ e.type = "disconnected" /\ receiving' = receiving /\ requests' = requests
        /\ conferences' = WithRegistrant(e.channel, x) /\ modal' \in {None, modal}
    BY <1>12, <2>1 DEF HandleConferenceUserDisconnected, Shows
  <2>3. Stored(e.channel) =>
          /\ x \in Conferences /\ x.id = conferences[e.channel].id
          /\ x.present = conferences[e.channel].present \ {e.user}
    BY <1>5, <1>10, <2>1, <2>2 DEF Left, Conferences
  <2> QED
    BY <1>9, <2>2, <2>3
<1>13. CASE HandleConferenceUserDenied(e)
  <2>1. PICK x : x = Denied(conferences[e.channel], e.user)
    OBVIOUS
  <2>2. /\ e.type = "denied" /\ receiving' = receiving /\ requests' = requests
        /\ conferences' = WithRegistrant(e.channel, x) /\ modal' \in {None, modal}
    BY <1>13, <2>1 DEF HandleConferenceUserDenied, Shows
  <2>3. Stored(e.channel) =>
          /\ x \in Conferences /\ x.id = conferences[e.channel].id
          /\ x.present = conferences[e.channel].present
    BY <1>5, <1>10, <2>1, <2>2 DEF Denied, Conferences
  <2> QED
    BY <1>9, <2>2, <2>3
<1>14. CASE HandleConferenceDeleted(e)
  <2>1. PICK ringing \in {None, modal} : DeleteConference(e.channel, ringing)
    BY <1>14 DEF HandleConferenceDeleted
  <2>2. /\ e.type = "deleted" /\ receiving' = receiving /\ requests' = requests
        /\ modal' \in {None, modal}
        /\ \A c \in Channels : c # e.channel => conferences'[c] = conferences[c]
    BY <1>5, <1>6, <1>14, <2>1, WithProperties
    DEF HandleConferenceDeleted, DeleteConference, Shows
  <2>3. ASSUME NEW c \in Channels
        PROVE  StoreFollows(c)'
    <3> SUFFICES ASSUME causes = {}, live[c] # None, ~Announced(c)', ~Arriving(c)'
                 PROVE  /\ conferences'[c] # None /\ conferences'[c].id = live[c].id
                        /\ Replays(c, conferences[c].present)'
      BY <1>2 DEF StoreFollows
    <3>1. c # e.channel
      BY <1>4, <1>7, <2>2 DEF Presence, WireFollows, NotEnding
    <3>2. ~Adds(1, c) /\ ~Arriving(c) /\ \A u : ~Moves(1, c, u)
      BY <1>2, <1>4, <2>2 DEF Adds, Arriving, Moves
    <3>3. ~Announced(c)
      BY <1>4, <3>2
    <3>4. /\ conferences[c] # None /\ conferences[c].id = live[c].id
          /\ Replays(c, conferences[c].present)
      BY <3>2, <3>3 DEF Presence, StoreFollows
    <3> QED
      BY <1>2, <1>4, <2>2, <3>1, <3>2, <3>4 DEF Replays
  <2>4. ReceivingFresh'
    BY <2>2 DEF Presence, ReceivingFresh
  <2> QED
    BY <1>1, <1>2, <1>3, <2>2, <2>3, <2>4, TakenPresence DEF Presence
<1> QED
  BY <1>2, <1>8, <1>11, <1>12, <1>13, <1>14

LEMMA StepPresence == Inv /\ Presence /\ [Next]_vars => Presence'
<1> SUFFICES ASSUME Inv, Presence, [Next]_vars
             PROVE  Presence'
  OBVIOUS
<1>1. ASSUME NEW c \in Channels, NEW user \in Users,
             \/ OtherStarts(c, user) \/ UserConnects(c, user)
             \/ UserDisconnects(c, user) \/ UserDenies(c, user)
      PROVE  Presence'
  BY <1>1, OthersPresence
<1>2. ASSUME NEW c \in Channels, CallEnds(c)
      PROVE  Presence'
  BY <1>2, OthersPresence
<1>3. CASE \/ \E c \in Channels : StartCall(c) \/ JoinCall(c)
           \/ DeclineCall \/ CancelCall \/ GetMyMeets \/ CloseModal
  BY <1>3, UserPresence
<1>4. CASE HandleEvent
  BY <1>4, HandleEventPresence
<1>5. ASSUME NEW r \in receiving, ChannelFetched(r) \/ Received(r)
      PROVE  Presence'
  BY <1>5, ReceivingPresence
<1>6. ASSUME NEW r \in requests, ServerAnswers(r) \/ RequestEnds(r)
      PROVE  Presence'
  BY <1>6, ServerAnswersPresence, RequestEndsPresence
<1>7. CASE UNCHANGED vars
  BY <1>7, SameStorePresence DEF vars, Presence
<1> QED
  BY <1>1, <1>2, <1>3, <1>4, <1>5, <1>6, <1>7 DEF Next

LEMMA SettledMoves ==
  ASSUME Settled
  PROVE  \A c, u : ~Moving(c, u) /\ ~Announced(c) /\ ~Arriving(c)
<1>1. Len(wire) = 0 /\ receiving = {}
  BY DEF Settled
<1> QED
  BY <1>1 DEF Moving, Announced, Arriving

\* Who is in a conference, as the store has it, is who is in it, once every event is
\* handled and every request answered, unless one of the causes the code has no answer
\* to kept the store from following: the registrants of the store are updated by the
\* events one by one, and none is lost to a conference that is stored meanwhile.
THEOREM PresenceFollows == Spec => []PresenceMatches
<1>1. Inv /\ Presence => PresenceMatches
  <2> SUFFICES ASSUME Inv, Presence, Settled, causes = {}, NEW c \in Channels,
                      Stored(c), live[c] # None
               PROVE  conferences[c].present = live[c].present
    BY DEF PresenceMatches
  <2>1. StoreFollows(c)
    BY DEF Presence
  <2>2. Replays(c, conferences[c].present)
    BY <2>1, SettledMoves DEF StoreFollows
  <2>3. conferences[c].present \subseteq Users /\ live[c].present \subseteq Users
    BY WireTyped, StoredProperties DEF Conferences
  <2>4. \A u \in Users : u \in conferences[c].present <=> u \in live[c].present
    BY <2>2, SettledMoves DEF Replays
  <2> QED
    BY <2>3, <2>4
<1> QED
  BY InitInv, StepInv, InitPresence, StepPresence, <1>1, PTL DEF Spec

\* What rings when everything has arrived is a conference that goes on, and the user is
\* in none: a ring is closed by the user's own joining, wherever that was, and none
\* starts in a call.
THEOREM RingIsAnswerable == Spec => []RingIsForLiveCall
<1>1. Inv /\ Presence => RingIsForLiveCall
  <2> SUFFICES ASSUME Inv, Presence, Settled, modal # None, causes = {}
               PROVE  live[modal] # None
                      /\ \A c \in Channels : live[c] # None => Me \notin live[c].present
    BY DEF RingIsForLiveCall
  <2>1. live[modal] # None
    BY DEF Inv, RingFollowed, Settled, Follows
  <2>2. \A c \in Channels : live[c] # None => Me \notin live[c].present
    BY SettledMoves DEF Presence, RingOutside
  <2> QED
    BY <2>1, <2>2
<1> QED
  BY InitInv, StepInv, InitPresence, StepPresence, <1>1, PTL DEF Spec
=============================================================================
