------------------------ MODULE WebSocketClientProofs ------------------------
(***************************************************************************)
(* What WebSocketClient keeps, for any number of channels and private      *)
(* subscriptions, and whatever is pending together.  An event is handled   *)
(* once because the one name of each private subscription that may have a  *)
(* handler is that of the id which privates holds: whoever subscribes to a *)
(* name first gives up that one.                                           *)
(***************************************************************************)
EXTENDS WebSocketClient, TLAPS

\* Every name but that of the id in privates is without a handler.
OneName(channels, ids) ==
  \A p \in Privates, id \in Ids :
    /\ channels[<<p, id>>].handlers <= 1
    /\ ids[p] # id => channels[<<p, id>>].handlers = 0

Inv == TypeOK /\ OneName(subs.channels, privates)

\* No name has got a handler.
NoMore(s, t) ==
  \A n \in Names : t.channels[n].handlers <= s.channels[n].handlers

USE ClientAssumption

LEMMA SameNoMore ==
  ASSUME NEW s \in Subs, NEW t, t.channels = s.channels
  PROVE  NoMore(s, t)
  BY DEF NoMore, Subs, Entries

LEMMA NoMoreTransitive ==
  ASSUME NEW s \in Subs, NEW t \in Subs, NEW u \in Subs, NoMore(s, t), NoMore(t, u)
  PROVE  NoMore(s, u)
<1> SUFFICES ASSUME NEW n \in Names
             PROVE  u.channels[n].handlers <= s.channels[n].handlers
  BY DEF NoMore
<1>1. /\ s.channels[n].handlers \in Nat
      /\ t.channels[n].handlers \in Nat
      /\ u.channels[n].handlers \in Nat
  BY DEF Subs, Entries
<1> QED
  BY <1>1 DEF NoMore

LEMMA NoMoreOneName ==
  ASSUME NEW s \in Subs, NEW t \in Subs, NoMore(s, t), NEW ids, OneName(s.channels, ids)
  PROVE  OneName(t.channels, ids)
<1> SUFFICES ASSUME NEW p \in Privates, NEW id \in Ids
             PROVE  /\ t.channels[<<p, id>>].handlers <= 1
                    /\ ids[p] # id => t.channels[<<p, id>>].handlers = 0
  BY DEF OneName
<1>1. <<p, id>> \in Names
  BY DEF Names, PrivateNames
<1>2. /\ s.channels[<<p, id>>].handlers \in Nat
      /\ t.channels[<<p, id>>].handlers \in Nat
      /\ t.channels[<<p, id>>].handlers <= s.channels[<<p, id>>].handlers
  BY <1>1 DEF Subs, Entries, NoMore
<1> QED
  BY <1>2 DEF OneName

-----------------------------------------------------------------------------
(* Channel objects and names *)

LEMMA EntryTyped ==
  ASSUME NEW e \in Entries
  PROVE  /\ Gone \in Entries /\ Gone.handlers = 0 /\ Gone.handlers <= e.handlers
         /\ Subscribed(e) \in Entries /\ Subscribed(e).handlers <= e.handlers
         /\ Bound(e) \in Entries /\ Bound(e).handlers <= e.handlers + 1
<1>1. Gone \in Entries /\ Gone.handlers = 0 /\ Gone.handlers <= e.handlers
  BY DEF Gone, Entries
<1>2. Subscribed(e) \in Entries /\ Subscribed(e).handlers = e.handlers
  BY DEF Subscribed, Entries
<1>3. Subscribed(e).handlers <= e.handlers
  BY <1>2 DEF Entries
<1>4. Bound(e) \in Entries /\ Bound(e).handlers <= e.handlers + 1
  BY <1>2 DEF Bound, Entries
<1> QED
  BY <1>1, <1>2, <1>3, <1>4

LEMMA EntryOf ==
  ASSUME NEW s \in Subs, NEW c \in Channels
  PROVE  s.channels[c] \in Entries
  BY DEF Subs, Names

LEMMA ObjectTyped ==
  ASSUME NEW o \in Objects \cup {None}, NEW c \in Channels
  PROVE  Outdated(o, c) \in Objects \cup {None} /\ Present(c) \in Objects
<1>1. Present(c) \in Objects
  BY DEF Present, Objects
<1>2. [Present(c) EXCEPT !.present = FALSE] \in Objects
  BY DEF Present, Objects
<1> QED
  BY <1>1, <1>2 DEF Outdated

\* One entry changes, to one without more handlers.
LEMMA EntryChanged ==
  ASSUME NEW channels \in [Names -> Entries], NEW c \in Channels, NEW e \in Entries,
         e.handlers <= channels[c].handlers
  PROVE  /\ [channels EXCEPT ![c] = e] \in [Names -> Entries]
         /\ \A n \in Names : [channels EXCEPT ![c] = e][n].handlers <= channels[n].handlers
  BY DEF Names, Entries

-----------------------------------------------------------------------------
(* The presence channels: nothing gets a handler. *)

LEMMA UnsubscribedKeeps ==
  ASSUME NEW s \in Subs, NEW c \in Channels
  PROVE  Unsubscribed(s, c) \in Subs /\ NoMore(s, Unsubscribed(s, c))
<1> DEFINE t == Unsubscribed(s, c)
<1>1. t = [s EXCEPT !.channels = [s.channels EXCEPT ![c] = Gone],
                    !.presence = Outdated(s.presence, c),
                    !.thread = Outdated(s.thread, c)]
  BY DEF Unsubscribed, Subs
<1>2. s.channels[c] \in Entries /\ Gone \in Entries /\ Gone.handlers <= s.channels[c].handlers
  BY EntryOf, EntryTyped
<1> DEFINE ch == [s.channels EXCEPT ![c] = Gone]
<1>3. ch \in [Names -> Entries] /\ \A n \in Names : ch[n].handlers <= s.channels[n].handlers
  BY <1>2, EntryChanged DEF Subs
<1> HIDE DEF ch
<1>4. Outdated(s.presence, c) \in Objects \cup {None} /\ Outdated(s.thread, c) \in Objects \cup {None}
  BY ObjectTyped DEF Subs
<1>5. t \in Subs /\ t.channels = ch
  BY <1>1, <1>3, <1>4 DEF Subs, ch
<1> QED
  BY <1>3, <1>5 DEF NoMore

LEMMA PresenceBoundKeeps ==
  ASSUME NEW s \in Subs, NEW c \in Channels
  PROVE  PresenceBound(s, c) \in Subs /\ NoMore(s, PresenceBound(s, c))
<1> DEFINE t == PresenceBound(s, c)
           ch == [s.channels EXCEPT ![c] = Subscribed(s.channels[c])]
<1>1. t = [s EXCEPT !.currentPresence = c, !.presence = Present(c), !.channels = ch]
  BY DEF PresenceBound, Subs
<1>2. /\ s.channels[c] \in Entries
      /\ Subscribed(s.channels[c]) \in Entries
      /\ Subscribed(s.channels[c]).handlers <= s.channels[c].handlers
  BY EntryOf, EntryTyped
<1>3. ch \in [Names -> Entries] /\ \A n \in Names : ch[n].handlers <= s.channels[n].handlers
  BY <1>2, EntryChanged DEF Subs
<1> HIDE DEF ch
<1>4. Present(c) \in Objects
  BY ObjectTyped
<1>5. t \in Subs /\ t.channels = ch
  BY <1>1, <1>3, <1>4 DEF Subs
<1> QED
  BY <1>3, <1>5 DEF NoMore

LEMMA PresenceUnboundKeeps ==
  ASSUME NEW s \in Subs, NEW c \in Channels
  PROVE  PresenceUnbound(s, c) \in Subs /\ NoMore(s, PresenceUnbound(s, c))
<1>1. CASE s.currentThread = c /\ s.thread = None
  <2>1. PresenceUnbound(s, c)
          = [s EXCEPT !.thread = s.presence, !.presence = None, !.currentPresence = None]
    BY <1>1 DEF PresenceUnbound
  <2>2. s.presence \in Objects \cup {None} /\ s.channels \in [Names -> Entries]
    BY DEF Subs
  <2>3. PresenceUnbound(s, c) \in Subs /\ PresenceUnbound(s, c).channels = s.channels
    BY <2>1, <2>2 DEF Subs
  <2> QED
    BY <2>2, <2>3 DEF NoMore, Entries
<1>2. CASE ~(s.currentThread = c /\ s.thread = None)
  <2> DEFINE u == Unsubscribed(s, c)
  <2>1. PresenceUnbound(s, c) = [u EXCEPT !.presence = None, !.currentPresence = None]
    BY <1>2 DEF PresenceUnbound
  <2>2. u \in Subs /\ NoMore(s, u)
    BY UnsubscribedKeeps
  <2> HIDE DEF u
  <2> QED
    BY <2>1, <2>2 DEF Subs, NoMore
<1> QED
  BY <1>1, <1>2

LEMMA ThreadUnboundKeeps ==
  ASSUME NEW s \in Subs
  PROVE  /\ ThreadUnbound(s) \in Subs /\ NoMore(s, ThreadUnbound(s))
         /\ ThreadUnbound(s).currentPresence = s.currentPresence
<1>1. NoMore(s, s)
  BY DEF NoMore, Subs, Entries
<1>2. CASE s.currentThread = None
  BY <1>1, <1>2 DEF ThreadUnbound
<1>3. CASE s.currentThread # None /\ (s.thread = None \/ s.thread = s.presence)
  <2>1. ThreadUnbound(s) = [s EXCEPT !.thread = None, !.currentThread = None]
    BY <1>3 DEF ThreadUnbound
  <2> QED
    BY <1>1, <2>1 DEF Subs, NoMore
<1>4. CASE s.currentThread # None /\ ~(s.thread = None \/ s.thread = s.presence)
  <2>0. s.currentThread \in Channels
    BY <1>4 DEF Subs
  <2> DEFINE u == Unsubscribed(s, s.currentThread)
  <2>1. ThreadUnbound(s) = [u EXCEPT !.thread = None, !.currentThread = None]
    BY <1>4 DEF ThreadUnbound
  <2>2. u \in Subs /\ NoMore(s, u)
    BY <2>0, UnsubscribedKeeps
  <2>3. u.currentPresence = s.currentPresence
    BY DEF Unsubscribed, Subs
  <2> HIDE DEF u
  <2> QED
    BY <2>1, <2>2, <2>3 DEF Subs, NoMore
<1> QED
  BY <1>2, <1>3, <1>4

LEMMA ThreadBoundKeeps ==
  ASSUME NEW s \in Subs, NEW c \in Channels
  PROVE  ThreadBound(s, c) \in Subs /\ NoMore(s, ThreadBound(s, c))
<1>1. CASE c = s.currentThread
  BY <1>1 DEF ThreadBound, NoMore, Subs, Entries
<1>2. CASE c # s.currentThread
  <2> DEFINE u == ThreadUnbound(s)
             t == [u EXCEPT !.currentThread = c]
             ch == [t.channels EXCEPT ![c] = Subscribed(t.channels[c])]
  <2>1. u \in Subs /\ NoMore(s, u)
    BY ThreadUnboundKeeps
  <2> HIDE DEF u
  <2>2. t \in Subs /\ NoMore(s, t)
    BY <2>1 DEF Subs, NoMore
  <2>3. ThreadBound(s, c)
          = IF c = t.currentPresence THEN t
            ELSE [t EXCEPT !.thread = Present(c), !.channels = ch]
    BY <1>2, <2>2 DEF ThreadBound, u, Subs
  <2> HIDE DEF t
  <2>4. /\ t.channels[c] \in Entries
        /\ Subscribed(t.channels[c]) \in Entries
        /\ Subscribed(t.channels[c]).handlers <= t.channels[c].handlers
    BY <2>2, EntryOf, EntryTyped
  <2>5. ch \in [Names -> Entries] /\ \A n \in Names : ch[n].handlers <= t.channels[n].handlers
    BY <2>2, <2>4, EntryChanged DEF Subs
  <2> HIDE DEF ch
  <2>6. [t EXCEPT !.thread = Present(c), !.channels = ch] \in Subs
    BY <2>2, <2>5, ObjectTyped DEF Subs
  <2>7. NoMore(s, [t EXCEPT !.thread = Present(c), !.channels = ch])
    BY <2>2, <2>5 DEF NoMore, Subs, Entries
  <2> QED
    BY <2>2, <2>3, <2>6, <2>7
<1> QED
  BY <1>1, <1>2

-----------------------------------------------------------------------------
(* The private subscriptions *)

\* After a subscription to the name of id, that name has at most one handler, and
\* the other name of the same subscription none.
LEMMA SubscribedNames ==
  ASSUME TypeOK, NEW channels \in [Names -> Entries], OneName(channels, privates),
         NEW p \in Privates, NEW id \in Ids, NEW i \in Ids
  PROVE  LET e == PrivateSubscribed(channels, p, id)[<<p, i>>]
         IN  e \in Entries /\ e.handlers <= 1 /\ (i # id => e.handlers = 0)
<1> DEFINE e == PrivateSubscribed(channels, p, id)[<<p, i>>]
<1>1. /\ <<p, i>> \in Names
      /\ channels[<<p, i>>] \in Entries
      /\ privates[p] # i => channels[<<p, i>>].handlers = 0
  BY DEF Names, PrivateNames, OneName
<1>2. CASE i = id
  <2> DEFINE before == IF privates[p] = id THEN Gone ELSE channels[<<p, id>>]
  <2>1. before \in Entries /\ before.handlers = 0
    BY <1>1, <1>2, EntryTyped DEF Entries
  <2>2. e = Bound(before)
    BY <1>1, <1>2 DEF PrivateSubscribed
  <2> HIDE DEF before, e
  <2>3. Bound(before) \in Entries /\ Bound(before).handlers <= 1
    BY <2>1, EntryTyped
  <2> QED
    BY <1>2, <2>2, <2>3 DEF e
<1>3. CASE i # id
  <2>1. e = IF privates[p] = i THEN Gone ELSE channels[<<p, i>>]
    BY <1>1, <1>3 DEF PrivateSubscribed
  <2>2. e \in Entries /\ e.handlers = 0
    BY <1>1, <2>1, EntryTyped
  <2> QED
    BY <1>3, <2>2
<1> QED
  BY <1>2, <1>3

LEMMA PrivateSubscribedKeeps ==
  ASSUME TypeOK, NEW channels \in [Names -> Entries], OneName(channels, privates),
         NEW p \in Privates, NEW id \in Ids
  PROVE  /\ PrivateSubscribed(channels, p, id) \in [Names -> Entries]
         /\ OneName(PrivateSubscribed(channels, p, id), [privates EXCEPT ![p] = id])
<1> DEFINE ch == PrivateSubscribed(channels, p, id)
<1>1. \A i \in Ids : /\ ch[<<p, i>>] \in Entries
                     /\ ch[<<p, i>>].handlers <= 1
                     /\ i # id => ch[<<p, i>>].handlers = 0
  BY SubscribedNames
<1>2. ch \in [Names -> Entries]
  <2> SUFFICES ASSUME NEW n \in Names
               PROVE  ch[n] \in Entries
    BY DEF PrivateSubscribed
  <2>1. channels[n] \in Entries /\ channels[<<p, id>>] \in Entries
    BY DEF Names, PrivateNames
  <2>2. Gone \in Entries /\ Bound(Gone) \in Entries /\ Bound(channels[<<p, id>>]) \in Entries
    BY <2>1, EntryTyped
  <2> QED
    BY <2>1, <2>2 DEF PrivateSubscribed
<1>3. \A q \in Privates, i \in Ids : q # p => ch[<<q, i>>] = channels[<<q, i>>]
  BY DEF PrivateSubscribed, Names, PrivateNames
<1> HIDE DEF ch
<1>4. OneName(ch, [privates EXCEPT ![p] = id])
  <2> DEFINE now == [privates EXCEPT ![p] = id]
  <2>1. now[p] = id /\ \A q \in Privates : q # p => now[q] = privates[q]
    BY DEF TypeOK
  <2> HIDE DEF now
  <2> SUFFICES ASSUME NEW q \in Privates, NEW i \in Ids
               PROVE  /\ ch[<<q, i>>].handlers <= 1
                      /\ now[q] # i => ch[<<q, i>>].handlers = 0
    BY DEF OneName, now
  <2>2. CASE q = p
    BY <1>1, <2>1, <2>2
  <2>3. CASE q # p
    BY <1>3, <2>1, <2>3 DEF OneName
  <2> QED
    BY <2>2, <2>3
<1> QED
  BY <1>2, <1>4 DEF ch

\* All of them.
LEMMA AllPrivatesSubscribedKeeps ==
  ASSUME TypeOK, NEW channels \in [Names -> Entries], OneName(channels, privates),
         NEW id \in Ids
  PROVE  /\ AllPrivatesSubscribed(channels, id) \in [Names -> Entries]
         /\ OneName(AllPrivatesSubscribed(channels, id), [p \in Privates |-> id])
<1> DEFINE ch == AllPrivatesSubscribed(channels, id)
<1>1. ASSUME NEW p \in Privates, NEW i \in Ids
      PROVE  /\ ch[<<p, i>>] \in Entries
             /\ ch[<<p, i>>].handlers <= 1
             /\ i # id => ch[<<p, i>>].handlers = 0
  <2>1. ch[<<p, i>>] = PrivateSubscribed(channels, p, id)[<<p, i>>]
    BY DEF AllPrivatesSubscribed, Names, PrivateNames
  <2> QED
    BY <2>1, SubscribedNames
<1>2. \A n \in Names \ PrivateNames : ch[n] = channels[n]
  BY DEF AllPrivatesSubscribed
<1>3. ch \in [Names -> Entries]
  <2>1. ASSUME NEW n \in Names PROVE ch[n] \in Entries
    BY <1>1, <1>2 DEF PrivateNames
  <2> QED
    BY <2>1 DEF AllPrivatesSubscribed
<1> HIDE DEF ch
<1>4. OneName(ch, [p \in Privates |-> id])
  BY <1>1 DEF OneName
<1> QED
  BY <1>3, <1>4 DEF ch

\* The callback of the jitter timer.
LEMMA AllSubscribedKeeps ==
  ASSUME Inv, NEW id \in Ids
  PROVE  /\ AllSubscribed(subs, id) \in Subs
         /\ OneName(AllSubscribed(subs, id).channels, [p \in Privates |-> id])
<1> DEFINE ch == AllPrivatesSubscribed(subs.channels, id)
           s1 == [subs EXCEPT !.channels = ch]
           c  == IF initial.presence # None THEN initial.presence ELSE s1.currentPresence
           s2 == IF c = None THEN s1 ELSE PresenceBound(s1, c)
           s3 == [s2 EXCEPT !.currentThread = None, !.thread = None]
           t  == IF s2.currentThread = None THEN s2 ELSE ThreadBound(s3, s2.currentThread)
<1>0. subs \in Subs /\ TypeOK
  BY DEF Inv, TypeOK
<1>1. ch \in [Names -> Entries] /\ OneName(ch, [p \in Privates |-> id])
  BY <1>0, AllPrivatesSubscribedKeeps DEF Inv, Subs
<1>2. AllSubscribed(subs, id) = t
  BY DEF AllSubscribed, Inv, TypeOK, Subs
<1> HIDE DEF ch
<1>3. s1 \in Subs /\ s1.channels = ch
  BY <1>0, <1>1 DEF Subs
<1>4. c \in Channels \cup {None}
  BY <1>3 DEF Inv, TypeOK, Subs
<1> HIDE DEF s1, c
<1>5. s2 \in Subs /\ NoMore(s1, s2)
  <2>1. CASE c = None
    BY <1>3, <2>1, SameNoMore
  <2>2. CASE c # None
    BY <1>3, <1>4, <2>2, PresenceBoundKeeps
  <2> QED
    BY <2>1, <2>2
<1> HIDE DEF s2
<1>6. s3 \in Subs /\ s3.channels = s2.channels /\ s2.currentThread \in Channels \cup {None}
  BY <1>5 DEF Subs
<1> HIDE DEF s3
<1>7. t \in Subs /\ NoMore(s2, t)
  <2>1. CASE s2.currentThread = None
    BY <1>5, <2>1, SameNoMore
  <2>2. CASE s2.currentThread # None
    <3>1. t \in Subs /\ NoMore(s3, t)
      BY <1>6, <2>2, ThreadBoundKeeps
    <3> QED
      BY <1>5, <1>6, <3>1, SameNoMore, NoMoreTransitive
  <2> QED
    BY <2>1, <2>2
<1> HIDE DEF t
<1>8. OneName(t.channels, [p \in Privates |-> id])
  BY <1>1, <1>3, <1>5, <1>7, NoMoreOneName
<1> QED
  BY <1>2, <1>7, <1>8

-----------------------------------------------------------------------------
(* The invariant *)

LEMMA InitInv == Init => Inv
<1> SUFFICES ASSUME Init PROVE Inv
  OBVIOUS
<1>1. Gone \in Entries /\ Gone.handlers = 0
  BY DEF Gone, Entries
<1>2. subs \in Subs /\ \A n \in Names : subs.channels[n] = Gone
  BY <1>1 DEF Init, Subs
<1>3. given \in [ids : Ids, presence : Channels \cup {None}]
  BY DEF Init, Ids
<1>4. initial \in [ids : Ids, presence : Channels \cup {None}]
  BY DEF Init, Ids
<1>5. privates \in [Privates -> Ids \cup {None}]
  BY DEF Init
<1>6. retries \in 0..MaxTimers /\ jitters \in 0..MaxTimers
  BY DEF Init
<1>7. TypeOK
  BY <1>2, <1>3, <1>4, <1>5, <1>6 DEF Init, TypeOK
<1>8. OneName(subs.channels, privates)
  BY <1>1, <1>2 DEF OneName, Names, PrivateNames
<1> QED
  BY <1>7, <1>8 DEF Inv

\* The actions that change states of subscriptions only.
LEMMA StatesChange ==
  ASSUME Inv, NEW ch \in [Names -> Entries],
         \A n \in Names : ch[n].handlers = subs.channels[n].handlers,
         subs' = [subs EXCEPT !.channels = ch]
  PROVE  subs' \in Subs /\ NoMore(subs, subs')
<1>1. subs \in Subs
  BY DEF Inv, TypeOK
<1>2. subs' \in Subs /\ subs'.channels = ch
  BY <1>1 DEF Subs
<1>3. \A n \in Names : subs.channels[n].handlers \in Nat
  BY <1>1 DEF Subs, Entries
<1> QED
  BY <1>2, <1>3 DEF NoMore

\* The actions that give no handler keep the invariant.
LEMMA NoMoreKeeps ==
  ASSUME Inv, subs' \in Subs, NoMore(subs, subs'), UNCHANGED privates
  PROVE  OneName(subs'.channels, privates')
<1>1. subs \in Subs
  BY DEF Inv, TypeOK
<1>2. OneName(subs.channels, privates)
  BY DEF Inv
<1>3. OneName(subs'.channels, privates)
  BY <1>1, <1>2, NoMoreOneName
<1> QED
  BY <1>3

LEMMA NewConnectionKeeps ==
  ASSUME Inv, NewConnection
  PROVE  subs' \in Subs /\ NoMore(subs, subs') /\ given' \in [ids : Ids, presence : Channels \cup {None}]
<1> DEFINE ch == [n \in Names |-> Gone]
           pr == IF subs.presence = None THEN None ELSE Outdated(subs.presence, subs.presence.channel)
           th == IF subs.thread = None THEN None ELSE Outdated(subs.thread, subs.thread.channel)
<1>1. subs \in Subs
  BY DEF Inv, TypeOK
<1>2. subs' = [subs EXCEPT !.channels = ch, !.presence = pr, !.thread = th]
  BY <1>1 DEF NewConnection, Subs
<1>3. ch \in [Names -> Entries] /\ \A n \in Names : ch[n].handlers <= subs.channels[n].handlers
  <2>1. ASSUME NEW n \in Names
        PROVE  Gone \in Entries /\ Gone.handlers <= subs.channels[n].handlers
    BY <1>1, EntryTyped DEF Subs
  <2> QED
    BY <2>1
<1>4. pr \in Objects \cup {None}
  <2>1. CASE subs.presence = None
    BY <2>1
  <2>2. CASE subs.presence # None
    <3>1. subs.presence \in Objects /\ subs.presence.channel \in Channels
      BY <1>1, <2>2 DEF Subs, Objects
    <3> QED
      BY <2>2, <3>1, ObjectTyped
  <2> QED
    BY <2>1, <2>2
<1>5. th \in Objects \cup {None}
  <2>1. CASE subs.thread = None
    BY <2>1
  <2>2. CASE subs.thread # None
    <3>1. subs.thread \in Objects /\ subs.thread.channel \in Channels
      BY <1>1, <2>2 DEF Subs, Objects
    <3> QED
      BY <2>2, <3>1, ObjectTyped
  <2> QED
    BY <2>1, <2>2
<1> HIDE DEF ch, pr, th
<1>6. subs' \in Subs /\ subs'.channels = ch
  BY <1>1, <1>2, <1>3, <1>4, <1>5 DEF Subs
<1>7. given' \in [ids : Ids, presence : Channels \cup {None}]
  BY <1>1 DEF NewConnection, CurrentIds, Ids, Subs
<1> QED
  BY <1>3, <1>6, <1>7 DEF NoMore

\* An error gives up the presence channels and changes states.
LEMMA ConnectionErrorKeeps ==
  ASSUME Inv, ConnectionError
  PROVE  subs' \in Subs /\ NoMore(subs, subs')
<1> DEFINE Dropped(s, o) == IF o = None THEN s ELSE Unsubscribed(s, o.channel)
           one  == Dropped(subs, subs.thread)
           both == Dropped(one, subs.presence)
           ch   == [n \in Names |->
                      IF conn' = "disconnected" /\ both.channels[n].state = "live"
                      THEN [both.channels[n] EXCEPT !.state = "waiting"]
                      ELSE both.channels[n]]
<1>1. subs \in Subs
  BY DEF Inv, TypeOK
<1>2. ASSUME NEW s \in Subs, NEW o \in Objects \cup {None}
      PROVE  Dropped(s, o) \in Subs /\ NoMore(s, Dropped(s, o))
  <2>1. CASE o = None
    BY <2>1, SameNoMore
  <2>2. CASE o # None
    <3>1. o.channel \in Channels
      BY <2>2 DEF Objects
    <3> QED
      BY <2>2, <3>1, UnsubscribedKeeps
  <2> QED
    BY <2>1, <2>2
<1>3. one \in Subs /\ NoMore(subs, one)
  BY <1>1, <1>2 DEF Subs
<1>4. both \in Subs /\ NoMore(one, both)
  <2>1. subs.presence \in Objects \cup {None}
    BY <1>1 DEF Subs
  <2> HIDE DEF one
  <2> QED
    BY <1>2, <1>3, <2>1
<1>5. subs' = [both EXCEPT !.thread = None, !.presence = None, !.channels = ch]
  BY <1>4 DEF ConnectionError, Subs
<1>6. NoMore(subs, both)
  BY <1>1, <1>3, <1>4, NoMoreTransitive
<1> HIDE DEF both
<1>7. \A n \in Names : ch[n] \in Entries /\ ch[n].handlers = both.channels[n].handlers
  BY <1>4 DEF Subs, Entries
<1>8. subs' \in Subs /\ subs'.channels = ch
  <2>1. ch \in [Names -> Entries]
    BY <1>7
  <2> HIDE DEF ch
  <2> QED
    BY <1>4, <1>5, <2>1 DEF Subs
<1> QED
  BY <1>6, <1>7, <1>8 DEF NoMore

\* The timers stay within their bound.
LEMMA TimersTyped ==
  ASSUME TypeOK, NEW connection, ReconnectAllChannels(connection)
  PROVE  /\ retries' \in 0..MaxTimers
         /\ jitters' \in 0..MaxTimers
         /\ reconnecting' \in BOOLEAN
<1>1. CASE connection # "connected"
  <2>1. /\ retries < MaxTimers /\ retries' = retries + 1
        /\ UNCHANGED <<jitters, reconnecting>>
    BY <1>1 DEF ReconnectAllChannels
  <2>2. retries' \in 0..MaxTimers
    BY <2>1 DEF TypeOK
  <2> QED
    BY <2>1, <2>2 DEF TypeOK
<1>2. CASE connection = "connected"
  <2>1. /\ jitters < MaxTimers /\ jitters' = jitters + 1
        /\ reconnecting' = FALSE /\ retries' = retries
    BY <1>2 DEF ReconnectAllChannels
  <2>2. jitters' \in 0..MaxTimers
    BY <2>1 DEF TypeOK
  <2> QED
    BY <2>1, <2>2 DEF TypeOK
<1> QED
  BY <1>1, <1>2

\* Every step keeps the invariant.
LEMMA StepInv ==
  ASSUME Inv, Next
  PROVE  Inv'
<1>0. subs \in Subs /\ TypeOK
  BY DEF Inv, TypeOK
<1>1. CASE Connected
  <2> DEFINE ch == [n \in Names |-> IF subs.channels[n].state = "refused"
                                    THEN [subs.channels[n] EXCEPT !.state = "waiting"]
                                    ELSE subs.channels[n]]
  <2>1. subs' = [subs EXCEPT !.channels = ch]
    BY <1>0, <1>1 DEF Connected, Subs
  <2>2. \A n \in Names : ch[n] \in Entries /\ ch[n].handlers = subs.channels[n].handlers
    BY <1>0 DEF Subs, Entries
  <2>3. ch \in [Names -> Entries]
    BY <2>2
  <2> HIDE DEF ch
  <2>4. subs' \in Subs /\ NoMore(subs, subs')
    BY <2>1, <2>2, <2>3, StatesChange
  <2>5. /\ retries' \in 0..MaxTimers /\ jitters' \in 0..MaxTimers
        /\ reconnecting' \in BOOLEAN /\ renewing' \in BOOLEAN
    <3>1. CASE failed
      BY <1>0, <1>1, <3>1 DEF Connected, TypeOK
    <3>2. CASE ~failed
      BY <1>0, <1>1, <3>2, TimersTyped DEF Connected, TypeOK
    <3> QED
      BY <3>1, <3>2
  <2>6. TypeOK'
    BY <1>0, <1>1, <2>4, <2>5 DEF Connected, TypeOK
  <2> QED
    BY <1>1, <2>4, <2>6, NoMoreKeeps DEF Connected, Inv
<1>2. CASE ConnectionLost
  <2> DEFINE ch == [n \in Names |-> IF subs.channels[n].state = "live"
                                    THEN [subs.channels[n] EXCEPT !.state = "waiting"]
                                    ELSE subs.channels[n]]
  <2>1. subs' = [subs EXCEPT !.channels = ch]
    BY <1>0, <1>2 DEF ConnectionLost, Subs
  <2>2. \A n \in Names : ch[n] \in Entries /\ ch[n].handlers = subs.channels[n].handlers
    BY <1>0 DEF Subs, Entries
  <2>3. ch \in [Names -> Entries]
    BY <2>2
  <2> HIDE DEF ch
  <2>4. subs' \in Subs /\ NoMore(subs, subs')
    BY <2>1, <2>2, <2>3, StatesChange
  <2>5. TypeOK'
    BY <1>0, <1>2, <2>4 DEF ConnectionLost, TypeOK
  <2> QED
    BY <1>2, <2>4, <2>5, NoMoreKeeps DEF ConnectionLost, Inv
<1>3. CASE ConnectionError
  <2>1. subs' \in Subs /\ NoMore(subs, subs')
    BY <1>3, ConnectionErrorKeeps
  <2>2. TypeOK'
    BY <1>0, <1>3, <2>1 DEF ConnectionError, TypeOK
  <2> QED
    BY <1>3, <2>1, <2>2, NoMoreKeeps DEF ConnectionError, Inv
<1>4. CASE UpdateToken
  <2>1. /\ subs' \in Subs /\ NoMore(subs, subs')
        /\ given' \in [ids : Ids, presence : Channels \cup {None}]
    BY <1>4, NewConnectionKeeps DEF UpdateToken
  <2>2. TypeOK'
    BY <1>0, <1>4, <2>1 DEF UpdateToken, NewConnection, TypeOK
  <2> QED
    BY <1>4, <2>1, <2>2, NoMoreKeeps DEF UpdateToken, NewConnection, Inv
<1>5. CASE TokenRefused
  BY <1>5 DEF TokenRefused, Inv, TypeOK
<1>6. CASE SendMessage
  <2>1. /\ subs' \in Subs /\ NoMore(subs, subs')
        /\ given' \in [ids : Ids, presence : Channels \cup {None}]
    BY <1>6, NewConnectionKeeps DEF SendMessage
  <2>2. TypeOK'
    BY <1>0, <1>6, <2>1 DEF SendMessage, NewConnection, TypeOK
  <2> QED
    BY <1>6, <2>1, <2>2, NoMoreKeeps DEF SendMessage, NewConnection, Inv
<1>7. CASE PrefetchSucceeds
  <2>1. retries' \in 0..MaxTimers /\ jitters' \in 0..MaxTimers /\ reconnecting' \in BOOLEAN
    BY <1>0, <1>7, TimersTyped DEF PrefetchSucceeds
  <2>2. TypeOK'
    BY <1>0, <1>7, <2>1 DEF PrefetchSucceeds, TypeOK
  <2> QED
    BY <1>7, <2>2 DEF PrefetchSucceeds, Inv
<1>8. CASE RetryFires
  <2>1. retries' \in 0..MaxTimers /\ jitters' \in 0..MaxTimers
    BY <1>0, <1>8 DEF RetryFires, TypeOK
  <2>2. TypeOK'
    BY <1>0, <1>8, <2>1 DEF RetryFires, TypeOK
  <2> QED
    BY <1>8, <2>2 DEF RetryFires, Inv
<1>9. CASE JitterFires
  <2>1. initial.ids \in Ids
    BY <1>0 DEF TypeOK
  <2>2. subs' \in Subs /\ OneName(subs'.channels, privates')
    BY <1>9, <2>1, AllSubscribedKeeps DEF JitterFires
  <2>3. jitters' \in 0..MaxTimers /\ privates' \in [Privates -> Ids \cup {None}]
    BY <1>0, <1>9, <2>1 DEF JitterFires, TypeOK
  <2>4. TypeOK'
    BY <1>0, <1>9, <2>2, <2>3 DEF JitterFires, TypeOK
  <2> QED
    BY <2>2, <2>4 DEF Inv
<1>10. ASSUME NEW n \in Names, SubscriptionSucceeds(n) \/ SubscriptionFails(n)
       PROVE  Inv'
  <2>1. PICK state \in {"live", "refused"} : subs' = [subs EXCEPT !.channels[n].state = state]
    BY <1>10 DEF SubscriptionSucceeds, SubscriptionFails
  <2> DEFINE ch == [subs.channels EXCEPT ![n] = [subs.channels[n] EXCEPT !.state = state]]
  <2>2. subs' = [subs EXCEPT !.channels = ch]
    BY <1>0, <2>1 DEF Subs
  <2>3. \A m \in Names : ch[m] \in Entries /\ ch[m].handlers = subs.channels[m].handlers
    BY <1>0 DEF Subs, Entries
  <2>4. ch \in [Names -> Entries]
    BY <1>0, <2>3 DEF Subs
  <2> HIDE DEF ch
  <2>5. subs' \in Subs /\ NoMore(subs, subs')
    BY <2>2, <2>3, <2>4, StatesChange
  <2>6. refused' \subseteq PrivateNames
    BY <1>0, <1>10 DEF SubscriptionSucceeds, SubscriptionFails, TypeOK
  <2>7. TypeOK'
    BY <1>0, <1>10, <2>5, <2>6 DEF SubscriptionSucceeds, SubscriptionFails, TypeOK
  <2> QED
    BY <1>10, <2>5, <2>7, NoMoreKeeps DEF SubscriptionSucceeds, SubscriptionFails, Inv
<1>11. ASSUME NEW n \in PrivateNames, RefusedRetryFires(n)
       PROVE  Inv'
  <2> DEFINE ch == PrivateSubscribed(subs.channels, n[1], n[2])
  <2>1. n[1] \in Privates /\ n[2] \in Ids
    BY DEF PrivateNames
  <2>2. ch \in [Names -> Entries] /\ OneName(ch, [privates EXCEPT ![n[1]] = n[2]])
    BY <1>0, <2>1, PrivateSubscribedKeeps DEF Inv, Subs
  <2>3. subs' = [subs EXCEPT !.channels = ch] /\ privates' = [privates EXCEPT ![n[1]] = n[2]]
    BY <1>0, <1>11 DEF RefusedRetryFires, Subs
  <2> HIDE DEF ch
  <2>4. subs' \in Subs /\ subs'.channels = ch
    BY <1>0, <2>2, <2>3 DEF Subs
  <2>5. privates' \in [Privates -> Ids \cup {None}]
    BY <1>0, <2>1, <2>3 DEF TypeOK
  <2>6. TypeOK'
    BY <1>0, <1>11, <2>4, <2>5 DEF RefusedRetryFires, TypeOK
  <2> QED
    BY <2>2, <2>3, <2>4, <2>6 DEF Inv
<1>12. ASSUME NEW c \in Channels, ViewChannel(c)
       PROVE  Inv'
  <2> DEFINE s == IF view = None THEN subs ELSE PresenceUnbound(subs, view)
  <2>1. s \in Subs /\ NoMore(subs, s)
    <3>1. CASE view = None
      BY <1>0, <3>1, SameNoMore
    <3>2. CASE view # None
      BY <1>0, <3>2, PresenceUnboundKeeps DEF TypeOK
    <3> QED
      BY <3>1, <3>2
  <2>2. subs' = PresenceBound(s, c)
    BY <1>12 DEF ViewChannel
  <2> HIDE DEF s
  <2>3. subs' \in Subs /\ NoMore(subs, subs')
    BY <1>0, <2>1, <2>2, PresenceBoundKeeps, NoMoreTransitive
  <2>4. TypeOK'
    BY <1>0, <1>12, <2>3 DEF ViewChannel, TypeOK
  <2> QED
    BY <1>12, <2>3, <2>4, NoMoreKeeps DEF ViewChannel, Inv
<1>13. ASSUME NEW c \in Threads, OpenThread(c)
       PROVE  Inv'
  <2> DEFINE s == IF thread = None THEN subs ELSE ThreadUnbound(subs)
  <2>1. s \in Subs /\ NoMore(subs, s)
    BY <1>0, SameNoMore, ThreadUnboundKeeps
  <2>2. subs' = ThreadBound(s, c) /\ c \in Channels
    BY <1>13 DEF OpenThread
  <2> HIDE DEF s
  <2>3. subs' \in Subs /\ NoMore(subs, subs')
    BY <1>0, <2>1, <2>2, ThreadBoundKeeps, NoMoreTransitive
  <2>4. TypeOK'
    BY <1>0, <1>13, <2>3 DEF OpenThread, TypeOK
  <2> QED
    BY <1>13, <2>3, <2>4, NoMoreKeeps DEF OpenThread, Inv
<1>14. CASE CloseThread
  <2>1. subs' \in Subs /\ NoMore(subs, subs')
    BY <1>0, <1>14, ThreadUnboundKeeps DEF CloseThread
  <2>2. TypeOK'
    BY <1>0, <1>14, <2>1 DEF CloseThread, TypeOK
  <2> QED
    BY <1>14, <2>1, <2>2, NoMoreKeeps DEF CloseThread, Inv
<1> QED
  BY <1>1, <1>2, <1>3, <1>4, <1>5, <1>6, <1>7, <1>8, <1>9, <1>10, <1>11, <1>12, <1>13,
     <1>14 DEF Next

LEMMA AlwaysInv == Spec => []Inv
<1>1. Inv /\ UNCHANGED vars => Inv'
  BY DEF vars, Inv, TypeOK, OneName
<1>2. Inv /\ [Next]_vars => Inv'
  BY <1>1, StepInv
<1> QED
  BY <1>2, InitInv, PTL DEF Spec

-----------------------------------------------------------------------------
\* The client's fields and Pusher's channels are what the code takes them for: what it
\* keeps about a presence channel is an object of Pusher, present or outdated, and never a
\* private channel, whatever reconnections, errors and new tokens come between.
THEOREM TypeCorrect == Spec => []TypeOK
<1>1. Inv => TypeOK
  BY DEF Inv
<1> QED
  BY <1>1, AlwaysInv, PTL

\* subscribeToTeamChannel and its likes never bind a second handler: no event of a private
\* channel is handled twice, however many reconnections, retries after an error and
\* jittered subscriptions are pending together.
THEOREM EventsHandledOnce == Spec => []HandledOnce
<1>1. Inv => HandledOnce
  BY DEF Inv, OneName, HandledOnce, PrivateNames
<1> QED
  BY <1>1, AlwaysInv, PTL
=============================================================================
