-------------------------- MODULE DraftSyncProofs --------------------------
(***************************************************************************)
(* What DraftSync keeps, proved for any channels and any bounds.  A        *)
(* pending timeout holds the draft of the editor because whatever replaces *)
(* the draft replaces or clears the timeout as well; changing the channel  *)
(* loses nothing because a draft that was changed is saved on the way,     *)
(* under the channel it is of.                                             *)
(***************************************************************************)
EXTENDS DraftSync, SequenceTheorems, TLAPS

Inv == TypeOK /\ PendingSaveIsCurrent

LEMMA StoredTyped ==
  ASSUME TypeOK, NEW items \in [Channels -> Items], NEW c \in Channels,
         NEW text \in Nat, NEW show \in BOOLEAN, show => text # Empty
  PROVE  Stored(items, c, text, show) \in [Channels -> Items]
<1>1. TimeOf(c, text) \in Nat
  BY DEF TimeOf, Now, TypeOK
<1>2. [text |-> text, show |-> show, time |-> TimeOf(c, text)] \in Items
  BY <1>1 DEF Items
<1> QED
  BY <1>2 DEF Stored

LEMMA RequestTyped ==
  ASSUME TypeOK, NEW c \in Channels, NEW text \in Nat
  PROVE  Request(c, text) \in [channel : Channels, text : Nat, time : Nat]
  BY DEF Request, TimeOf, Now, TypeOK

LEMMA TickTyped ==
  ASSUME TypeOK, NEW C, Tick(C)
  PROVE  clock' \in [Channels -> Nat]
  BY DEF Tick, Now, TypeOK

LEMMA SpendTyped ==
  ASSUME TypeOK, NEW what \in {"typed", "others", "commands", "loads"}, NEW bound, Spend(what, bound)
  PROVE  /\ spent' \in [{"typed", "others", "commands", "loads"} -> Nat]
         /\ spent'[what] > spent[what]
  BY DEF Spend, TypeOK

\* Saving stores the text under its channel.
LEMMA SaveProperties ==
  ASSUME TypeOK, NEW d \in Drafts, NEW show \in BOOLEAN, Save(d, show)
  PROVE  /\ store' \in [Channels -> Items]
         /\ store'[d.channel].text = d.text
         /\ requests' \subseteq [channel : Channels, text : Nat, time : Nat]
         /\ clock' \in [Channels -> Nat]
<1>1. /\ d.channel \in Channels /\ d.text \in Nat /\ d.show \in BOOLEAN
      /\ store \in [Channels -> Items]
  BY DEF Drafts, TypeOK
<1>2. store' = Stored(store, d.channel, d.text, d.text # Empty /\ (d.show \/ show))
  BY DEF Save
<1>3. store' \in [Channels -> Items]
  BY <1>1, <1>2, StoredTyped
<1>4. store'[d.channel].text = d.text
  BY <1>1, <1>2 DEF Stored
<1>5. requests' \subseteq requests \cup {Request(d.channel, d.text)}
  BY DEF Save
<1>6. requests' \subseteq [channel : Channels, text : Nat, time : Nat]
  <2>1. Request(d.channel, d.text) \in [channel : Channels, text : Nat, time : Nat]
    BY <1>1, RequestTyped
  <2> QED
    BY <1>5, <2>1 DEF TypeOK
<1>7. clock' \in [Channels -> Nat]
  BY TickTyped DEF Save
<1> QED
  BY <1>3, <1>4, <1>6, <1>7

LEMMA InitInv == Init => Inv
<1> SUFFICES ASSUME Init
             PROVE  Inv
  OBVIOUS
<1>1. open \in Channels /\ editor \in Drafts /\ touched = FALSE /\ timer = {}
  BY DEF Init, Draft, Drafts, Empty
<1>2. store \in [Channels -> Items] /\ server \in [Channels -> ServerDrafts]
  BY DEF Init, Items, ServerDrafts, Empty
<1>3. requests = {} /\ events \in Seq([channel : Channels, text : Nat])
  BY DEF Init
<1>4. running \in [Channels -> Nat] /\ load.phase = "none" /\ clock \in [Channels -> Nat]
  BY DEF Init
<1>5. spent \in [{"typed", "others", "commands", "loads"} -> Nat]
  BY DEF Init
<1> QED
  BY <1>1, <1>2, <1>3, <1>4, <1>5 DEF Inv, TypeOK, PendingSaveIsCurrent

\* Emptying the editor.
LEMMA EmptiedInv ==
  ASSUME Inv, NEW c \in Channels, Emptied(c)
  PROVE  /\ editor' \in Drafts /\ touched' \in BOOLEAN /\ timer' = {}
         /\ editor'.text = Empty
         /\ requests' \subseteq [channel : Channels, text : Nat, time : Nat]
<1>1. Request(c, Empty) \in [channel : Channels, text : Nat, time : Nat]
  BY RequestTyped DEF Inv, Empty
<1>2. Emptied(c) => requests' \subseteq requests \cup {Request(c, Empty)}
  BY DEF Emptied
<1> QED
  BY <1>1, <1>2 DEF Emptied, Inv, TypeOK, Draft, Drafts, Empty

LEMMA ReconciledTyped ==
  ASSUME TypeOK, load.phase = "answered"
  PROVE  Reconciled \in [Channels -> Items]
<1> SUFFICES ASSUME NEW c \in Channels
             PROVE  Reconciled[c] \in Items
  BY DEF Reconciled
<1>1. /\ store[c] \in Items /\ load.local[c] \in Items
      /\ load.server[c] \in ServerDrafts /\ Now(c) \in Nat
  BY DEF TypeOK, Now
<1>2. CASE ServerWins(c)
  BY <1>1, <1>2 DEF Reconciled, ServerWins, Items, ServerDrafts
<1>3. CASE ~ServerWins(c) /\ c \in LocalDrafts(load.local)
  <2>1. Reconciled[c] = [load.local[c] EXCEPT !.time = Now(c)]
    BY <1>3 DEF Reconciled
  <2>2. load.local[c] \in [text : Nat, show : BOOLEAN, time : Nat] /\ load.local[c].text # Empty
    BY <1>1, <1>3 DEF Items, LocalDrafts
  <2> QED
    BY <1>1, <2>1, <2>2 DEF Items
<1>4. CASE ~ServerWins(c) /\ c \notin LocalDrafts(load.local)
  BY <1>1, <1>4 DEF Reconciled
<1> QED
  BY <1>2, <1>3, <1>4

LEMMA StepInv == Inv /\ [Next]_vars => Inv'
<1> SUFFICES ASSUME Inv, [Next]_vars
             PROVE  Inv'
  OBVIOUS
<1> USE DEF Inv
<1>1. ASSUME NEW text \in Nat, Type(text)
      PROVE  Inv'
  <2>1. /\ Spend("typed", MaxTyped) /\ Tick({editor.channel})
        /\ editor' = [editor EXCEPT !.text = text] /\ touched' = TRUE /\ timer' = {editor'}
        /\ UNCHANGED <<open, store, server, requests, events, running, load>>
    BY <1>1 DEF Type
  <2>2. editor' \in Drafts
    BY <2>1 DEF Drafts, TypeOK
  <2> QED
    BY <2>1, <2>2, TickTyped, SpendTyped DEF TypeOK, PendingSaveIsCurrent
<1>2. CASE TimerFires
  <2>1. PICK d \in timer : Save(d, FALSE)
    BY <1>2 DEF TimerFires
  <2>2. d \in Drafts
    BY <2>1 DEF TypeOK
  <2> QED
    BY <1>2, <2>1, <2>2, SaveProperties DEF TimerFires, TypeOK, PendingSaveIsCurrent
<1>3. ASSUME NEW c \in Channels, OpenChannel(c)
      PROVE  Inv'
  <2>1. editor' \in Drafts
    BY <1>3 DEF OpenChannel, Draft, Drafts, TypeOK, Items
  <2>2. CASE touched
    <3>1. timer' = {} /\ Save(editor, TRUE)
      BY <1>3, <2>2 DEF OpenChannel
    <3> QED
      BY <1>3, <2>1, <3>1, SaveProperties DEF OpenChannel, TypeOK, PendingSaveIsCurrent
  <2>3. CASE ~touched
    BY <1>3, <2>1, <2>3 DEF OpenChannel, TypeOK, PendingSaveIsCurrent
  <2> QED
    BY <2>2, <2>3
<1>4. CASE SendMessage
  <2>0. UNCHANGED <<open, server, events, running, load, clock, spent>>
    BY <1>4 DEF SendMessage
  <2>1. Emptied(open) /\ open \in Channels /\ editor.channel \in Channels
    BY <1>4 DEF SendMessage, TypeOK, Drafts
  <2>2. Stored(store, editor.channel, Empty, FALSE) \in [Channels -> Items]
    BY <2>1, StoredTyped DEF TypeOK, Empty
  <2>3. store' \in [Channels -> Items]
    BY <1>4, <2>1, <2>2, StoredTyped DEF SendMessage, Empty
  <2> QED
    BY <2>0, <2>1, <2>3, EmptiedInv DEF TypeOK, PendingSaveIsCurrent
<1>5. CASE Submit
  <2>1. running' \in [Channels -> Nat]
    BY <1>5 DEF Submit, TypeOK
  <2>2. spent' \in [{"typed", "others", "commands", "loads"} -> Nat]
    BY <1>5, SpendTyped DEF Submit
  <2> QED
    BY <1>5, <2>1, <2>2 DEF Submit, TypeOK, PendingSaveIsCurrent
<1>6. ASSUME NEW c \in Channels, SubmitEnds(c)
      PROVE  Inv'
  <2>1. store' \in [Channels -> Items]
    BY <1>6, StoredTyped DEF SubmitEnds, TypeOK, Empty
  <2>2. running \in [Channels -> Nat] /\ running[c] - 1 \in Nat
    BY <1>6 DEF SubmitEnds, TypeOK
  <2>3. running' \in [Channels -> Nat]
    BY <1>6, <2>2 DEF SubmitEnds
  <2> QED
    BY <1>6, <2>1, <2>3, EmptiedInv DEF SubmitEnds, TypeOK, PendingSaveIsCurrent
<1>7. ASSUME NEW c \in Channels, SubmitFails(c)
      PROVE  Inv'
  BY <1>7 DEF SubmitFails, TypeOK, PendingSaveIsCurrent
<1>8. CASE HandleEvent
  <2>1. /\ Head(events) \in [channel : Channels, text : Nat]
        /\ Tail(events) \in Seq([channel : Channels, text : Nat])
    BY <1>8, HeadTailProperties DEF HandleEvent, TypeOK
  <2>2. store' \in [Channels -> Items]
    BY <1>8, <2>1, StoredTyped DEF HandleEvent, TypeOK
  <2>3. clock' \in [Channels -> Nat]
    BY <1>8, TickTyped DEF HandleEvent
  <2> QED
    BY <1>8, <2>1, <2>2, <2>3 DEF HandleEvent, TypeOK, PendingSaveIsCurrent
<1>9. CASE GetDrafts
  BY <1>9, SpendTyped DEF GetDrafts, TypeOK, PendingSaveIsCurrent
<1>10. CASE ServerAnswers
  BY <1>10 DEF ServerAnswers, TypeOK, PendingSaveIsCurrent
<1>11. CASE DraftsReceived
  BY <1>11, ReconciledTyped, TickTyped DEF DraftsReceived, TypeOK, PendingSaveIsCurrent
<1>12. CASE DraftsFail
  BY <1>12 DEF DraftsFail, TypeOK, PendingSaveIsCurrent
<1>13. ASSUME NEW r \in requests, ServerTakes(r) \/ RequestFails(r)
       PROVE  Inv'
  <2>1. [text |-> r.text, time |-> r.time] \in ServerDrafts
    BY DEF TypeOK, ServerDrafts
  <2>2. server' \in [Channels -> ServerDrafts]
    BY <1>13, <2>1 DEF ServerTakes, RequestFails, TypeOK
  <2> QED
    BY <1>13, <2>2 DEF ServerTakes, RequestFails, TypeOK, PendingSaveIsCurrent
<1>14. ASSUME NEW c \in Channels, NEW text \in Nat, OtherDevice(c, text)
       PROVE  Inv'
  <2>1. [text |-> text, time |-> TimeOf(c, text)] \in ServerDrafts
    BY DEF ServerDrafts, TimeOf, Now, TypeOK
  <2>2. server' \in [Channels -> ServerDrafts]
    BY <1>14, <2>1 DEF OtherDevice, TypeOK
  <2>3. events' \in Seq([channel : Channels, text : Nat])
    BY <1>14 DEF OtherDevice, TypeOK
  <2>4. clock' \in [Channels -> Nat]
    BY <1>14, TickTyped DEF OtherDevice
  <2>5. spent' \in [{"typed", "others", "commands", "loads"} -> Nat]
    BY <1>14, SpendTyped DEF OtherDevice
  <2> QED
    BY <1>14, <2>2, <2>3, <2>4, <2>5 DEF OtherDevice, TypeOK, PendingSaveIsCurrent
<1>15. CASE UNCHANGED vars
  BY <1>15 DEF vars, TypeOK, PendingSaveIsCurrent
<1>16. \A c \in Channels : Now(c) \in Nat
  BY DEF Now, TypeOK
<1>17. editor.channel \in Channels /\ Empty \in Nat
  BY DEF TypeOK, Drafts, Empty
<1> QED
  BY <1>1, <1>2, <1>3, <1>4, <1>5, <1>6, <1>7, <1>8, <1>9, <1>10, <1>11, <1>12, <1>13,
     <1>14, <1>15, <1>16, <1>17 DEF Next

LEMMA Invariance == Spec => []Inv
  BY InitInv, StepInv, PTL DEF Spec

-----------------------------------------------------------------------------

\* The values of the variables; what is shown in the list of drafts is not empty.
THEOREM TypeCorrect == Spec => []TypeOK
  BY Invariance, PTL DEF Inv

\* A pending timeout saves what the editor shows.
THEOREM SavesAreCurrent == Spec => []PendingSaveIsCurrent
  BY Invariance, PTL DEF Inv

\* The editor's text is only replaced by its user, by being sent, at the end of
\* a submission, or once it is in the storage.
THEOREM TypedIsKept == Spec => NothingTypedIsLost
<1> DEFINE Kept ==
      LET d == editor
      IN  touched /\ d.text # Empty /\ editor' # d =>
            \/ spent'["typed"] > spent["typed"]
            \/ open' = open /\ editor'.text = Empty
            \/ store'[d.channel].text = d.text /\ open' # open
<1>1. Inv /\ [Next]_vars => [Kept]_vars
  <2> SUFFICES ASSUME Inv, Next, touched, editor' # editor
               PROVE  \/ spent'["typed"] > spent["typed"]
                      \/ open' = open /\ editor'.text = Empty
                      \/ store'[editor.channel].text = editor.text /\ open' # open
    OBVIOUS
  <2>1. ASSUME NEW text, Type(text)
        PROVE  spent'["typed"] > spent["typed"]
    <3>1. Spend("typed", MaxTyped)
      BY <2>1 DEF Type
    <3> QED
      BY <3>1, SpendTyped DEF Inv
  <2>2. ASSUME NEW c \in Channels, OpenChannel(c)
        PROVE  store'[editor.channel].text = editor.text /\ open' # open
    <3>1. Save(editor, TRUE) /\ editor \in Drafts
      BY <2>2 DEF OpenChannel, Inv, TypeOK
    <3> QED
      BY <2>2, <3>1, SaveProperties DEF OpenChannel, Inv
  <2>3. ASSUME SendMessage \/ \E c \in Channels : SubmitEnds(c)
        PROVE  open' = open /\ editor'.text = Empty
    <3>1. PICK c \in Channels : Emptied(c) /\ open' = open
      BY <2>3 DEF SendMessage, SubmitEnds, Inv, TypeOK
    <3> QED
      BY <3>1, EmptiedInv
  <2>4. editor' = editor
        \/ (\E text : Type(text))
        \/ (\E c \in Channels : OpenChannel(c) \/ SubmitEnds(c))
        \/ SendMessage
    BY DEF Next, TimerFires, Submit, SubmitFails, HandleEvent, GetDrafts, ServerAnswers,
           DraftsReceived, DraftsFail, ServerTakes, RequestFails, OtherDevice
  <2> QED
    BY <2>1, <2>2, <2>3, <2>4
<1> QED
  BY <1>1, Invariance, PTL DEF Spec, NothingTypedIsLost
=============================================================================
