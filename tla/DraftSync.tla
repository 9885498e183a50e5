----------------------------- MODULE DraftSync ------------------------------
(***************************************************************************)
(* The drafts of a user: the text editor of the channel view, which stays  *)
(* mounted when the channel changes and saves what is typed after a pause, *)
(* the drafts in the browser's storage, the drafts on the server, which    *)
(* other devices of the user also write, and their exchange: requests of   *)
(* this device, websocket events about the others, and getDrafts, which    *)
(* reconciles the two sides when a team is opened or the connection is     *)
(* back.                                                                   *)
(*                                                                         *)
(* Times are only compared for drafts of the same channel, so each channel *)
(* has a clock of its own, which the devices share.  A text is the time at *)
(* which it was typed: the greater of two texts is the later one.  Files,  *)
(* priorities and reply drafts, kept in the same way, are left out.        *)
(***************************************************************************)
EXTENDS Naturals, FiniteSets, Sequences

CONSTANTS
  Channels,
  MaxTyped,     \* bound: texts typed on this device
  MaxOthers,    \* bound: changes by other devices
  MaxCommands,  \* bound: slash commands and scheduled messages submitted
  MaxLoads,     \* bound: calls of getDrafts
  MaxUnderway   \* bound: requests on their way

Empty == 0

ASSUME DraftAssumption ==
  /\ IsFiniteSet(Channels) /\ Channels # {}
  /\ {MaxTyped, MaxOthers, MaxCommands, MaxLoads, MaxUnderway} \subseteq Nat

VARIABLES
  open,      \* the channel on screen
  editor,    \* the editor's draft: the state draft of AdvancedTextEditor
  touched,   \* draftOnOpen !== draftRef.current
  timer,     \* saveDraftFrame: the draft a timeout will save, if any
  store,     \* the draft_<channel> items of the storage
  server,    \* the drafts of the server
  requests,  \* upserts and deletions of this device on their way
  events,    \* websocket events about the other devices' drafts, oldest first
  running,   \* per channel, the commands submitted there that have not ended
  load,      \* getDrafts: what it has read so far
  clock,     \* the time, per channel, the same on all devices
  spent      \* how much of each bound is used

vars == <<open, editor, touched, timer, store, server, requests, events,
          running, load, clock, spent>>

Draft(c, text, show) == [channel |-> c, text |-> text, show |-> show]

Now(c) == clock[c] + 1

Tick(C) == clock' = [c \in Channels |-> IF c \in C THEN Now(c) ELSE clock[c]]

\* The time of a text; that of an empty draft is never asked for.
TimeOf(c, text) == IF text = Empty THEN 0 ELSE Now(c)

\* An upsert, or, of an empty text, a deletion.
Request(c, text) == [channel |-> c, text |-> text, time |-> TimeOf(c, text)]

Spend(what, bound) ==
  /\ spent[what] < bound
  /\ spent' = [spent EXCEPT ![what] = @ + 1]

-----------------------------------------------------------------------------
\* The storage.

\* setGlobalItem: its timestamp is newer than the stored one, so that
\* SET_GLOBAL_ITEM takes the value.
Stored(items, c, text, show) ==
  [items EXCEPT ![c] = [text |-> text, show |-> show, time |-> TimeOf(c, text)]]

\* Slip: an empty draft is shown too.
SaveShown(d, show) ==
  /\ store' = Stored(store, d.channel, d.text, d.show \/ show)
  /\ requests' = IF d.text = Empty \/ show
                 THEN requests \cup {Request(d.channel, d.text)}
                 ELSE requests
  /\ Cardinality(requests') <= MaxUnderway
  /\ Tick({d.channel} \cap {c \in Channels : d.text # Empty})

\* saveDraft of handleDraftChange: removeDraft of an empty draft, otherwise
\* updateDraft, which only sends a draft to the server that it shows in the
\* list of drafts from now on.
Save(d, show) ==
  /\ store' = Stored(store, d.channel, d.text, d.text # Empty /\ (d.show \/ show))
  /\ requests' = IF d.text = Empty \/ show
                 THEN requests \cup {Request(d.channel, d.text)}
                 ELSE requests
  /\ Cardinality(requests') <= MaxUnderway
  /\ Tick({d.channel} \cap {c \in Channels : d.text # Empty})

-----------------------------------------------------------------------------
\* The editor.

Init ==
  /\ open \in Channels
  /\ editor = Draft(open, Empty, FALSE)
  /\ touched = FALSE
  /\ timer = {}
  /\ store = [c \in Channels |-> [text |-> Empty, show |-> FALSE, time |-> 0]]
  /\ server = [c \in Channels |-> [text |-> Empty, time |-> 0]]
  /\ requests = {}
  /\ events = <<>>
  /\ running = [c \in Channels |-> 0]
  /\ load = [phase |-> "none"]
  /\ clock = [c \in Channels |-> 0]
  /\ spent = [what \in {"typed", "others", "commands", "loads"} |-> 0]

\* Slip: the timeout of the previous text is not cleared.
TypeKeepsTimer(text) ==
  /\ Spend("typed", MaxTyped)
  /\ editor' = [editor EXCEPT !.text = text]
  /\ touched' = TRUE
  /\ timer' = IF timer = {} THEN {editor'} ELSE timer
  /\ Tick({editor.channel})
  /\ UNCHANGED <<open, store, server, requests, events, running, load>>

\* handleChange: the text is spread into the editor's draft, whatever channel
\* that is of, and will be saved after SAVE_DRAFT_TIMEOUT.
Type(text) ==
  /\ Spend("typed", MaxTyped)
  /\ editor' = [editor EXCEPT !.text = text]
  /\ touched' = TRUE
  /\ timer' = {editor'}
  /\ Tick({editor.channel})
  /\ UNCHANGED <<open, store, server, requests, events, running, load>>

TimerFires ==
  /\ timer # {}
  /\ timer' = {}
  /\ \E d \in timer : Save(d, FALSE)
  /\ UNCHANGED <<open, editor, touched, server, events, running, load, spent>>

\* Slip: the draft of the previous channel is only saved by the timeout,
\* which the next text clears.
OpenChannelUnsaved(c) ==
  /\ c # open
  /\ open' = c
  /\ editor' = Draft(c, store[c].text, store[c].show)
  /\ touched' = FALSE
  /\ timer' = {}
  /\ UNCHANGED <<store, requests, clock, server, events, running, load, spent>>

\* The effect on [channelId, rootId]: its cleanup saves the draft that was
\* changed since the channel was opened and sends it, then the editor gets the
\* draft the storage had when the channel was rendered.
OpenChannel(c) ==
  /\ c # open
  /\ open' = c
  /\ editor' = Draft(c, store[c].text, store[c].show)
  /\ touched' = FALSE
  /\ IF touched
     THEN timer' = {} /\ Save(editor, TRUE)
     ELSE UNCHANGED <<timer, store, requests, clock>>
  /\ UNCHANGED <<server, events, running, load, spent>>

\* handleDraftChange with an empty draft of the channel it was submitted in,
\* instant: it sets the state of the editor, wherever that is by now.
Emptied(c) ==
  /\ editor' = Draft(c, Empty, FALSE)
  /\ touched' = TRUE
  /\ timer' = {}
  /\ requests' = requests \cup {Request(c, Empty)}
  /\ Cardinality(requests') <= MaxUnderway

\* A message is posted before anything else can run: it goes to the channel
\* of the draft, whose item createPost empties too.
SendMessage ==
  /\ editor.text # Empty
  /\ Emptied(open)
  /\ store' = Stored(Stored(store, editor.channel, Empty, FALSE), open, Empty, FALSE)
  /\ UNCHANGED <<open, server, events, running, load, clock, spent>>

\* A slash command or a scheduled message waits for the server; isDraftSubmitting
\* is reset at once, so that another one can be submitted meanwhile.
Submit ==
  /\ editor.text # Empty
  /\ Spend("commands", MaxCommands)
  /\ running' = [running EXCEPT ![open] = @ + 1]
  /\ UNCHANGED <<open, editor, touched, timer, store, server, requests, events, load, clock>>

SubmitEnds(c) ==
  /\ running[c] > 0
  /\ running' = [running EXCEPT ![c] = @ - 1]
  /\ Emptied(c)
  /\ store' = Stored(store, c, Empty, FALSE)
  /\ UNCHANGED <<open, server, events, load, clock, spent>>

SubmitFails(c) ==
  /\ running[c] > 0
  /\ running' = [running EXCEPT ![c] = @ - 1]
  /\ UNCHANGED <<open, editor, touched, timer, store, server, requests, events, load, clock, spent>>

-----------------------------------------------------------------------------
\* The exchange with the server.

\* handleUpsertDraftEvent and handleDeleteDraftEvent: the store takes what the
\* event says, whatever it has.
HandleEvent ==
  /\ events # <<>>
  /\ events' = Tail(events)
  /\ store' = Stored(store, Head(events).channel, Head(events).text, Head(events).text # Empty)
  /\ Tick({Head(events).channel})
  /\ UNCHANGED <<open, editor, touched, timer, server, requests, running, load, spent>>

\* getDrafts reads the state before it waits for the server.
GetDrafts ==
  /\ load.phase = "none"
  /\ Spend("loads", MaxLoads)
  /\ load' = [phase |-> "asked", local |-> store]
  /\ UNCHANGED <<open, editor, touched, timer, store, server, requests, events, running, clock>>

LocalDrafts(items) == {c \in Channels : items[c].text # Empty /\ items[c].show}

\* Of the two drafts of a channel the one with the later time, of those of
\* the same time the local one.
ServerWins(c) ==
  /\ load.server[c].text # Empty
  /\ c \in LocalDrafts(load.local) => load.server[c].time > load.local[c].time

Reconciled ==
  [c \in Channels |->
     IF ServerWins(c) THEN [text |-> load.server[c].text, show |-> TRUE, time |-> Now(c)]
     ELSE IF c \in LocalDrafts(load.local) THEN [load.local[c] EXCEPT !.time = Now(c)]
     ELSE store[c]]

DraftsReceived ==
  /\ load.phase = "answered"
  /\ load' = [phase |-> "none"]
  /\ store' = Reconciled
  /\ Tick({c \in Channels : store'[c] # store[c]})
  /\ UNCHANGED <<open, editor, touched, timer, server, requests, events, running, spent>>

DraftsFail ==
  /\ load.phase # "none"
  /\ load' = [phase |-> "none"]
  /\ UNCHANGED <<open, editor, touched, timer, store, server, requests, events, running, clock, spent>>

ServerAnswers ==
  /\ load.phase = "asked"
  /\ load' = [phase |-> "answered", local |-> load.local, server |-> server]
  /\ UNCHANGED <<open, editor, touched, timer, store, server, requests, events, running, clock, spent>>

\* The requests of this device are carried out in any order, and it gets no
\* event about them.
ServerTakes(r) ==
  /\ requests' = requests \ {r}
  /\ server' = [server EXCEPT ![r.channel] = [text |-> r.text, time |-> r.time]]
  /\ UNCHANGED <<open, editor, touched, timer, store, events, running, load, clock, spent>>

RequestFails(r) ==
  /\ requests' = requests \ {r}
  /\ UNCHANGED <<open, editor, touched, timer, store, server, events, running, load, clock, spent>>

OtherDevice(c, text) ==
  /\ Spend("others", MaxOthers)
  /\ text = Empty => server[c].text # Empty
  /\ server' = [server EXCEPT ![c] = [text |-> text, time |-> TimeOf(c, text)]]
  /\ events' = Append(events, [channel |-> c, text |-> text])
  /\ Tick({c})
  /\ UNCHANGED <<open, editor, touched, timer, store, requests, running, load>>

Next ==
  \/ \E text \in {Empty, Now(editor.channel)} : Type(text)
  \/ TimerFires
  \/ \E c \in Channels : OpenChannel(c)
  \/ SendMessage
  \/ Submit
  \/ \E c \in Channels : SubmitEnds(c) \/ SubmitFails(c)
  \/ HandleEvent
  \/ GetDrafts \/ ServerAnswers \/ DraftsReceived \/ DraftsFail
  \/ \E r \in requests : ServerTakes(r) \/ RequestFails(r)
  \/ \E c \in Channels : \E text \in {Empty, Now(c)} : OtherDevice(c, text)

Spec == Init /\ [][Next]_vars

-----------------------------------------------------------------------------

Drafts == [channel : Channels, text : Nat, show : BOOLEAN]
Items == {item \in [text : Nat, show : BOOLEAN, time : Nat] : item.show => item.text # Empty}
ServerDrafts == [text : Nat, time : Nat]

\* The values the variables may take; what the list of drafts shows is not
\* empty.
TypeOK ==
  /\ open \in Channels
  /\ editor \in Drafts
  /\ touched \in BOOLEAN
  /\ timer \subseteq Drafts
  /\ store \in [Channels -> Items]
  /\ server \in [Channels -> ServerDrafts]
  /\ requests \subseteq [channel : Channels, text : Nat, time : Nat]
  /\ events \in Seq([channel : Channels, text : Nat])
  /\ running \in [Channels -> Nat]
  /\ load.phase # "none" => load.local \in [Channels -> Items]
  /\ load.phase = "answered" => load.server \in [Channels -> ServerDrafts]
  /\ clock \in [Channels -> Nat]
  /\ spent \in [{"typed", "others", "commands", "loads"} -> Nat]

\* A timeout saves what the editor shows now, never an earlier text or that of
\* a channel that was left, so that it cannot bring back what was replaced.
PendingSaveIsCurrent == timer # {} => touched /\ timer = {editor}

\* What the user has typed leaves the editor for another text of the user, by
\* being sent, at the end of a submission, or for the storage: neither changing
\* the channel, before or after the timeout, nor anything the server sends takes
\* it away.
NothingTypedIsLost ==
  [][LET d == editor
     IN  touched /\ d.text # Empty /\ editor' # d =>
           \/ spent'["typed"] > spent["typed"]
           \/ open' = open /\ editor'.text = Empty
           \/ store'[d.channel].text = d.text /\ open' # open]_vars

\* "Set the draft from store when changing post or channels" (the text editor):
\* the editor shows a draft of the channel on screen.  The end of a command puts
\* an empty draft of its own channel into the editor, wherever the user is.
EditorFollowsChannel == editor.channel = open

\* "Reconcile drafts and only keep the latest version of a draft" (getDrafts):
\* what it stores is not older than what the storage has.  The local drafts it
\* compares are those of the state it read before it asked the server.
OnlyLatestKept ==
  [][load.phase = "answered" /\ store' # store /\ load'.phase = "none" =>
       \A c \in Channels : store'[c].text >= store[c].text]_vars
=============================================================================
