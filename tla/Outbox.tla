------------------------------- MODULE Outbox -------------------------------
(***************************************************************************)
(* What sending promises to the author of a message, whatever the order of *)
(* requests, answers, events and retries: a message that was sent is shown *)
(* as being sent, then as failed or as delivered; a failed message may     *)
(* still turn out to be delivered, a delivered one is never taken for a    *)
(* failed one again; and only its author, or the end of its thread, makes  *)
(* it go away.                                                             *)
(***************************************************************************)
EXTENDS Naturals

CONSTANTS
  Drafts,   \* what the user sends
  Replies   \* the drafts that belong to the thread

VARIABLES
  phase,      \* what the author sees of each draft
  created,    \* the drafts the server has made a post of
  threadGone  \* the thread was deleted

vars == <<phase, created, threadGone>>

Phases == {"unsent", "sending", "failed", "delivered", "over"}

Orphan(d) == d \in Replies /\ threadGone

Becomes(d, p) == phase' = [phase EXCEPT ![d] = p]

Init ==
  /\ phase = [d \in Drafts |-> "unsent"]
  /\ created = {}
  /\ threadGone = FALSE

Send(d) ==
  /\ phase[d] = "unsent"
  /\ Becomes(d, IF Orphan(d) THEN "over" ELSE "sending")
  /\ UNCHANGED <<created, threadGone>>

\* The server makes a post of it, once or again.
Create(d) ==
  /\ phase[d] # "unsent"
  /\ ~Orphan(d)
  /\ created' = created \cup {d}
  /\ UNCHANGED <<phase, threadGone>>

\* The author hears of the post.
Deliver(d) ==
  /\ phase[d] \in {"sending", "failed"}
  /\ d \in created
  /\ Becomes(d, "delivered")
  /\ UNCHANGED <<created, threadGone>>

Fail(d) ==
  /\ phase[d] = "sending"
  /\ Becomes(d, "failed")
  /\ UNCHANGED <<created, threadGone>>

\* The author cancels a failed message, or deletes a delivered one.
TakeBack(d) ==
  /\ phase[d] \in {"failed", "delivered"}
  /\ Becomes(d, "over")
  /\ UNCHANGED <<created, threadGone>>

DeleteThread ==
  /\ ~threadGone
  /\ threadGone' = TRUE
  /\ phase' = [d \in Drafts |->
                 IF d \in Replies /\ phase[d] # "unsent" THEN "over" ELSE phase[d]]
  /\ UNCHANGED created

Next ==
  \/ \E d \in Drafts : Send(d) \/ Create(d) \/ Deliver(d) \/ Fail(d) \/ TakeBack(d)
  \/ DeleteThread

\* Sending ends, and what the server has made is delivered.
Fairness ==
  \A d \in Drafts :
    /\ WF_vars(Deliver(d) \/ Fail(d))
    /\ WF_vars(Deliver(d))

Safe == Init /\ [][Next]_vars

Spec == Safe /\ Fairness
=============================================================================
