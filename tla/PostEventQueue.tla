---------------------------- MODULE PostEventQueue ----------------------------
(***************************************************************************)
(* debouncePostEvent of actions/websocket_actions.jsx: posted events are   *)
(* handled one by one until a burst is recognised; the rest of the burst   *)
(* is queued and handled together when the events pause, or given up when  *)
(* the queue grows too long.                                               *)
(***************************************************************************)
EXTENDS Naturals, Sequences

CONSTANTS
  BurstLimit,   \* 4: an event that comes while more have been handled is queued
  QueueLimit    \* 200: a longer queue is thrown away

ASSUME QueueAssumption == BurstLimit \in Nat /\ QueueLimit \in Nat \ {0}

VARIABLES
  queue,
  count,        \* events handled at once since the timer last fired
  timer         \* whether the timer runs

queueVars == <<queue, count, timer>>

QueueInit ==
  /\ queue = <<>>
  /\ count = 0
  /\ timer = FALSE

Bursting == timer /\ count > BurstLimit

HandleNow ==
  /\ ~Bursting
  /\ count' = count + 1
  /\ timer' = TRUE
  /\ UNCHANGED queue

\* Slip: the queue is never given up.
OverflowsNever == FALSE

Overflows == Len(queue) >= QueueLimit

Enqueue(msg) ==
  /\ Bursting
  /\ queue' = IF Overflows THEN <<>> ELSE Append(queue, msg)
  /\ timer' = TRUE
  /\ UNCHANGED count

Triggered ==
  /\ timer
  /\ timer' = FALSE
  /\ queue' = <<>>
  /\ count' = 0

=============================================================================
