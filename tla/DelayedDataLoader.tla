------------------------- MODULE DelayedDataLoader -------------------------
(***************************************************************************)
(* The class DelayedDataLoader of mattermost-redux/utils/data_loader.ts:   *)
(* components that need a profile or a channel queue its identifier, one   *)
(* timer collects what is queued meanwhile, and when it expires the first  *)
(* maxBatchSize identifiers leave the queue in one request.  queueAndWait  *)
(* returns a promise that is resolved when every identifier it was given   *)
(* has come back in some response.                                         *)
(*                                                                         *)
(* A step is one uninterrupted piece of JavaScript: a call of queue or of  *)
(* queueAndWait, the timer callback, or the then-callback of one request.  *)
(* Several requests may be on their way at once and are answered in any    *)
(* order.                                                                  *)
(***************************************************************************)
EXTENDS Naturals, SequencesExt

CONSTANTS
  Identifiers,   \* the truthy identifiers that can be asked for
  Falsy,         \* '' or undefined, which queue() skips
  Callers,       \* the calls of queueAndWait, each made at most once
  MaxBatchSize,  \* maxBatchSize
  MaxInFlight    \* bound: requests that may be unanswered at once

ASSUME DataLoaderAssumption ==
  /\ IsFiniteSet(Identifiers)
  /\ Falsy \notin Identifiers
  /\ MaxBatchSize \in Nat \ {0}
  /\ MaxInFlight \in Nat \ {0}

VARIABLES
  pendingIdentifiers,  \* the insertion-ordered Set, as a sequence
  timerSet,            \* timeoutId # -1
  inFlight,            \* the batches passed to fetchBatch and not answered
  status,              \* where the promise of each caller stands
  awaited              \* identifiers left in the timeoutCallbacks entry

vars == <<pendingIdentifiers, timerSet, inFlight, status, awaited>>

\* What a caller passes: every one of them checks that its list is not empty.
Arguments == (SUBSET (Identifiers \cup {Falsy})) \ {{}}

Queued == ToSet(pendingIdentifiers)

Requested == UNION {ToSet(inFlight[k]) : k \in 1..Len(inFlight)}

Waiting == {c \in Callers : status[c] = "waiting"}

-----------------------------------------------------------------------------

Init ==
  /\ pendingIdentifiers = <<>>
  /\ timerSet = FALSE
  /\ inFlight = <<>>
  /\ status = [c \in Callers |-> "idle"]
  /\ awaited = [c \in Callers |-> {}]

\* Slip: the falsy identifiers are not filtered out.
AddPendingKeepsFalsy(ids) ==
  \E new \in SetToSeqs(ids \ Queued) : pendingIdentifiers' = pendingIdentifiers \o new

\* DataLoader.queue: falsy identifiers are skipped, and adding to a Set
\* leaves an identifier that is already in it where it is.
AddPending(ids) ==
  \E new \in SetToSeqs(ids \ ({Falsy} \cup Queued)) :
    pendingIdentifiers' = pendingIdentifiers \o new

\* DelayedDataLoader.queue, with startTimeoutIfNeeded.
Queue(ids) ==
  /\ AddPending(ids)
  /\ timerSet' = TRUE
  /\ UNCHANGED <<inFlight, status, awaited>>

\* queueAndWait: the callback keeps every identifier it was given.
QueueAndWait(c, ids) ==
  /\ status[c] = "idle"
  /\ AddPending(ids)
  /\ status' = [status EXCEPT ![c] = "waiting"]
  /\ awaited' = [awaited EXCEPT ![c] = ids]
  /\ timerSet' = TRUE
  /\ UNCHANGED inFlight

\* Slip: the loop stops when the batch is longer than maxBatchSize.
BatchSizeOffByOne ==
  IF Len(pendingIdentifiers) > MaxBatchSize
  THEN MaxBatchSize + 1
  ELSE Len(pendingIdentifiers)

\* prepareBatch: the oldest identifiers leave the queue.
BatchSize ==
  IF Len(pendingIdentifiers) >= MaxBatchSize
  THEN MaxBatchSize
  ELSE Len(pendingIdentifiers)

Batch == SubSeq(pendingIdentifiers, 1, BatchSize)

\* Slip: the rest of the queue is cleared with the batch.
RestDropsOne == SubSeq(pendingIdentifiers, BatchSize + 2, Len(pendingIdentifiers))

Rest == SubSeq(pendingIdentifiers, BatchSize + 1, Len(pendingIdentifiers))

\* Slip: the timer callback clears timeoutId after it has started the next timer.
TimerExpiresForgetsRest ==
  /\ timerSet
  /\ Len(inFlight) < MaxInFlight
  /\ timerSet' = FALSE
  /\ pendingIdentifiers' = Rest
  /\ inFlight' = Append(inFlight, Batch)
  /\ UNCHANGED <<status, awaited>>

\* The timer callback: it clears timeoutId, takes a batch, starts another
\* timer if identifiers are left, and calls fetchBatch.
TimerExpires ==
  /\ timerSet
  /\ Len(inFlight) < MaxInFlight
  /\ timerSet' = (Rest # <<>>)
  /\ pendingIdentifiers' = Rest
  /\ inFlight' = Append(inFlight, Batch)
  /\ UNCHANGED <<status, awaited>>

\* Slip: a callback is resolved only if this response emptied it in one go.
FetchSettlesWholeOnly(k) ==
  LET covered(c) == awaited[c] \subseteq ToSet(inFlight[k])
  IN  /\ k \in 1..Len(inFlight)
      /\ inFlight' = RemoveAt(inFlight, k)
      /\ status' = [c \in Callers |->
                      IF status[c] = "waiting" /\ covered(c)
                      THEN "resolved" ELSE status[c]]
      /\ UNCHANGED <<pendingIdentifiers, timerSet, awaited>>

\* fetchBatch(...).then(...) with resolveCompletedCallbacks: the thunks given
\* as fetchBatch answer {error} instead of rejecting, so that a failed
\* request also comes here.
FetchSettles(k) ==
  LET left(c) == awaited[c] \ ToSet(inFlight[k])
  IN  /\ k \in 1..Len(inFlight)
      /\ inFlight' = RemoveAt(inFlight, k)
      /\ awaited' = [c \in Callers |->
                       IF status[c] = "waiting" THEN left(c) ELSE awaited[c]]
      /\ status' = [c \in Callers |->
                      IF status[c] = "waiting" /\ left(c) = {}
                      THEN "resolved" ELSE status[c]]
      /\ UNCHANGED <<pendingIdentifiers, timerSet>>

Next ==
  \/ \E ids \in Arguments : Queue(ids)
  \/ \E c \in Callers, ids \in Arguments : QueueAndWait(c, ids)
  \/ TimerExpires
  \/ \E k \in 1..MaxInFlight : FetchSettles(k)

\* The browser fires a timer that is set, and the HTTP client settles every
\* request.  Fairness on the oldest request is enough: when it is settled
\* the next one becomes the oldest.  Nobody has to call the loader.
Fairness == WF_vars(TimerExpires) /\ WF_vars(FetchSettles(1))

Spec == Init /\ [][Next]_vars /\ Fairness

-----------------------------------------------------------------------------

\* The values each variable may take.
TypeOK ==
  /\ pendingIdentifiers \in Seq(Identifiers)
  /\ timerSet \in BOOLEAN
  /\ inFlight \in Seq(Seq(Identifiers))
  /\ status \in [Callers -> {"idle", "waiting", "resolved"}]
  /\ awaited \in [Callers -> SUBSET (Identifiers \cup {Falsy})]

\* Nothing sits in the queue without a timer that will pick it up: the timer
\* callback clears timeoutId before it takes its batch, and has to start a
\* new timer itself for what is left.
QueueHasTimer == pendingIdentifiers # <<>> => timerSet

\* Every identifier a waiter still waits for is queued or requested, however
\* the calls, the timer and the answers to several requests interleave; the
\* only exception is a falsy one, which queue() never let in.
NoWaiterStranded ==
  \A c \in Waiting : awaited[c] \ {Falsy} \subseteq Queued \cup Requested

\* No request is larger than the server accepts, and none asks twice for an
\* identifier.
BatchesFit ==
  \A k \in 1..Len(inFlight) :
    /\ Len(inFlight[k]) <= MaxBatchSize
    /\ IsInjective(inFlight[k])

\* A caller that asked for identifiers the loader accepts gets its promise
\* resolved, even when others keep queueing the same or other identifiers.
WaitersResolve ==
  \A c \in Callers :
    (status[c] = "waiting" /\ Falsy \notin awaited[c]) ~> (status[c] = "resolved")
=============================================================================
