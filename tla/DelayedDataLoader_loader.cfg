\* Two callers and three identifiers with batches of two: a call can straddle
\* two batches, overlap another call, and repeat an identifier in flight.
CONSTANTS
  Identifiers = {i1, i2, i3}
  Falsy = falsy
  Callers = {c1, c2}
  MaxBatchSize = 2
  MaxInFlight = 2
SPECIFICATION Spec
INVARIANTS TypeOK QueueHasTimer NoWaiterStranded BatchesFit
PROPERTY WaitersResolve
