\* Two channels; two texts typed, one change by another device, one command and one
\* getDrafts, each before, after and during the others.  The user may stop.
CONSTANTS
  Channels = {a, b}
  MaxTyped = 2
  MaxOthers = 1
  MaxCommands = 1
  MaxLoads = 1
  MaxUnderway = 1
SPECIFICATION Spec
SYMMETRY Symmetry
INVARIANTS TypeOK PendingSaveIsCurrent
 
CHECK_DEADLOCK FALSE
