\* Two channels on the screen, a thread of one of them, a desktop app whose token expires.
CONSTANTS
  Channels = {a, b}
  Privates = {team}
  None = None
  Desktop = TRUE
  Threads = {a}
  MaxTimers = 1
  MaxHandlers = 2
SPECIFICATION Spec
INVARIANTS TypeOK HandledOnce
 
