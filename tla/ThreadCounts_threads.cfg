\* Two threads of up to two replies, some unread at first; three events of other
\* sessions and two requests of this one.  Everything may come to rest.
SPECIFICATION Spec
CONSTANTS
  Threads = {t1, t2}
  MaxReplies = 2
  MaxEvents = 3
  MaxRequests = 2
  NoThread = NoThread
SYMMETRY Symmetry
CHECK_DEADLOCK FALSE
INVARIANT TypeOK
 
INVARIANT ThreadsMatchServer
