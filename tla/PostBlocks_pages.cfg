\* Four posts, two more by somebody else, pages of two: the first page can end below
\* the newest post, and posts can be loaded or deleted before they are announced.
\* One request of the user at a time, one failure, one removal.
\* The system comes to rest when nobody asks for anything.
CONSTANTS
  Initial = 4
  PageSize = 2
  MaxPosts = 6
  MaxBacklog = 2
  MaxRequests = 1
  MaxFails = 1
  MaxRemovals = 1
SPECIFICATION Spec
INVARIANTS TypeOK  KeptPosts OneBlockIsWhole
 
CHECK_DEADLOCK FALSE
