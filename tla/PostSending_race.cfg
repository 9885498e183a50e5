\* A root message and a reply on their way together, while somebody else posts
\* and the root post may be deleted.  The system may stop: nobody has to send.
CONSTANTS
  Drafts = {d1, d2}
  Replies = {d2}
  CRT = FALSE
  MaxAttempts = 1
  MaxOthers = 1
SPECIFICATION Spec
INVARIANTS TypeOK NoDuplicates StoredBeforeShown 
 
CHECK_DEADLOCK FALSE
