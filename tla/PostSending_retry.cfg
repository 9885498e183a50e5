\* One root message sent three times: every attempt may be carried out late, and
\* each event may come before or after a retry.  The user may stop retrying, and
\* the system comes to rest when everything is delivered.
CONSTANTS
  Drafts = {d1}
  Replies = {}
  CRT = FALSE
  MaxAttempts = 3
  MaxOthers = 1
SPECIFICATION Spec
INVARIANTS OneRequestPerDraft NoTwinRoot 
PROPERTIES  SendingEnds DeliveredIsShown
CHECK_DEADLOCK FALSE
