\* A direct and a public channel, the user and somebody else; two calls one after the
\* other or at a time, three changes, one request of the user at any moment.
SPECIFICATION Spec
CONSTANTS
  Channels = {d, e}
  Direct = {d}
  Users = {me, u}
  Me = me
  None = None
  MaxCalls = 2
  MaxEvents = 3
  MaxRequests = 1
CHECK_DEADLOCK FALSE
INVARIANT TypeOK
INVARIANT RingHasConference
INVARIANT RingIsForLiveCall
INVARIANT PresenceMatches
PROPERTY RingEnds
