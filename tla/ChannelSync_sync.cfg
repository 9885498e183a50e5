CONSTANTS
  BurstLimit = 0
  QueueLimit = 1
  Initial = 1
  MaxPosts = 4
  MaxRequests = 1
SPECIFICATION Spec
INVARIANTS TypeOK NothingElseMissed
PROPERTY MissedPostsComeBack
