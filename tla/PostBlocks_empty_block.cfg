\* The smallest instance in which the last post of the recent block is removed.
CONSTANTS
  Initial = 1
  PageSize = 1
  MaxPosts = 3
  MaxBacklog = 1
  MaxRequests = 1
  MaxFails = 0
  MaxRemovals = 1
SPECIFICATION Spec
INVARIANTS NoEmptyBlockAmongMany
CHECK_DEADLOCK FALSE
