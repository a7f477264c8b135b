CONSTANTS
  MaxRequests = 3
  MaxBacklog = 2
  Worlds = {"prompt", "preempted"}
SPECIFICATION FairSpec
INVARIANT UserDecides
PROPERTY EveryRequestEndsOnce
CHECK_DEADLOCK FALSE
