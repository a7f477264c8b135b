CONSTANTS
  Handles = {h1, h2}
  MaxBacklog = 3
  Networks = {"steady", "flaky", "badApn"}
  Wds = TRUE
SPECIFICATION FairSpec
INVARIANTS SubscribersMatchState NothingIsLost
PROPERTY EveryCallEnds
CHECK_DEADLOCK FALSE
