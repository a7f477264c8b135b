SPECIFICATION Spec
CONSTANTS
  None = None
  Networks <- MCNetworks
  TypeOfNet <- MCTypeOfNet
  MaxHandles = 3
  MaxItem = 3
  Values = {"v1"}
  Others = {"lib"}
  ItemLists <- MCItemLists
  MaxMsgs = 4
  MaxEvents <- MCMaxEvents
  Worlds <- MCWorlds
  Locks <- MCLocks
  Params <- MCParams
INVARIANTS
  SubscribersServed
  TableHoldsOnline
  SourceStops
PROPERTY
  DaemonLearns
CHECK_DEADLOCK FALSE
