SPECIFICATION Spec
CONSTANTS
  Adapters <- MCAdapters
  Gnss <- MCGnss
  Masks <- MCMasks
  Excluded <- MCExcluded
  CallsUsed <- MCCalls
  EventsUsed <- MCEvents
  MaxAdapters = 3
  MaxEvents <- MCMaxEvents
  Worlds <- MCWorlds
INVARIANTS
  EngineServesMasks
  EventsReachAdapters
  AnswersAreTrue
PROPERTY
  WaitingIsAskedOnce
CHECK_DEADLOCK FALSE
