CONSTANTS
  Apis = {a1, a2}
  Me = a1
  Ids = {id1}
  Fences = {f1, f2}
  NiIds = {100}
  Worlds = {"hal", "base", "single", "hasty", "life"}
  MaxCalls <- MCCalls
SPECIFICATION Spec
CHECK_DEADLOCK FALSE
INVARIANTS ObjectsAreKept AnswersMeetTheirRequests BreachesAreWanted
