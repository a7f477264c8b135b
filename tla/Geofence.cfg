CONSTANTS
  Clients = {c1, c2}
  MaxId = 2
  MaxHwId = 6
  MaxItems = 2
  MaxEvents = 3
  MaxBacklog = 2
  Worlds = {"restarting", "refusing"}
SPECIFICATION Spec
SYMMETRY Symmetry
INVARIANTS EngineHoldsTheFences BreachFindsItsFence ToldIsServed
CHECK_DEADLOCK FALSE
