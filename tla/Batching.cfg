SPECIFICATION Spec
CONSTANTS
  c1 = c1
  c2 = c2
  Clients = {c1, c2}
  Options <- MCOptions
  Width = 16
  MaxId = 2
  MaxTravel = 5
  MaxCommands <- MCCommands
  MaxBacklog = 2
  Worlds = {"calm", "lossy", "crowded"}
INVARIANTS NoBatchIsOrphaned EngineServesSessions
PROPERTIES TripsNotEarly
SYMMETRY Symmetry
CHECK_DEADLOCK FALSE
