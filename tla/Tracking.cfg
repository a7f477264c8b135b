CONSTANTS
  Sessions = {s1, s2}
  Options <- MCOptions
  MaxBacklog = 3
  Worlds = {"plain", "flaky", "distance", "mute"}
SPECIFICATION Spec
SYMMETRY Symmetry
INVARIANTS FixServesSessions ToldIsTracked ConfiguredWhileSuspended
CHECK_DEADLOCK FALSE
