CONSTANTS
  Constellations <- MCConstellations
  Satellites <- MCSatellites
  ConstellationOf <- MCConstellationOf
  SvIdConfigs <- MCSvIdConfigs
  SvTypeConfigs <- MCSvTypeConfigs
  LockConfigs <- MCLockConfigs
  MaxEnables = 2
  MaxBacklog = 2
  Values <- MCValues
  MaxAsks = 2
  MaxSeconds = 2
  Worlds <- MCWorlds
SPECIFICATION Spec
INVARIANTS LockMatchesMode SettingsHeld MeasCorrTold
PROPERTY AsksAnsweredOnce
CHECK_DEADLOCK FALSE
