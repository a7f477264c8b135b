SPECIFICATION Spec
CONSTANTS
  MaxTagCode = 3
  Clients <- MCClients
  CallbackSets <- MCCallbackSets
  Fixes <- MCFixes
  EngineFixes <- MCEngineFixes
  SvReports <- MCSvReports
  Infos <- MCInfos
  Options <- MCOptions
  Kinds <- MCKinds
  MaxReports <- MCMaxReports
  MaxMsgs = 2
  DebugLines <- MCDebugLines
  Week = 20
  Measured = {"GPS", "QZSS", "SBAS"}
  MaxItem = 2
  SvNum <- MCSvNum
  Contents <- MCContents
  Worlds <- MCWorlds
INVARIANTS
  UsedInFixIsTrue
  LeapSecondsTold
  EngineStatusIsTrue
PROPERTY
  SentencesAreSound
CHECK_DEADLOCK FALSE
