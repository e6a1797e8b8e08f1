SPECIFICATION FairSpec
CONSTANTS
  TickGate = 2
  FrameMs = 1
  OwedCap = 1
  DmaBits <- MCDmaBits
  Events <- LiveEvents
  DiscReadMs <- LiveDiscReadMs
  AicaSignals = TRUE
  NrmRoutes <- LiveNrmRoutes
  ExtRoutes <- LiveExtRoutes
  SrValues <- MCSrValues
  BackoffFree = 1
  BackoffPeriod = 2
PROPERTIES
  NewWorkReachesHandler
  FrameRaised
