SPECIFICATION Spec
CONSTANTS
  TickGate = 1
  FrameMs = 1
  OwedCap = 1
  DmaBits <- MCDmaBits
  Events <- SafetyEvents
  DiscReadMs <- SafetyDiscReadMs
  AicaSignals = FALSE
  NrmRoutes <- SafetyNrmRoutes
  ExtRoutes <- SafetyExtRoutes
  SrValues <- MCSrValues
  BackoffFree = 1
  BackoffPeriod = 3
INVARIANTS
  TypeOK
  BackoffBounded
  GameKeepsItsSr
PROPERTIES
  DeliversOnlyUnmasked
  OnlyUnchangedBacksOff
