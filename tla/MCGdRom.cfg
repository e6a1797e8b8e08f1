SPECIFICATION FairSpec
CONSTANTS
  main = main
  irq = irq
  Main = main
  Handler = irq
  Nobody = nobody
  Drivers <- BothDrivers
  SectorCounts <- MCSectorCounts
  MaxId = 4
  TickGate = 2
  FrameMs = 3
  OwedCap = 2
INVARIANTS
  TypeOK
  CreditConserved
PROPERTIES
  SecondAskCompletes
  CommandCompletes
