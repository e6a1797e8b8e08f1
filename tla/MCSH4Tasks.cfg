SPECIFICATION FairSpec
CONSTANTS
  Tasks = {t1, t2, t3}
  Sched = sched
  Nobody = nobody
  Values <- MCValues
  Zero = 0
  FibersSupported = TRUE
INVARIANTS
  TypeOK
  CurrentIsRunning
  OneHandler
PROPERTIES
  InterruptFinishes
  ImplementsContexts
