SPECIFICATION MCFairSpec
CONSTANTS
  Modes <- MCModes
  Stale = stale
  NoPsr = noPsr
  timer = timer
  sh4 = sh4
  Sources = {timer, sh4}
  Timer = timer
  TimerSpan = 2
  Divider = 1
  PerTick = 2
  MaxBurst = 1
  MaxDebt = 3
  MaxLate = 2
INVARIANTS
  TypeOK
  OwnUntilReturn
  SpsrUntilReturn
  LineTracksPending
  NoTimeLost
PROPERTIES
  FiqServed
