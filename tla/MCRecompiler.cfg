SPECIFICATION Spec
CONSTANTS
  Words = 7
  Targets = {0, 3, 5}
  Known = {3}
  MaxCalls = 2
  Programs <- MCPrograms
PROPERTIES
  RunsLikeSh4
CHECK_DEADLOCK FALSE
