SPECIFICATION FairSpec
CONSTANTS
  c1 = c1
  c2 = c2
  c3 = c3
  Cores <- TwoCores
  Front = c1
  InitActive <- TwoCores
  Quantum = 1
  InstrMax = 1
  MaxRuns = 2
  Events = {"halt", "wake", "stop", "break", "raise", "hasty", "rerun"}
INVARIANTS
  TypeOK
  NoneOutsideRun
PROPERTY
  QuitEndsRun
CHECK_DEADLOCK FALSE
