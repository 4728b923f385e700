SPECIFICATION Spec
CONSTANTS
  c1 = c1
  c2 = c2
  c3 = c3
  Cores <- TwoCores
  Front = c1
  InitActive <- TwoCores
  Quantum = 1
  InstrMax = 0
  MaxRuns = 1
  Events = {"break"}
INVARIANT BreakWakesAll
