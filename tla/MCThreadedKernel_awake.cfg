SPECIFICATION Spec
CONSTANTS
  c1 = c1
  c2 = c2
  c3 = c3
  Cores <- ThreeCores
  Front = c1
  InitActive <- ThreeCores
  Quantum = 1
  InstrMax = 0
  MaxRuns = 2
  Events = {"halt", "wake", "script"}
INVARIANTS
  SomeoneAwake
  LoneCoreRuns
  EndedForAReason
PROPERTY
  QuitStays
