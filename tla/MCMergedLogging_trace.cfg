SPECIFICATION FairSpec
CONSTANTS
  Cores = 2
  Instrs = 2
  MaxEvents = 2
INVARIANTS
  TypeOK
  OldestReadyFirst
  DrainedAtEnd
PROPERTIES
  WritesWholeInstructions
  TraceKeepsUp
