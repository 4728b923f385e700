SPECIFICATION FairSpec
CONSTANTS
  N = 4
  Kinds = {"add", "load", "half", "test", "branch", "trap"}
  Programs <- Writers
  Fields = {"hi", "lo"}
  Capacity = 2
  FetchSpace = 3
  SplitAlloc = {"add", "load", "half", "trap"}
  PartialPaths <- NoPaths
  NoInstr = NoInstr
INVARIANTS
  TypeOK
  StagesConsistent
  BufferIsReleased
  InOrder
PROPERTY
  RunsSequentially
  Finishes
