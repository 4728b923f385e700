SPECIFICATION Spec
CONSTANTS
  N = 4
  Kinds = {"add", "load", "half", "test", "branch", "trap"}
  Programs <- Writers
  Fields = {"hi", "lo"}
  Capacity = 2
  FetchSpace = 3
  SplitAlloc = {}
  PartialPaths <- NoPaths
  NoInstr = NoInstr
INVARIANT AllocationsAreHeld
