SPECIFICATION FairSpec
CONSTANTS
  Chunks = {"c1", "c2"}
  Compiles = {"r1", "r2", "e"}
  Finals = {"e"}
  Deps <- MCDeps
  Depth <- MCDepth
  MaxDepth = 2
  Blank = {"e"}
  MapTries = 1
  NodeTries = 2
  MaxEsc = 1
  EscBatch = 1
  MaxRepairs = 2
  MaxPasses = 3
  Faults = 1
INVARIANT NothingDropped
INVARIANT Fresh
PROPERTY ModelTextKept
PROPERTY DocumentReturns
