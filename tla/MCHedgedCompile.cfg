SPECIFICATION FairSpec
CONSTANTS
  Passes = {1, 2, 3}
  Reporters = {r1}
  Inputs <- Some
  BatchSize = 3
  MaxTokens = 3
  Workers = 2
CHECK_DEADLOCK FALSE
INVARIANT NothingLost
PROPERTY GateForward
PROPERTY LiveSuccessKept
PROPERTY CompileReturns
