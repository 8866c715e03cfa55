SPECIFICATION Spec
CONSTANTS
  Procs <- MCProcs
  Attempts = {1, 2}
  Deployments <- Sound
  Polls = {r1}
  PollProc <- PollInP
  Summaries <- TwoSummaries
  Reports <- TwoReports
  BgPhases = {5}
  MaxRetries = 2
  NoOne = NoOne
INVARIANT AckedKept
PROPERTY ImplementsRegister
