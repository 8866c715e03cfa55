SPECIFICATION FairSpec
CONSTANTS
  w1 = w1 w2 = w2 web = web alpha = alpha beta = beta
  Jobs = {j1}
  Workers = {w1}
  Procs = {web, alpha}
  ProcOf <- Split
  ApiProc = web
  Graphs = {g1}
  Requests = {r1}
  MaxAttempts = 1
  Budgets <- Anything
  NoWorker = NoWorker NoGraph = NoGraph NoJob = NoJob Unset = Unset
INVARIANT CompleteBacked
PROPERTY NoDirectReopen
PROPERTY FinalWithoutRetries
PROPERTY Settles
PROPERTY CancelFreesWorker
