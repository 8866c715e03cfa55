SPECIFICATION Spec
CONSTANTS
  w1 = w1 w2 = w2 web = web alpha = alpha beta = beta
  Jobs = {j1}
  Workers = {w1, w2}
  Procs = {web, alpha, beta}
  ProcOf <- Pair
  ApiProc = web
  Graphs = {g1}
  Requests = {r1}
  MaxAttempts = 2
  Budgets <- PollOrCrash
  NoWorker = NoWorker NoGraph = NoGraph NoJob = NoJob Unset = Unset
INVARIANT SingleRunner
PROPERTY DoneIsFinal
