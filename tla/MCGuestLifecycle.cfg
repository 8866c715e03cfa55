SPECIFICATION FairSpec
CONSTANTS
  Jobs = {1, 2}
  Convs = {c1}
  Requests = {r1, r2}
  MaxRequests = 4
  MaxTries = 1
  MaxChats = 1
  MaxFaults = 1
  LateUpgrades = TRUE
  StaleIds = FALSE
  NoOne = NoOne
CHECK_DEADLOCK FALSE
INVARIANT PurgedOwnsNothing
PROPERTY UserDataKept
PROPERTY RunningKept
PROPERTY Cleaned
