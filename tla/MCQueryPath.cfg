CONSTANTS
  NChunks = 5
  TextOf <- TextsDef
  NoText = ""
  SizeOf <- SizesDef
  Alike <- AlikeDef
  ParentOf <- ParentsDef
  NoParent = "none"
  SectionOf <- SectionsDef
  TopK = 2
  RrfK = 4
  RerankN = 4
  ExpandMax = 1
  Budget = 92
  Procs = {api, worker}
  Api = api
  Elsewhere <- ElsewhereDef
  MaxAttempts = 1
  MaxPurges = 1
  MaxRestarts = 1
  Unknown = Unknown
  Queries = {q1}
  MaxQueries = 2
  Orders <- OrdersDef
  Matches = {0, 2}
  SeedLists <- SeedsDef
  Rankings <- RankingsDef
CONSTANTS
  api = api
  worker = worker
  q1 = q1
SPECIFICATION Spec
INVARIANT VectorsMatchText
INVARIANT Findable
INVARIANT NoTextTwice
CHECK_DEADLOCK FALSE
