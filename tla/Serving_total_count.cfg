SPECIFICATION ServingSpec
CONSTANTS
  Tasks = {t1}
  Handles = {h1}
  NoClient = NoClient
  Closable = FALSE
  Requests = {r1}
  Main = Main
  PoolSize = 1
  Statements = 1
  MaxPools = 1
  None = None
  Letters = {"a", "b", "newline", "ellipsis"}
  Corpora <- TheCorpora
  Questions <- TheQuestions
  MinOverlap = 1
  MaxOverlap = 2
  MinRemainder = 1
  Today = 0
  Resolved <- TheResolved
CHECK_DEADLOCK FALSE
INVARIANTS PagedByTotalCount
