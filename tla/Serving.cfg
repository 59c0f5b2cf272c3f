SPECIFICATION ServingSpec
CONSTANTS
  Tasks = {t1, t2, t3}
  Handles = {h1, h2, h3, h4}
  NoClient = NoClient
  Closable = TRUE
  Requests = {r1, r2, r3}
  Main = Main
  PoolSize = 2
  Statements = 2
  MaxPools = 2
  None = None
  Letters = {"a", "b", "newline", "ellipsis"}
  Corpora <- TheCorpora
  Questions <- TheQuestions
  MinOverlap = 1
  MaxOverlap = 2
  MinRemainder = 1
  Today = 0
  Resolved <- TheResolved
CHECK_DEADLOCK FALSE
INVARIANTS DownIsBeingChecked OnePool Undisturbed OnlySelected NothingSkipped CitedAsAsked
PROPERTIES Reconnects Ends
