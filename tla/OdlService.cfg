SPECIFICATION SessionSpec
CONSTANTS
  Clients = {c1, c2}
  d1 = d1
  Docs = {d1}
  Questions <- TheQuestions
  Sessions <- ReadSessions
  IndexedAs = {"eo"}
  MaxVersion = 1
  SearchTtl = 2
  DetailTtl = 1
INVARIANTS SearchAnswersQuestion KnownDocumentIsFound
PROPERTIES StalenessBounded EventuallyFresh
