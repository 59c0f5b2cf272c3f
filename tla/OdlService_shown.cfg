SPECIFICATION SessionSpec
CONSTANTS
  Clients = {c1, c2}
  d1 = d1
  Docs = {d1}
  Questions <- TheQuestions
  Sessions <- OpenSessions
  IndexedAs = {"guid"}
  MaxVersion = 1
  SearchTtl = 1
  DetailTtl = 1
INVARIANTS ShownCanBeOpened
