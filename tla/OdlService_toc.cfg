SPECIFICATION SessionSpec
CONSTANTS
  Clients = {c1}
  d1 = d1
  Docs = {d1}
  Questions <- TheQuestions
  Sessions <- BrowseSessions
  IndexedAs = {"eo"}
  MaxVersion = 1
  SearchTtl = 1
  DetailTtl = 1
PROPERTIES TocFromPostgres
