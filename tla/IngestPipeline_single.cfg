SPECIFICATION SessionSpec
CONSTANTS
  Workers = {w1}
  Docs = {d1, d2}
  Malformed = {}
  s1 = s1
  s11 = s11
  s2 = s2
  NoParent = NoParent
  RowIds = {1, 2, 3, 4, 5, 6}
  Sections <- MCSections
  Parent <- MCParent
  Toc <- MCToc
  MaxVersion = 2
  StableIds = TRUE
  WithDb = TRUE
  WithQdrant = TRUE
  Scans = {a, b}
  Pages = 2
  MaxRetries = 3
  MaxExpiries = 1
INVARIANTS SectionTree RowsUnique ExpiryHarmless
PROPERTIES IndexNeverRegresses EventuallyCurrent
