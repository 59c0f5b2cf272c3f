SPECIFICATION Spec
CONSTANTS
  Workers = {w1, w2}
  Docs = {d1, d2}
  Malformed = {d2}
  s1 = s1
  s11 = s11
  s2 = s2
  NoParent = NoParent
  RowIds = {1, 2, 3, 4, 5, 6}
  Sections <- MCSections
  Parent <- MCParent
  Toc <- MCToc
  MaxVersion = 2
  StableIds = FALSE
  WithDb = TRUE
  WithQdrant = TRUE
SYMMETRY Symmetry
INVARIANTS LinksResolve IndexedIsPersisted
