SPECIFICATION SessionSpec
CONSTANTS
    d1 = d1
    Ingests = {i1, i2}
    Servers = {s1}
    Points = {1, 2, 3}
    Documents <- MCDocuments
    Original = {2, 3}
    DocumentOf <- MCDocumentOf
    Size = 384
    OldSize = 768
    PageSize = 1
    MaxFailures = 1
    IndexFields = 1
    Topics = {1, 2, 3}
    Sections = {1, 2}
    Threshold = 1
    MaxTopics = 2
    RegionsFile = FALSE
    MaxCounts = 2
    None = None
INVARIANTS
    ScrollComplete
    MatchesResolve
PROPERTIES
    OnlyDeletesRemove
    EventuallyStored
    SectionsLinked
