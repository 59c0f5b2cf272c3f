SPECIFICATION Spec
CONSTANTS
    src = src
    org1 = org1
    org2 = org2
    t1 = t1
    None = None
    Writers = {w1, w2}
    Seeders = {s1}
    Readers = {r1}
    Keys <- MCKeys
    Topics <- MCTopics
    Publications = {p1}
    Contents <- MCContents
    MaxFailures = 1
    MaxEdits = 1
INVARIANTS
    IdsResolve
    ReadSeesFinished
PROPERTIES
    ImplementsStore
    CatchesUp
