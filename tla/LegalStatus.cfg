SPECIFICATION Spec
CONSTANTS
    act = act
    amending = amending
    s1 = s1
    s2 = s2
    Absent = Absent
    Documents <- MCDocuments
    Sections <- MCSections
    Ingests = {i1}
    Readers = {r1}
    SectionDoc <- MCSectionDoc
    FactsOf <- MCFactsOf
    ValidFrom <- MCValidFrom
    MarkDate <- MCMarkDate
    MaxDay = 2
    MaxFailures = 1
INVARIANTS
    StatusBracketed
    SectionBracketed
PROPERTIES
    FactsRecorded
