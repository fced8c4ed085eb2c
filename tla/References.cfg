SPECIFICATION FairSpec
CONSTANTS
    Absent = Absent
    Names = {"c1", "c2"}
    Doubles = {"c1"}
    MaxEntries = 3
    MaxChanges = 2
INVARIANTS
    DeletedStaysDeleted
PROPERTIES
    ImplementsReferenceList
    ReferencesConverge
CHECK_DEADLOCK FALSE
