SPECIFICATION Spec
CONSTANTS
    Processes = {p1}
    Chunks = 2
    MaxSaves = 3
    Faults = TRUE
INVARIANTS ImageIsWhole SavedIsDurable FailureKeepsLastGood
