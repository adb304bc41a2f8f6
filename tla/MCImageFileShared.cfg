SPECIFICATION Spec
CONSTANTS
    Processes = {p1, p2}
    Chunks = 2
    MaxSaves = 2
    Faults = FALSE
INVARIANTS ImageIsWhole
