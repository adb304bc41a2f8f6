SPECIFICATION Spec
CONSTANTS
    c1 = c1
    c2 = c2
    Clients = {c1, c2}
    TxnId <- DistinctTxns
    Interval <- DistinctIntervals
    Port <- SamePort
    MaxAttempts = 2
    ServerModes = {"Normal", "DropFirstAck", "BusyOnce", "Silent"}
    Sequential = TRUE
    FifoLink = FALSE
    MaxDuplicates = 0
    LocalFaults = FALSE
INVARIANTS AtMostOnce
