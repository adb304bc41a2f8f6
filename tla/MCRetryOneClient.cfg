SPECIFICATION Spec
CONSTANTS
    c1 = c1
    c2 = c2
    Clients = {c1}
    TxnId <- OneTxn
    Interval <- DistinctIntervals
    Port <- SamePort
    MaxAttempts = 3
    ServerModes = {"Normal", "DropFirstAck", "BusyOnce", "Silent"}
    Sequential = TRUE
    FifoLink = FALSE
    MaxDuplicates = 2
    LocalFaults = TRUE
INVARIANTS TimerGuardsWait RetryWithinBudget
PROPERTIES OutcomeStable EveryClientExits
