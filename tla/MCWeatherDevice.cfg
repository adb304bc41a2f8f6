SPECIFICATION Spec
CONSTANTS
    OkValues = {1}
    JumpValue = 3
    RangeValue = 9
    LowerLimit = 0
    MaximumRate = 1
    StuckThreshold = 2
    Allowed <- MCAllowed
    PrintedLimit <- MCPrintedLimit
    Defaults <- MCDefaults
    Overrides <- MCOverrides
    Requests <- MCRequests
    RateCap = 2
    MaxSamples = 2
    MaxCommands = 2
    MaxRestarts = 1
    MaxInFlight = 1
    MaxEvents = 4
INVARIANTS TelemetryHonest ConfirmedIsInForce SaveIsKept
PROPERTIES SilenceAndReportsDue
