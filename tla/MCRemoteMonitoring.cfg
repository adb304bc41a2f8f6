\* One monitor and a stranger on a link that loses datagrams but keeps their
\* order; two slots for the three subscriptions they want.
SPECIFICATION Spec
CONSTANTS
    Monitors = {m1}
    Stranger = s
    Demo <- MCDemo
    ReportType = {"TMP", "PRS"}
    BadReport = "BOGUS"
    MaxSubscriptions = 2
    MinInterval = 1
    MaxInterval = 2
    MaxAttempts = 2
    Reordering = FALSE
    StrangerRequests <- MCStrangerRequests
    MaxInFlight = 2
    MaxLate = 1
INVARIANTS
    CountersAgree
    ConfirmedMeansSubscribed
    ReportsStopped
PROPERTIES
    NoDrift
    IsARegistry
    NobodyWaitsForever
CHECK_DEADLOCK TRUE
