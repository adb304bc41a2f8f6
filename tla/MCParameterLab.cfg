SPECIFICATION Spec
CONSTANTS
    Scripts <- LabAndShortScripts
    Capacity = 2
    None = None
INVARIANTS StoreFollowsPrecedence EveryChangeReported
PROPERTIES LabEnds
