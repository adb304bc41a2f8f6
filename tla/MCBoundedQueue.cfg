SPECIFICATION Spec
CONSTANTS
    Threads = {t1, t2, t3, t4}
    Item = {a, b}
    Capacity = 2
    None = None
INVARIANTS RingConsistent NoLostWakeup
PROPERTIES IsAQueue StopReleases
