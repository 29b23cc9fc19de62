\* A key is replaced while it is disconnected: the event loop stops for good.
SPECIFICATION FairSpec
CONSTANTS
    Puts = {p1, p2}
    Deletes = {d1}
    Keys = {k1, k2}
    MaxRestarts = 0
    None = None
CHECK_DEADLOCK FALSE
PROPERTIES
    LoopKeepsDispatching
