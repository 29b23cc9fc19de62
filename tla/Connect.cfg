\* Three requests connect two keys, two disconnect, the process may restart.
SPECIFICATION FairSpec
CONSTANTS
    Puts = {p1, p2, p3}
    Deletes = {d1, d2}
    Keys = {k1, k2}
    MaxRestarts = 1
    None = None
CHECK_DEADLOCK FALSE
INVARIANTS
    StoredIsSafe
    PromisesKept
    LabelsExplained
PROPERTIES
    HandlersFinish
