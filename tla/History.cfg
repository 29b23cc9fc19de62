\* Two assets, one price change, one restart; buckets of two minutes.
SPECIFICATION Spec
CONSTANTS
    Assets = {a, b}
    Interval = 2
    Windows <- MCWindows
    MaxDelay = 1
    Cash = 2
    MaxPrice = 2
    MaxClock = 7
    MaxMoves = 3
    MaxRestarts = 1
SYMMETRY MCSymmetry
CHECK_DEADLOCK FALSE
INVARIANTS
    ValuedAsRead
    ScheduleKept
    CurveIsRecorded
    FiguresFollow
PROPERTIES
    PastIsSettled
