\* Two racing requests, two login states, one Google account, two users.
SPECIFICATION Spec
CONSTANTS
    Requests = {r1, r2}
    States = {s1, s2, s3}
    Subjects = {g1}
    Users = {u1, u2}
    StateTTL = 1
    SessionTTL = 1
    Max = 2
    Window = 3
    MaxDelay = 1
    MaxTime = 3
    MaxChanges = 1
    MaxSessions = 2
    None = None
SYMMETRY Symmetry
INVARIANTS
    OneSessionPerState
    SessionsEarned
    LoginsLimited
PROPERTIES
    NoRevival
CHECK_DEADLOCK FALSE
