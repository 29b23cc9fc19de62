\* The deployment: one event loop, reads in the thread pool, transactions that may
\* be lost after Binance was called, unknown statuses, and a close key.
SPECIFICATION Spec
CONSTANTS
    OrderKeys = {c1}
    CloseKeys = {c1}
    CancelKeys = {x1}
    Bodies = {b1}
    Requests = {q1, q2, q3}
    Readers = {r1}
    Lots = 2
    SingleLoop = TRUE
    MayCrash = TRUE
    MayUnmap = TRUE
    ExchangeDedups = TRUE
SYMMETRY Symmetry
PROPERTIES
    SwitchHonoured
    ImplementsOnceOnly
CHECK_DEADLOCK FALSE
