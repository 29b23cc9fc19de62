\* Handlers of several threads interleave; nothing crashes and Binance does not
\* look at client order ids: the reservation alone must keep a key from executing
\* twice.
\* Every handler ends, the ones that wait for another one's key included.
SPECIFICATION FairSpec
CONSTANTS
    OrderKeys = {k1}
    CloseKeys = {}
    CancelKeys = {x1}
    Bodies = {b1, b2}
    Requests = {q1, q2, q3}
    Readers = {r1}
    Lots = 1
    SingleLoop = FALSE
    MayCrash = FALSE
    MayUnmap = FALSE
    ExchangeDedups = FALSE
INVARIANTS
    TypeOK
    AtMostOnce
    RowTellsTruth
    RejectedNeverPlaced
    AnswersAgree
    StampedIsClosed
    Finalized
PROPERTIES
    OnlyOvertakenRewrite
    HandlersFinish
CHECK_DEADLOCK FALSE
