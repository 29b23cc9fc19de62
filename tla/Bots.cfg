\* Two requests for one bot, all operations, lost transactions, unreadable answers.
SPECIFICATION FairSpec
CONSTANTS
    Ids = {i1, i2}
    Slots = {s1, s2}
    IdsOf <- MCTwoPauses
    Targets = {2}
    SingleLoop = FALSE
    MayCrash = TRUE
    MayMisread = TRUE
INVARIANTS
    BookMatchesTrades
    NeverOversold
    StuckIsVisible
PROPERTIES
    HandlersFinish
CHECK_DEADLOCK FALSE
