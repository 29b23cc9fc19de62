\* Balances, prices or an order's status come back in a form the code cannot read.
SPECIFICATION Spec
CONSTANTS
    Ids = {i1, i2}
    Slots = {s1, s2}
    IdsOf <- MCTwoPauses
    Targets = {2}
    SingleLoop = TRUE
    MayCrash = FALSE
    MayMisread = TRUE
INVARIANTS
    TransitionsConcluded
CHECK_DEADLOCK FALSE
