\* One bot's virtual ledger with fees and slippage, two days, and the scheduler.
SPECIFICATION Spec
CONSTANTS
    Prices = {2, 3}
    Targets = {1, 2}
    Capital = 48100
    FeePct = 10
    SlippagePct = 10
    BucketsPerDay = 1
    MaxTime = 1
    MaxOrders = 4
INVARIANTS
    TypeOK
    LedgerExplained
    PnlIsCashChange
    OverdraftBounded
    SnapshotWithinTick
PROPERTIES
    SnapshotsFinal
CHECK_DEADLOCK FALSE
