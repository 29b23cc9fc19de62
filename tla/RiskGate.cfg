\* Two symbols, two prices an order may meet at once, two days; all reads
\* succeed, and Binance returns fewer trades than there may be.
SPECIFICATION Spec
CONSTANTS
    Symbols = {btc, eth}
    Prices = {64, 72}
    Quantities = {1, 2}
    Capital = 512
    LimitChoices <- SavedLimits
    MinQty = 1
    MaxQty = 2
    StepSize = 1
    MinNotional = 64
    Window = 2
    MayFail = FALSE
    DriftNum = 9
    DriftDen = 8
    MaxTrades = 4
    MaxDay = 1
SYMMETRY Symmetry
INVARIANTS
    WalkExact
    AverageWithinPaid
PROPERTIES
    GateHolds
CHECK_DEADLOCK FALSE
