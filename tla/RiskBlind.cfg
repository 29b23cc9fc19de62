\* The price of a position already held cannot be read; none moves while an
\* order is handled.
SPECIFICATION Spec
CONSTANTS
    Symbols = {btc, eth}
    Prices = {72, 144}
    Quantities = {1, 2}
    Capital = 576
    LimitChoices <- SavedLimits
    MinQty = 1
    MaxQty = 2
    StepSize = 1
    MinNotional = 72
    Window = 2
    MayFail = TRUE
    DriftNum = 1
    DriftDen = 1
    MaxTrades = 4
    MaxDay = 1
SYMMETRY Symmetry
PROPERTIES
    GateHolds
CHECK_DEADLOCK FALSE
