\* Every list and both ratios, series of up to ten observations.
SPECIFICATION Spec
CONSTANTS
    Inputs <- MCInputs
    Lists <- MCLists
    Ratios <- MCRatios
    NaN = NaN
    MaxRss = 3
    Ln <- MCLn
    One = 100
CHECK_DEADLOCK FALSE
INVARIANTS
    PredictionsLookBack
    SelectionSound
