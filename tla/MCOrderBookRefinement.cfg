\* The engine against price-time priority.
CONSTANTS
    MinPrice = 10
    MaxPrice = 11
    Slots = {s1, s2, s3}
    NULL = NULL
    OrderIds = {1, 2, 3}
    Prices <- LadderAndBeyond
    Quantities = {1, 2}
    SeparateIds = TRUE
SPECIFICATION Spec
SYMMETRY SlotSymmetry
INVARIANTS TypeOK IndexesAgree BestIsBest CountersExact
PROPERTIES PriceTimePriority
