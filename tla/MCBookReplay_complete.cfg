\* An order that is moved off the ladder and back.
CONSTANTS
    MinPrice = 1
    MaxPrice = 2
    Slots = {s1, s2, s3}
    NULL = NULL
    OrderIds = {1, 2, 3}
    Prices = {}
    Quantities = {1, 2}
    SeparateIds = TRUE
    ItchPrices = {90, 100, 260}
    TickUnits = 100
    MaxMessages = 6
SPECIFICATION ReplaySpec
SYMMETRY SlotSymmetry
INVARIANTS BookComplete
CHECK_DEADLOCK FALSE
