\* The book numbers an order itself while a supplied id has that number.
CONSTANTS
    MinPrice = 10
    MaxPrice = 11
    Slots = {s1, s2}
    NULL = NULL
    OrderIds = {1, 2}
    Prices <- LadderAndBeyond
    Quantities = {1}
    SeparateIds = FALSE
SPECIFICATION Spec
PROPERTIES FilledMakerLeaves
