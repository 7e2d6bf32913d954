\* submitLimit into a book that addOrder has crossed.
CONSTANTS
    MinPrice = 10
    MaxPrice = 11
    Slots = {s1, s2, s3}
    NULL = NULL
    OrderIds = {1, 2, 3}
    Prices <- LadderAndBeyond
    Quantities = {1}
    SeparateIds = TRUE
SPECIFICATION Spec
PROPERTIES UncrossedAfterSubmit
