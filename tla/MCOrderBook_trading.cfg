\* Orders enter only through submitLimit, and may be modified down to quantity zero;
\* liveness, hence no symmetry.
CONSTANTS
    MinPrice = 10
    MaxPrice = 12
    Slots = {s1, s2, s3}
    NULL = NULL
    OrderIds = {1, 2, 3}
    Prices <- LadderAndBeyond
    Quantities = {0, 1, 2}
    SeparateIds = TRUE
SPECIFICATION TradingSpec
INVARIANTS NotCrossed DepthIsBook QuantityConserved
PROPERTIES SweepComplete ExecTakesAll CallsReturn
