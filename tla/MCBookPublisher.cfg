\* The sequence number wraps at 8, after four publications; liveness, hence no symmetry.
CONSTANTS
    Words = {w1, w2, w3}
    Wrap = 8
    Tries = 3
    MaxPublish = 6
SPECIFICATION Spec
INVARIANTS TypeOK
PROPERTIES ConsistentRead ReadReturns
