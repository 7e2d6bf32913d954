\* Real header sizes; every frame may follow every other of its layer.
CONSTANTS
    KEEP_W = 8
    NULL = NULL
    NONE = NONE
    MAX_MSG = 50
    EndSession = 65535
    Frames <- mc_Frames
    MaxFrames = 3
SPECIFICATION FairSpec
INVARIANTS TypeOK OutputRight GapsReported DecodedRight
PROPERTIES PayloadDelivered
