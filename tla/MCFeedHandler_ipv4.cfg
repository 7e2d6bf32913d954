\* An ordinary packet, and one whose header says that there is no payload.
CONSTANTS
    KEEP_W = 8
    NULL = NULL
    NONE = NONE
    MAX_MSG = 50
    EndSession = 65535
    Frames <- mc_NoPayload
    MaxFrames = 2
SPECIFICATION FairSpec
INVARIANTS OutputRight
