\* A ring of two slots whose indices wrap at four, and a tape of two trades; liveness,
\* hence no symmetry.
CONSTANTS
    Cap = 2
    Wrap = 4
    Torn = Torn
    Val <- Event
    Ops = {add}
    Books = {b}
    Makers = {m1, m2}
    SampleEvery = 2
    Burst = 2
    MAX_TAPE = 2
    MaxEvents = 3
SPECIFICATION Spec
INVARIANTS TypeOK NoSlotRace IndicesInStep NothingLost FinalFrameComplete DropsAlertedOnce
PROPERTIES ImplementsFifo ShutdownCompletes
