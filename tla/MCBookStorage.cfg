\* A pool of two slots that grows to five in chunks of three, and two levels.
CONSTANTS
    Levels = {bid, ask}
    Orders = {1, 2, 3, 4, 5}
    Quantities = {0, 1, 2}
    NULL = NULL
    initial_capacity = 2
    chunk_size = 3
    LIVE = LIVE
    MaxCapacity = 5
SPECIFICATION StorageSpec
INVARIANTS LevelTypeOK ListIntact TotalsExact FreeListIntact HandedOutOnce RestingIsLive
