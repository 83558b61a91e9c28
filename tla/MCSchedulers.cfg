\* One slot, as in the test of the first scheduler, or two.
SPECIFICATION MCSpec
CONSTANTS
    Clients = {0, 1, 2}
    Slots = {1, 2}
    Memory = 3
    MemSizes = {1, 2}
    Depths = {0, 1, 2, 3}
    EnterMemory = 1
    ReserveMemory = 1
    Queries = {0, 1, 2}
    NThread = 2
    Readings = {2, 5}
    Main = Main
    Nobody = Nobody
INVARIANTS NobodyForgotten LimitMemoryKept AllocatorReserveKept AllocatorSlotsAccounted JobsServed
PROPERTIES LimitEveryoneServed AllocatorEveryoneLeaves
CHECK_DEADLOCK FALSE
