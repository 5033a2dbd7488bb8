SPECIFICATION Spec
CONSTANTS
    N = 4
    Index = {1, 2, 3, 4, 5, 6, 7, 8, 9, 10}
INVARIANTS
    OrderInv
    RoomAfterNewest
