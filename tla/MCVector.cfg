CONSTANTS
    Chunk = 3
    Val = {z, a}
    Zero = z
    Junk = junk
    MaxSize = 5
    GapPops = FALSE
SPECIFICATION Spec
INVARIANTS TypeOK NoAssertFails GapAndSlackBounded
PROPERTY IsDeque
CHECK_DEADLOCK FALSE
