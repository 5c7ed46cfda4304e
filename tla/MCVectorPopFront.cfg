CONSTANTS
    Chunk = 2
    Val = {z, a}
    Zero = z
    Junk = junk
    MaxSize = 4
    GapPops = TRUE
SPECIFICATION Spec
PROPERTY PopFrontRemovesFront
CHECK_DEADLOCK FALSE
