CONSTANTS
    Widget = {w1, w2, w3}
    MaxDepth = 2
    Null = Null
SPECIFICATION Spec
SYMMETRY Symmetry
INVARIANTS SlotsAgree NothingReadAfterFree OneCallbackPerEvent
CHECK_DEADLOCK FALSE
