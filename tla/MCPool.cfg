CONSTANTS
    Page = {p1, p2, p3}
    Num = 3
SPECIFICATION Spec
INVARIANTS TypeOK EveryNodeOnce UsedNumCountsLive OnlyLastPageHasRoom
