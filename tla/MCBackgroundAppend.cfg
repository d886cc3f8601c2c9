CONSTANTS
    p1 = p1
    p2 = p2
    Bg = Bg
    Shutdown = Shutdown
    Producer = {p1, p2}
    Thread = {p1, p2, Bg, Shutdown}
SPECIFICATION Spec
INVARIANTS
    AppendInv
PROPERTIES
    WorkIsSent
    BgStops
CHECK_DEADLOCK FALSE
