CONSTANTS
    t1 = t1
    t2 = t2
    t3 = t3
    h1 = h1
    h2 = h2
    h3 = h3
    h4 = h4
    None = None
    Thread = {t1, t2, t3}
    Handler = {h1, h2, h3, h4}
SPECIFICATION Spec
INVARIANTS
    StrandInv
PROPERTIES
    ImplementsSerial
    HandlerRuns
CHECK_DEADLOCK FALSE
