CONSTANTS
    c1 = c1
    c2 = c2
    Client = {c1, c2}
    BatchSize = 1
    ReturnMethod = {"blocking", "async_handler"}
    Timeouts = TRUE
    None = None
    Conf = Conf
    Other = Other
    MaxRoleChanges = 2
    MaxOther = 1
    MaxConf = 1
SPECIFICATION Spec
SYMMETRY Symmetric
INVARIANTS
    OkMeansExecuted
    PreCommitFirst
    WaiterReachable
CHECK_DEADLOCK FALSE
