CONSTANTS
    c1 = c1
    c2 = c2
    Client = {c1, c2}
    BatchSize = 1
    ReturnMethod = {"blocking", "async_handler"}
    Timeouts = FALSE
    None = None
    Conf = Conf
    Other = Other
    MaxRoleChanges = 2
    MaxOther = 0
    MaxConf = 1
SPECIFICATION FairSpec
PROPERTY
    CommittedIsAnswered
CHECK_DEADLOCK FALSE
