CONSTANTS
    s1 = s1
    u1 = u1
    None = None
    RaftServer = {s1}
    User = {u1}
    NumCommit = 2
    NumAppend = 1
    Config <- MCConfig
SPECIFICATION SpecHeartbeats
INVARIANTS
    ExecutedInOrder
    PoolInv
PROPERTIES
    RequestTaken
    CommitExecuted
    AppendSent
CHECK_DEADLOCK FALSE
