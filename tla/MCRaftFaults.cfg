CONSTANTS
    s1 = s1
    s2 = s2
    s3 = s3
    v1 = v1
    Server = {s1, s2, s3}
    Command = {v1}
    MaxAppendSize = 1
    Nil = Nil
    Conf = Conf
    MaxElections = 2
    MaxRequests = 1
    MaxHeartbeats = 1
    MaxFaults = 1
    MaxInFlight = 3
SPECIFICATION FaultsOrRequestsSpec
CONSTRAINT InFlight
SYMMETRY Symmetric
INVARIANTS
    RaftInv
    StateMachineSafety
    CommitAfterPrecommit
CHECK_DEADLOCK FALSE
