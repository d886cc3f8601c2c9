CONSTANTS
    s1 = s1
    s2 = s2
    s3 = s3
    v1 = v1
    Server = {s1, s2, s3}
    Command = {v1}
    MaxAppendSize = 1
    Nil = Nil
    Conf = Conf
    MaxElections = 4
    MaxRequests = 0
    MaxHeartbeats = 0
    MaxFaults = 0
    MaxInFlight = 3
SPECIFICATION Spec
CONSTRAINTS
    InFlight
    ThirdReignCommits
SYMMETRY Symmetric
PROPERTY
    CommittedStays
CHECK_DEADLOCK FALSE
