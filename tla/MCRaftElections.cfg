CONSTANTS
    s1 = s1
    s2 = s2
    s3 = s3
    v1 = v1
    Server = {s1, s2, s3}
    Command = {v1}
    MaxAppendSize = 10
    Nil = Nil
    Conf = Conf
    MaxElections = 3
    MaxRequests = 0
    MaxHeartbeats = 0
    MaxFaults = 0
    MaxInFlight = 3
SPECIFICATION Spec
CONSTRAINT InFlight
SYMMETRY Symmetric
INVARIANTS
    ElectionSafety
    LogMatching
    StateMachineSafety
    PeerNotAhead
PROPERTY
    CommittedStays
CHECK_DEADLOCK FALSE
