CONSTANTS
    MaxLeft = 1
    p1 = p1
    p2 = p2
    Committer = Committer
    Pauser = {p1, p2}
    Thread = {p1, p2, Committer}
SPECIFICATION Spec
PROPERTY
    PauserIsWoken
CHECK_DEADLOCK FALSE
