CONSTANTS
    Runner = {r1, r2}
    Poster = {p1}
    Op = {o1, o2}
    Task = Task
    Desc = Desc
    None = None
    Calls = {"run", "poll", "wait_one"}
    Throws = TRUE
SPECIFICATION FairSpec
INVARIANTS
    NothingForgotten
    OpOnce
    DescriptorDequeued
    WorkIsSeen
    WorkInv
PROPERTIES
    OpRuns
CHECK_DEADLOCK FALSE
