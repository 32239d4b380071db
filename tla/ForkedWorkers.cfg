SPECIFICATION FairSpec
CONSTANTS
    Pids = {p1, p2, p3, p4}
    ForkCount = 3
    MaxForkFailures = 1
    Empty = Empty
    Failed = Failed
INVARIANTS TypeOK KillsOnlyOwnChildren TearDownKillsAll
PROPERTIES DeadWorkersReaped
