SPECIFICATION FairSpec
CONSTANTS
    Pids = {p1, p2, p3}
    NoPid = NoPid
    FailLimit = 20
    MaxSignals = 4
INVARIANTS TypeOK AtMostOneChild ExitCleansUp RapidFailuresStop
PROPERTIES ApplicationComesBack
