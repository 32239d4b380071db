SPECIFICATION Spec
CONSTANTS
    NSIG = 2
    Observers = {application, adaptor}
    MaxItems = 3
    MaxSignals = 4
SYMMETRY ObserverSymmetry
INVARIANTS TypeOK ImmediateNeverOwed
CHECK_DEADLOCK FALSE
