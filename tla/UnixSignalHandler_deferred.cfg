SPECIFICATION Spec
CONSTANTS
    NSIG = 1
    Observers = {application}
    MaxItems = 1
    MaxSignals = 1
INVARIANTS DeferredAreNotified
CHECK_DEADLOCK FALSE
