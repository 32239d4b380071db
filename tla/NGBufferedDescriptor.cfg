SPECIFICATION FairSpec
CONSTANTS
    Size = 3
    MaxLen = 4
    MaxRead = 4
    MaxWrite = 4
    MaxFailures = 1
INVARIANTS TypeOK ReadsExact WritesExact
PROPERTIES CallsReturn
CHECK_DEADLOCK FALSE
