SPECIFICATION FairSpec
CONSTANTS
    unixPort = unixPort
    inetPort = inetPort
    UnixPorts = {unixPort}
    InetPorts = {inetPort}
    AppPrefixes = {}
    NULL = NULL
    Char <- MCChar
    MaxVersion = 1
    MaxWord = 1
    MaxName = 1
    MaxValue = 3
    Locations <- MCLocations
    Responses <- MCResponses
    Numerals <- MCNumerals
    MaxBody = 2
    MaxFds = 1
    MaxRequests = 2
    MaxFaults = 1
INVARIANTS TypeOK InstanceSeesAcceptedOnly ResponseRelayed NothingInvented
PROPERTIES ErrorsCloseAll RequestsAnswered
CHECK_DEADLOCK FALSE
