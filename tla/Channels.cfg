CONSTANTS
    Pollers = {p}
    Sockets = {w}
    Newcomers = {w}
    MaxCalls = 2
    MaxFaults = 2
    MaxTries = 2
    SocketQueue = 1
    ListMax = 1
SPECIFICATION FairSpec
 
PROPERTY CatchesUp
CHECK_DEADLOCK FALSE
