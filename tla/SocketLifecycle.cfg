SPECIFICATION FairSpec
CONSTANTS
    Sockets = {a}
    Envs = {e}
    Urls = {a}
    Workers = {w1, w2}
    None = None
    MaxAttempts = 2
    MaxRequests = 2
    MaxFaults = 1
INVARIANTS
    NoObjectStuck
    OkIsUpToDate
PROPERTY EveryChangeSettles
CHECK_DEADLOCK FALSE
