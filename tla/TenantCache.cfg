SPECIFICATION CacheSpec
CONSTANTS
    Procs = {p1, p2}
    None = None
    Databases = {"instances"}
    MaxWrites = 1
    MaxExpiries = 0
INVARIANT NoStaleEntry
CHECK_DEADLOCK FALSE
