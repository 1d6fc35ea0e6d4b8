SPECIFICATION Spec
CONSTANTS
    Producers = {p1, p2}
    Runners = {r1, r2}
    Specs = {s1, s2, w1}
    PrioritySpecs = {w1}
    NoSpec = NoSpec
    Limits = {1}
    MaxLimit = 1
    QueuePerRunner = 1
    MaxFaults = 1
SYMMETRY Symmetry
INVARIANTS
    OnePlace
    NoSpecDropped
    NoLostWakeup
    ConcurrencyLimit
CHECK_DEADLOCK FALSE
