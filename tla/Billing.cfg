SPECIFICATION Spec
CONSTANTS
    Hours <- MCHours
    Included <- MCIncluded
    PerMonth = 2
    Forever = 99
    Offers = {small}
    Builder = builder
    Sources = {api, cbx}
    ChunkSize = 3
    MaxRetries = 1
    Timeout = 3
    MaxTime = 2
    MaxUse = 1
    MaxChanges = 2
    MaxInvoices = 3
    MaxFaults = 1
    PerHour = 2
    HourDelay = 1
    MaxHour = 1
    MaxUses = 1
    MaxMetricsFaults = 1
INVARIANTS InvoicesAddUp  UsageIsCounted
PROPERTY ImplementsMetering
VIEW PartView
SYMMETRY Symmetry
CHECK_DEADLOCK FALSE
