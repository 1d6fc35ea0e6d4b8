SPECIFICATION Spec
CONSTANTS
    Rows <- MCRows
    Backups = {b1}
    Restores = {r1, r2}
    Nobody = none
    InstancesLimit = 1
    BackupsLimit = 1
    MaxMishaps = 1
    Threads = {w1, w2}
    Tenants <- MCTenantKeys
    FirstTenant = 1
    RangeOf <- MCRangeOf
    Latest = 2
    MaxCommands = 2
    MaxMigrateFaults = 1
    Admins = {a}
    Requests = {q1, q2}
    Outsider = outsider
    MaxSecrets = 3
    People = {o, p}
    Owner = o
    Keys = {k1, k2}
    Amounts <- MCAmounts
    Months <- MCMonths
    PlanStorage = 1
    OwnStorage <- MCNoLimit
INVARIANTS
    PlacesAreSound
    SchemasMigrated
    OldSecretsDie
    InviteSpentOnce
    BlockedForAReason
SYMMETRY Symmetry
VIEW PartView
CHECK_DEADLOCK FALSE
