SPECIFICATION Spec
CONSTANTS
    Writers = {w1, w2}
    Rows = {r1, r2}
    Names = {n1}
    NoName = noname
    Nobody = nobody
    RevalidateMaxRetry = 2
    MaxWriterRuns = 3
    MaxSources = 2
    MaxUploads = 2
    Labels = {l1, l2}
    InitialLabel = l1
    NoLabel = nolabel
    MaxPk = 3
    MaxRowWrites = 4
    Procs = {p1, p2}
    None = None
    Databases = {"default", "instances"}
    MaxWrites = 2
    MaxExpiries = 1
    Files = {f1, f2, f3}
    GoogleFiles = {f3}
    MaxDepth = 3
    MaxHookFaults = 1
INVARIANTS
    NoLostUpdate
    ObjectsAreSound
    BackupIsFaithful
    DefaultGetIsRecent
    NoOrphanFile
PROPERTIES
    StoreSpec
VIEW PartView
CHECK_DEADLOCK FALSE
