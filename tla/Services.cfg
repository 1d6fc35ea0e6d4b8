SPECIFICATION Spec
CONSTANTS
    Paths = {p1, p2}
    Contents = {e, c1, c2}
    Empty = e
    Absent = absent
    NoPath = nopath
    NoList = nolist
    AnyFile = anyfile
    Specs = {s1, s2}
    Boxes = {b1, b2, b3}
    NoBox = nobox
    Changes = {g1, g2}
    NoEvent = noevent
    Sites = {h1, h2}
    Domains = {d1, d2}
    NoDomain = nodomain
    MaxWrites = 4
    MaxTroubles = 1
    ObjectNames = {o1, o2, o3}
    FileSizes <- MCFileSizes
    NoObject = noobject
    Devices = {v1, v2}
    Editors = {q1, q2}
    Tokens = {t1, t2}
    MaxEdits = 3
    MaxMisses = 1
INVARIANTS
    InstalledIsThere
    OwnRunOnly
    FiresOnce
    
    FilesCounted
    
VIEW PartView
SYMMETRY Symmetry
CHECK_DEADLOCK FALSE
