CONSTANTS
    Classes = {c1, c2}
    Fields = {f}
    Types = {"order", "filter"}
    Sockets = {s1}
    MaxSaves = 2
    MaxFaults = 1
SPECIFICATION FairSpec
INVARIANTS IndexesBacked NoIndexLeft
PROPERTY MigrationEnds
CHECK_DEADLOCK FALSE
