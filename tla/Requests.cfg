SPECIFICATION Spec
CONSTANTS
    Keys <- MCKeys
    FieldValues <- MCFieldValues
    Null = null
    Gone = gone
    MaxPageSize = 2
    MaxRowChanges = 1
    Levels <- MCLevels
    MaxMoves = 1
    Sessions = {q1, q2}
    NoSession = nosession
    UserGroups = {g1, g2}
    GroupMaxCount = 1
    MaxKeys = 2
    MaxRequests = 4
    Things = {1}
    Targets <- MCTargets
    Numbers = {0, 1}
    Nil = nil
    NestedQueriesMax = 1
    NestedQueryLimit = 1
    MaxListLength = 1
    Calls = {k1, k2, k3}
    SubscribeMaxTries = 1
INVARIANTS
    
    GrantsAreCurrent
    UsersAreSound
    QueriesAreSound
    ResultNotMissed
VIEW PartView
SYMMETRY Symmetry
CHECK_DEADLOCK FALSE
