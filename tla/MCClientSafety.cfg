CONSTANTS
    t1 = t1
    t2 = t2
    OutletStatus = OutletStatus
    StatusName = StatusName
    Tasks <- MCTasks
    Queries <- MCQueries
    Sets <- MCSets
    NameOf <- MCNameOf
    MaxSessions = 3
    MaxRequests = 5
    MaxPushes = 0

SPECIFICATION CSpec
SYMMETRY TaskSymmetry
INVARIANT CTypeOK
INVARIANT OneConnection
INVARIANT OneLogin
INVARIANT RepeatsOnlyUnanswered
CHECK_DEADLOCK FALSE
