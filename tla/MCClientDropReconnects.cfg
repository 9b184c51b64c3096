CONSTANTS
    t1 = t1
    t2 = t2
    OutletStatus = OutletStatus
    StatusName = StatusName
    Tasks <- MCTasks
    Queries <- MCQueries
    Sets <- MCSets
    NameOf <- MCNameOf
    MaxSessions = 3
    MaxRequests = 4
    MaxPushes = 0

SPECIFICATION CSpecUncancelled
SYMMETRY TaskSymmetry
PROPERTY DropReconnects
CHECK_DEADLOCK FALSE
