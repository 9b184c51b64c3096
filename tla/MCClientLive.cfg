CONSTANTS
    t1 = t1
    t2 = t2
    OutletStatus = OutletStatus
    StatusName = StatusName
    Tasks <- MCTasks
    Queries <- MCQueries
    Sets <- MCSets
    NameOf <- MCNameOf
    MaxSessions = 2
    MaxRequests = 4
    MaxPushes = 0

SPECIFICATION CFairSpec
PROPERTY ClientReturns
CHECK_DEADLOCK FALSE
