CONSTANTS
    t1 = t1
    t2 = t2
    OutletStatus = OutletStatus
    OutletSet = OutletSet
    StatusName = StatusName
    SetName = SetName
    Tasks <- MCTasks
    Queries <- MCQueries
    Sets <- MCSets
    NameOf <- MCNameOf
    MaxSessions = 2
    MaxRequests = 2
    MaxPushes = 1

SPECIFICATION Spec
SYMMETRY TaskSymmetry
INVARIANT TypeOK
INVARIANT SingleFlight
INVARIANT RepliesNeverReused
INVARIANT ShiftHasCause
PROPERTY ServesSerially
