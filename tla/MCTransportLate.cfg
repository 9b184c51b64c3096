CONSTANTS
    t1 = t1
    t2 = t2
    OutletStatus = OutletStatus
    OutletSet = OutletSet
    StatusName = StatusName
    SetName = SetName
    Tasks <- MCTasks
    Queries <- MCQueries
    Sets <- MCSets
    NameOf <- MCNameOf
    MaxSessions = 1
    MaxRequests = 2
    MaxPushes = 0

SPECIFICATION SpecUncancelled
INVARIANT LateReplyNotMistaken
