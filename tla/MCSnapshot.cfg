CONSTANTS
    t1 = t1
    t2 = t2
    Tasks <- MCTasks
    N = 2
    Firmwares <- MCFirmwares
    MaxOps = 2
    MaxGiveUps = 1
    MaxLoose = 1

SPECIFICATION Spec
SYMMETRY TaskSymmetry
INVARIANT StoredTogether
INVARIANT PhantomHasCause
INVARIANT ReadingsKeepStep
CHECK_DEADLOCK FALSE
