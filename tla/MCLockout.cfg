CONSTANTS
    t1 = t1
    t2 = t2
    Callers <- MCCallers
    Schedule <- MCSchedule
    Cooldown = 3
    MaxTime = 8
    MaxAttempts = 4

SPECIFICATION Spec
SYMMETRY CallerSymmetry
INVARIANT LTypeOK
INVARIANT Spaced
PROPERTY CooldownNeverShortened
CHECK_DEADLOCK FALSE
