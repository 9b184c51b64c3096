CONSTANTS
    t1 = t1
    t2 = t2
    Lamp = Lamp
    DishHopper = DishHopper
    NoName = NoName
    Tasks <- MCTasks
    N = 3
    Reported = 2
    Plain <- MCPlain
    Spaced <- MCSpaced
    EmptyName = NoName
    Factory <- MCFactory
    Default <- MCDefault
    MaxRenames = 3

SPECIFICATION Spec
SYMMETRY TaskSymmetry
INVARIANT RTypeOK
INVARIANT NoForeignNames
INVARIANT AloneRenamesOne
CHECK_DEADLOCK FALSE
