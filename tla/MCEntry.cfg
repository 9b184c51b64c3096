CONSTANTS
    e1 = e1
    e2 = e2
    d1 = d1
    d2 = d2
    h1 = h1
    h2 = h2
    f1 = f1
    f2 = f2
    None = None
    Entries <- MCEntries
    Devices <- MCDevices
    Hosts <- MCHosts
    Flows <- MCFlows
    MaxActs = 3

SPECIFICATION Spec
SYMMETRY IdSymmetry
INVARIANT EntryTypeOK
INVARIANT ServicesWhileLoaded
INVARIANT OneEntryPerDevice
INVARIANT StaleOnlyFromSetup
INVARIANT ServiceReachesDevice
INVARIANT LeftHasCause
INVARIANT OnlyProbedData
PROPERTY RefusalsSpaced
CHECK_DEADLOCK FALSE
