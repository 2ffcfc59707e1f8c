SPECIFICATION FairSpec
CONSTANTS
    k1 = k1
    k2 = k2
    k3 = k3
    Keys = {k1, k2, k3}
    Values = {v1}
    Entries = {e1, e2, e3}
    Capacities = {0, 1, 3}
    InitialCapacity = 16
    Hash <- HashSpread
    Null = Null
    Missing = Missing
INVARIANTS TableSound MemorySafe
PROPERTIES KeysStay ImplementsMap CallsReturn
