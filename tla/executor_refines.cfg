CONSTANTS
    a1 = a1  a2 = a2  b1 = b1
    ka = ka  kb = kb
    Jobs = {a1, a2}
    Keys = {ka, kb}
    KeyOf <- MCKeyOf
    Cost <- MCCost
    SoftMaxInflightPerKey = 1
    MaxPendingPerKey = 2
    MaxPendingPerExecutor = 1
    IdleStateTTL = 1
    ConfiguredTargetInflight = 0
    RuntimeCapability = 2
    MaxTime = 3
SPECIFICATION Spec
INVARIANTS IdleMeansUnused
PROPERTIES ImplementsService
