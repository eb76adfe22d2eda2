CONSTANTS
    a1 = a1  a2 = a2  a3 = a3  a4 = a4  b1 = b1  b2 = b2  b3 = b3
    ka = ka  kb = kb
    Jobs = {a1, a2, b1}
    Keys = {ka, kb}
    KeyOf <- MCKeyOf
    Cost <- MCCost
    SoftMaxInflightPerKey = 1
    MaxPendingPerKey = 4
    MaxPendingPerExecutor = 8
    IdleStateTTL = 1
    ConfiguredTargetInflight = 1
    RuntimeCapability = 1
    MaxTime = 2
    MaxHold = 1
    Overhead = TRUE
SPECIFICATION FairShareSpec
PROPERTIES NewKeyGetsNextSlot
CHECK_DEADLOCK FALSE
