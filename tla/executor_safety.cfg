CONSTANTS
    a1 = a1  a2 = a2  b1 = b1
    ka = ka  kb = kb
    Jobs = {a1, a2, b1}
    Keys = {ka, kb}
    KeyOf <- MCKeyOf
    Cost <- MCCost
    SoftMaxInflightPerKey = 1
    MaxPendingPerKey = 2
    MaxPendingPerExecutor = 2
    IdleStateTTL = 1
    ConfiguredTargetInflight = 2
    RuntimeCapability = 3
    MaxTime = 0
SPECIFICATION Spec
INVARIANTS SlotAccounting PendingAccounting ExactlyOneOwner VerdictTruthful
           EndedMeansReleased NoLostWakeup ReturnsEmpty
PROPERTIES FifoWithinKey
SYMMETRY MCSymmetry
CONSTRAINT MCFewCancels
