CONSTANTS
    u1 = u1  u2 = u2  s1 = s1  s2 = s2  s3 = s3
    Admins = {u1}
    Streams = {s1}
    MaxLoads = 2
    Capacity = 1
SPECIFICATION Spec
INVARIANTS UnloadedMeansClosed
CHECK_DEADLOCK FALSE
