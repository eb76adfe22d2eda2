CONSTANTS
    main = main  u1 = u1  u2 = u2  s1 = s1  s2 = s2  s3 = s3
    Main = main
    Admins = {main, u1, u2}
    Streams = {s1, s2, s3}
    MaxLoads = 3
    Capacity = 1
SPECIFICATION FairServerSpec
INVARIANTS InflightAccounting NeverClosedInUse
           LoadedMeansServing EndLeavesNothing
PROPERTIES UnloadEventuallyEnds ProcessEnds
CHECK_DEADLOCK FALSE
