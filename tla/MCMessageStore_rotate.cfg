\* Rotation on a day with an existing log.
CONSTANTS
    Room = {general, devs}
    MaxPerRoom = 2
    LimitBytes = 4
    LineLen = {1, 3}
    PriorSize = {0, 3}
    MaxStores = 5
    MaxDay = 2
    s1 = s1
    s2 = s2
    q1 = q1
    q2 = q2
    Sender = {s1, s2}
    Query = {q1, q2}
    SenderOf <- MCSenderOf
    Contains <- MCContains
SPECIFICATION Spec
CHECK_DEADLOCK FALSE
INVARIANT FileSizeBounded
