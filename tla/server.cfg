SPECIFICATION Spec
CONSTANTS
    Clients = {c1, c2, c3}
    ThreadCounts = {0, 1, 2}
    ConnectionLimit = 2
    UnsignedMax = 7
    None = None
INVARIANTS TypeOK LimitHonoured CountFollows DroppedBound NothingLeft
PROPERTY StopEnds
