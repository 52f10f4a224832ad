SPECIFICATION Spec
CONSTANTS
    Clients = {c1, c2, c3}
    ThreadCounts = {1}
    ConnectionLimit = 2
    UnsignedMax = 7
    None = None
INVARIANT CleanupExclusive
