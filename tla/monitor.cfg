SPECIFICATION Spec
CONSTANTS
    p1 = p1
    p2 = p2
    Params = {p1}
    RequestPeriod = 1
    Retention = 0
    Objects <- MCOneObject
    Clients = {c1}
    CleanCycles = 1
    MaxTime = 9
    MaxRestarts = 1
    MaxFaults = 0
    MaxSetbacks = 1
INVARIANTS TypeOK SnapshotConsistent ResponseFresh ReadingsDecoded
PROPERTIES RequestsAnswered
