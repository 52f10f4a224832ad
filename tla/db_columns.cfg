SPECIFICATION Spec
CONSTANTS
    p1 = p1
    p2 = p2
    Params = {p1, p2}
    RequestPeriod = 1
    Retention = 1
    Objects <- MCTwoObjects
    Clients = {}
    CleanCycles = 2
    MaxTime = 6
    MaxRestarts = 0
    MaxFaults = 0
    MaxSetbacks = 1
INVARIANTS ColumnsComplete
