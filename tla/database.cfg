SPECIFICATION Spec
CONSTANTS
    p1 = p1
    p2 = p2
    Params = {p1, p2}
    RequestPeriod = 1
    Retention = 1
    Objects <- MCTwoObjects
    Clients = {}
    CleanCycles = 2
    MaxTime = 7
    MaxRestarts = 1
    MaxFaults = 1
    MaxSetbacks = 2
INVARIANTS RetentionKept
PROPERTIES RowsStopOnlyForColumns
