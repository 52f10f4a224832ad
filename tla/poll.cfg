SPECIFICATION Spec
CONSTANTS
    NumObjects = 3
    FuncNum <- MCFuncNum
    RegCount <- MCRegCount
    Idle = {2}
    Handled = {1, 2, 3}
    SlaveId = 3
    REQUEST_ATTEMPTS = 2
    ExceptionLen = 11
    BuffSize = 256
    Cuts = {2, 4}
    Contents <- MCContents
    PairSpan = 56
    BurstWidth = 7
INVARIANTS TypeOK LagBoundedByFailures GarbledRejected OwnRegisterUnlessFailed
PROPERTIES ImplementsCycle GoodAnswerNotRejected CycleEndsUnlessClosed
