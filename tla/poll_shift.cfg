SPECIFICATION Spec
CONSTANTS
    NumObjects = 3
    FuncNum <- MCFuncNum
    RegCount <- MCRegCount
    Idle = {2}
    Handled = {1, 2, 3}
    SlaveId = 3
    REQUEST_ATTEMPTS = 2
    ExceptionLen = 11
    BuffSize = 256
    Cuts = {}
    Contents <- MCContents
    PairSpan = 56
    BurstWidth = 7
INVARIANTS ValueOfOwnRegister
