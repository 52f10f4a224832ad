SPECIFICATION Spec
CONSTANTS
    Descriptors = 6
    MaxOther = 1
    REQUEST_ATTEMPTS = 3
    Commands = 4
INVARIANTS ClosesOnlyOwn
