SPECIFICATION Spec
CONSTANTS
    Descriptors = 7
    MaxOther = 2
    REQUEST_ATTEMPTS = 3
    Commands = 4
INVARIANTS TypeOK ExchangeOnOwnSockets LeakBounded
PROPERTIES PollsAgain
