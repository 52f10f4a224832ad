SPECIFICATION Spec
CONSTANTS
    Limits = {0, 2}
    UnsignedMax = 7
    Keys = {"a", "b", "c"}
    InvalidKeys = {"c"}
    Urls = {{}, {"a"}, {"c"}}
    Methods = {"GET", "POST", "TRACE"}
    MaxUpload = 4
    Texts <- MCTexts
CHECK_DEADLOCK FALSE
INVARIANTS TypeOK LimitExact HandedWhole FreedOnce CharactersWhole
PROPERTIES RequestsEnd
