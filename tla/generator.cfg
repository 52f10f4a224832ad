SPECIFICATION DocumentSpec
CONSTANTS
    min_generated = 3
    Offers = {1, 2, 5}
    Batches = {1, 2, 3, 4, 5, 6, 7, 8, 9, 10, 11, 12, 13, 14, 15, 16}
    MaxBytes = 80
    AnyBytes = 20
    Documents <- MCDocuments
CHECK_DEADLOCK FALSE
INVARIANTS TypeOK BytesInOrder UnsentBounded StreamedAsBuilt JsonArrives XmlArrives
PROPERTIES CallReturns ImplementsStream
