SPECIFICATION Spec
CONSTANTS
    MaxProvers = 3
    DiskFills = TRUE
INVARIANTS
    TypeOK
    SuccessMeansDone
    ReturnAfterPrinters
    ChecksRunAlone
PROPERTIES
    ImplementsContract
    Terminates
    StepsRunOut
