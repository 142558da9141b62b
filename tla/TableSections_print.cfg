SPECIFICATION Spec
CONSTANTS
    Width = 4
    MinRows = 2
    Counts = {0, 2}
    Lengths = {3, 8}
INVARIANTS
    TypeOK
    SectionsAreFound
    OnlyLongColumnsAbort
    NothingDropped
