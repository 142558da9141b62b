SPECIFICATION Spec
CONSTANTS
    Width = 4
    MinRows = 2
    MaxRow = 2
    NColumns = 3
    Kind <- SmallTable
    Constraints = {k}
    Zero = Zero
INVARIANTS
    TypeOK
    EndpointsMeetTheirCells
    SelectedRowsKeepNeighbours
    PaddingLeft
