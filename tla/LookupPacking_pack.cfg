SPECIFICATION PackingSpec
CONSTANTS
    MaxColumns = 5
    LeastLookup = 2
INVARIANTS
    PackingTypeOK
    TablesTakeFreeSelectors
    ComponentSelectorsPass
