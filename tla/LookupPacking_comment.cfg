SPECIFICATION PackingSpec
CONSTANTS
    MaxColumns = 3
    LeastLookup = 1
INVARIANT LookupSelectorsUnused
