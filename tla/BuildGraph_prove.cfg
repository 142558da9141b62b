SPECIFICATION Spec
CONSTANTS
    Provers <- ThreeProvers
    Spreads <- ThreeSpreads
    Script <- SplitScript
    MaxFaults = 1
INVARIANTS
    TypeOK
    SettledInputs
    FinishedMeansProved
PROPERTIES
    BuildEnds
