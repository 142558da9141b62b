SPECIFICATION Spec
CONSTANTS
    Half = 4
    Absent = Absent
INVARIANTS
    TypeOK
    TargetHonoured
    RunHasItsFiles
