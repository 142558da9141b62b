SPECIFICATION Spec
INVARIANTS
    TypeOK
    OptionalsHaveValues
    DescriptionOfCommonData
    InputIsVerified
PROPERTIES
    KeepsContract
