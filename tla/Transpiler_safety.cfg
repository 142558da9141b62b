SPECIFICATION Spec
CONSTANT TornInputs = TRUE
INVARIANTS TypeOK ProofIsVerified
PROPERTY ImplementsContract
