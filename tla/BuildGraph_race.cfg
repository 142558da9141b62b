SPECIFICATION Spec
CONSTANTS
    Provers <- OneProver
    Spreads <- OneSpread
    Script <- PlainScript
    MaxFaults = 0
INVARIANTS
    SoundBuildsPass
