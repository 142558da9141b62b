SPECIFICATION Spec
CONSTANTS
    Releases = {r1, r2, r3, r4, r5}
    Published = {r1, r2, r3, r4}
    Hosted = {r1, r2, r3, r5}
    Targeted = {r1, r2, r4, r5}
    MaxRuns = 3
INVARIANTS
    TypeOK
    CompletedIsWhole
    CleanRunsComplete
    UnusableReleasesSpare
    OneReleaseInToolchain
