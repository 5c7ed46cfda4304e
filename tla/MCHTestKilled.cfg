CONSTANTS
    Sizes <- MCSizes
    MaxSteps = 2
SPECIFICATION Spec
INVARIANT KilledTestsFail
