CONSTANTS
    Sizes <- MCSizes
    MaxSteps = 2
SPECIFICATION Spec
INVARIANTS TypeOK VerdictsTrue ReportedOnceInPlace FailuresAreReported
PROPERTY EveryTestRuns
