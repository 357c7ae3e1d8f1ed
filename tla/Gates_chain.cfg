\* A conversation of two turns in every deployment, with every failure.
SPECIFICATION Spec
CONSTANTS
    MaxTurns = 2
    Deployments <- MCDeployments
    Top = 4
    Calibrated <- MCCalibrated
    GreyLow = 1
    GreyHigh = 3
    Neighbours = 2
    Rows = 3
    Reference <- MCReference
    QNum = 1
    QDen = 4
INVARIANTS
    NothingPassesByFailure
    SkippedScopeWasEarned
