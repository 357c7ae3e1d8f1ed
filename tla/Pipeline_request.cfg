\* One request, every outcome of its two attempts.
SPECIFICATION Spec
CONSTANTS
    MaxTurns = 2
    MaxTrace = 3
INVARIANTS
    TurnsAreNumbered
    ScreenAgreesWithResult
    CallsPointAtTheirSteps
