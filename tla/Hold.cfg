SPECIFICATION Spec
CONSTANTS
    q1 = q1
    q2 = q2
    Requests = {q1, q2}
    MaxAttempts = 2
    MaxGrants = 2
    MaxCrashes = 1
    MaxMoves = 1
INVARIANTS HoldIsReleasedOnce AttemptsAreTruthful GrantPerDispatch InFlightIsServed
PROPERTY ReleaseIsFinal
SYMMETRY Threads
CHECK_DEADLOCK FALSE
