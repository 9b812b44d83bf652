SPECIFICATION Spec
CONSTANTS
    c1 = c1
    c2 = c2
    c3 = c3
    a1 = a1
    a2 = a2
    before = before
    desired = desired
    other = other
    Attempts = {a1, a2}
    Values = {before, desired, other}
    Start = before
    Calls = {c1, c2, c3}
    Attempt <- Repeated
    Expected <- RepeatedFrom
    Desired <- RepeatedTo
    Memory = 1
    MaxMoves = 1
SYMMETRY Alike
INVARIANTS AnswersAreTruthful DispatchedAgainOnlyIfForgotten
CHECK_DEADLOCK FALSE
