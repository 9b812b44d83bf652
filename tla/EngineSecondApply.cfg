SPECIFICATION Spec
CONSTANTS
    r1 = r1
    r2 = r2
    t1 = t1
    q1 = q1
    q2 = q2
    NoRun = NoRun
    Runs = {r1, r2}
    Targets = {t1}
    Target <- SameTarget
    Fields = {r1, r2}
    Overridden = {}
    Requests = {q1, q2}
    ConcurrentApplies = TRUE
    MaxCrashes = 0
    MaxMoves = 0
INVARIANT ExclusiveMutation
