SPECIFICATION FairSpec
CONSTANTS
    r1 = r1
    r2 = r2
    t1 = t1
    q1 = q1
    q2 = q2
    NoRun = NoRun
    Runs = {r1}
    Targets = {t1}
    Target <- OneTarget
    Fields = {r1}
    Overridden = {r1}
    Requests = {q1, q2}
    ConcurrentApplies = FALSE
    MaxCrashes = 2
    MaxMoves = 1
PROPERTY CrossedEnds
