SPECIFICATION Spec
CONSTANTS
    r1 = r1
    r2 = r2
    t1 = t1
    q1 = q1
    q2 = q2
    NoRun = NoRun
    Runs = {r1, r2}
    Targets = {t1}
    Target <- SameTarget
    Fields = {r1}
    Overridden = {r2}
    Requests = {q1, q2}
    ConcurrentApplies = FALSE
    MaxCrashes = 1
    MaxMoves = 1
SYMMETRY Threads
INVARIANT OutcomeIsTruthful
INVARIANT OneDispatchPerAuthority
INVARIANT FailureTouchedNothing
INVARIANT LockCoversWindow
INVARIANT IdleLockIsBeforeBoundary
PROPERTY RecordedOutcomeStands
PROPERTY EndedStaysEnded
PROPERTY KeepsPromise
