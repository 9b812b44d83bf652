SPECIFICATION Spec
CONSTANTS
    r1 = r1
    r2 = r2
    o1 = o1
    o2 = o2
    low = low
    high = high
    Refreshers = {r1, r2}
    Operators = {o1, o2}
    Values = {low, high}
    Sightings <- Links
    Answers <- Rounds
    TTL = 0
    MaxTime = 2
    MaxRefreshes = 3
    MaxRequests = 3
INVARIANTS FindingsMirrorTheHost ReleasedIsQuiet ConflictsHaveAnOwner
PROPERTIES RevisionsAreSerial AdoptionStands ConflictsCloseOnAnswer EndingsAreTrue
SYMMETRY Actors
CHECK_DEADLOCK FALSE
