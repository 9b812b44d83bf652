SPECIFICATION Spec
CONSTANTS
    Inits = {"i1", "i2"}
    Requests = {"r1", "r2"}
    Lifetime = 1
    MaxNow = 2
    MaxSessions = 2
    MaxResets = 1
INVARIANT AnnouncedSecretStands
PROPERTY RefusedStaysRefused
CHECK_DEADLOCK FALSE
