SPECIFICATION Spec
CONSTANTS
    Interfaces   = {"i1", "i2"}
    Connections  = {"c1", "c2"}
    Usable       = {"c1", "c2"}
    Target       = "i1"
    ConfiguredBy <- Configured
    TTL          = 1
    Scenes       <- SceneSet
    Stands       <- StandSet
    Readings     <- ReadingSet
    Hosts        <- HostSet
    Blind        <- BlindSet
    LookupTime   = 1
    RequestTime  = 1
    MaxTime      = 4
    MaxMoves     = 1
PROPERTY
    OrdinaryApplySparesThePath
    GuardedApplyIsOnThePath
    ServiceSparesTheConsole
CHECK_DEADLOCK FALSE
