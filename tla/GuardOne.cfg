SPECIFICATION FairSpec
CONSTANTS
    r1 = r1
    k1 = k1
    Runs = {r1}
    Keepers = {k1}
    Boot = boot
    NoRun = NoRun
    MaxCrashes = 1
    MaxAgentRestarts = 1
    MaxMoves = 1
INVARIANTS KeptStaysKept RecordsAreTruthful WriteNeedsConfirmedGuard
PROPERTIES OnlyProofReleases CrossedSettles
CHECK_DEADLOCK FALSE
