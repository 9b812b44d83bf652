SPECIFICATION Spec
CONSTANTS
    Verbs = {"start", "stop", "restart"}
    Buffer = 1
    MaxJobs = 2
    MaxManagers = 2
    MaxInvocation = 3
INVARIANT WrittenWasDone
INVARIANT NotWrittenErrsOnlyUnanswered
INVARIANT VerifiedRestartIsOurs
CHECK_DEADLOCK FALSE
