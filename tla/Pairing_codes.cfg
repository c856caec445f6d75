SPECIFICATION Spec
CONSTANTS
    Instances = {i1, i2}
    TTL = 2
    Window = 2
    StartLimit = 2
    FailLimit = 1
    MaxPending = 2
    MaxTime = 6
    MaxCodes = 5
    MaxFailures = 3
INVARIANTS
    CredentialsSound
    CodesStayUsable
    AttemptsLimited
CHECK_DEADLOCK FALSE
