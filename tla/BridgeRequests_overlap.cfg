SPECIFICATION Spec
CONSTANTS
    Scenarios <- OverlappingEdits
    Sessions = {s1, s2}
    None = none
    Views = {v1, v2}
    MaxReports = 1
    Elements = {e1, e2}
    Properties = {p1, p2}
    Hashes = {h1, h2}
    Sourced = {e1}
    TTL = 1
    MaxGlobal = 2
    MaxPerSession = 1
    MaxRequests = 4
    MaxTime = 1
    MaxCleanups = 1
INVARIANTS
    OverlappingChangesKept
CHECK_DEADLOCK FALSE
