SPECIFICATION Spec
CONSTANTS
    Scenarios <- PassingScenarios
    Sessions = {s1, s2}
    None = none
    Views = {v1, v2}
    MaxReports = 2
    Elements = {e1, e2}
    Properties = {p1, p2}
    Hashes = {h1, h2}
    Sourced = {e1}
    TTL = 1
    MaxGlobal = 2
    MaxPerSession = 1
    MaxRequests = 3
    MaxTime = 1
    MaxCleanups = 1
INVARIANTS
    ActiveFollowsViews
    ChipsStayWhereAimed
    AcknowledgedChangesKept
    ScreenshotsEndWithSession
PROPERTIES
    UploadsCountTheLiving
SYMMETRY Symmetry
CHECK_DEADLOCK FALSE
