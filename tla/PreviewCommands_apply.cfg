SPECIFICATION FairSpec
CONSTANTS
    s1 = s1
    s2 = s2
    e1 = e1
    e2 = e2
    Scenarios <- PassingScenarios
    Sessions = {s1, s2}
    Connections = {c1, c2}
    RequestIds = {q1, q2}
    Selections = {e1, e2}
    HomeOf <- MCHomeOf
    None = none
    DedupMax = 2
    MaxSockets = 3
    MaxCalls = 3
INVARIANTS
    AnswersOwnCommand
    LatestIsRecorded
PROPERTIES
    OwnersDropWithLastSocket
    CallsAreAnswered
CHECK_DEADLOCK FALSE
