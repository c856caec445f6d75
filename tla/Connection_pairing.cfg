CONSTANTS
    Scenarios <- PassingScenarios
    MaxTokens = 2
    MaxEvents = 5
    MaxRevision = 2
    MaxAttempts = 2
SPECIFICATION FairSpec
INVARIANTS
    ConnectedMeansOpen
    StoredIsLive
    ChatFollowsGateway
PROPERTIES
    ReconnectsWhileValid
CHECK_DEADLOCK FALSE
