CONSTANTS
    Agents = {a1}
    SessionKeys = {s1, s2}
    Elements = {e1}
    Properties = {}
    MaxChips = 1
    MaxBatches = 8
    MaxSelections = 2
    MaxPreparations = 4
    MaxChanges = 0
    MaxRevision = 12
    Situations <- FlowSituations
    MaxSends = 2
    MaxOtherTurns = 1
SPECIFICATION FlowSpec
INVARIANTS
    OrderlyDelivery
    OrderlyContextStays
    
    OutcomeAgreesWithHost
    InjectionsFollowAdmission
CHECK_DEADLOCK FALSE
