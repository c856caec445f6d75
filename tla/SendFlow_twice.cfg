CONSTANTS
    Agents = {a1}
    SessionKeys = {s1}
    Elements = {e1}
    Properties = {}
    MaxChips = 1
    MaxBatches = 8
    MaxSelections = 2
    MaxPreparations = 4
    MaxChanges = 0
    MaxRevision = 12
    Situations <- LiveSituations
    MaxSends = 2
    MaxOtherTurns = 0
SPECIFICATION FlowSpec
INVARIANTS
    ContextDeliveredOnce
CHECK_DEADLOCK FALSE
