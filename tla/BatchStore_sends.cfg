CONSTANTS
    Agents = {a1, a2}
    SessionKeys = {s1}
    Elements = {e1, e2}
    Properties = {p1}
    MaxChips = 1
    MaxBatches = 3
    MaxSelections = 2
    MaxPreparations = 2
    MaxChanges = 1
    MaxRevision = 5
SPECIFICATION Spec
INVARIANTS
    TypeOK
    PinnedTextNamesItsBatch
    ArchiveWasHandedOver
    PendingIffAwaited
PROPERTIES
    OutcomesAreFinal
    ArchiveKeepsItsElements
    PendingSendEndsProperly
    KeepsSendContract
SYMMETRY Symmetry
