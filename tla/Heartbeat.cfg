SPECIFICATION Spec
CONSTANTS
    MaxRuns = 2
    MaxFailures = 2
    StaleLimit = 2
    NoQueue = NoQueue
    Beats = {1, 2}
    Items = {1, 2}
    Mixes <- MCMixes
    MaxClaims = 3
INVARIANTS TypeOK WithinMaxRuns OneTurnPerTarget PendingDeliveryHasTurn ParkedForAReason ItemWokenOnce ReceiptOnce
PROPERTIES TriggerOnce NoRevivalByRun HandoffSettles
CHECK_DEADLOCK FALSE
