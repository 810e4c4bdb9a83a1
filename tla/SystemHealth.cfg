CONSTANTS
    Restarts = {r1}
    Callers = {}
    Boot = boot
    RestartMaxRetries = 3
    LowResource = FALSE
    HasStatus = TRUE
    HasIndexDB = TRUE
    StatusForms = {"plain", "text"}
    IndexStates = {"embedded", "absent"}
SPECIFICATION Spec
INVARIANT TypeOK
PROPERTIES OutageReported RecoveryReported
CHECK_DEADLOCK FALSE
