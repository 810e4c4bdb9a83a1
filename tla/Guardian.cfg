CONSTANTS
    Restarts = {r1, r2}
    Callers = {c1}
    Boot = boot
    RestartMaxRetries = 3
SPECIFICATION SpecGuardian
INVARIANTS GuardianTypeOK ModeAgrees
PROPERTIES HealsItself FallsBack
CHECK_DEADLOCK FALSE
