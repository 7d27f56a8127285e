CONSTANTS
    Txs = {t1}
    MaxAttempts = 1
    MaxSent = 1
    MaxCrashes = 0
    MaxFailures = 0
    None = None
SPECIFICATION Spec
INVARIANTS InFlightListed
CHECK_DEADLOCK FALSE
