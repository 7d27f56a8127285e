CONSTANTS
    Txs = {t1}
    MaxAttempts = 1
    MaxSent = 1
    MaxCrashes = 1
    MaxFailures = 1
    None = None
SPECIFICATION Spec
INVARIANTS RecordsTrue
PROPERTIES RecordsKept
CHECK_DEADLOCK FALSE
