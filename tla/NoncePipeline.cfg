\* Three writers and nonces 0..2: two can collide while a third recovers.
SPECIFICATION Spec
CONSTANTS
    Writers = {w1, w2, w3}
    MaxNonce = 2
    MaxRetries = 1
    None = None
SYMMETRY Symmetry
INVARIANTS
    NoSharedNonce
    LedgerAccounted
PROPERTIES
    RetryGoesUp
    ImplementsLease
