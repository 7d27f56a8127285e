\* Three writers, nonces 0..2: receipts handled out of order, then a third reservation.
SPECIFICATION Spec
CONSTANTS
    Writers = {w1, w2, w3}
    MaxNonce = 2
    MaxRetries = 1
    None = None
SYMMETRY Symmetry
INVARIANTS
    GapsAboveFloor
