\* One estimate, with and without gas of the caller's.
CONSTANTS
    Thrown <- MCThrown
    Estimates = {3}
    Multipliers = {12500}
    ExplicitGas = {5}
    NoGas = NoGas
SPECIFICATION MCPreflightSpec
INVARIANTS RevertIsNoGasShortage
CHECK_DEADLOCK FALSE
