\* Two keys in a cache of one, a reader and a watcher; three callers of a breaker
\* with thresholds of two; three reads in batches of two; a gas limit raised by a
\* quarter; two bumps of fees that begin at 0, 1 or 7.  The parts may stop: every
\* call is answered.
CONSTANTS
    Keys = {k1, k2}
    Readers = {r1, w}
    Watchers = {w}
    MaxSize = 1
    MaxBlock = 2
    None = None
    GuardCallers = {c1, c2, c3}
    GuardKeys = {g1}
    FailureThreshold = 2
    SuccessThreshold = 2
    ResetTimeout = 2
    Requests = {q1, q2, q3}
    BatchKeys = {b1, b2, b3}
    AccountKeys = {b3}
    MaxBatch = 2
    NoOutcome = NoOutcome
    Thrown <- MCThrown
    Estimates = {3}
    Multipliers = {12500}
    ExplicitGas = {5}
    NoGas = NoGas
    Amounts = {0, 1, 7}
    Overrides <- MCOverrides
    Policies <- MCPolicies
    MaxBumps = 2
    Unset = Unset
SPECIFICATION MCSpec
INVARIANTS CacheSound FlightsLed GuardsSound BatchSound PreflightSound FeesSound
PROPERTIES QueryEnds BreakerRecovers
CHECK_DEADLOCK FALSE
