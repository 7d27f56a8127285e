\* Three events of each kind; two requests and two clients; three attempts of the
\* Safe's wait; a batch of two; an allowance of two.  The parts may stop: every
\* request ends.
CONSTANTS
    MaxEvents = 3
    Reqs = {q1, q2}
    Ttl = 1
    Swr = 1
    LimitKeys = {i1, i2}
    Limit = 2
    Window = 2
    MaxWall = 3
    SafeAttempts = 3
    Items = 2
    SendRetries = 1
    Grace = 2
    StatusLag = 1
    Required = 2
    Approve = 2
    MaxAccountNonce = 2
    Errs = {1, 2, 3}
    MaxDepth = 1
    MaxWrites = 2
    NoErr = 0
SPECIFICATION MCSpec
INVARIANTS WorkflowsSound ServerSound SafeOutcomeTrue SolOutcomeTrue SubmissionsSound DeclinedIsFinal
PROPERTIES CacheRequestEnds SafeResolves SolConfirmEnds ApprovalAsksInTurn
CHECK_DEADLOCK FALSE
