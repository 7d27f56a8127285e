\* Two users who replace a transaction, each hash once; two wallets with three
\* commits; three effects of a hook; one Safe at most among two addresses on two
\* chains; a provider that mounts three times.  All may stop.
CONSTANTS
    Users = {u1, u2}
    MaxAttempts = 1
    MaxRetries = 1
    MaxHashes = 4
    MaxReorgs = 1
    Automatic = Automatic
    None = None
    Wallets = {w1, w2}
    MaxAccounts = 1
    MaxSets = 2
    MaxRuns = 2
    HookKeys = {h1, h2}
    Addresses = {a1, a2}
    Chains = {ch1, ch2}
    MaxEffects = 3
    MaxCommits = 2
    NoKey = NoKey
    NoAddress = NoAddress
    NoChain = NoChain
    Layers = {la, lb}
    MaxMounts = 3
    NoLayer = NoLayer
SPECIFICATION MCSpec
INVARIANTS ShownSound WalletShownIsCurrent HooksSound RuntimesSound
PROPERTIES SettledStays EventuallySettled RuntimesReleased
CHECK_DEADLOCK FALSE
