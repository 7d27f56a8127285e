\* Three sets and two deletes of a cursor in any order; sessions over two blocks
\* with two log indexes, a block to a batch, on either store, with a failure and
\* a crash; two events, two reorganisations of up to three blocks.  All may stop:
\* the calls are made, or the scope is closed; everything is delivered; the stream
\* has ended.
CONSTANTS
    Loops = {l1, l2, l3}
    Deleters = {d1, d2}
    MaxSets = 3
    MaxDeletes = 2
    None = None
    NoSlot = NoSlot
    Drained = Drained
    Tombstone = Tombstone
    MaxBlock = 1
    MaxLog = 1
    From = 0
    BatchSize = 1
    MaxFailures = 1
    MaxCrashes = 1
    NoCursor = NoCursor
    Events = {e1, e2}
    MaxHeight = 2
    Confirmations = 1
    MaxReorgs = 2
    MaxFailedPolls = 1
    NoBlock = NoBlock
SPECIFICATION MCSpec
INVARIANTS StoreConsistent SyncSound EmissionSound
PROPERTIES NoStaleOverwrite ImplementsBuffer CursorAdvances EventuallyPersisted AllDelivered EventuallyEmitted
CHECK_DEADLOCK FALSE
