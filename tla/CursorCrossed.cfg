\* Two deletes, the second while a loop still removes what the first one left.
SPECIFICATION Spec
CONSTANTS
    Loops = {l1, l2, l3}
    Deleters = {d1, d2}
    MaxSets = 3
    MaxDeletes = 2
    None = None
    NoSlot = NoSlot
    Drained = Drained
    Tombstone = Tombstone
INVARIANTS
    LastCallWins
CHECK_DEADLOCK FALSE
