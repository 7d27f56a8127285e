\* The same instance; a loop may die in its write.
SPECIFICATION Spec
CONSTANTS
    Loops = {l1, l2, l3}
    Deleters = {d1, d2}
    MaxSets = 3
    MaxDeletes = 2
    None = None
    NoSlot = NoSlot
    Drained = Drained
    Tombstone = Tombstone
INVARIANTS
    NeverWedged
CHECK_DEADLOCK FALSE
