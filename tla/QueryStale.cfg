CONSTANTS
    Keys = {k1}
    Readers = {r1, w}
    Watchers = {w}
    MaxSize = 1
    MaxBlock = 1
    None = None
SPECIFICATION Spec
INVARIANTS WatchConverges

