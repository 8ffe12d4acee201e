\* Two threads drop their root handles to one object.
SPECIFICATION Spec
CONSTANTS
    t1 = t1
    t2 = t2
    p1 = p1
    p2 = p2
    WriteMask = 4
    Threads = {t1, t2}
    MaxObjects = 1
    Slots = {1}
    Pages = {p1}
    LargeObjects = {}
    Edges <- Nothing
    MaxRoots = 1
    MaxIds = 2
    Program = {"move"}
    WeakCasMayFail = FALSE
INVARIANTS
    UnreachableIsFlagged
\* A thread that waits for a lock it has taken itself (a pinned object that it pins
\* again or assigns to a field) stops for good.
CHECK_DEADLOCK FALSE
