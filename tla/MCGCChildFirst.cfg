\* What an object refers to has been allocated before it.
SPECIFICATION FairSpec
CONSTANTS
    t1 = t1
    t2 = t2
    p1 = p1
    p2 = p2
    WriteMask = 4
    Threads = {t1}
    MaxObjects = 2
    Slots = {1}
    Pages = {p1}
    LargeObjects = {}
    Edges <- OwnersLast
    MaxRoots = 1
    MaxIds = 2
    Program = {"orphan"}
    WeakCasMayFail = FALSE
PROPERTIES
    CollectionTerminates
\* A thread that waits for a lock it has taken itself (a pinned object that it pins
\* again or assigns to a field) stops for good.
CHECK_DEADLOCK FALSE
