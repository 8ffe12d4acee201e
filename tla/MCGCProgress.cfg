\* Collections end when owners are allocated before what they own and nothing is pinned.
SPECIFICATION FairSpec
CONSTANTS
    t1 = t1
    t2 = t2
    p1 = p1
    p2 = p2
    WriteMask = 4
    Threads = {t1}
    MaxObjects = 3
    Slots = {1}
    Pages = {p1}
    LargeObjects = {}
    Edges <- OwnersFirst
    MaxRoots = 1
    MaxIds = 2
    Program = {"fieldPin", "fieldRoot", "fieldCopy", "overwrite", "orphan"}
    WeakCasMayFail = FALSE
PROPERTIES
    CollectionTerminates
\* A thread that waits for a lock it has taken itself (a pinned object that it pins
\* again or assigns to a field) stops for good.
CHECK_DEADLOCK FALSE
