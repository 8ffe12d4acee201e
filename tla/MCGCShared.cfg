\* Two threads hand two objects, one of them large, to each other while either or both
\* collect the lists the objects are on.
SPECIFICATION Spec
CONSTANTS
    t1 = t1
    t2 = t2
    p1 = p1
    p2 = p2
    WriteMask = 4
    Threads = {t1, t2}
    MaxObjects = 2
    Slots = {1}
    Pages = {p1, p2}
    LargeObjects = {2}
    Edges <- OwnersFirst
    MaxRoots = 1
    MaxIds = 2
    Program = {"move", "fieldPin", "fieldCopy", "fieldRoot", "collectPinned"}
    WeakCasMayFail = TRUE
SYMMETRY Alike
INVARIANTS
    ReachableIsAlive
    RootCountsAgree
    LocksAgree
    PinsAreExclusive
    ListsAreComplete
\* A thread that waits for a lock it has taken itself (a pinned object that it pins
\* again or assigns to a field) stops for good.
CHECK_DEADLOCK FALSE
