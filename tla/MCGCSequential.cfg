\* One thread that does everything a program may do with three objects of two fields,
\* two of them large, and that ends it with gc::Destroy.
SPECIFICATION Spec
CONSTANTS
    t1 = t1
    t2 = t2
    p1 = p1
    p2 = p2
    WriteMask = 4
    Threads = {t1}
    MaxObjects = 3
    Slots = {1, 2}
    Pages = {p1}
    LargeObjects = {2, 3}
    Edges <- OwnersFirst
    MaxRoots = 1
    MaxIds = 2
    Program = {"fieldPin", "fieldRoot", "fieldCopy", "overwrite", "orphan"}
    WeakCasMayFail = FALSE
INVARIANTS
    ReachableIsAlive
    BackReferencesAgree
    AssertionsHold
    UnreachableIsFlagged
    TeardownIsComplete
PROPERTIES
    CollectionIsComplete
\* A thread that waits for a lock it has taken itself (a pinned object that it pins
\* again or assigns to a field) stops for good.
CHECK_DEADLOCK FALSE
