\* gc::Destroy with a large object that refers to one on a page: the collector waits for
\* the lock of an object it has destroyed.
SPECIFICATION Spec
CONSTANTS
    t1 = t1
    t2 = t2
    p1 = p1
    p2 = p2
    WriteMask = 4
    Threads = {t1}
    MaxObjects = 2
    Slots = {1}
    Pages = {p1}
    LargeObjects = {1}
    Edges <- OwnersFirst
    MaxRoots = 1
    MaxIds = 1
    Program = {}
    WeakCasMayFail = FALSE
INVARIANTS
    TeardownIsComplete
CHECK_DEADLOCK FALSE
