\* A large object is asked for while another thread, which has just flagged one as
\* garbage, has not released it yet: CollectLargeObjectsFast takes the flag for a proof
\* that nobody has a lock on it.
SPECIFICATION Spec
CONSTANTS
    t1 = t1
    t2 = t2
    p1 = p1
    p2 = p2
    WriteMask = 4
    Threads = {t1, t2}
    MaxObjects = 2
    Slots = {1}
    Pages = {p1}
    LargeObjects = {1, 2}
    Edges <- Nothing
    MaxRoots = 1
    MaxIds = 1
    Program = {}
    WeakCasMayFail = FALSE
INVARIANTS
    AssertionsHold
CHECK_DEADLOCK FALSE
