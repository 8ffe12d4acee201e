\* Two threads that allocate and collect, from the empty list on, until there are no
\* collector ids left.
SPECIFICATION Spec
CONSTANTS
    t1 = t1  t2 = t2  p1 = p1  p2 = p2  p3 = p3  end = end
    Threads = {t1, t2}
    Pages = {p1, p2, p3}
    End = end
    Room = 2
    Sizes = {1, 2}
    Calls = 2
    MaxIds = 4
INVARIANTS
    PagesAreExclusive
    NoLockIsLeft
PROPERTIES
    MadePagesStay
    CallsEnd
CHECK_DEADLOCK FALSE
