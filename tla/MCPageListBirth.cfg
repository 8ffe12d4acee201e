\* A thread walks onto a page that another thread is making and fills it.
SPECIFICATION Spec
CONSTANTS
    t1 = t1  t2 = t2  p1 = p1  p2 = p2  p3 = p3  end = end
    Threads = {t1, t2}
    Pages = {p1, p2, p3}
    End = end
    Room = 2
    Sizes = {1, 2}
    Calls = 2
    MaxIds = 8
INVARIANTS
    NewPageServes
CHECK_DEADLOCK FALSE
