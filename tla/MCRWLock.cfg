\* Every interleaving of three threads, four accesses, overflow at two readers.
SPECIFICATION FairSpec
CONSTANTS
    t1 = t1
    t2 = t2
    t3 = t3
    a1 = a1
    a2 = a2
    a3 = a3
    a4 = a4
    WriteMask = 2
    Threads = {t1, t2, t3}
    Accesses = {a1, a2, a3, a4}
    Owner <- OwnerOfFour
    NoAccess = NoAccess
INVARIANTS
    TypeOK
    Exclusion
    WordCountsAccesses
    ThreadLocalSetIsExact
PROPERTIES
    ImplementsPromise
    ObstructionFree
\* A thread that waits for write access over its own access waits for itself.
CHECK_DEADLOCK FALSE
