\* Three threads register three types; one of them uses entries.
SPECIFICATION Spec
CONSTANTS
    WriteMask = 2
    Threads = {t1, t2, t3}
    Types = {int, foo, bar}
    None = None
    MaxIndex = 2
    Readers = {t3}
SYMMETRY Symmetry
INVARIANTS
    TypesAreDistinct
    IndexNamesType
    NobodyLooksOn
    OnlyUpgradesCollide
\* Two threads that upgrade wait for each other.
CHECK_DEADLOCK FALSE
