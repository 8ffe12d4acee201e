\* One type more than type_index can number.
SPECIFICATION Spec
CONSTANTS
    WriteMask = 2
    Threads = {t1}
    Types = {int, foo, bar}
    None = None
    MaxIndex = 1
    Readers = {}
INVARIANTS
    IndexNamesType
\* Two threads that upgrade wait for each other.
CHECK_DEADLOCK FALSE
