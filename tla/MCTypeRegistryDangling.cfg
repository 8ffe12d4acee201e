\* A type is registered while another thread uses one.
SPECIFICATION Spec
CONSTANTS
    WriteMask = 2
    Threads = {t1, t2}
    Types = {int, foo}
    None = None
    MaxIndex = 2
    Readers = {t2}
INVARIANTS
    PointersAreValid
\* Two threads that upgrade wait for each other.
CHECK_DEADLOCK FALSE
