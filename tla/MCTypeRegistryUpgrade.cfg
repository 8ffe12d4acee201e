\* Two threads register types at the same time.
SPECIFICATION FairSpec
CONSTANTS
    WriteMask = 2
    Threads = {t1, t2}
    Types = {int}
    None = None
    MaxIndex = 2
    Readers = {}
PROPERTIES
    RegistrationReturns
\* Two threads that upgrade wait for each other.
CHECK_DEADLOCK FALSE
