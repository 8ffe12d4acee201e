\* Three threads set and clear two bits.
SPECIFICATION Spec
CONSTANTS
    Threads = {t1, t2, t3}
    Bits = {garbage, uninitialized}
    NoBit = NoBit
    MaxBalance = 3
SYMMETRY Symmetry
INVARIANTS
    ReportsAddUp
