\* Handles, pins and fields of every class around two objects.
SPECIFICATION Spec
VIEW View
CONSTANTS
    Objects = {1, 2}
    Vars <- Names
    Kind <- Classes
    Owner <- Places
    Fits <- Types
    Program = {}
INVARIANTS
    CountsAgree
    GarbageIsUnreferenced
    LocksAgree
PROPERTIES
    ImplementsValues
