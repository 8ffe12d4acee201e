SPECIFICATION Spec
CONSTANTS
    Capacity = 3
    MaxNodes = 2
    Misuses = 1
INVARIANT RemovedIsDestroyed
