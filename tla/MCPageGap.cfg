\* A request that fits into the padding between two allocations.
SPECIFICATION Spec
CONSTANTS
    PageSize = 16
    AddressSpace = 64
    MaxIds = 2
    Requests <- WastingNoSpace
INVARIANTS
    EntriesMatchHandles
