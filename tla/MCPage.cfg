\* Pins, drops and collections in between the requests, until there is no id left.
SPECIFICATION FairSpec
CONSTANTS
    PageSize = 10
    AddressSpace = 32
    MaxIds = 3
    Requests <- Mixed
INVARIANTS
    RightListMatches
    ContentsIntact
    OwnedAreRegistered
    FieldsFindOwner
    AssertionsHold
PROPERTIES
    PinnedStay
    AllocationAnswered
CHECK_DEADLOCK FALSE
