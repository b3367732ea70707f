SPECIFICATION FairSpec
CONSTANTS
    N = 3
    Procs = 2
    Header <- SomeHeaders
    MaxExtra = 0
    NoHeader = NoHeader
    Unset = Unset
INVARIANTS VerdictsInOrder RoomToReport NothingInFlight
PROPERTY Finishes
CHECK_DEADLOCK FALSE
