SPECIFICATION Spec2
CONSTANTS
    Users = {alice, bob, carol}
    Clients = {c1, c2, c3}
    NoHandle = NoHandle
    Opens = 2
    Handles <- MCHandles
    Owner <- MCOwner
    Cap = 2
    MaxAbandoned = 1
SYMMETRY MCSymmetry
\* the supply of handle identities is finite
CHECK_DEADLOCK FALSE
INVARIANTS
    BorrowedIsOpen
    BooksAreExact
    EscapesOnlyByReopening
    IndexOutlivesStrangers
PROPERTIES
    LeaseContract
