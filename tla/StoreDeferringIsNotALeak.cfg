SPECIFICATION Spec2
CONSTANTS
    Users = {alice, bob}
    Clients = {c1, c2, c3}
    NoHandle = NoHandle
    Opens = 2
    Handles <- MCHandles
    Owner <- MCOwner
    Cap = 1
    MaxAbandoned = 0
SYMMETRY MCSymmetry
CHECK_DEADLOCK FALSE
INVARIANT DeferringIsNotALeak
