SPECIFICATION Spec
CONSTANTS
    o1 = o1
    o2 = o2
    gc = gc
    a1 = a1
    h1 = h1
    a2 = a2
    g = g
    NoLease = NoLease
    Nobody = Nobody
    Owner <- MCOwner
    Caller <- MCCaller
    OwnerOf <- MCOwnerOf
    Calls <- MCCalls
PROPERTY LiveOwnerKeepsLease
PROPERTY UsesLock
PROPERTY ImplementsCell
CHECK_DEADLOCK FALSE
