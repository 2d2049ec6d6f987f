SPECIFICATION BrokerSpec
CONSTANTS
    a1 = a1
    a2 = a2
    k1 = k1
    c1 = c1
    c2 = c2
    r1 = r1
    r2 = r2
    None = None
    MaxGate = 2
    Answer <- MCAnswer
    Key <- MCKey
    Call <- MCCall
    Recoverer <- MCRecoverer
    MaxCrash = 2
SYMMETRY Interchangeable
CHECK_DEADLOCK FALSE
INVARIANT AdvanceOnce
