SPECIFICATION FairSpec
CONSTANTS
    a1 = a1
    a2 = a2
    k1 = k1
    c1 = c1
    c2 = c2
    None = None
    MaxGate = 2
    Answer <- MCAnswer
    Key <- MCKey
    Call <- MCCall
    Recoverer = {}
    MaxCrash = 1
INVARIANTS
    OwnAnswer
    AnswerReachesCaller
PROPERTY AbortReleases
CHECK_DEADLOCK FALSE
