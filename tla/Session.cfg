SPECIFICATION Spec
CONSTANTS
    k1 = k1
    Token = {t1, t2}
    Key <- OneKey
    KeyOf <- OneDevice
    Client = {c1, c2}
    None = None
    ActiveTimeout = 1
    Ttl = 3
    MaxTime = 3
    Faults = TRUE
INVARIANTS
    TypeOK
    EndedStaysOut
PROPERTIES
    IdleSessionsEnd
CHECK_DEADLOCK FALSE
SYMMETRY Alike
