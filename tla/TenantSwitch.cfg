SPECIFICATION Spec
CONSTANTS
    Client = {c1, c2, c3}
    Tenant = {own, t1, t2}
    Own = own
    None = None
    Faults = TRUE
SYMMETRY Alike
INVARIANTS
    TypeOK
    OriginalKept
    UserInfoAtHome
