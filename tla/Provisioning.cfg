SPECIFICATION Spec
CONSTANTS
    Call = {c1, c2}
    Tenant = {t0, t1}
    Role = {r0, r1}
    Seed = r0
    Menu = {a}
    Lists = {{}, {a}}
    Blank = blank
    Name = {n1}
    None = None
    MaxEdits = 1
SYMMETRY MCSymmetry
INVARIANTS
    TypeOK
    AdministratorEquipped
    AddedIsWhole
    SyncsAgree
CHECK_DEADLOCK FALSE
