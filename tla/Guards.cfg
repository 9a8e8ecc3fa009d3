SPECIFICATION Spec
CONSTANTS
    o1 = o1
    o2 = o2
    m1 = m1
    m2 = m2
    m3 = m3
    Op = {o1, o2}
    Message = {m1, m2, m3}
    OpOf <- MCOpOf
    Keyed = {o1}
    Signed = {o1, o2}
    Delivery = {d1, d2}
    Stamps = {1, 3}
    Expire = 2
    Window = 2
    Timeout = 1
    MaxTime = 5
    None = None
SYMMETRY MCSymmetry
INVARIANTS
    TypeOK
    OneHandler
    NoLateEffect
PROPERTIES
    RepeatsOnlyYoung
