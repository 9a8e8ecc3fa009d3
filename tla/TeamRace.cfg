SPECIFICATION Spec
CONSTANTS
    m1 = m1
    m2 = m2
    m3 = m3
    NoMember = NoMember
    Member <- Three
    Registered <- Apart
    Admin = {a1, a2}
    Editor = {}
    Deletable = {}
    Agent = {}
INVARIANTS
    Acyclic
