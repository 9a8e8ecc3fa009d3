SPECIFICATION FairSpec
CONSTANTS
    m1 = m1
    m2 = m2
    r1 = r1
    r2 = r2
    r3 = r3
    k1 = k1
    k2 = k2
    Member = {m1, m2}
    Record = {r1, r3}
    Of <- MCOf
    Card = {k1, k2}
    CardOf <- MCCardOf
    Reviewer = {v1, v2}
    Form = {f1}
    Edited = {m1}
    Typed <- MCTyped
    Deletable = {m1}
    None = None
PROPERTIES
    AllEnd
