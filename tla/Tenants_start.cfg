SPECIFICATION FairSpec
CONSTANTS
    Replica = {r1, r2, r3}
    Call = {q1}
    t1 = t1
    t2 = t2
    old = old
    new = new
    Tenant = {t1, t2}
    Client = {c1}
    Name = {old, new}
    Declarations <- Settings
    Person = {p1, p2}
    Allowed = {p1}
    None = None
INVARIANTS IndInv NoDoubleInsert AccessExplained
PROPERTIES ImplementsTable StartsEnd
