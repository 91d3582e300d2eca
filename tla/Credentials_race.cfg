SPECIFICATION Spec
CONSTANTS
    Request = {r1, r2}
    Set = {s1, s2}
    k1 = k1
    k2 = k2
    c1 = c1
    c2 = c2
    c3 = c3
    c4 = c4
    Key <- Keys
    Cert <- Certs
    KeyOf <- Keyed
    InfoOf <- Described
    None = None
SYMMETRY Symmetry
INVARIANTS ActiveCanSign IndInv
PROPERTIES StatusExplained EffectUnlessRaced
