SPECIFICATION Spec
CONSTANTS
    Refresh = {r1, r2, r3}
    Check = {c1}
    Template = {t1}
    Named = {1, 2}
    Key = {a, b}
    Stable = {a}
    None = None
SYMMETRY Symmetry
INVARIANTS IndInv OneRowPerField RejectionExplained NoCircularWait
PROPERTIES AllViewsAtOnce RefreshReplaces
