SPECIFICATION Spec
CONSTANTS
    Request = {r1, r2}
    Version = {v1, v2}
    Variant <- MCVariant
    VariantOf <- MCVariantOf
    Apple = {"x"}
    File = {icon}
    Icon = icon
    RowId = {i1, i2, i3}
    Ops <- AllOps
    None = None
SYMMETRY Symmetry
INVARIANTS AssetsStored OneRowPerFile
PROPERTIES SettledFrozen
\* The pool of version ids is finite and no client has to call.
CHECK_DEADLOCK FALSE
