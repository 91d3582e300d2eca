SPECIFICATION FairSpec
CONSTANTS
    Request = {r1, r2, r3}
    Version = {v1, v2}
    Variant <- MCVariant
    VariantOf <- MCVariantOf
    Apple = {}
    File = {icon}
    Icon = icon
    RowId = {}
    Ops <- PublishOps
    None = None
INVARIANTS OnePublished NumbersSequential OnlyPublishesDeadlock
PROPERTIES ImplementsRegistry RequestsEnd
\* The pool of version ids is finite and no client has to call.
CHECK_DEADLOCK FALSE
