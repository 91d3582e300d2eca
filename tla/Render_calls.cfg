SPECIFICATION Spec
CONSTANTS
    Request = {r1, r2, r3}
    Pass = {p1}
    Variant = {x}
    Ops <- ObjectOps
    Pool = 4
    Faults <- LostAnswers
    Contents <- AnyState
    MaxNumber = 1
    None = None
SYMMETRY Symmetry
INVARIANTS AuditComplete SuccessMeansEffect EffectAccounted
PROPERTIES ImplementsLifecycle
