SPECIFICATION Spec
CONSTANTS
    Request = {r1}
    Pass = {p1}
    Variant = {x}
    Ops <- RenderOps
    Pool = 2
    Faults = {}
    Contents <- Stateless
    MaxNumber = 2
    None = None
SYMMETRY Symmetry
INVARIANTS AuditNamesRendered
