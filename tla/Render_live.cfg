SPECIFICATION FairSpec
CONSTANTS
    Request = {r1, r2}
    Pass = {p1}
    Variant = {x}
    Ops <- AllOps
    Pool = 2
    Faults <- AllFaults
    Contents <- Placeholder
    MaxNumber = 2
    None = None
INVARIANTS IndInv PinnedAuditNamesRendered
PROPERTIES CallsEnd
