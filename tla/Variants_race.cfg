SPECIFICATION FairSpec
CONSTANTS
    Request = {r1, r2}
    Variant = {x, y, z}
    None = None
INVARIANTS OneDefault OnlySettersDeadlock
PROPERTIES LossExplained SetTakesEffect RequestsEnd
