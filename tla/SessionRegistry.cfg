SPECIFICATION FairSpec
CONSTANTS
    Primaries = {p1, p2}
    Members = {m1, m2}
    Request = {r1, r2}
    None = None
INVARIANTS
    TypeOK
    NoServiceLeaked
    PrimaryResolves
    PromotionHolds
PROPERTIES
    StartsAreAnswered
CHECK_DEADLOCK FALSE
