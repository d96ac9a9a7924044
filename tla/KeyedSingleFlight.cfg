SPECIFICATION FairSpec
CONSTANTS
    Key = {k1, k2}
    Caller = {c1, c2, c3}
    Job = {j1, j2, j3}
    None = None
INVARIANTS
    TypeOK
    OneRunPerKey
    NoCallerCancelled
PROPERTY
    CallersReturn
CHECK_DEADLOCK FALSE
