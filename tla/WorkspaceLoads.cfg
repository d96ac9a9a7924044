SPECIFICATION FairSpec
CONSTANTS
    Workspace = {w1}
    Detachable = {w1}
    Nested = {w1}
    Client = {c1, c2}
    Lister = {l1}
    Object = {o1, o2, o3, o4}
    None = None
INVARIANTS
    TypeOK
    StaleViewsAreEvicted
PROPERTIES
    NoServiceLeaked
    RequestsAnswered
    ReturnedDirectoriesServed
