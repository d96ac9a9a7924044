SPECIFICATION FairSpec
CONSTANTS
    Id = {i1}
    Session = {s1, s2}
    Client = {}
    Monitor = Monitor
    None = None
    MaxFailures = 2
INVARIANTS
    TypeOK
    ReapHitsOnlyUnreachable
PROPERTIES
    CrashVerdictOutranksListing
    UnreachableIsReaped
    StoppingEnds
    OwnersSettle
