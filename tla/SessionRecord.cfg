SPECIFICATION FairSpec
CONSTANTS
    Rename = {r1}
    Promotion = {p1}
    Proj = {j1, j2}
    Pool = {t1, t2}
    Loop = Loop
    Daemon = Daemon
    None = None
    MaxEvents = 2
INVARIANTS
    TypeOK
    MarksSurvive
    CountsKept
PROPERTIES
    EventsReachDisk
CONSTRAINT Uncrossed
