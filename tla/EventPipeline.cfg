SPECIFICATION FairSpec
CONSTANTS
    Plain = {p1, p2}
    Nested = {n1}
    History <- LastRun
    Worker = {flusher, w1}
    Flusher = flusher
    Subscriber = {s1}
    p1 = p1
    n1 = n1
INVARIANTS
    TypeOK
    NoEventMissed
    SourcesNotMixed
PROPERTIES
    Delivers
    EventsArrive
