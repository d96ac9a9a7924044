SPECIFICATION Spec
CONSTANTS
    Id = {i1}
    Session = {s1}
    Client = {c1}
    Monitor = Monitor
    None = None
    MaxFailures = 1
PROPERTIES
    ListingDropsOnlyGone
    StopOutlivesStaleAnswers
