SPECIFICATION Spec
CONSTANTS
    Rename = {}
    Promotion = {}
    Proj = {j1}
    Pool = {t1, t2}
    Loop = Loop
    Daemon = Daemon
    None = None
    MaxEvents = 2
INVARIANTS
    LatestHasLastWord
