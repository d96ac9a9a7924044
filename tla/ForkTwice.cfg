SPECIFICATION ResumeSpec
CONSTANTS
    Key = {s1, s2}
    Child = {s2}
    Caller = {c1, c2}
    Job = {j1, j2}
    Container = {b1, b2}
    None = None
INVARIANT OneHomeEach
CHECK_DEADLOCK FALSE
