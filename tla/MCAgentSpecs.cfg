\* Four requests, two at a time, for two agents with two skills.
SPECIFICATION BuildSpecs
CONSTANTS
    Procs = {p1, p2}
    Agents = {a1, a2}
    Skills = {s1, s2}
    MaxKeys = 2
    MaxPort = 3
    MaxChosen = 2
    MaxRequests = 4
    NoProc = NoProc
    NoAgent = NoAgent
SYMMETRY Symmetry
INVARIANTS
    PortsDistinct
    BindingsWhole
    LaunchConsistent
\* The requests run out.
CHECK_DEADLOCK FALSE
