\* Three requests of two processes, rotations of LiteLLM's secrets among them, on
\* two connections and two aliases.
SPECIFICATION Spec
CONSTANTS
    Procs = {p1, p2}
    Conns = {platform, c1}
    Platform = platform
    Aliases = {default, m1}
    Default = default
    MaxRotations = 3
    MaxRequests = 3
    Failures = TRUE
    None = None
    NoProc = NoProc
SYMMETRY Symmetry
INVARIANTS
    ConfigFollowsRows
    NoDangling
    SecretsBehindConfig
    RotationReaches
