\* Liveness: no symmetry, two keys.
SPECIFICATION FairSpec
CONSTANTS
    Procs = {p1, p2}
    Runtimes = {r1}
    Keys = {k1, k2}
    NoKey = NoKey
    NoProc = NoProc
    NoRuntime = NoRuntime
PROPERTIES
    LockReleased
    RotationRefreshes
