\* Two operations on one runtime.
SPECIFICATION Spec
CONSTANTS
    Procs = {p1, p2}
    Runtimes = {r1}
    Limits = {l1, l2}
    Models = {m1, m2}
    Ops = {"update", "sync", "create", "rotate", "secret"}
    Unset = Unset
    None = None
    NoProc = NoProc
    NoRuntime = NoRuntime
SYMMETRY Symmetry
INVARIANTS
    KeyFollowsRow
    GatewayFollowsRow
