\* All operations on one runtime, by two operations.
SPECIFICATION Spec
CONSTANTS
    Procs = {p1, p2}
    Runtimes = {r1}
    Legacy = {r1}
    Ops = {"create", "start", "stop", "restart", "limits", "delete", "get"}
    NoProc = NoProc
    NoRuntime = NoRuntime
SYMMETRY Symmetry
INVARIANTS
    FilesAccounted
    StatusTruthful
