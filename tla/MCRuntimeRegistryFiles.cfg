\* Creations and deletions of two runtimes by two operations.
SPECIFICATION Spec
CONSTANTS
    Procs = {p1, p2}
    Runtimes = {r1, r2}
    Legacy = {r1, r2}
    Ops = {"create", "delete"}
    NoProc = NoProc
    NoRuntime = NoRuntime
SYMMETRY Symmetry
INVARIANTS
    FilesAccounted
    UpFindsService
    TransactionAdds
PROPERTIES
    FilesHealed
