\* Two concurrent operations on one runtime and up to three key generations.
SPECIFICATION Spec
CONSTANTS
    Procs = {p1, p2}
    Runtimes = {r1}
    Keys = {k1, k2, k3}
    NoKey = NoKey
    NoProc = NoProc
    NoRuntime = NoRuntime
SYMMETRY Symmetry
INVARIANTS
    TypeOK
    ProvisionSerial
    LiveKeysAccounted
    StoredKeyLive
    GatewayCurrent
    RotationHolds
    IInv
PROPERTIES
    RevokeVerified
    VaultSpec
