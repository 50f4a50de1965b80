\* Two operations on one agent and its runtime.
SPECIFICATION Spec
CONSTANTS
    Procs = {p1, p2}
    Agents = {a1}
    MaxDeployments = 2
    Ops = {"draft", "launch", "stop", "get"}
    DirectOps = {"create", "start", "stop", "delete"}
    NoProc = NoProc
    NoAgent = NoAgent
SYMMETRY Symmetry
INVARIANTS
    AgentTruthful
    BackfillComplete
