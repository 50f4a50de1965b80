\* An external skill that nobody has reviewed is bound to an agent.
SPECIFICATION Spec
CONSTANTS
    Tabs = {t1, t2}
    Runtimes = {r1, r2}
    Internal = {s1}
    External = {s2}
    Needy = {s1}
    Bound = {s2}
    MaxTokens = 1
    MaxAccidents = 1
    MaxTurned = 1
    NoRuntime = NoRuntime
SYMMETRY Symmetry
INVARIANT AgentsReviewed
