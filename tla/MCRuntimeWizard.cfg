\* Two tabs, two runtimes, an internal and an external skill; one token.  What is
\* launched bears on nothing else: agents have no skill here.
SPECIFICATION Spec
CONSTANTS
    Tabs = {t1, t2}
    Runtimes = {r1, r2}
    Internal = {s1}
    External = {s2}
    Needy = {s1}
    Bound = {}
    MaxTokens = 1
    MaxAccidents = 1
    MaxTurned = 1
    NoRuntime = NoRuntime
SYMMETRY Symmetry
INVARIANTS
    CreatedAsTyped
    TokenUsedOnce
    SkillsReviewed
