\* Two requests at a time, two sessions, three messages, a runtime made twice.
SPECIFICATION Spec
CONSTANTS
    Procs = {p1, p2}
    Sessions = {s1, s2}
    MaxRuntimes = 2
    MaxAsks = 3
    None = None
INVARIANTS
    NoOrphans
    AnswerHasQuestion
    OwnAnswers
    QuestionsAccounted
