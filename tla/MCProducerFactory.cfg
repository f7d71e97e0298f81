SPECIFICATION Spec
CONSTANTS
    c1 = c1
    c2 = c2
    Mocks = {"kafka"}
    Callers <- MCCallers
    Interval = 2
    Jitter = 1
    MaxTime = 5
SYMMETRY Interchangeable
INVARIANTS
    TypeOK
    AnswersAreFresh
    ProbesKeepComing
