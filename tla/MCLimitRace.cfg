SPECIFICATION Spec
CONSTANTS
    Jobs = {j1, j2}
    Handlers = {h1, h2}
    NoJob = NoJob
    Limits = {2}
    InitialLimit = 2
    MaxCopies = 2
INVARIANT NeverMoreRunnersThanLimit
