\* The lease of a running task passes and its commit is sent again, then another
\* task is offered and committed: five calls are needed.
SPECIFICATION Spec
CONSTANTS
    Threads = {t1, t2}
    TaskIds = {x, y}
    Requesters = {alice}
    Deadlines = {2}
    Leases = {1, 2}
    MaxSlots = 1
    NoTask = NoTask
    NoCall = NoCall
    MaxTime = 1
    MaxCalls = 5
    MaxCrashes = 0
SYMMETRY Symmetry
INVARIANT ConcurrencyPolicy
