\* Every step that can fail does fail in some behaviour; the shorter
\* deadline can pass during a run.  No symmetry (liveness).
SPECIFICATION FairSpec
CONSTANTS
    Threads = {t1, t2}
    TaskIds = {x, y}
    Requesters = {alice}
    Deadlines = {1, 2}
    Leases = {2}
    MaxSlots = 1
    NoTask = NoTask
    NoCall = NoCall
    MaxTime = 1
    MaxCalls = 4
    MaxCrashes = 0
PROPERTIES RunningIsReleased
