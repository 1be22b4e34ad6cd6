\* Two calls that looked into the result cache before it was filled, beside the
\* run that fills it: three threads, one task id, no expiry.
SPECIFICATION Spec
CONSTANTS
    Threads = {t1, t2, t3}
    TaskIds = {x}
    Requesters = {alice}
    Deadlines = {2}
    Leases = {1}
    MaxSlots = 1
    NoTask = NoTask
    NoCall = NoCall
    MaxTime = 0
    MaxCalls = 4
    MaxCrashes = 0
SYMMETRY Symmetry
PROPERTY CompletedNotExecutedAgain
