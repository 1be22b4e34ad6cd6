\* A slow offer that writes its row after the task was completed, then a crash.
SPECIFICATION Spec
CONSTANTS
    Threads = {t1, t2}
    TaskIds = {x}
    Requesters = {alice}
    Deadlines = {2}
    Leases = {1}
    MaxSlots = 1
    NoTask = NoTask
    NoCall = NoCall
    MaxTime = 0
    MaxCalls = 3
    MaxCrashes = 1
SYMMETRY Symmetry
PROPERTY CompletedSurvivesRestart
