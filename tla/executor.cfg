\* Two handler threads, two task ids, two requesters, one slot; the clock can
\* pass the shorter lease and deadline; one crash.
SPECIFICATION Spec
CONSTANTS
    Threads = {t1, t2}
    TaskIds = {x, y}
    Requesters = {alice, bob}
    Deadlines = {2}
    Leases = {1, 2}
    MaxSlots = 1
    NoTask = NoTask
    NoCall = NoCall
    MaxTime = 1
    MaxCalls = 4
    MaxCrashes = 1
SYMMETRY Symmetry
INVARIANTS TypeOK SlotBound ExclusiveWithinLease DurableIsLedgered ResultsGoToOwner
PROPERTIES LiveReservationKept ImplementsContract
