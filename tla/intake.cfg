\* Chunks of two bytes: `large' takes two, `small' one.
SPECIFICATION Spec
CONSTANTS
    a = a
    b = b
    small = small
    large = large
    t1 = t1
    t2 = t2
    Signers = {a, b}
    Contents = {small, large}
    Size <- MCSize
    Clients = {t1, t2}
    Signer <- MCSigner
    NoClient = NoClient
    ChunkSize = 2
    MaxContent = 4
    MaxActive = 2
    MaxInFlight = 6
    Window = 1
    PerIdentity = 4
    Global = 6
    Totals = {0, 4, 5}
    MaxTime = 1
    MaxTransfers = 3
    MaxEvents = 1
CHECK_DEADLOCK FALSE
INVARIANTS TypeOK BudgetExact UploadsBounded DoneIsStored UndisturbedSucceeds
