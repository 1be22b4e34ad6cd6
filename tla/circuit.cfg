\* Three hops; a window of four and jumps of two (the code's 128 and 64), so that
\* eight cells both run too far ahead and fall out of the window behind.
SPECIFICATION SessionSpec
CONSTANTS
    NHops = 3
    Window = 4
    MaxJump = 2
    Expiry = 1
    MaxCells = 8
    NoKeys = NoKeys
    Routes = {1, 2}
    Lengths <- MCLengths
    MaxInflight = 1
    MaxSetups = 6
    MaxBack = 5
    Parts = {"cells", "setup", "reverse"}
CHECK_DEADLOCK FALSE
INVARIANTS TypeOK WindowExact AtMostOnce OrderIndependent SetupAgrees ReverseOnce 
PROPERTIES ImplementsChannel
