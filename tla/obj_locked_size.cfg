SPECIFICATION Spec
CONSTANTS
    Oids = {a}
    Handles = {h1, h2}
    NoHandle = NoHandle
    MaxSize = 2
    Hints = {}
    UseLock = TRUE
    MayFail = {}
    MayDelete = FALSE
    ArgsReused = FALSE
    MayCrash = FALSE
INVARIANTS
    SizeOfWrites
