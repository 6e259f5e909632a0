SPECIFICATION Spec
CONSTANTS
    Oids = {a}
    Handles = {h1}
    NoHandle = NoHandle
    MaxSize = 3
    Hints = {"LIFETIME", "WHERE"}
    UseLock = TRUE
    MayFail <- AllSteps
    MayDelete = TRUE
    ArgsReused = FALSE
    MayCrash = TRUE
INVARIANTS
    ObjInv
    SizeOfWrites
    SessionHintsStored
    SessionHintsLocal
    NoForeignSize
    NoOrphans
PROPERTIES
    SizeGrows
