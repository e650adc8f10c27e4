\* The configured state directory is not the platform's.
SPECIFICATION Spec
CONSTANTS
    d1 = d1
    d2 = d2
    Writers = {w1, w2}
    Dirs = {d1, d2}
    ConfigDir <- MCOther
    PlatformDir = d1
    Blocks = {b1, b2}
    NoBlock = NoBlock
    Malformed = Malformed
    Free = Free
    MaxEdits = 0
    MaxWrites = 2
    EditorRaces = FALSE
CHECK_DEADLOCK FALSE
PROPERTIES ReplacesWhatItRead
