\* Two writers under one lock and an administrator.
SPECIFICATION Spec
CONSTANTS
    d1 = d1
    d2 = d2
    Writers = {w1, w2}
    Dirs = {d1, d2}
    ConfigDir <- MCDefault
    PlatformDir = d1
    Blocks = {b1, b2}
    NoBlock = NoBlock
    Malformed = Malformed
    Free = Free
    MaxEdits = 2
    MaxWrites = 3
    EditorRaces = FALSE
CHECK_DEADLOCK FALSE
INVARIANTS EditsKept
PROPERTIES ReplacesWhatItRead MalformedKept
