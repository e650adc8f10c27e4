\* Updates over a target that is missing or cannot be read.
SPECIFICATION Spec
CONSTANTS
    Procs = {p1}
    Free = Free
    Versions = {"v1", "v2"}
    MaxMishaps = 1
INVARIANTS RollbackSafe
