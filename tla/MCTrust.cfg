\* Two processes, every failure, two crashes.
SPECIFICATION Spec
CONSTANTS
    Procs = {p1, p2}
    Free = Free
    MaxCrashes = 2
INVARIANTS AnchorHasReceipt TrustHasReceipt
PROPERTIES UnmanagedKept
