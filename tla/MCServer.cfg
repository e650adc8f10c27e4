\* Two accept loops: two clients and a reload that lowers the limit, or two reloads
\* and a client; shutdown.
SPECIFICATION MCSpec
CONSTANTS
    Listeners = {l1, l2}
    r1 = r1
    r2 = r2
    Requests = {r1, r2}
    None = None
    Files <- MCFiles
    MaxConns = 2
    MaxBytes = 1
    MaxReloads = 2
CHECK_DEADLOCK FALSE
INVARIANTS BytesConserved ExitClean ForcedReachesAll LimitKept
PROPERTIES ReloadsForward StopsEventually
