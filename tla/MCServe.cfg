\* A launchd service with a log file, or a systemd one, and a foreground daemon; two
\* failures.
SPECIFICATION MCSpec
CONSTANTS
    service = service
    foreground = foreground
    Nobody = nobody
    Proc = {service, foreground}
    Logger = service
    Unit = service
    StartLimit = 2
    StateDir <- MCStateDir
    MaxFaults = 2
    MaxPairs = 2
    Backups = 2
    Limit = 2
    Length <- MCLength
    MaxLines = 4
    Keep = 3
INVARIANTS CertHasKey Reachable LogBounded
PROPERTIES LogAppends ServiceReturns
