\* Peers that write, half-close, reset and stall; the daemon may be stopped.
SPECIFICATION FairSpec
CONSTANTS
    MaxUp = 2
    MaxDown = 1
CHECK_DEADLOCK FALSE
PROPERTIES IsPipe HalfCloseKept RelayEnds
