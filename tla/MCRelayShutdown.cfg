\* The shutdown timer fires under a relay.
SPECIFICATION Spec
CONSTANTS
    MaxUp = 0
    MaxDown = 0
CHECK_DEADLOCK FALSE
INVARIANTS ShutdownUnblocks
