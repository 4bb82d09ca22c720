SPECIFICATION Spec
CONSTANTS
    Shells = {"plain", "keeping"}
    Fatal = {TERM}
INVARIANT OnlyIfNotPrepared
CHECK_DEADLOCK FALSE
