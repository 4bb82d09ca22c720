SPECIFICATION Spec
CONSTANTS
    Shells = {"plain", "keeping"}
    Fatal = {TERM}
PROPERTIES SignalEnds Listens
CHECK_DEADLOCK FALSE
