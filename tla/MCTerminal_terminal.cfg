SPECIFICATION Spec
CONSTANTS
    Shells = {"plain", "keeping"}
    Fatal = {TERM, INT}
SYMMETRY Symmetry
INVARIANTS KeysFromRaw LeftAsFound BackgroundPlays
CHECK_DEADLOCK FALSE
