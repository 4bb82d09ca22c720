SPECIFICATION Spec
CONSTANTS
    Drivers = {"win32", "dart", "ahi"}
    Builds = {"atomic", "split"}
    num_buffers = 3
    Room = 5
    Frames <- MCFrames
    MaxLost = 3
    Modulus = 11
INVARIANTS NeverOwned PlaysStream Credits
PROPERTIES PlayReturns IsFifo
CHECK_DEADLOCK FALSE
