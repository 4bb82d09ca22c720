SPECIFICATION Spec
CONSTANTS
    NULL = NULL
    Memory = 5
    Page = 3
    ParSize = 3
    Tries = 2
    Lines = {5, 7, 10}
    Enabled = {7}
    Cards <- MCCards
    Sightings = 2
    MaxNoise = 1
    Size = 6
    ByteBase = 3
    Near = 1
    Align = 2
    MaxTicks = 1
    FrameSizes = {5}
INVARIANTS StreamInOrder HandlerSafe DetectedAsIs Released OnOnePage
PROPERTIES CallsReturn
CHECK_DEADLOCK FALSE
