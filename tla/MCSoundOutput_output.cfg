SPECIFICATION Spec
CONSTANTS
    Builds <- MCBuilds
    Requests <- MCRequests
    Samples <- MCSamples
    Rates = {44100, 48000}
    Channels = {1, 2, 4}
    Field = 70
    Encodings <- MCEncodings
    MaxFrames = 2
INVARIANTS
    Heard
    FormatAgreed
    WavHeader
CHECK_DEADLOCK FALSE
