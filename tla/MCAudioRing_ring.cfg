\* CoreAudio and BeOS, on machines that keep or reorder stores.
SPECIFICATION Spec
CONSTANTS
    buffer_len = 6
    chunk_size = 2
    Drivers = {"coreaudio", "beos"}
    Frames <- MCFrames
    Requests <- MCRequests
    Machines = {"ordered", "weak"}
    Modulus = 7
INVARIANTS
    ChunkStaysFree
    NothingCutShort
    NoOverlap
    BytesInOrderIfOrdered
PROPERTIES
    IsFifo
    PlayReturns
