SPECIFICATION DmaSpec
CONSTANTS
    NULL = NULL
    Memory = 6
    Page = 4
    ParSize = 2
    Tries = 2
INVARIANT BufferInBlock
