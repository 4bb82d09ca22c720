\* One module of two sequences or none at all: frames, pause, explorer, limits.
SPECIFICATION Spec
CONSTANTS
    First = 1
    Argc = 2
    Files = {"two", "void"}
    Unloadable = {}
    Unstartable = {}
    Empty = {"void"}
    NumSequences <- MCNumSequences
    ZeroDuration <- NoLength
    SeqFrames = 2
    TimeCap = 4
    Options <- TimedOptions
    Keys <- SomeKeys
INVARIANTS
    TypeOK
PROPERTIES
    NoFrameAfterSkip
    DriverProtocol
    ContextProtocol
    QuitEnds
    ListEnds
