\* -z 1, with files that lack the sequence: SearchEnds fails.
SPECIFICATION Spec
CONSTANTS
    First = 1
    Argc = 5
    Files = {"one", "two", "bad"}
    Unloadable = {"bad"}
    Unstartable = {}
    Empty = {}
    NumSequences <- MCNumSequences
    ZeroDuration = {}
    SeqFrames = 1
    TimeCap = 1
    Options <- SequenceOptions
    Keys <- Skips
PROPERTIES
    SearchEnds
