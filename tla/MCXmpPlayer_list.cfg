\* Every playlist of four files, the keys that change module, sequence and
\* mixer, every kind of repeat, -A and the explorer.
SPECIFICATION Spec
CONSTANTS
    First = 1
    Argc = 5
    Files = {"one", "two", "dud", "bad"}
    Unloadable = {"bad"}
    Unstartable = {"dud"}
    Empty = {}
    NumSequences <- MCNumSequences
    ZeroDuration = {}
    SeqFrames = 1
    TimeCap = 1
    Options <- MixedOptions
    Keys <- MixedKeys
INVARIANTS
    IndexInBounds
    SequenceInBounds
    CurrentSequence
    AmigaMixerFollows
PROPERTIES
    PlaysAsAsked
    SearchEnds
