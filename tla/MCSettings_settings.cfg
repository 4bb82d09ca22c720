SPECIFICATION Spec
CONSTANTS
    Inputs <- MCInputs
    Numerals <- Spelled
    Modes = {"auto", "mod"}
    Channels = 4
    MAX_DRV_PARM = 1
    OldLibrary = FALSE
    Answers <- MCAnswers
INVARIANTS
    ParsedAsWritten
    
PROPERTY Finishes
CHECK_DEADLOCK FALSE
