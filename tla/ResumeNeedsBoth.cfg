SPECIFICATION Spec
CONSTANTS
    MaxUid = 4
    MaxClients = 2
    Msg = {}
    NoMsg = NoMsg
    Army = 1
    EndgameFallthrough = {FALSE}
    MaxLeaves = 2
    MaxTurns = 0
INVARIANT
    ResumeHasBothClients
CHECK_DEADLOCK FALSE
