SPECIFICATION Spec
CONSTANTS
    MaxUid = 2
    MaxClients = 2
    Msg = {}
    NoMsg = NoMsg
    Army = 1
    EndgameFallthrough = {FALSE}
    MaxLeaves = 0
    MaxTurns = 0
INVARIANT
    OpposingTeams
CHECK_DEADLOCK FALSE
