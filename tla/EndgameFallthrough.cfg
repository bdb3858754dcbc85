SPECIFICATION Spec
CONSTANTS
    MaxUid = 2
    MaxClients = 2
    Msg = {}
    NoMsg = NoMsg
    Army = 1
    EndgameFallthrough = {TRUE, FALSE}
    MaxLeaves = 0
    MaxTurns = 2
INVARIANT
    HonestVictory
CHECK_DEADLOCK FALSE
