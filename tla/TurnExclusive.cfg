SPECIFICATION Spec
CONSTANTS
    MaxUid = 3
    MaxClients = 2
    Msg = {}
    NoMsg = NoMsg
    Army = 1
    EndgameFallthrough = {FALSE}
    MaxLeaves = 1
    MaxTurns = 2
INVARIANT
    TurnExclusive
CHECK_DEADLOCK FALSE
