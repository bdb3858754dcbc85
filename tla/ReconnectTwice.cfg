SPECIFICATION Spec
CONSTANTS
    MaxUid = 4
    MaxClients = 2
    Msg = {}
    NoMsg = NoMsg
    Army = 1
    EndgameFallthrough = {FALSE}
    MaxLeaves = 2
    MaxTurns = 0
INVARIANTS
    LobbyRelease
    SurvivorWaits
CHECK_DEADLOCK FALSE
