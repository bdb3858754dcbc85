SPECIFICATION FairSpec
CONSTANTS
    MaxUid = 2
    MaxClients = 2
    Msg = {}
    NoMsg = NoMsg
    Army = 2
    EndgameFallthrough = {FALSE}
    MaxLeaves = 0
    MaxTurns = 6
INVARIANTS
    OneTurn
    HonestVictory
PROPERTIES
    ImplementsDuel
    TurnArrives
    VictorySpreads
CHECK_DEADLOCK FALSE
