SPECIFICATION FairSpec
CONSTANTS
    MaxUid = 3
    MaxClients = 2
    Msg = {}
    NoMsg = NoMsg
    Army = 1
    EndgameFallthrough = {FALSE}
    MaxLeaves = 1
    MaxTurns = 2
INVARIANTS
    TypeOK
    SnapshotWhole
PROPERTIES
    TeamStable
    ReconnectCompletes
CHECK_DEADLOCK FALSE
