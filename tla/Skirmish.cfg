SPECIFICATION Spec
CONSTANTS
    Units <- MCUnits
    Kind <- MCKind
    Team <- MCTeam
    Start <- MCStart
    Points <- MCPoints
    Callbacks = {k1}
    EndgameFallthrough = {FALSE}
    MaxTurns = 2
INVARIANTS
    TypeOK
    HealthPositive
    SelectionFollowsTurn
    TurnStartsFresh
    SettledBoardsAgree
    UnitsOnGrid
PROPERTIES
    HitsCount
CHECK_DEADLOCK FALSE
