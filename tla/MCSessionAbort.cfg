\* A client leaves before the game starts, and another one moves.
SPECIFICATION SessionSpec
CONSTANTS
    Endpoints = {e1, e2}
    MaxFlight = 2
    MaxGames = 1
INVARIANT MovesSurvived
CHECK_DEADLOCK FALSE
