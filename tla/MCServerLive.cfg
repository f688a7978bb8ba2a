SPECIFICATION FairServerSpec
CONSTANTS
    Endpoints = {e1, e2}
    NoEndpoint = NoEndpoint
    Inputs = {"REQCONNECT", "DISCONNECTED", "GAME_START", "PLAYER_MOVE"}
    MaxQueue = 1
    MaxSend = 2
PROPERTIES EventuallyInformed HandlerReturns
