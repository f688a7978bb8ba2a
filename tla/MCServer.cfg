SPECIFICATION ServerSpec
CONSTANTS
    Endpoints = {e1, e2}
    NoEndpoint = NoEndpoint
    Inputs = {"REQCONNECT", "DISCONNECTED", "GAME_START", "GAME_END", "PLAYER_SHOOT", "PLAYER_MOVE", "HEARTBEAT", "OTHER"}
    MaxQueue = 1
    MaxSend = 2
INVARIANTS ServerTypeOK QuietAttribution InformedOfGame
SYMMETRY Perms
