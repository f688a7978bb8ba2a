\* Two ids are enough for the stack of dead ones to be used in either order.
SPECIFICATION EntitiesSpec
CONSTANTS
    Components = {"Position"}
    MaxEntity = 2
    Keys = {player0, enemy0}
    PlayerKeys = {player0}
    Threads = {game, handler}
SYMMETRY Symmetry
INVARIANTS
    RegistryOK
    ComponentsAlive
    OwnPosition
    NothingThrown
PROPERTY EntitiesFromPool
