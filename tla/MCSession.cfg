\* Two clients are the least that differ in when they come and go.
SPECIFICATION SessionSpec
CONSTANTS
    Endpoints = {e1, e2}
    MaxFlight = 2
    MaxGames = 2
INVARIANTS
    SessionTypeOK
    IdPartition
    OneIdPerEndpoint
    IdsBounded
    OwnPlayer
    NotForgotten
PROPERTIES
    BindingStable
    TableFromPool
SYMMETRY Perms
CHECK_DEADLOCK FALSE
