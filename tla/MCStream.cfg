\* GAME_START, figures created and destroyed, a bullet or an answer: four packets
\* in every order, three of them under way at once.
SPECIFICATION FairStreamSpec
CONSTANTS
    Figures = {f0, f1}
    Bullets = {b0}
    MaxMade = 4
    MaxStream = 3
INVARIANTS
    StreamTypeOK
    Shown
PROPERTIES
    Noticed
    CatchesUp
CHECK_DEADLOCK FALSE
