SPECIFICATION GameSpec
CONSTANTS
    MaxThreads = 1
    Sizes = {2}
    ClientIds = {0, 1}
    Positions = {"here", "there"}
    StartPos = "here"
    StartHp = 1
    EnemyDamage = 1
    BossDamage = 2
    FirstWave = 1
    WaveGrowth = 0
    BossEscort = 0
    MaxWave = 2
    MaxBullets = 1
    MaxActions = 2
INVARIANTS PositionsSeen PassAligned
PROPERTIES MovesInOrder
CHECK_DEADLOCK FALSE
