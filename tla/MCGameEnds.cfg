SPECIFICATION FairGameSpec
CONSTANTS
    MaxThreads = 1
    Sizes = {1}
    ClientIds = {0}
    Positions = {"here"}
    StartPos = "here"
    StartHp = 1
    EnemyDamage = 1
    BossDamage = 2
    FirstWave = 1
    WaveGrowth = 0
    BossEscort = 0
    MaxWave = 2
    MaxBullets = 0
    MaxActions = 1
PROPERTY GameEnds
CHECK_DEADLOCK FALSE
