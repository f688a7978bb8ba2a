SPECIFICATION GameSpec
CONSTANTS
    MaxThreads = 2
    Sizes = {1}
    ClientIds = {0}
    Positions = {"here"}
    StartPos = "here"
    StartHp = 2
    EnemyDamage = 1
    BossDamage = 2
    FirstWave = 1
    WaveGrowth = 1
    BossEscort = 0
    MaxWave = 3
    MaxBullets = 1
    MaxActions = 1
INVARIANTS GameTypeOK StaleDeadHarmless PlayersAlive WaveSchedule Announced
CHECK_DEADLOCK FALSE
