SPECIFICATION Spec
CONSTANTS
    None = None
    SettleSeconds = 1
    DrowsyAfterSeconds = 1
    MinNapSeconds = 2
    WakingSeconds = 1
    EngagedWindow = 1
    ReturnMin = 3
    BurnInInterval = 2
    MaxStat = 4
    WellRestedEnergy = 4
    WellRestedSleepiness = 1
    SleepyLevel = 3
    WithdrawnEnergy = 1
    PlayInviteMinEnergy = 1
    Recovery <- MCRecovery
    InitialEnergy = 2
    InitialSleepiness = 1
    DriftPeriod = 3
    Gaps = {1, 2}
    NightStart = 4
    NightEnd = 5
    ModelAnimations = {"nap", "excited", "alert"}
    MaxNow = 6
CHECK_DEADLOCK FALSE
INVARIANTS
    SleepClock
    PoseShifts
PROPERTIES
    GentleWake
    ReunionIsEarned
    NapSurvivesRestart
