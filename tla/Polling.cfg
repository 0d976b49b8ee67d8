SPECIFICATION PollerSpec
CONSTANTS
    daemon = daemon  b1 = b1
    ats = ats  slow = slow
    Runners <- OneRunner
    Daemons <- OneRunner
    Boards <- OneBoard
    Outcomes <- EveryOutcome
    Threshold = 2
    Backoff = 2
    Hour = 6
    MaxLag = 1
    MaxGen = 2
    MaxMishaps = 3
    PacerBoards = 4
    Places = 2
    Window = 4
    MinGap = 1
    MaxGap = 4
    PacerMishaps = 1
    Tiers = {ats, slow}
    Every <- SlowIsSlower
    Ats = ats
    watchdog = watchdog
    Stopped = stopped
    Llm = llm
    Cooldown = 2
    K = 2
    Never = 8
    OpsFaults = 2
    OpsMishaps = 1
INVARIANT StampedMeansPolled
INVARIANT AttemptedInTime
INVARIANT SuppressionIsEarned
INVARIANT SlotsAreSpaced
PROPERTY AlertsAreHonest
PROPERTY PacedCyclesEnd
PROPERTY BoardsArePolledAgain
PROPERTY FaultsAreTold
